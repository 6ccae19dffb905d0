--------------------------- MODULE MCMessageChannel ---------------------------
(* Empty and longer bodies, and reads of one byte up to more than a whole  *)
(* message, so that messages arrive split and joined in every way.         *)
EXTENDS MessageChannel

BodyLengths == {0, 1, 3}
Reads       == {1, 2, 4, 7}
===============================================================================
