---------------------------- MODULE MCHttpSession ----------------------------
(* Four requests, three of them for one server with at most two            *)
(* connections, so that requests wait; bodies of none, one and two bytes.  *)
EXTENDS HttpSession

MCReq  == 1..4
MCSize == << 2, 0, 1, 1 >>
MCSite == << "a", "a", "a", "b" >>
==============================================================================
