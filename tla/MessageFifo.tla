------------------------------ MODULE MessageFifo ------------------------------
(***************************************************************************)
(* What a message channel promises its two users: every message sent is    *)
(* handed over once, whole and in order, as long as the connection is open.*)
(***************************************************************************)
EXTENDS Naturals, Sequences

CONSTANT Message

VARIABLES sent,      \* messages given to sendMsg, in order
          received,  \* messages handed to onRecvMsg, in order
          open       \* the connection is up

vars == << sent, received, open >>

Init == sent = << >> /\ received = << >> /\ open = TRUE

Send(m) ==
  /\ sent' = Append(sent, m)
  /\ UNCHANGED << received, open >>

Receive ==
  /\ open
  /\ Len(received) < Len(sent)
  /\ received' = Append(received, sent[Len(received) + 1])
  /\ UNCHANGED << sent, open >>

Close == open /\ open' = FALSE /\ UNCHANGED << sent, received >>

Next == (\E m \in Message : Send(m)) \/ Receive \/ Close

Spec == Init /\ [][Next]_vars /\ WF_vars(Receive)
===============================================================================
