------------------------------- MODULE CallTable -------------------------------
(***************************************************************************)
(* What the caller of a GenericIpcChannel counts on: a call it has made is *)
(* ended by exactly one callback, with the reply or with a timeout, and    *)
(* one that has a time limit is ended in any case.                         *)
(***************************************************************************)
CONSTANTS Call, Timed   \* calls, and those made with a time limit

VARIABLE status   \* of each call

Status == {"unmade", "waiting", "RECV", "TIMEDOUT"}

Init == status = [c \in Call |-> "unmade"]

(* Calls change status together when a callback makes another call.        *)
Moves(c) ==
  \/ status'[c] = status[c]
  \/ status[c] = "unmade" /\ status'[c] = "waiting"
  \/ status[c] = "waiting" /\ status'[c] = "RECV"
  \/ status[c] = "waiting" /\ status'[c] = "TIMEDOUT" /\ c \in Timed

Next ==
  /\ status' \in [Call -> Status]
  /\ \A c \in Call : Moves(c)

TimedCallsEnd ==
  \A c \in Timed : status[c] = "waiting" ~> status[c] \in {"RECV", "TIMEDOUT"}

Spec == Init /\ [][Next]_status /\ TimedCallsEnd
===============================================================================
