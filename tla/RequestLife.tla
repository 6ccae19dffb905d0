------------------------------ MODULE RequestLife ------------------------------
(***************************************************************************)
(* What a renderer may expect of the IO process for the requests it sends: *)
(* the response is announced once, its body follows, and then, once, the   *)
(* end; a success only with the whole body.  Requests may fail at any      *)
(* time, several at once when they share a connection or wait for one.     *)
(* After a reset nothing more is heard of the requests made before it.     *)
(***************************************************************************)
EXTENDS Naturals

CONSTANTS Req, Size   \* requests, and the size of each one's response body

VARIABLES life,   \* what has become of each request
          bytes   \* how much of the body was reported

LInit == life = [r \in Req |-> "new"] /\ bytes = [r \in Req |-> 0]

Ask(r) == life[r] = "new" /\ life' = [life EXCEPT ![r] = "asked"] /\ UNCHANGED bytes

(* A response without a body ends at once.                                 *)
Answer(r) ==
  /\ life[r] = "asked"
  /\ life' = [life EXCEPT ![r] = IF Size[r] = 0 THEN "ok" ELSE "answered"]
  /\ UNCHANGED bytes

Body(r) ==
  /\ life[r] = "answered"
  /\ \E k \in 1..(Size[r] - bytes[r]) :
       /\ bytes' = [bytes EXCEPT ![r] = @ + k]
       /\ life' = [life EXCEPT ![r] =
                     IF bytes[r] + k = Size[r] THEN "ok" ELSE "answered"]

Open == {r \in Req : life[r] \in {"asked", "answered"}}

Fail ==
  /\ \E F \in SUBSET Open :
       life' = [r \in Req |-> IF r \in F THEN "failed" ELSE life[r]]
  /\ UNCHANGED bytes

Drop ==
  /\ life' = [r \in Req |-> IF r \in Open THEN "dropped" ELSE life[r]]
  /\ UNCHANGED bytes

LNext == (\E r \in Req : Ask(r) \/ Answer(r) \/ Body(r)) \/ Fail \/ Drop

LSpec == LInit /\ [][LNext]_<< life, bytes >>
===============================================================================
