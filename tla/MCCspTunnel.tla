----------------------------- MODULE MCCspTunnel -----------------------------
(* Both builds; outside Shadow with and without arming and exiting.  Two   *)
(* channels after the first, two clients and three bytes.                  *)
EXTENDS CspTunnel

CONSTANTS a, b

Shadow  == [shadow |-> TRUE, auto |-> FALSE, exit |-> FALSE]
Outside == {[shadow |-> FALSE, auto |-> u, exit |-> x] : u \in BOOLEAN, x \in BOOLEAN}

MCOptions == {Shadow} \cup Outside
MCShadow == {Shadow}
===============================================================================
