---------------------------- MODULE DefenseSession ----------------------------
(***************************************************************************)
(* What a BuFLO channel promises about its defense sessions, with no       *)
(* cells, flags or sockets.  The client arms a session, the server follows *)
(* it on and off, and the session is over, for both at once, when the      *)
(* client's owner is told so (ChannelStatus::A_DEFENSE_SESSION_DONE,       *)
(* "both send and recv directions are done").                              *)
(*                                                                         *)
(* The states are those of the two defense_info_ as their comments give    *)
(* them.  "off" is an end that has done its share of a session the         *)
(* client's owner has not yet been told the end of.                        *)
(***************************************************************************)

VARIABLES client,  \* "idle", "armed", "on", "stopping" or "off"
          server   \* the same, but never "armed"

vars == << client, server >>

Init == client = "idle" /\ server = "idle"

Arm ==
  /\ client = "idle" /\ server = "idle"
  /\ client' = "armed" /\ UNCHANGED server

ClientStarts ==
  /\ client = "armed"
  /\ client' = "on" /\ UNCHANGED server

(* Never before the client has started, and once in a session.             *)
ServerStarts ==
  /\ server = "idle" /\ client \in {"on", "stopping", "off"}
  /\ server' = "on" /\ UNCHANGED client

ClientStops ==
  /\ client = "on"
  /\ client' = "stopping" /\ UNCHANGED server

(* Never before the client was asked to stop.                              *)
ServerStops ==
  /\ server = "on" /\ client \in {"stopping", "off"}
  /\ server' = "stopping" /\ UNCHANGED client

ClientFinishes ==
  /\ client = "stopping"
  /\ client' = "off" /\ UNCHANGED server

ServerFinishes ==
  /\ server = "stopping"
  /\ server' = "off" /\ UNCHANGED client

(* The client is told as it finishes last, or when it hears of the server. *)
SessionDone ==
  /\ client \in {"stopping", "off"} /\ server = "off"
  /\ client' = "idle" /\ server' = "idle"

Next ==
  \/ Arm
  \/ ClientStarts
  \/ ServerStarts
  \/ ClientStops
  \/ ServerStops
  \/ ClientFinishes
  \/ ServerFinishes
  \/ SessionDone

Spec == Init /\ [][Next]_vars

=============================================================================
