----------------------------- MODULE BufloDefense -----------------------------
(***************************************************************************)
(* A client end and a server end of a BuFLO channel, joined by a TCP       *)
(* connection, running defense sessions: the client arms a session, starts *)
(* it with its first cell, and stops it; the server starts and stops when  *)
(* flags on the client's cells say so, or on its own when its time limit   *)
(* passes.  Each end is a BufloEndpoint; its wire is what it has written   *)
(* and the other end has not read, so cells arrive whole and in order.     *)
(*                                                                         *)
(* The owner of the client end (csp.cpp, driven over IPC or by signals) is *)
(* the environment.  Discipline names what that owner is assumed to        *)
(* respect; the CHECKs of the source assume all of it.                     *)
(***************************************************************************)
EXTENDS BufloEndpoint

CONSTANTS Discipline,   \* what the owner of the client respects, see below
          MayExpire,    \* ends whose session time limit can pass
          PumpSizes,    \* bytes spdylay may hand over in one pump
          MaxSessions,  \* bound on sessions armed
          MaxSpdy,      \* bound on bytes waiting in spdy_outbuf_
          MaxCells,     \* bound on cells in cell_outbuf_ for new data
          SocketCells,  \* bound on whole cells a socket holds unread
          WriteGrain    \* sockets accept multiples of this many bytes

Rule == {"waits_for_done",    \* arms only when told the last session is done
         "stop_when_active",  \* stops no session that is still pending
         "stop_once",         \* stops a session once
         "arm_when_idle",     \* arms only with empty buffers and no session
         "one_pump_pending"}  \* pumps once, with data, while pending

ASSUME DefenseAssumption ==
  /\ Discipline \subseteq Rule
  /\ MayExpire \subseteq Role
  /\ PumpSizes \subseteq Nat
  /\ MaxSessions \in Nat /\ MaxSpdy \in Nat /\ MaxCells \in Nat
  /\ SocketCells \in Nat /\ WriteGrain \in Nat \ {0}

VARIABLES end,    \* the two endpoints, by role
          armed,  \* sessions the client's owner has armed
          done    \* A_DEFENSE_SESSION_DONE notifications it has had

vars == << end, armed, done >>

csp == end["CSP"]
ssp == end["SSP"]

Peer(r) == IF r = "CSP" THEN "SSP" ELSE "CSP"

Init ==
  /\ end = [r \in Role |-> NewEndpoint(r)]
  /\ armed = 0
  /\ done = 0

(* Both processes run and the connection is open.                          *)
Up == \A r \in Role : end[r].status = "up"

Respects(rule, ok) == rule \in Discipline => ok

(* End r becomes e; what the owner of the client is told is counted.       *)
Becomes(r, e) ==
  /\ end' = [end EXCEPT ![r] = [e EXCEPT !.notified = FALSE]]
  /\ done' = done + (IF e.notified /\ r = "CSP" THEN 1 ELSE 0)

(* Bounds of the model, not of the code.                                   *)
RoomForData(r, k) ==
  k > 0 => /\ end[r].spdy + k <= MaxSpdy
           /\ Len(end[r].cells) + (end[r].spdy + k) \div BodySize < MaxCells

WriteSizes(r, e) ==
  {n \in 0..MaxWrite(e) :
     /\ n % WriteGrain = 0
     /\ Len(end[r].wire) + (e.sent + n) \div CellSize <= SocketCells}

PumpRespects(r, k) ==
  r = "CSP" /\ csp.state = "PENDING" =>
    Respects("one_pump_pending", csp.added = 0 /\ k > 0)

-----------------------------------------------------------------------------
(* The owners.                                                             *)

(* Any stream operation of the owner of end r: all end in a pump.          *)
OwnerSends(r, k) ==
  /\ Up /\ RoomForData(r, k) /\ PumpRespects(r, k)
  /\ Becomes(r, PumpSend(end[r], k))
  /\ UNCHANGED armed

OwnerArms ==
  /\ Up /\ armed < MaxSessions
  /\ Respects("waits_for_done", armed = done)
  /\ Respects("arm_when_idle",
              csp.state = "NONE" /\ csp.spdy = 0 /\ csp.outlen = 0)
  /\ Becomes("CSP", SetAutoStart(csp))
  /\ armed' = armed + 1

OwnerStops ==
  /\ Up
  /\ Respects("stop_when_active", csp.state # "PENDING")
  /\ Respects("stop_once", ~csp.stop)
  /\ Becomes("CSP", StopDefense(csp))
  /\ UNCHANGED armed

-----------------------------------------------------------------------------
(* The event loops.                                                        *)

TimerFires(r, expired, k, n) ==
  /\ Up /\ end[r].timer
  /\ RoomForData(r, k)
  /\ expired => r \in MayExpire
  /\ n \in WriteSizes(r, FillOutbuf(end[r]))
  /\ Becomes(r, TimerFired(end[r], expired, k, n))
  /\ UNCHANGED armed

SocketBecomesWritable(r, n) ==
  /\ Up /\ end[r].wev
  /\ n \in WriteSizes(r, end[r])
  /\ Becomes(r, SocketWritable(end[r], n))
  /\ UNCHANGED armed

(* One whole cell of the peer is read; k < 0 when its payload makes the    *)
(* stream's user call nothing.                                             *)
ReceiveCell(r, k) ==
  LET from == end[Peer(r)]
      e    == HandleCell(end[r], Head(from.wire), k)
  IN  /\ Up /\ from.wire # << >>
      /\ RoomForData(r, k)
      /\ k >= 0 => PumpRespects(r, k)
      /\ end' = [end EXCEPT ![r] = [e EXCEPT !.notified = FALSE],
                            ![Peer(r)].wire = Tail(from.wire)]
      /\ done' = done + (IF e.notified /\ r = "CSP" THEN 1 ELSE 0)
      /\ UNCHANGED armed

(* The connection breaks: both ends report CLOSED.                         *)
ConnectionBreaks ==
  /\ Up
  /\ end' = [r \in Role |-> [end[r] EXCEPT !.status = "closed"]]
  /\ UNCHANGED << armed, done >>

(* No write is larger than what the socket has room for (WriteSizes).      *)
Sizes == 0..(CellSize * (SocketCells + 1))

Ticks(r, S) ==
  \E expired \in BOOLEAN, k \in PumpSizes, n \in S : TimerFires(r, expired, k, n)
Writes(r, S) == \E n \in S : SocketBecomesWritable(r, n)
Receives(r)  == \E k \in PumpSizes \cup {-1} : ReceiveCell(r, k)

Next ==
  \/ \E r \in Role, k \in PumpSizes : OwnerSends(r, k)
  \/ OwnerArms
  \/ OwnerStops
  \/ \E r \in Role : Ticks(r, Sizes)
  \/ \E r \in Role : Writes(r, Sizes)
  \/ \E r \in Role : Receives(r)
  \/ ConnectionBreaks

Spec == Init /\ [][Next]_vars

(* Timers fire, the loops serve their events, and a socket that has room   *)
(* takes bytes sooner or later.  The owner need do nothing.                *)
Fairness ==
  \A r \in Role : /\ WF_vars(Ticks(r, Sizes))
                  /\ WF_vars(Ticks(r, Sizes \ {0}))
                  /\ WF_vars(Writes(r, Sizes \ {0}))
                  /\ WF_vars(Receives(r))

FairSpec == Spec /\ Fairness

-----------------------------------------------------------------------------
(* What the properties talk about.                                         *)

(* The client has a session it has not been told the end of.               *)
Outstanding == armed > done

CellsOf(e) == {e.cells[i] : i \in 1..Len(e.cells)} \cup
              {e.wire[i] : i \in 1..Len(e.wire)}

(* Flags end r has yet to put in a cell, or has put in a cell the other    *)
(* end has not read.                                                       *)
FlagsUnderWay(r) == end[r].need \cup UNION {c.flags : c \in CellsOf(end[r])}

(* is_defense_in_progress() and has_pending_bytes() of the client, on      *)
(* which the channel reaper of csp.cpp decides to replace the channel.     *)
IsDefenseInProgress == csp.state = "ACTIVE" \/ ~csp.doneRecv
HasPendingBytes == csp.spdy > 0 \/ csp.outlen > 0

-----------------------------------------------------------------------------
(* Invariants.                                                             *)

TypeOK == /\ end \in [Role -> Endpoint]
          /\ \A r \in Role : end[r].role = r
          /\ armed \in Nat /\ done \in Nat

(* No CHECK and no LOG(FATAL) of the channel ends a process, but for the   *)
(* client's time limit when that may pass.                                 *)
ChecksHold ==
  \A r \in Role : end[r].status \in
    {"up", "closed"} \cup (IF "CSP" \in MayExpire THEN {"time_limit"} ELSE {})

(* "A_DEFENSE_SESSION_DONE, i.e., both send and recv directions are done": *)
(* a client that has been told of every session it armed finds no defense  *)
(* on at either end, and no flag under way that could start or stop one.   *)
DoneMeansBothDone ==
  ~Outstanding => \A r \in Role : end[r].state = "NONE" /\ FlagsUnderWay(r) = {}

(* While the client defends and has not been asked to stop, the server     *)
(* defends too, or is being told to start, or is telling that it stopped.  *)
ServerFollowsStart ==
  Up /\ csp.state = "ACTIVE" /\ ~csp.stop /\ ssp.state # "ACTIVE" =>
    "START" \in FlagsUnderWay("CSP") \/ "AUTO_STOPPED" \in FlagsUnderWay("SSP")

(* A client that no longer defends leaves no server defending for ever: a  *)
(* server still on has been asked to stop, or the STOP is under way.       *)
ServerFollowsStop ==
  Up /\ csp.state = "NONE" /\ ssp.state = "ACTIVE" =>
    ssp.stop \/ "STOP" \in FlagsUnderWay("CSP")

(* The server follows the client on and off: no flag it needs is lost in a *)
(* dropped dummy, in a reset or in the flush that ends a session.          *)
ServerFollows == ServerFollowsStart /\ ServerFollowsStop

(* The reaper never replaces a channel whose server end is still in a      *)
(* session: the client can tell from its own state alone.                  *)
ReapIsSafe ==
  ~IsDefenseInProgress /\ ~HasPendingBytes =>
    ssp.state = "NONE" /\ FlagsUnderWay("SSP") = {}

-----------------------------------------------------------------------------
(* What the channel promises, and how its state shows it.                  *)

ClientPhase ==
  CASE ~Outstanding -> "idle"
    [] Outstanding /\ csp.state = "PENDING" -> "armed"
    [] Outstanding /\ csp.state = "ACTIVE" -> IF csp.stop THEN "stopping" ELSE "on"
    [] Outstanding /\ csp.state = "NONE" -> "off"

(* A server that is not defending has finished when its DONE is under way  *)
(* or has been noted by a client that has started this session.            *)
ServerHasFinished ==
  "DONE" \in FlagsUnderWay("SSP") \/ (csp.state # "PENDING" /\ csp.doneRecv)

ServerPhase ==
  CASE ~Outstanding -> "idle"
    [] Outstanding /\ ssp.state = "ACTIVE" -> IF ssp.stop THEN "stopping" ELSE "on"
    [] Outstanding /\ ssp.state # "ACTIVE" ->
         IF ServerHasFinished THEN "off" ELSE "idle"

Session == INSTANCE DefenseSession WITH client <- ClientPhase,
                                        server <- ServerPhase

(* The two ends keep the promise of DefenseSession: the server follows the *)
(* client on and off, once in every session, and the owner of the client   *)
(* is told when, and only when, both have finished.                        *)
ImplementsSession == Session!Spec

-----------------------------------------------------------------------------
(* Liveness.                                                               *)

(* A session that was asked to stop ends: the owner of the client hears    *)
(* A_DEFENSE_SESSION_DONE, unless the connection breaks first.             *)
StopIsAnswered == csp.stop ~> ~Outstanding \/ ~Up

=============================================================================
