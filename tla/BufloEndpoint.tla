---------------------------- MODULE BufloEndpoint ----------------------------
(***************************************************************************)
(* One end of a BuFLO mux channel, as operators on a record: the state of  *)
(* a BufloMuxChannelImplSpdy object that decides what goes into the socket *)
(* and when.  Every operator stands for one member function and returns    *)
(* the endpoint as that function leaves it.                                *)
(*                                                                         *)
(* Bytes are counted, not represented.  A cell is CellSize bytes of which  *)
(* at most BodySize are payload; a cell with no payload is a DUMMY cell,   *)
(* every other cell is a DATA cell.  The DEFENSIVE flag and the statistics *)
(* counters only feed log lines and are left out.  num_write_attempts is   *)
(* kept modulo L: only its residue is ever tested.                         *)
(*                                                                         *)
(* A failed CHECK ends the process in every build; here the endpoint's     *)
(* status becomes the name of the first check that failed.                 *)
(*                                                                         *)
(* An operator named X_Fault is X with a plausible mistake in it.  None is *)
(* used here: each shows, put in the place of X, that some property fails. *)
(***************************************************************************)
EXTENDS Integers, Sequences

CONSTANTS CellSize,  \* cell_size_, bytes of a cell
          BodySize,  \* cell_body_size_, bytes of a cell after its header
          L          \* tamaraw_L_, the same at both ends (CSP sends its own)

ASSUME CellAssumption == /\ CellSize \in Nat /\ BodySize \in Nat
                         /\ 0 < BodySize /\ BodySize < CellSize
ASSUME LAssumption == L \in Nat \ {0}

-----------------------------------------------------------------------------
(* Types.                                                                  *)

Flag == {"START", "STOP", "AUTO_STOPPED", "DONE"}

Cell == [data : 0..BodySize, flags : SUBSET Flag]

Role == {"CSP", "SSP"}

DefenseState == {"NONE", "PENDING", "ACTIVE"}

(* The CHECKs and LOG(FATAL)s a run can meet, named after what they test.  *)
CheckName ==
  {"start_when_none", "autostart_when_none", "autostart_client",
   "autostart_no_data", "autostart_no_cells", "autostart_flag_clear",
   "stop_requested_once", "start_flag_use", "server_flag_use",
   "pending_pump_adds", "pending_one_cell", "pending_outbuf_one_cell",
   "write_event_while_active", "active_outbuf_has_cell", "ensure_dummy_room",
   "dummy_is_in_outbuf", "restart_flag_clear", "client_flag_seen",
   "server_flag_seen", "start_and_stop", "time_limit", "flag_left_behind",
   "timer_already_running", "idle_write_has_cell"}

Status == {"up", "closed"} \cup CheckName

Endpoint ==
  [role     : Role,
   status   : Status,
   state    : DefenseState,     \* defense_info_.state
   stop     : BOOLEAN,          \* defense_info_.stop_requested
   need     : SUBSET Flag,      \* defense_info_.need_*_flag_in_next_cell
   attempts : 0..(L-1),         \* defense_info_.num_write_attempts, mod L
   added    : Nat,              \* defense_info_.num_data_cells_added
   doneRecv : BOOLEAN,          \* defense_info_.done_defending_recv
   spdy     : Nat,              \* length of spdy_outbuf_
   outlen   : Nat,              \* length of cell_outbuf_
   cells    : Seq(Cell),        \* output_cells_data_bytes_info_, with flags
   sent     : Nat,              \* front_cell_sent_progress_
   dummy    : BOOLEAN,          \* whole_dummy_cell_at_end_outbuf_
   wev      : BOOLEAN,          \* socket_write_ev_ is added
   timer    : BOOLEAN,          \* buflo_timer_ is running
   wire     : Seq(Cell),        \* whole cells in the socket, not yet read
   notified : BOOLEAN]          \* A_DEFENSE_SESSION_DONE in this handler

(* A channel that has exchanged peer information and has nothing to send.  *)
NewEndpoint(role) ==
  [role |-> role, status |-> "up", state |-> "NONE", stop |-> FALSE,
   need |-> {}, attempts |-> 0, added |-> 0, doneRecv |-> TRUE, spdy |-> 0,
   outlen |-> 0, cells |-> << >>, sent |-> 0, dummy |-> FALSE, wev |-> FALSE,
   timer |-> FALSE, wire |-> << >>, notified |-> FALSE]

Lesser(m, n) == IF m <= n THEN m ELSE n

(* CHECK(ok): only the first failure counts, the process is gone after it. *)
Check(e, ok, name) ==
  IF ok \/ e.status # "up" THEN e ELSE [e EXCEPT !.status = name]

-----------------------------------------------------------------------------
(* Write monitoring: the write event may be added only while no defense is *)
(* active.                                                                 *)

EnableWrite(e) ==
  [Check(e, e.state # "ACTIVE", "write_event_while_active") EXCEPT !.wev = TRUE]

DisableWrite(e) == [e EXCEPT !.wev = FALSE]

ToggleWrite(e) ==
  [Check(e, e.state # "ACTIVE", "write_event_while_active")
     EXCEPT !.wev = (e.outlen > 0)]

(* defense_info_.reset(): all but done_defending_recv.                     *)
ResetDefense(e) ==
  [e EXCEPT !.state = "NONE", !.stop = FALSE, !.need = {},
            !.attempts = 0, !.added = 0]

-----------------------------------------------------------------------------
(* Adding cells to cell_outbuf_ and dropping the dummy at its end.         *)

CheckCellFlags(e) ==
  Check(Check(e, "START" \in e.need =>
                   /\ e.role = "CSP"
                   /\ \/ e.state = "PENDING"
                      \/ e.state = "ACTIVE" /\ ~e.stop, "start_flag_use"),
        e.need \cap {"AUTO_STOPPED", "DONE"} # {} => e.role = "SSP",
        "server_flag_use")

(* A new cell takes every needed flag and clears the needs.                *)
AppendCell(e, payload) ==
  [CheckCellFlags(e) EXCEPT
     !.cells  = Append(e.cells, [data |-> payload, flags |-> e.need]),
     !.outlen = e.outlen + CellSize,
     !.need   = {}]

DropWholeDummy_KeepsInfo(e) ==
  IF e.dummy THEN [e EXCEPT !.outlen = e.outlen - CellSize, !.dummy = FALSE]
  ELSE e

DropWholeDummy_DropsAnyCell(e) ==
  IF e.outlen < CellSize THEN e
  ELSE [e EXCEPT !.cells  = SubSeq(e.cells, 1, Len(e.cells) - 1),
                 !.outlen = e.outlen - CellSize,
                 !.dummy  = FALSE]

DropWholeDummy(e) ==
  IF ~e.dummy THEN e
  ELSE [Check(e, e.outlen >= CellSize /\ e.cells # << >>, "dummy_is_in_outbuf")
          EXCEPT !.cells  = SubSeq(e.cells, 1, Len(e.cells) - 1),
                 !.outlen = e.outlen - CellSize,
                 !.dummy  = FALSE]

(* With spdy > 0; the caller has tested it.                                *)
AddDataCell(e) ==
  LET payload == Lesser(BodySize, e.spdy)
      d == [AppendCell(DropWholeDummy(e), payload)
              EXCEPT !.spdy = e.spdy - payload]
  IN  IF e.state = "PENDING"
        THEN Check([d EXCEPT !.added = e.added + 1], e.added = 0,
                   "pending_one_cell")
        ELSE d

AddDummyCell_ForgetsFlags(e) == [AppendCell(e, 0) EXCEPT !.dummy = TRUE]

(* A dummy cell that carries a flag is not counted as droppable.           *)
AddDummyCell(e) == [AppendCell(e, 0) EXCEPT !.dummy = (e.need = {})]

EnsureWholeDummy(e) ==
  IF e.dummy THEN e
  ELSE AddDummyCell(Check(e, e.outlen < CellSize, "ensure_dummy_room"))

(* The loop that moves all of spdy_outbuf_ into cells, in closed form:     *)
(* only the first cell of a flush can find a flag to carry.                *)
FlushCells(e) ==
  LET n == (e.spdy + BodySize - 1) \div BodySize
  IN  [i \in 1..n |-> [data  |-> Lesser(BodySize, e.spdy - (i - 1) * BodySize),
                       flags |-> IF i = 1 THEN e.need ELSE {}]]

FlushData_OneCell(e) == IF e.spdy = 0 THEN e ELSE AddDataCell(e)

FlushData(e) ==
  IF e.spdy = 0 THEN e
  ELSE LET d  == DropWholeDummy(e)
           fs == FlushCells(e)
       IN  [CheckCellFlags(d) EXCEPT !.cells  = d.cells \o fs,
                                     !.outlen = d.outlen + CellSize * Len(fs),
                                     !.spdy   = 0,
                                     !.need   = {}]

(* _pump_spdy_send when spdylay has k more bytes to send: all of it goes   *)
(* to cells when no defense is on, one cell's worth when one is pending,   *)
(* nothing when one is active (the timer will take it).                    *)
PumpSend(e, k) ==
  LET d == [e EXCEPT !.spdy = e.spdy + k]
  IN  CASE e.state = "NONE" ->
             LET f == FlushData(d) IN IF f.outlen > 0 THEN EnableWrite(f) ELSE f
        [] e.state = "PENDING" ->
             EnableWrite(IF d.spdy > 0 THEN AddDataCell(d)
                         ELSE Check(d, FALSE, "pending_pump_adds"))
        [] OTHER -> d

-----------------------------------------------------------------------------
(* Writing to the socket: n is the number of bytes it accepts, 0 when it   *)
(* would block.                                                            *)

(* Cells whose last byte is now written leave for the wire.                *)
Progress(e, n) ==
  LET total == e.sent + n
      whole == total \div CellSize
  IN  [e EXCEPT !.sent  = total % CellSize,
                !.wire  = e.wire \o SubSeq(e.cells, 1, whole),
                !.cells = SubSeq(e.cells, whole + 1, Len(e.cells))]

(* While a defense is active: at most one cell's worth, and the attempt    *)
(* counts whatever the socket accepted.                                    *)
SendOneCell(e, n) ==
  LET c == Check(e, e.outlen >= CellSize, "active_outbuf_has_cell")
      left == e.outlen - n
  IN  Progress([c EXCEPT !.outlen   = left,
                         !.attempts = (e.attempts + 1) % L,
                         !.dummy    = e.dummy /\ left >= CellSize], n)

(* No defense: everything but a whole dummy cell at the end, which is then *)
(* dropped.                                                                *)
IdleAmount(e) == IF e.dummy THEN e.outlen - CellSize ELSE e.outlen

SendAll(e, n) ==
  LET c == Check(e, e.outlen > 0, "idle_write_has_cell")
      w == [c EXCEPT !.outlen = e.outlen - n]
      t == IF e.dummy /\ n = IdleAmount(e) THEN DisableWrite(w)
           ELSE ToggleWrite(w)
  IN  Progress(DropWholeDummy(t), n)

MaxWrite_Unpaced(e) == IF e.state = "ACTIVE" THEN e.outlen ELSE IdleAmount(e)

(* How much the socket may accept in _send_cell_outbuf.                    *)
MaxWrite(e) ==
  IF e.state = "ACTIVE" THEN Lesser(CellSize, e.outlen) ELSE IdleAmount(e)

SendCellOutbuf(e, n) ==
  IF e.state = "ACTIVE" THEN SendOneCell(e, n) ELSE SendAll(e, n)

-----------------------------------------------------------------------------
(* Defense sessions.                                                       *)

StartDefense_KeepsDoneRecv(e) ==
  DisableWrite([e EXCEPT !.timer = TRUE, !.state = "ACTIVE"])

StartDefense(e) ==
  LET c == Check(Check(e, e.state = "NONE", "start_when_none"),
                 ~e.timer, "timer_already_running")
  IN  DisableWrite([c EXCEPT !.timer = TRUE, !.state = "ACTIVE",
                             !.doneRecv = FALSE])

SetAutoStart(e) ==
  LET c1 == Check(e, e.state = "NONE", "autostart_when_none")
      c2 == Check(c1, e.role = "CSP", "autostart_client")
      c3 == Check(c2, e.spdy = 0, "autostart_no_data")
      c4 == Check(c3, e.outlen = 0, "autostart_no_cells")
      c5 == Check(c4, "START" \notin e.need, "autostart_flag_clear")
  IN  [c5 EXCEPT !.state = "PENDING", !.need = e.need \cup {"START"}]

(* request_stop() and, at the client, the flag that tells the server.      *)
StopDefense(e) ==
  IF e.state # "ACTIVE" THEN ResetDefense(e)
  ELSE LET c == Check(e, ~e.stop, "stop_requested_once")
       IN  [c EXCEPT !.stop = TRUE,
                     !.need = (e.need \ {"START"}) \cup
                                (IF e.role = "CSP" THEN {"STOP"} ELSE {})]

NotifyIfDone_OwnSideOnly(e) ==
  IF e.state = "NONE" THEN [e EXCEPT !.notified = TRUE] ELSE e

NotifyIfDone(e) ==
  IF e.state = "NONE" /\ e.doneRecv THEN [e EXCEPT !.notified = TRUE] ELSE e

SendFlags_NoWakeUp(e) ==
  IF e.need = {} THEN e ELSE AddDummyCell(DropWholeDummy(e))

(* The flags left over after a flush go out in a dummy of their own.       *)
SendFlags(e) ==
  IF e.need = {} THEN e ELSE EnableWrite(AddDummyCell(DropWholeDummy(e)))

IsDoneDefendingSend_Unasked(e) == e.attempts = 0

IsDoneDefendingSend(e) == e.stop /\ e.attempts = 0

FlagsAfterFinish_LosesStop(e) == IF e.role = "SSP" THEN {"DONE"} ELSE {}

(* A STOP not yet in a cell survives the reset; a server adds its DONE.    *)
FlagsAfterFinish(e) ==
  (e.need \cap {"STOP"}) \cup (IF e.role = "SSP" THEN {"DONE"} ELSE {})

FinishDefense(e, k) ==
  LET r == [ResetDefense(e) EXCEPT !.timer = FALSE,
                                   !.need  = FlagsAfterFinish(e)]
      s == SendFlags(PumpSend(r, k))
  IN  NotifyIfDone(Check(s, s.need = {}, "flag_left_behind"))

AutoStopDefense(e, k) ==
  LET r == [ResetDefense(e) EXCEPT !.timer = FALSE, !.need = {"AUTO_STOPPED"}]
      s == SendFlags(PumpSend(r, k))
  IN  Check(s, s.need = {}, "flag_left_behind")

FillOutbuf_Always(e) ==
  IF e.spdy > 0 THEN AddDataCell(e) ELSE EnsureWholeDummy(e)

(* What a tick of an ongoing defense has to send.                          *)
FillOutbuf(e) ==
  IF e.outlen >= CellSize THEN e
  ELSE IF e.spdy > 0 THEN AddDataCell(e) ELSE EnsureWholeDummy(e)

-----------------------------------------------------------------------------
(* Event handlers.                                                         *)

(* The defense timer: whether the time limit has passed, how much spdylay  *)
(* then has to say, and how much the socket accepts.                       *)
TimerFired(e, expired, k, n) ==
  CASE IsDoneDefendingSend(e) -> FinishDefense(e, k)
    [] ~IsDoneDefendingSend(e) /\ expired /\ e.role = "CSP" ->
         Check(e, FALSE, "time_limit")
    [] ~IsDoneDefendingSend(e) /\ expired /\ e.role = "SSP" ->
         AutoStopDefense(e, k)
    [] OTHER -> SendCellOutbuf(FillOutbuf(e), n)

(* The socket can be written: a pending defense starts now.                *)
SocketWritable(e, n) ==
  IF e.state # "PENDING" THEN SendCellOutbuf(e, n)
  ELSE LET c == Check(e, e.outlen = CellSize, "pending_outbuf_one_cell")
       IN  SendCellOutbuf(StartDefense([c EXCEPT !.state = "NONE"]), n)

(* The flags of a cell that was read, in the order they are tested.        *)
HandleFlags(e, flags) ==
  LET auto  == "AUTO_STOPPED" \in flags
      c1 == Check(e, auto => e.role = "CSP", "client_flag_seen")
      again == auto /\ e.state = "ACTIVE" /\ ~e.stop
      c2 == Check(c1, again => "START" \notin e.need, "restart_flag_clear")
      a  == IF again THEN [c2 EXCEPT !.need = e.need \cup {"START"}] ELSE c2
      c3 == Check(a, ~({"START", "STOP"} \subseteq flags), "start_and_stop")
      c4 == Check(c3, flags \cap {"START", "STOP"} # {} => e.role = "SSP",
                  "server_flag_seen")
      s  == IF "START" \in flags THEN StartDefense(c4) ELSE c4
  IN  IF "STOP" \in flags THEN StopDefense(s) ELSE s

(* A whole cell was read.  Its payload reaches the streams, whose users    *)
(* may answer at once with k more bytes, or make no call when k < 0; only  *)
(* then is the DONE flag looked at.                                        *)
HandleCell(e, cell, k) ==
  LET f == HandleFlags(e, cell.flags)
      d == IF cell.data > 0 /\ k >= 0 THEN PumpSend(f, k) ELSE f
      c == Check(d, e.role = "CSP", "client_flag_seen")
  IN  IF "DONE" \in cell.flags THEN NotifyIfDone([c EXCEPT !.doneRecv = TRUE])
      ELSE d

=============================================================================
