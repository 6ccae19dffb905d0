----------------------------- MODULE BufloChannel -----------------------------
(***************************************************************************)
(* One BufloMuxChannelImplSpdy object and everything that can call it: its *)
(* owner, the defense timer, the socket.  The peer is arbitrary, it may    *)
(* send any cell at any time, so what holds here holds of a client or a    *)
(* server end whatever the other end does.                                 *)
(***************************************************************************)
EXTENDS BufloEndpoint

CONSTANTS Roles,        \* the roles this end may have: "CSP", "SSP" or both
          PumpSizes,    \* bytes spdylay may hand over in one pump
          PeerFlags,    \* by role, the flag sets on cells of the peer
          StopWhilePending,  \* whether the owner may stop an armed session
          MaxSpdy,      \* bound on bytes waiting in spdy_outbuf_
          MaxCells,     \* bound on cells in cell_outbuf_
          SocketCells   \* bound on whole cells the socket holds unread

ASSUME ChannelAssumption ==
  /\ Roles \subseteq Role
  /\ PumpSizes \subseteq Nat
  /\ PeerFlags \in [Role -> SUBSET (SUBSET Flag)]
  /\ StopWhilePending \in BOOLEAN
  /\ MaxSpdy \in Nat /\ MaxCells \in Nat /\ SocketCells \in Nat

VARIABLE ch

vars == << ch >>

Init == \E r \in Roles : ch = NewEndpoint(r)

Up == ch.status = "up"

(* Every handler starts with no notification of its own.                   *)
Before == [ch EXCEPT !.notified = FALSE]

(* Bounds of the model, not of the code.                                   *)
RoomForData(k) ==
  k > 0 => /\ ch.spdy + k <= MaxSpdy
           /\ Len(ch.cells) + (ch.spdy + k) \div BodySize < MaxCells
RoomForSession(flags) == "START" \in flags => Len(ch.cells) < MaxCells

(* The socket takes whole cells only while it has room for them.           *)
WriteSizes(e) ==
  {n \in 0..MaxWrite(e) :
     Len(ch.wire) + (e.sent + n) \div CellSize <= SocketCells}

-----------------------------------------------------------------------------
(* create_stream2, set_stream_connected, write_buffer, set_write_eof or    *)
(* close_stream: all of them end in a pump.                                *)
OwnerSends(k) ==
  /\ Up /\ RoomForData(k)
  /\ ch' = PumpSend(Before, k)

OwnerSetsAutoStart ==
  /\ Up /\ ch.role = "CSP"
  /\ ch' = SetAutoStart(Before)

OwnerStops ==
  /\ Up /\ ch.role = "CSP"
  /\ ch.state = "PENDING" => StopWhilePending
  /\ ch' = StopDefense(Before)

TimerFires(expired, k, n) ==
  /\ Up /\ ch.timer
  /\ RoomForData(k)
  /\ n \in WriteSizes(FillOutbuf(Before))
  /\ ch' = TimerFired(Before, expired, k, n)

SocketBecomesWritable(n) ==
  /\ Up /\ ch.wev
  /\ n \in WriteSizes(Before)
  /\ ch' = SocketWritable(Before, n)

ReceiveCell(cell, k) ==
  /\ Up
  /\ RoomForData(k) /\ RoomForSession(cell.flags)
  /\ ch' = HandleCell(Before, cell, k)

(* The peer takes a cell off the wire.                                     *)
PeerReads ==
  /\ Up /\ ch.wire # << >>
  /\ ch' = [Before EXCEPT !.wire = Tail(ch.wire)]

(* A read or write returns 0 or fails: ch_status_cb_(CLOSED).              *)
SocketFails ==
  /\ Up
  /\ ch' = [Before EXCEPT !.status = "closed"]

PeerCells == [data : {0, 1}, flags : PeerFlags[ch.role]]

Next ==
  \/ \E k \in PumpSizes : OwnerSends(k)
  \/ OwnerSetsAutoStart
  \/ OwnerStops
  \/ \E expired \in BOOLEAN, k \in PumpSizes, n \in 0..(CellSize * (MaxCells + MaxSpdy)) :
       TimerFires(expired, k, n)
  \/ \E n \in 0..(CellSize * (MaxCells + MaxSpdy)) : SocketBecomesWritable(n)
  \/ \E cell \in PeerCells, k \in PumpSizes \cup {-1} : ReceiveCell(cell, k)
  \/ PeerReads
  \/ SocketFails

Spec == Init /\ [][Next]_vars

-----------------------------------------------------------------------------
(* Invariants.                                                             *)

(* Every field keeps its type, whatever the peer and the owner do.         *)
TypeOK == ch \in Endpoint

(* cell_outbuf_ and output_cells_data_bytes_info_ are kept by different    *)
(* functions and must agree: the buffer holds the listed cells, less what  *)
(* front_cell_sent_progress_ says has been written of the first one.       *)
OutbufAccounting ==
  /\ ch.outlen = CellSize * Len(ch.cells) - ch.sent
  /\ ch.sent < CellSize
  /\ ch.cells = << >> => ch.sent = 0

(* whole_dummy_cell_at_end_outbuf_ allows the last CellSize bytes to be    *)
(* cut off: they must be one whole unsent cell, with no data and no flag.  *)
DummyIsWhole ==
  ch.dummy =>
    /\ ch.cells # << >>
    /\ ch.cells[Len(ch.cells)] = [data |-> 0, flags |-> {}]
    /\ Len(ch.cells) = 1 => ch.sent = 0

(* No lost wake-up: an active defense writes from its timer and never from *)
(* the write event; any other channel has the write event added exactly    *)
(* while it has bytes to write (the event is level triggered, so an event  *)
(* left on with nothing to write would spin).                              *)
WriteMonitoring ==
  Up => IF ch.state = "ACTIVE" THEN ch.timer /\ ~ch.wev
        ELSE ~ch.timer /\ (ch.wev <=> ch.outlen > 0)

(* Once no defense is on, nothing is left waiting for one: all data spdylay *)
(* handed over is in cells and no flag still looks for a cell.             *)
NothingStranded ==
  Up /\ ch.state = "NONE" => ch.spdy = 0 /\ ch.need = {}

-----------------------------------------------------------------------------
(* Action properties.                                                      *)

(* The cells this end has committed to: those on the wire and those in the *)
(* outbuf, but for a dummy that may still be dropped.                      *)
Committed(e) ==
  e.wire \o (IF e.dummy THEN SubSeq(e.cells, 1, Len(e.cells) - 1) ELSE e.cells)

IsPrefixOf(s, t) == Len(s) <= Len(t) /\ SubSeq(t, 1, Len(s)) = s

(* No cell with data or a flag is ever lost, reordered or altered once it  *)
(* is in the outbuf: handlers only extend the committed stream, and only   *)
(* the peer takes from it.                                                 *)
StreamOnlyGrows ==
  [][\/ IsPrefixOf(Committed(ch), Committed(ch'))
     \/ ch.wire # << >> /\ Committed(ch') = Tail(Committed(ch))]_vars

(* A server may start a defense with a backlog of cells; while the defense *)
(* is active the outbuf then only shrinks until it is below two cells, and *)
(* stays there.                                                            *)
BacklogShrinks ==
  [][ch.state = "ACTIVE" /\ ch'.state = "ACTIVE"
       => ch'.outlen < 2 * CellSize \/ ch'.outlen <= ch.outlen]_vars

BytesOut(e) == CellSize * Len(e.wire) + e.sent

(* What an observer of the wire sees of a defense: while it is active,     *)
(* bytes leave only at an attempt that is counted, one cell's worth at     *)
(* most, whatever the streams, the owner and the peer do in between.       *)
PacedWhileActive ==
  [][ch.state = "ACTIVE" /\ BytesOut(ch') > BytesOut(ch)
       => /\ BytesOut(ch') <= BytesOut(ch) + CellSize
          /\ ch'.state = "ACTIVE" /\ ch'.attempts = (ch.attempts + 1) % L]_vars

=============================================================================
