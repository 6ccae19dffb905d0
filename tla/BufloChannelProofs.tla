-------------------------- MODULE BufloChannelProofs --------------------------
(***************************************************************************)
(* For every cell size, every L, every bound and whatever the peer sends:  *)
(* an endpoint keeps its types, its outbuf balances with the list of the   *)
(* cells in it, and the bytes that may be cut off its end are one unsent   *)
(* cell without data or flags.                                             *)
(*                                                                         *)
(* The inductive invariant is the three together: the amount dropped with  *)
(* a dummy is right only because the outbuf balances, and the outbuf stays *)
(* balanced only because the dummy is whole.  Each handler preserves it by *)
(* the lemmas of BufloEndpointProofs.                                      *)
(*                                                                         *)
(* No wake-up of a channel end is ever lost: an active defense has its     *)
(* timer running and the write event off, and any other end has the write  *)
(* event on exactly while its outbuf holds bytes.  Once no defense is on,  *)
(* nothing waits for one.  Soundness of the outbuf is needed: that a write *)
(* has emptied it is decided from the length of the dummy in it.           *)
(*                                                                         *)
(* The stream of cells an end has committed to only grows, an active       *)
(* defense writes one cell's worth per counted attempt and at no other     *)
(* time, and its backlog only shrinks.  That no write comes from the write *)
(* event while it is active is what the wake-ups above say.                *)
(***************************************************************************)
EXTENDS BufloChannel, BufloEndpointProofs

(* The inductive invariant.                                                *)
IInv == Sound(ch)

(* A handler starts without a notification; that changes nothing else.     *)
LEMMA BeforeSound ==
  ASSUME Sound(ch)
  PROVE  Sound(Before) /\ Before \in Endpoint
<1>1. Before \in Endpoint /\ SameOutbuf(ch, Before)
  BY DEF Before, Sound, Endpoint, SameOutbuf
<1> QED BY <1>1, SoundFrame

(* A channel with nothing to send is sound.                                *)
LEMMA InitSound == Init => Sound(ch)
BY ChannelAssumption, NewEndpointSound DEF Init

(* Every event of one end of the channel preserves soundness.              *)
LEMMA NextSound == Sound(ch) /\ [Next]_vars => Sound(ch')
<1> SUFFICES ASSUME Sound(ch), [Next]_vars  PROVE Sound(ch')
  OBVIOUS
<1>0. Sound(Before) /\ Before \in Endpoint
  BY BeforeSound
<1>1. ASSUME NEW k \in PumpSizes, OwnerSends(k)  PROVE Sound(ch')
  BY <1>0, <1>1, ChannelAssumption, PumpSendSound DEF OwnerSends
<1>2. CASE OwnerSetsAutoStart
  BY <1>0, <1>2, SetAutoStartSound DEF OwnerSetsAutoStart
<1>3. CASE OwnerStops
  BY <1>0, <1>3, StopDefenseSound DEF OwnerStops
<1>4. ASSUME NEW expired \in BOOLEAN, NEW k \in PumpSizes, NEW n,
             TimerFires(expired, k, n)
      PROVE  Sound(ch')
  <2>1. k \in Nat /\ n \in 0..MaxWrite(FillOutbuf(Before))
    BY <1>4, ChannelAssumption DEF TimerFires, WriteSizes
  <2>2. ch' = TimerFired(Before, expired, k, n)
    BY <1>4 DEF TimerFires
  <2> QED BY <1>0, <2>1, <2>2, TimerFiredSound
<1>5. ASSUME NEW n, SocketBecomesWritable(n)  PROVE Sound(ch')
  <2>1. n \in 0..MaxWrite(Before) /\ ch' = SocketWritable(Before, n)
    BY <1>5 DEF SocketBecomesWritable, WriteSizes
  <2> QED BY <1>0, <2>1, SocketWritableSound
<1>6. ASSUME NEW cell \in PeerCells, NEW k \in PumpSizes \cup {-1},
             ReceiveCell(cell, k)
      PROVE  Sound(ch')
  <2>0. ch.role \in Role
    BY DEF Sound, Endpoint
  <2>1. cell \in Cell
    BY <2>0, CellAssumption, ChannelAssumption DEF PeerCells, Cell
  <2>2. k \in Int
    BY ChannelAssumption
  <2>3. ch' = HandleCell(Before, cell, k)
    BY <1>6 DEF ReceiveCell
  <2> QED BY <1>0, <2>1, <2>2, <2>3, HandleCellSound
<1>7. CASE PeerReads
  <2>1. ch.wire \in Seq(Cell) /\ ch.wire # << >> /\ ch \in Endpoint
    BY <1>7 DEF PeerReads, Sound, Endpoint
  <2>2. Tail(ch.wire) \in Seq(Cell)
    BY <2>1, HeadTailProperties
  <2>3. ch' = [Before EXCEPT !.wire = Tail(ch.wire)]
    BY <1>7 DEF PeerReads
  <2> HIDE DEF Before
  <2>4. ch' \in Endpoint /\ SameOutbuf(Before, ch')
    BY <1>0, <2>2, <2>3 DEF Endpoint, SameOutbuf
  <2> QED BY <1>0, <2>4, SoundFrame
<1>8. CASE SocketFails
  <2>1. ch' = [Before EXCEPT !.status = "closed"]
    BY <1>8 DEF SocketFails
  <2>2. ch' \in Endpoint /\ SameOutbuf(Before, ch')
    BY <1>0, <2>1 DEF Endpoint, Status, SameOutbuf
  <2> QED BY <1>0, <2>2, SoundFrame
<1>9. CASE UNCHANGED vars
  BY <1>9 DEF vars
<1> QED BY <1>1, <1>2, <1>3, <1>4, <1>5, <1>6, <1>7, <1>8, <1>9 DEF Next

(* In every reachable state of the channel its endpoint is sound.          *)
THEOREM ChannelIsSound == Spec => []IInv
<1>1. Init => IInv
  BY InitSound DEF IInv
<1>2. IInv /\ [Next]_vars => IInv'
  BY NextSound DEF IInv
<1> QED BY <1>1, <1>2, PTL DEF Spec

(* Type correctness: no handler leaves a length negative or a counter out  *)
(* of range, whatever the peer sends.                                      *)
THEOREM ChannelTyped == Spec => []TypeOK
<1>1. IInv => TypeOK
  BY DEF IInv, Sound, TypeOK
<1> QED BY <1>1, ChannelIsSound, PTL

(* cell_outbuf_ always holds the cells that output_cells_data_bytes_info_  *)
(* lists, less front_cell_sent_progress_: added, dropped and partly        *)
(* written cells are counted alike by the functions that keep the two.     *)
THEOREM ChannelAccounts == Spec => []OutbufAccounting
<1>1. IInv => OutbufAccounting
  <2> SUFFICES ASSUME Sound(ch)  PROVE OutbufAccounting
    BY DEF IInv
  <2>1. ch.cells = << >> => ch.sent = 0
    BY NoCellNoProgress
  <2> QED BY <2>1 DEF OutbufAccounting, Sound, Balanced
<1> QED BY <1>1, ChannelIsSound, PTL

(* Dropping the dummy at the end of the outbuf never cuts off a byte of a  *)
(* cell that carries data or a flag, nor of one already partly written.    *)
THEOREM ChannelDropsOnlyDummies == Spec => []DummyIsWhole
<1>1. IInv => DummyIsWhole
  BY DEF IInv, Sound, Whole, DummyIsWhole
<1> QED BY <1>1, ChannelIsSound, PTL

-----------------------------------------------------------------------------
(* The channel.                                                            *)

LEMMA BeforeWakes ==
  ASSUME Sound(ch), Watched(ch)
  PROVE  Sound(Before) /\ Before \in Endpoint /\ Wakes(ch, Before) /\ Watched(Before)
         /\ Before.status = ch.status /\ Before.state = ch.state
         /\ Before.timer = ch.timer
<1>1. Sound(Before) /\ Before \in Endpoint
  BY BeforeSound
<1>2. SameWake(ch, Before) /\ Before.status = ch.status
  BY DEF Before, Sound, Endpoint, SameWake, Kept
<1> QED BY <1>1, <1>2, SameWakes DEF SameWake, Kept, Wakes

(* Every event leaves the endpoint watched, and strands nothing unless it   *)
(* resets an armed session.                                                 *)
LEMMA NextWatched ==
  ASSUME Sound(ch), Watched(ch), [Next]_vars
  PROVE  /\ Watched(ch')
         /\ Served(ch) /\ ~StopWhilePending => Served(ch')
<1>0. /\ Sound(Before) /\ Before \in Endpoint /\ Wakes(ch, Before)
      /\ Watched(Before) /\ Before.status = ch.status
      /\ Before.state = ch.state /\ Before.timer = ch.timer
  BY BeforeWakes
<1> DEFINE Good == Watched(ch') /\ (Served(ch) /\ ~StopWhilePending => Served(ch'))
<1>e. Wakes(Before, ch') => Good
  BY <1>0 DEF Wakes
<1>1. ASSUME NEW k \in PumpSizes, OwnerSends(k)  PROVE Good
  <2>1. k \in Nat /\ ch' = PumpSend(Before, k)
    BY <1>1, ChannelAssumption DEF OwnerSends
  <2> QED BY <1>0, <1>e, <2>1, PumpSendWatched
<1>2. CASE OwnerSetsAutoStart
  BY <1>0, <1>e, <1>2, SetAutoStartWatched DEF OwnerSetsAutoStart
<1>3. CASE OwnerStops
  <2>1. ch' = StopDefense(Before) /\ (ch.state = "PENDING" => StopWhilePending)
    BY <1>3 DEF OwnerStops
  <2>2. /\ Watched(ch')
        /\ Served(Before) /\ (Before.status = "up" => Before.state # "PENDING")
             => Served(ch')
    BY <1>0, <2>1, StopDefenseWatched
  <2> QED BY <1>0, <2>1, <2>2 DEF Wakes
<1>4. ASSUME NEW expired \in BOOLEAN, NEW k \in PumpSizes, NEW n,
             TimerFires(expired, k, n)
      PROVE  Good
  <2>1. k \in Nat /\ n \in 0..MaxWrite(FillOutbuf(Before))
    BY <1>4, ChannelAssumption DEF TimerFires, WriteSizes
  <2>2. ch' = TimerFired(Before, expired, k, n) /\ Before.status = "up" /\ Before.timer
    BY <1>0, <1>4 DEF TimerFires, Up
  <2> QED BY <1>0, <1>e, <2>1, <2>2, TimerFiredWatched
<1>5. ASSUME NEW n, SocketBecomesWritable(n)  PROVE Good
  <2>1. n \in 0..MaxWrite(Before) /\ ch' = SocketWritable(Before, n)
    BY <1>5 DEF SocketBecomesWritable, WriteSizes
  <2> QED BY <1>0, <1>e, <2>1, SocketWritableWatched
<1>6. ASSUME NEW cell \in PeerCells, NEW k \in PumpSizes \cup {-1},
             ReceiveCell(cell, k)
      PROVE  Good
  <2>0. ch.role \in Role
    BY DEF Sound, Endpoint
  <2>1. cell \in Cell
    BY <2>0, CellAssumption, ChannelAssumption DEF PeerCells, Cell
  <2>2. k \in Int
    BY ChannelAssumption
  <2>3. ch' = HandleCell(Before, cell, k)
    BY <1>6 DEF ReceiveCell
  <2> QED BY <1>0, <1>e, <2>1, <2>2, <2>3, HandleCellWatched
<1>7. CASE PeerReads
  <2>1. ch' = [Before EXCEPT !.wire = Tail(ch.wire)]
    BY <1>7 DEF PeerReads
  <2> HIDE DEF Before
  <2>2. SameWake(Before, ch')
    BY <1>0, <2>1 DEF Endpoint, SameWake, Kept
  <2> QED BY <1>0, <1>e, <2>2, SameWakes
<1>8. CASE SocketFails
  <2>1. ch'.status = "closed"
    BY <1>0, <1>8 DEF SocketFails, Endpoint
  <2> QED BY <2>1 DEF Watched, Served
<1>9. CASE UNCHANGED vars
  BY <1>9 DEF vars
<1>10. Good
  BY <1>1, <1>2, <1>3, <1>4, <1>5, <1>6, <1>7, <1>8, <1>9 DEF Next
<1> QED BY <1>10

(* A new channel has nothing to write.                                     *)
LEMMA InitWatched == Init => Watched(ch) /\ Served(ch)
BY DEF Init, NewEndpoint, Watched, Served

(* No wake-up is lost: in every reachable state of a running end, whatever *)
(* its peer and its owner do, an active defense has its timer and no write *)
(* event, and any other end has the write event exactly while it has bytes *)
(* to write.                                                               *)
THEOREM ChannelWatchesWrites == Spec => []WriteMonitoring
<1>1. Init => Watched(ch)
  BY InitWatched
<1>2. IInv /\ Watched(ch) /\ [Next]_vars => Watched(ch')
  BY NextWatched DEF IInv
<1>3. Watched(ch) => WriteMonitoring
  BY DEF Watched, WriteMonitoring, Up
<1> DEFINE W == Watched(ch)
<1>4. Init => W
  BY <1>1
<1>5. IInv /\ W /\ [Next]_vars => W'
  BY <1>2
<1>6. W => WriteMonitoring
  BY <1>3
<1> HIDE DEF W
<1> QED BY <1>4, <1>5, <1>6, ChannelIsSound, PTL DEF Spec

(* The end of a session strands nothing: as long as the owner stops no     *)
(* session that is only armed, all data and all flags are in cells         *)
(* whenever no session is on.                                              *)
THEOREM ChannelStrandsNothing ==
  ASSUME ~StopWhilePending
  PROVE  Spec => []NothingStranded
<1> DEFINE W == Watched(ch) /\ Served(ch)
<1>1. Init => W
  BY InitWatched
<1>2. IInv /\ W /\ [Next]_vars => W'
  BY NextWatched DEF IInv
<1>3. W => NothingStranded
  BY DEF Served, NothingStranded, Up
<1> HIDE DEF W
<1> QED BY <1>1, <1>2, <1>3, ChannelIsSound, PTL DEF Spec

-----------------------------------------------------------------------------
(***************************************************************************)
(* What the handlers do to the stream of cells, and to the bytes on the    *)
(* wire.                                                                   *)
(***************************************************************************)

(* s is an initial part of t.                                              *)
Leads(s, t) ==
  /\ Len(s) <= Len(t)
  /\ \A i \in 1..Len(s) : s[i] = t[i]

(* f differs from e, in the outbuf and the socket, by cells added at the   *)
(* end and by the dummy there.                                             *)
Adds(e, f) ==
  /\ f.wire = e.wire /\ f.sent = e.sent /\ f.attempts = e.attempts
  /\ Leads(Firm(e), Firm(f))

(* As Adds, but the defense may be another one.                            *)
Quiet(e, f) ==
  /\ f.wire = e.wire /\ f.sent = e.sent
  /\ Leads(Firm(e), Firm(f))

(* Every sequence leads itself.                                          *)
LEMMA LeadsItself ==
  ASSUME NEW s \in Seq(Cell)
  PROVE  Leads(s, s)
<1>1. Len(s) \in Nat
  BY LenProperties
<1> QED BY <1>1 DEF Leads

(* ... and transitive.                                                   *)
LEMMA LeadsOn ==
  ASSUME NEW s \in Seq(Cell), NEW t \in Seq(Cell), NEW u \in Seq(Cell),
         Leads(s, t), Leads(t, u)
  PROVE  Leads(s, u)
<1>1. Len(s) \in Nat /\ Len(t) \in Nat /\ Len(u) \in Nat
  BY LenProperties
<1>2. Len(s) <= Len(t) /\ Len(t) <= Len(u)
  BY DEF Leads
<1>3. ASSUME NEW i \in 1..Len(s)  PROVE s[i] = u[i]
  <2>1. i \in 1..Len(t)
    BY <1>1, <1>2
  <2> QED BY <2>1 DEF Leads
<1> QED BY <1>1, <1>2, <1>3 DEF Leads

(* The firm cells are the listed ones, but for a dummy at the end.         *)
LEMMA FirmCells ==
  ASSUME NEW e, Sound(e)
  PROVE  /\ Firm(e) \in Seq(Cell)
         /\ Len(Firm(e)) = IF e.dummy THEN Len(e.cells) - 1 ELSE Len(e.cells)
         /\ \A i \in 1..Len(Firm(e)) : Firm(e)[i] = e.cells[i]
         /\ e.cells \in Seq(Cell) /\ Len(e.cells) \in Nat
         /\ e.dummy => Len(e.cells) >= 1
<1>1. e.cells \in Seq(Cell)
  BY DEF Sound, Endpoint
<1>2. Len(e.cells) \in Nat
  BY <1>1, LenProperties
<1>3. CASE ~e.dummy
  BY <1>1, <1>2, <1>3 DEF Firm
<1>4. CASE e.dummy
  <2> DEFINE n == Len(e.cells)
             front == SubSeq(e.cells, 1, n - 1)
  <2>1. n \in Nat /\ n >= 1
    BY <1>1, <1>2, <1>4, EmptySeq DEF Sound, Whole
  <2>2. \A i \in 1..(n - 1) : e.cells[i] \in Cell
    BY <1>1, <2>1, ElementOfSeq
  <2>3. /\ front \in Seq(Cell) /\ Len(front) = n - 1
        /\ \A i \in 1..(n - 1) : front[i] = e.cells[i]
    BY <2>1, <2>2, SubSeqProperties
  <2>4. Firm(e) = front
    BY <1>4 DEF Firm
  <2> QED BY <1>1, <1>4, <2>1, <2>3, <2>4
<1> QED BY <1>3, <1>4

(* One handler's steps compose.                                          *)
LEMMA AddsOn ==
  ASSUME NEW e, NEW f, NEW g, Sound(e), Sound(f), Sound(g),
         Adds(e, f), Adds(f, g)
  PROVE  Adds(e, g)
<1>1. Firm(e) \in Seq(Cell) /\ Firm(f) \in Seq(Cell) /\ Firm(g) \in Seq(Cell)
  BY FirmCells
<1>2. Leads(Firm(e), Firm(f)) /\ Leads(Firm(f), Firm(g))
  BY DEF Adds
<1>3. Leads(Firm(e), Firm(g))
  BY <1>1, <1>2, LeadsOn
<1> QED BY <1>3 DEF Adds

(* ... also across a start or an end of the defense.                     *)
LEMMA QuietOn ==
  ASSUME NEW e, NEW f, NEW g, Sound(e), Sound(f), Sound(g),
         Quiet(e, f), Quiet(f, g)
  PROVE  Quiet(e, g)
<1>1. Firm(e) \in Seq(Cell) /\ Firm(f) \in Seq(Cell) /\ Firm(g) \in Seq(Cell)
  BY FirmCells
<1>2. Leads(Firm(e), Firm(f)) /\ Leads(Firm(f), Firm(g))
  BY DEF Quiet
<1>3. Leads(Firm(e), Firm(g))
  BY <1>1, <1>2, LeadsOn
<1> QED BY <1>3 DEF Quiet

(* What adds, writes nothing.                                            *)
LEMMA AddsQuietly ==
  ASSUME NEW e, NEW f, Adds(e, f)
  PROVE  Quiet(e, f)
BY DEF Adds, Quiet

(* What leaves the outbuf and the socket alone adds nothing.               *)
LEMMA QuietFrame ==
  ASSUME NEW e, NEW f, Sound(e), SameOutbuf(e, f), f.wire = e.wire
  PROVE  Quiet(e, f) /\ Firm(f) = Firm(e)
<1>1. Firm(f) = Firm(e)
  BY DEF SameOutbuf, Firm
<1>2. Leads(Firm(e), Firm(e))
  BY FirmCells, LeadsItself
<1> QED BY <1>1, <1>2 DEF SameOutbuf, Quiet

(* ... nor does it count an attempt, if it leaves that number alone.     *)
LEMMA AddsFrame ==
  ASSUME NEW e, NEW f, Sound(e), SameOutbuf(e, f), f.wire = e.wire,
         f.attempts = e.attempts
  PROVE  Adds(e, f)
BY QuietFrame DEF Quiet, Adds

(* A CHECK adds nothing.                                                 *)
LEMMA CheckAdds ==
  ASSUME NEW e, NEW f, Sound(e), SameButStatus(e, f)
  PROVE  Adds(e, f)
BY AddsFrame DEF SameButStatus

(* Cells added where no dummy is at the end.                               *)
LEMMA LongerAdds ==
  ASSUME NEW e, NEW f, Sound(e), Sound(f), ~e.dummy,
         f.wire = e.wire, f.sent = e.sent, f.attempts = e.attempts,
         Len(e.cells) <= Len(f.cells) - (IF f.dummy THEN 1 ELSE 0),
         \A i \in 1..Len(e.cells) : f.cells[i] = e.cells[i]
  PROVE  Adds(e, f)
<1>1. /\ Firm(e) = e.cells /\ Len(e.cells) \in Nat
  BY FirmCells DEF Firm
<1>2. /\ Len(f.cells) \in Nat
      /\ Len(Firm(f)) = IF f.dummy THEN Len(f.cells) - 1 ELSE Len(f.cells)
      /\ \A i \in 1..Len(Firm(f)) : Firm(f)[i] = f.cells[i]
  BY FirmCells
<1>3. Len(e.cells) <= Len(Firm(f))
  <2>1. CASE f.dummy
    BY <1>1, <1>2, <2>1
  <2>2. CASE ~f.dummy
    BY <1>1, <1>2, <2>2
  <2> QED BY <2>1, <2>2
<1>4. ASSUME NEW i \in 1..Len(e.cells)  PROVE e.cells[i] = Firm(f)[i]
  <2>1. i \in 1..Len(Firm(f))
    BY <1>1, <1>2, <1>3
  <2> QED BY <1>2, <2>1
<1> QED BY <1>1, <1>3, <1>4 DEF Leads, Adds

(* Dropping the dummy leaves the firm cells.                               *)
LEMMA DropWholeDummyAdds ==
  ASSUME NEW e, Sound(e)
  PROVE  Adds(e, DropWholeDummy(e)) /\ DropWholeDummy(e).cells = Firm(e)
<1> DEFINE f == DropWholeDummy(e)
<1>0. Leads(Firm(e), Firm(e))
  BY FirmCells, LeadsItself
<1>1. CASE ~e.dummy
  BY <1>0, <1>1 DEF DropWholeDummy, Adds, Firm
<1>2. CASE e.dummy
  <2> DEFINE ok == e.outlen >= CellSize /\ e.cells # << >>
             d == Check(e, ok, "dummy_is_in_outbuf")
             front == SubSeq(e.cells, 1, Len(e.cells) - 1)
  <2>1. "dummy_is_in_outbuf" \in CheckName /\ ok \in BOOLEAN
    BY DEF CheckName
  <2>2. f = [d EXCEPT !.cells = front, !.outlen = e.outlen - CellSize,
                      !.dummy = FALSE]
    BY <1>2 DEF DropWholeDummy
  <2>3. Firm(e) = front
    BY <1>2 DEF Firm
  <2> HIDE DEF ok, front, f
  <2>4. d \in Endpoint /\ SameButStatus(e, d)
    BY <2>1, CheckSound DEF Sound
  <2> HIDE DEF d
  <2>5. /\ f.cells = front /\ ~f.dummy /\ f.wire = e.wire /\ f.sent = e.sent
        /\ f.attempts = e.attempts
    BY <2>2, <2>4 DEF Endpoint, SameButStatus, SameOutbuf
  <2>6. Firm(f) = front
    BY <2>5 DEF Firm
  <2> QED BY <1>0, <2>3, <2>5, <2>6 DEF Adds, f
<1> QED BY <1>1, <1>2

(* What is appended goes behind the cells there.                           *)
LEMMA AppendCellAdds ==
  ASSUME NEW e, Sound(e), ~e.dummy, NEW payload \in 0..BodySize
  PROVE  /\ Adds(e, AppendCell(e, payload))
         /\ AppendCell(e, payload).wire = e.wire
         /\ AppendCell(e, payload).attempts = e.attempts
<1> DEFINE d == CheckCellFlags(e)
           cell == [data |-> payload, flags |-> e.need]
           f == AppendCell(e, payload)
<1>1. d \in Endpoint /\ SameButStatus(e, d)
  BY CheckCellFlagsSound DEF Sound
<1>2. f = [d EXCEPT !.cells = Append(e.cells, cell),
                    !.outlen = e.outlen + CellSize, !.need = {}]
  BY DEF AppendCell
<1>3. cell \in Cell /\ e.cells \in Seq(Cell)
  BY DEF Cell, Sound, Endpoint
<1>4. Sound(f) /\ f.cells = Append(e.cells, cell) /\ f.dummy = e.dummy
      /\ f.sent = e.sent
  BY AppendCellSound
<1> HIDE DEF d, cell, f
<1>5. f.wire = e.wire /\ f.attempts = e.attempts
  BY <1>1, <1>2 DEF Endpoint, SameButStatus, SameOutbuf
<1>6. /\ Len(f.cells) = Len(e.cells) + 1 /\ Len(e.cells) \in Nat
      /\ \A i \in 1..Len(e.cells) : f.cells[i] = e.cells[i]
  BY <1>3, <1>4, AppendProperties, LenProperties
<1>7. Len(e.cells) <= Len(f.cells) - (IF f.dummy THEN 1 ELSE 0)
  BY <1>4, <1>6
<1> QED BY <1>4, <1>5, <1>6, <1>7, LongerAdds DEF f

(* A data cell takes the place of a dummy or goes behind the cells there.*)
LEMMA AddDataCellAdds ==
  ASSUME NEW e, Sound(e), e.spdy > 0
  PROVE  Adds(e, AddDataCell(e))
<1> DEFINE p == Lesser(BodySize, e.spdy)
           w == DropWholeDummy(e)
           a == AppendCell(w, p)
           d == [a EXCEPT !.spdy = e.spdy - p]
           c == [d EXCEPT !.added = e.added + 1]
           f == AddDataCell(e)
<1>1. e \in Endpoint /\ e.spdy \in Nat /\ e.added \in Nat
  BY DEF Sound, Endpoint
<1>2. p \in 0..BodySize /\ e.spdy - p \in Nat /\ e.added + 1 \in Nat
  BY <1>1, CellAssumption DEF Lesser
<1>3. f = IF e.state = "PENDING" THEN Check(c, e.added = 0, "pending_one_cell") ELSE d
  BY DEF AddDataCell
<1>4. Sound(f)
  BY AddDataCellSound
<1> HIDE DEF p, f
<1>5. Sound(w) /\ ~w.dummy /\ Adds(e, w)
  BY DropWholeDummySound, DropWholeDummyAdds
<1> HIDE DEF w
<1>6. Sound(a) /\ Adds(w, a)
  BY <1>2, <1>5, AppendCellSound, AppendCellAdds
<1> HIDE DEF a
<1>7. d \in Endpoint /\ SameOutbuf(a, d) /\ d.wire = a.wire /\ d.attempts = a.attempts
  <2>1. a \in Endpoint
    BY <1>6 DEF Sound
  <2> QED BY <1>2, <2>1 DEF Endpoint, SameOutbuf
<1> HIDE DEF d
<1>8. c \in Endpoint /\ SameOutbuf(d, c) /\ c.wire = d.wire /\ c.attempts = d.attempts
  BY <1>2, <1>7 DEF Endpoint, SameOutbuf
<1> HIDE DEF c
<1>9. Sound(d) /\ Sound(c)
  BY <1>6, <1>7, <1>8, SoundFrame
<1>10. Adds(a, d) /\ Adds(d, c)
  BY <1>6, <1>7, <1>8, <1>9, AddsFrame
<1>11. Adds(e, d) /\ Adds(e, c)
  <2>1. Adds(e, a)
    BY <1>5, <1>6, AddsOn
  <2>2. Adds(e, d)
    BY <1>6, <1>9, <1>10, <2>1, AddsOn
  <2> QED BY <1>9, <1>10, <2>2, AddsOn
<1>12. "pending_one_cell" \in CheckName /\ (e.added = 0) \in BOOLEAN
  BY DEF CheckName
<1>13. Adds(c, Check(c, e.added = 0, "pending_one_cell"))
       /\ Sound(Check(c, e.added = 0, "pending_one_cell"))
  BY <1>9, <1>12, CheckSound, CheckAdds
<1>14. Adds(e, Check(c, e.added = 0, "pending_one_cell"))
  BY <1>9, <1>11, <1>13, AddsOn
<1> QED BY <1>3, <1>11, <1>14 DEF f

(* A dummy may be dropped again, but what was there before it stays.       *)
LEMMA AddDummyCellAdds ==
  ASSUME NEW e, Sound(e), ~e.dummy
  PROVE  Adds(e, AddDummyCell(e))
<1> DEFINE a == AppendCell(e, 0)
           f == [a EXCEPT !.dummy = (e.need = {})]
           cell == [data |-> 0, flags |-> e.need]
<1>1. e \in Endpoint /\ 0 \in 0..BodySize
  BY CellAssumption DEF Sound
<1>2. /\ Sound(a) /\ a.cells = Append(e.cells, cell) /\ a.sent = e.sent
      /\ Adds(e, a)
  BY <1>1, AppendCellSound, AppendCellAdds
<1> HIDE DEF a
<1>3. AddDummyCell(e) = f
  BY DEF AddDummyCell, a
<1>4. /\ f.cells = a.cells /\ f.sent = a.sent /\ f.wire = a.wire
      /\ f.attempts = a.attempts /\ f.dummy \in BOOLEAN
  BY <1>2 DEF Sound, Endpoint
<1>5. Sound(f)
  BY <1>3, AddDummyCellSound
<1> HIDE DEF f
<1>6. cell \in Cell /\ e.cells \in Seq(Cell)
  BY <1>1 DEF Cell, Endpoint
<1> HIDE DEF cell
<1>7. /\ Len(f.cells) = Len(e.cells) + 1 /\ Len(e.cells) \in Nat
      /\ \A i \in 1..Len(e.cells) : f.cells[i] = e.cells[i]
  BY <1>2, <1>4, <1>6, AppendProperties, LenProperties
<1>8. Len(e.cells) <= Len(f.cells) - (IF f.dummy THEN 1 ELSE 0)
  <2>1. CASE f.dummy
    BY <1>7, <2>1
  <2>2. CASE ~f.dummy
    BY <1>7, <2>2
  <2> QED BY <2>1, <2>2
<1>9. f.wire = e.wire /\ f.sent = e.sent /\ f.attempts = e.attempts
  BY <1>2, <1>4 DEF Adds
<1> QED BY <1>3, <1>5, <1>7, <1>8, <1>9, LongerAdds

(* A tick that has nothing to send adds one cell.                        *)
LEMMA FillOutbufAdds ==
  ASSUME NEW e, Sound(e)
  PROVE  Adds(e, FillOutbuf(e))
<1> DEFINE c == Check(e, e.outlen < CellSize, "ensure_dummy_room")
<1>1. "ensure_dummy_room" \in CheckName /\ (e.outlen < CellSize) \in BOOLEAN
  BY DEF CheckName
<1>2. Sound(c) /\ SameButStatus(e, c)
  BY <1>1, CheckSound
<1>3. Adds(e, e)
  BY AddsFrame DEF SameOutbuf
<1>4. e.spdy > 0 => Adds(e, AddDataCell(e))
  BY AddDataCellAdds
<1>5. Adds(e, EnsureWholeDummy(e))
  <2>1. CASE e.dummy
    BY <1>3, <2>1 DEF EnsureWholeDummy
  <2>2. CASE ~e.dummy
    <3>1. EnsureWholeDummy(e) = AddDummyCell(c)
      BY <2>2 DEF EnsureWholeDummy
    <3> HIDE DEF c
    <3>2. ~c.dummy
      BY <1>2, <2>2 DEF SameButStatus, SameOutbuf
    <3>3. Adds(c, AddDummyCell(c)) /\ Sound(AddDummyCell(c))
      BY <1>2, <3>2, AddDummyCellAdds, AddDummyCellSound
    <3> QED BY <1>2, <3>1, <3>3, CheckAdds, AddsOn
  <2> QED BY <2>1, <2>2
<1> QED BY <1>3, <1>4, <1>5 DEF FillOutbuf

(* A flush puts all its cells behind those there.                          *)
LEMMA FlushDataAdds ==
  ASSUME NEW e, Sound(e)
  PROVE  Adds(e, FlushData(e))
<1>0. e.spdy \in Nat /\ e \in Endpoint
  BY DEF Sound, Endpoint
<1>1. CASE e.spdy = 0
  BY <1>1, AddsFrame DEF FlushData, SameOutbuf
<1>2. CASE e.spdy # 0
  <2> DEFINE d  == DropWholeDummy(e)
             c  == CheckCellFlags(d)
             fs == FlushCells(e)
             f  == [c EXCEPT !.cells = d.cells \o fs,
                             !.outlen = d.outlen + CellSize * Len(fs),
                             !.spdy = 0, !.need = {}]
  <2>1. FlushData(e) = f
    BY <1>2 DEF FlushData
  <2>2. Sound(f)
    BY <2>1, FlushDataSound
  <2>3. Sound(d) /\ ~d.dummy /\ Adds(e, d)
    BY DropWholeDummySound, DropWholeDummyAdds
  <2> HIDE DEF d
  <2>4. c \in Endpoint /\ SameButStatus(d, c)
    BY <2>3, CheckCellFlagsSound DEF Sound
  <2> HIDE DEF c
  <2>5. fs \in Seq(Cell) /\ d.cells \in Seq(Cell)
    <3>1. e.spdy > 0
      BY <1>0, <1>2
    <3>2. fs \in Seq(Cell)
      BY <1>0, <3>1, FlushCellsTyped
    <3> HIDE DEF fs
    <3> QED BY <2>3, <3>2 DEF Sound, Endpoint
  <2> HIDE DEF fs
  <2>6. /\ f.cells = d.cells \o fs /\ f.sent = d.sent /\ ~f.dummy
        /\ f.wire = d.wire /\ f.attempts = d.attempts
    BY <2>3, <2>4 DEF Endpoint, SameButStatus, SameOutbuf
  <2> HIDE DEF f
  <2>7. /\ Len(f.cells) = Len(d.cells) + Len(fs)
        /\ Len(d.cells) \in Nat /\ Len(fs) \in Nat
        /\ \A i \in 1..Len(d.cells) : f.cells[i] = d.cells[i]
    BY <2>5, <2>6, ConcatProperties, LenProperties
  <2>8. Len(d.cells) <= Len(f.cells) - (IF f.dummy THEN 1 ELSE 0)
    BY <2>6, <2>7
  <2>9. Adds(d, f)
    BY <2>2, <2>3, <2>6, <2>7, <2>8, LongerAdds
  <2> QED BY <2>1, <2>2, <2>3, <2>9, AddsOn
<1> QED BY <1>1, <1>2

(* Adding the write event adds nothing to the stream.                    *)
LEMMA EnableWriteAdds ==
  ASSUME NEW e, Sound(e)
  PROVE  Adds(e, EnableWrite(e)) /\ SameOutbuf(e, EnableWrite(e))
<1> DEFINE c == Check(e, e.state # "ACTIVE", "write_event_while_active")
           f == EnableWrite(e)
<1>1. "write_event_while_active" \in CheckName /\ (e.state # "ACTIVE") \in BOOLEAN
  BY DEF CheckName
<1>2. SameButStatus(e, c) /\ c \in Endpoint
  BY <1>1, CheckSound DEF Sound
<1>3. f = [c EXCEPT !.wev = TRUE]
  BY DEF EnableWrite
<1> HIDE DEF c, f
<1>4. SameOutbuf(e, f) /\ f.wire = e.wire /\ f.attempts = e.attempts
  BY <1>2, <1>3 DEF Endpoint, SameButStatus, SameOutbuf
<1> QED BY <1>4, AddsFrame DEF f

(* A pump adds cells, and in an active defense only bytes waiting for one. *)
LEMMA PumpSendAdds ==
  ASSUME NEW e, Sound(e), NEW k \in Nat
  PROVE  /\ Adds(e, PumpSend(e, k))
         /\ e.state = "ACTIVE" => PumpSend(e, k).outlen = e.outlen
<1> DEFINE d == [e EXCEPT !.spdy = e.spdy + k]
           f == FlushData(d)
           x == Check(d, FALSE, "pending_pump_adds")
<1>1. e \in Endpoint /\ e.spdy + k \in Nat
  BY DEF Sound, Endpoint
<1>2. d \in Endpoint /\ SameOutbuf(e, d) /\ d.wire = e.wire /\ d.attempts = e.attempts
  BY <1>1 DEF Endpoint, SameOutbuf
<1> HIDE DEF d
<1>3. Sound(d) /\ Adds(e, d)
  BY <1>2, SoundFrame, AddsFrame
<1>4. CASE e.state = "NONE"
  <2>1. PumpSend(e, k) = IF f.outlen > 0 THEN EnableWrite(f) ELSE f
    BY <1>4 DEF PumpSend, d
  <2>2. Sound(f) /\ Adds(d, f)
    BY <1>3, FlushDataSound, FlushDataAdds
  <2> HIDE DEF f
  <2>3. Adds(e, f)
    BY <1>3, <2>2, AddsOn
  <2>4. Sound(EnableWrite(f)) /\ Adds(f, EnableWrite(f))
    BY <2>2, EnableWriteSound, EnableWriteAdds
  <2>5. Adds(e, EnableWrite(f))
    BY <2>2, <2>3, <2>4, AddsOn
  <2> QED BY <1>4, <2>1, <2>3, <2>5
<1>5. CASE e.state = "PENDING"
  <2> DEFINE g == IF d.spdy > 0 THEN AddDataCell(d) ELSE x
  <2>1. PumpSend(e, k) = EnableWrite(g)
    BY <1>5 DEF PumpSend, d
  <2>2. d.spdy > 0 => Sound(AddDataCell(d)) /\ Adds(d, AddDataCell(d))
    BY <1>3, AddDataCellSound, AddDataCellAdds
  <2>3. "pending_pump_adds" \in CheckName
    BY DEF CheckName
  <2>4. Sound(x) /\ Adds(d, x)
    BY <1>3, <2>3, CheckSound, CheckAdds
  <2> HIDE DEF x
  <2>5. Sound(g) /\ Adds(d, g)
    BY <2>2, <2>4
  <2> HIDE DEF g
  <2>6. Sound(EnableWrite(g)) /\ Adds(g, EnableWrite(g))
    BY <2>5, EnableWriteSound, EnableWriteAdds
  <2>7. Adds(e, g)
    BY <1>3, <2>5, AddsOn
  <2>8. Adds(e, EnableWrite(g))
    BY <2>5, <2>6, <2>7, AddsOn
  <2> QED BY <1>5, <2>1, <2>8
<1>6. CASE e.state \notin {"NONE", "PENDING"}
  <2>1. PumpSend(e, k) = d
    BY <1>6 DEF PumpSend, d
  <2> QED BY <1>2, <1>3, <2>1 DEF SameOutbuf
<1> QED BY <1>4, <1>5, <1>6

(* Counting written bytes moves whole cells from the outbuf to the wire    *)
(* and changes neither the cells nor their order; what an observer has     *)
(* seen grows by these bytes.                                              *)
LEMMA ProgressMoves ==
  ASSUME NEW e \in Endpoint, NEW n \in Nat,
         e.sent < CellSize,
         e.outlen = CellSize * Len(e.cells) - (e.sent + n)
  PROVE  LET f == Progress(e, n)
         IN  /\ f.wire \o f.cells = e.wire \o e.cells
             /\ BytesOut(f) = BytesOut(e) + n
             /\ f.attempts = e.attempts
<1> DEFINE f == Progress(e, n)
           v == Len(e.wire)
<1>1. PICK w \in Nat, r \in Nat :
        /\ e.sent + n = CellSize * w + r
        /\ f.sent = r /\ Len(f.wire) = Len(e.wire) + w
        /\ f.wire \o f.cells = e.wire \o e.cells
        /\ f.attempts = e.attempts
  BY ProgressKeepsLine, ZenonT(30)
<1> HIDE DEF f
<1>2. v \in Nat /\ e.sent \in Nat /\ CellSize \in Nat
  BY CellAssumption, LenProperties DEF Endpoint
<1>3. Len(f.wire) = v + w
  BY <1>1
<1> HIDE DEF v
<1>4. CellSize * (v + w) = CellSize * v + CellSize * w
  BY <1>1, <1>2, MulDist
<1> DEFINE a == CellSize * v
           b == CellSize * w
           s == e.sent
<1>5. a \in Nat /\ b \in Nat /\ s \in Nat /\ s + n = b + r
  BY <1>1, <1>2
<1>6. BytesOut(f) = (a + b) + r
  BY <1>1, <1>3, <1>4 DEF BytesOut
<1>7. BytesOut(e) = a + s
  BY DEF BytesOut, v
<1> HIDE DEF a, b, s
<1>8. (a + b) + r = (a + s) + n
  BY <1>1, <1>5
<1> QED BY <1>1, <1>6, <1>7, <1>8 DEF f

(* What leads behind the same cells leads.                                 *)
LEMMA JoinLeads ==
  ASSUME NEW w \in Seq(Cell), NEW a \in Seq(Cell), NEW b \in Seq(Cell),
         Leads(a, b)
  PROVE  /\ Leads(w \o a, w \o b)
         /\ w \o a \in Seq(Cell) /\ Len(w \o a) = Len(w) + Len(a)
         /\ w \o b \in Seq(Cell) /\ Len(w \o b) = Len(w) + Len(b)
<1>1. /\ Len(w) \in Nat /\ Len(a) \in Nat /\ Len(b) \in Nat
      /\ Len(w \o a) = Len(w) + Len(a) /\ Len(w \o b) = Len(w) + Len(b)
      /\ \A i \in 1..(Len(w) + Len(a)) :
           (w \o a)[i] = IF i <= Len(w) THEN w[i] ELSE a[i - Len(w)]
      /\ \A i \in 1..(Len(w) + Len(b)) :
           (w \o b)[i] = IF i <= Len(w) THEN w[i] ELSE b[i - Len(w)]
      /\ w \o a \in Seq(Cell) /\ w \o b \in Seq(Cell)
  BY ConcatProperties, LenProperties
<1>2. Len(a) <= Len(b) /\ \A i \in 1..Len(a) : a[i] = b[i]
  BY DEF Leads
<1>3. ASSUME NEW i \in 1..(Len(w) + Len(a))  PROVE (w \o a)[i] = (w \o b)[i]
  <2>1. i \in 1..(Len(w) + Len(b))
    BY <1>1, <1>2
  <2>2. CASE i <= Len(w)
    BY <1>1, <2>1, <2>2
  <2>3. CASE ~(i <= Len(w))
    <3>1. i - Len(w) \in 1..Len(a)
      BY <1>1, <2>3
    <3> QED BY <1>1, <1>2, <2>1, <2>3, <3>1
  <2> QED BY <2>2, <2>3
<1>4. Leads(w \o a, w \o b)
  BY <1>1, <1>2, <1>3 DEF Leads
<1> QED BY <1>1, <1>4

(* The committed stream is the wire and the firm cells behind it.          *)
LEMMA CommittedCells ==
  ASSUME NEW e, Sound(e)
  PROVE  /\ Committed(e) = e.wire \o Firm(e)
         /\ Committed(e) \in Seq(Cell) /\ e.wire \in Seq(Cell)
         /\ e.wire \o e.cells \in Seq(Cell)
         /\ Len(Committed(e)) = Len(e.wire \o e.cells) - (IF e.dummy THEN 1 ELSE 0)
         /\ Leads(Committed(e), e.wire \o e.cells)
<1> DEFINE w == e.wire
           a == Firm(e)
           b == e.cells
<1>1. Committed(e) = w \o a
  BY DEF Committed, Firm
<1>2. /\ a \in Seq(Cell) /\ b \in Seq(Cell) /\ w \in Seq(Cell)
      /\ Len(a) = IF e.dummy THEN Len(b) - 1 ELSE Len(b)
      /\ \A i \in 1..Len(a) : a[i] = b[i]
  BY FirmCells DEF Sound, Endpoint
<1> HIDE DEF w, a, b
<1>3. Len(a) \in Nat /\ Len(b) \in Nat /\ Len(w) \in Nat
  BY <1>2, LenProperties
<1>4. Len(a) <= Len(b)
  <2>1. CASE e.dummy
    BY <1>2, <1>3, <2>1
  <2>2. CASE ~e.dummy
    BY <1>2, <1>3, <2>2
  <2> QED BY <2>1, <2>2
<1>5. Leads(a, b)
  BY <1>2, <1>4 DEF Leads
<1>6. /\ Leads(w \o a, w \o b)
      /\ w \o a \in Seq(Cell) /\ Len(w \o a) = Len(w) + Len(a)
      /\ w \o b \in Seq(Cell) /\ Len(w \o b) = Len(w) + Len(b)
  BY <1>2, <1>5, JoinLeads
<1>7. Len(w \o a) = Len(w \o b) - (IF e.dummy THEN 1 ELSE 0)
  <2>1. CASE e.dummy
    BY <1>2, <1>3, <1>6, <2>1
  <2>2. CASE ~e.dummy
    BY <1>2, <1>3, <1>6, <2>2
  <2> QED BY <2>1, <2>2
<1>8. w \o a = e.wire \o Firm(e) /\ w \o b = e.wire \o e.cells /\ w = e.wire
  BY DEF w, a, b
<1> QED BY <1>1, <1>2, <1>6, <1>7, <1>8

(* A handler that led from e to f has only added to the stream.            *)
Grows(e, f) == Leads(Committed(e), Committed(f))

(* Cells added behind the firm ones are added to the stream.             *)
LEMMA QuietGrows ==
  ASSUME NEW e, NEW f, Sound(e), Sound(f), Quiet(e, f)
  PROVE  Grows(e, f) /\ BytesOut(f) = BytesOut(e)
<1> DEFINE a == Firm(e)
           b == Firm(f)
           w == e.wire
<1>1. /\ Committed(e) = w \o a /\ w \in Seq(Cell)
      /\ Committed(f) = w \o b /\ a \in Seq(Cell) /\ b \in Seq(Cell)
  BY FirmCells, CommittedCells DEF Quiet
<1>2. Leads(a, b)
  BY DEF Quiet
<1> HIDE DEF a, b, w
<1>3. Leads(w \o a, w \o b)
  BY <1>1, <1>2, JoinLeads
<1> QED BY <1>1, <1>3 DEF Grows, BytesOut, Quiet

(* Moving cells to the wire adds to the stream at most the dummy.          *)
LEMMA MovedGrows ==
  ASSUME NEW e, NEW f, Sound(e), Sound(f),
         f.wire \o f.cells = e.wire \o e.cells, f.dummy => e.dummy
  PROVE  Grows(e, f)
<1> DEFINE all == e.wire \o e.cells
<1>1. /\ Committed(e) \in Seq(Cell) /\ Committed(f) \in Seq(Cell)
      /\ Len(Committed(e)) = Len(all) - (IF e.dummy THEN 1 ELSE 0)
      /\ Len(Committed(f)) = Len(all) - (IF f.dummy THEN 1 ELSE 0)
      /\ \A i \in 1..Len(Committed(e)) : Committed(e)[i] = all[i]
      /\ \A i \in 1..Len(Committed(f)) : Committed(f)[i] = all[i]
      /\ all \in Seq(Cell)
  BY CommittedCells DEF Leads
<1> HIDE DEF all
<1>2. Len(all) \in Nat /\ Len(Committed(e)) \in Nat /\ Len(Committed(f)) \in Nat
  BY <1>1, LenProperties
<1>3. Len(Committed(e)) <= Len(Committed(f))
  <2>1. CASE e.dummy /\ f.dummy
    BY <1>1, <1>2, <2>1
  <2>2. CASE e.dummy /\ ~f.dummy
    BY <1>1, <1>2, <2>2
  <2>3. CASE ~e.dummy /\ ~f.dummy
    BY <1>1, <1>2, <2>3
  <2> QED BY <2>1, <2>2, <2>3
<1>4. ASSUME NEW i \in 1..Len(Committed(e))
      PROVE  Committed(e)[i] = Committed(f)[i]
  <2>1. i \in 1..Len(Committed(f))
    BY <1>2, <1>3
  <2> QED BY <1>1, <2>1
<1> QED BY <1>3, <1>4 DEF Leads, Grows

(* The stream grows step by step.                                        *)
LEMMA GrowsOn ==
  ASSUME NEW e, NEW f, NEW g, Sound(e), Sound(f), Sound(g),
         Grows(e, f), Grows(f, g)
  PROVE  Grows(e, g)
<1>1. /\ Committed(e) \in Seq(Cell) /\ Committed(f) \in Seq(Cell)
      /\ Committed(g) \in Seq(Cell)
  BY CommittedCells
<1> QED BY <1>1, LeadsOn DEF Grows

(* What an observer, and the backlog of cells, may see of one handler.     *)
Paces(e, f) ==
  /\ Grows(e, f)
  /\ e.state = "ACTIVE" /\ BytesOut(f) > BytesOut(e)
       => /\ BytesOut(f) <= BytesOut(e) + CellSize
          /\ f.state = "ACTIVE" /\ f.attempts = (e.attempts + 1) % L
  /\ e.state = "ACTIVE" /\ f.state = "ACTIVE"
       => f.outlen < 2 * CellSize \/ f.outlen <= e.outlen

(* The counts of bytes are natural numbers.                              *)
LEMMA BytesOutNat ==
  ASSUME NEW e \in Endpoint
  PROVE  BytesOut(e) \in Nat /\ e.outlen \in Nat
<1> DEFINE v == Len(e.wire)
<1>1. v \in Nat /\ e.sent \in Nat /\ e.outlen \in Nat
  BY LenProperties DEF Endpoint
<1> HIDE DEF v
<1>2. CellSize * v \in Nat
  BY <1>1, CellAssumption
<1> QED BY <1>1, <1>2 DEF BytesOut, v

(* A handler that writes nothing paces, if it leaves the backlog alone or  *)
(* ends the defense.                                                       *)
LEMMA QuietPaces ==
  ASSUME NEW e, NEW f, Sound(e), Sound(f), Quiet(e, f),
         e.state = "ACTIVE" /\ f.state = "ACTIVE" => f.outlen = e.outlen
  PROVE  Paces(e, f)
<1>1. Grows(e, f) /\ BytesOut(f) = BytesOut(e)
  BY QuietGrows
<1>2. BytesOut(e) \in Nat /\ e.outlen \in Nat
  BY BytesOutNat DEF Sound
<1> HIDE DEF BytesOut
<1>3. ~(BytesOut(f) > BytesOut(e))
  BY <1>1, <1>2
<1>4. e.state = "ACTIVE" /\ f.state = "ACTIVE" => f.outlen <= e.outlen
  BY <1>2
<1> QED BY <1>1, <1>3, <1>4 DEF Paces

(* A write of an active defense is one attempt and moves cells to the wire. *)
LEMMA SendOneCellMoves ==
  ASSUME NEW e, Sound(e), NEW n \in 0..e.outlen
  PROVE  LET f == SendOneCell(e, n)
         IN  /\ Sound(f) /\ Grows(e, f)
             /\ BytesOut(f) = BytesOut(e) + n
             /\ f.state = e.state /\ f.attempts = (e.attempts + 1) % L
             /\ f.outlen <= e.outlen
<1> DEFINE f == SendOneCell(e, n)
<1>1. e \in Endpoint /\ e.outlen \in Nat /\ CellSize \in Nat
  BY CellAssumption DEF Sound, Endpoint
<1>2. n \in Nat
  BY <1>1
<1>3. Sound(f)
  BY SendOneCellSound
<1>4. PICK d \in Endpoint :
        /\ f = Progress(d, n)
        /\ d.outlen = e.outlen - n /\ d.cells = e.cells /\ d.sent = e.sent
        /\ d.dummy = (e.dummy /\ e.outlen - n >= CellSize)
        /\ d.wire = e.wire /\ d.state = e.state
        /\ d.attempts = (e.attempts + 1) % L
        /\ d.outlen = CellSize * Len(d.cells) - (d.sent + n)
        /\ d.sent < CellSize
  BY SendOneCellTakes
<1> HIDE DEF f
<1>5. /\ f.wire \o f.cells = d.wire \o d.cells
      /\ BytesOut(f) = BytesOut(d) + n /\ f.attempts = d.attempts
  BY <1>2, <1>4, ProgressMoves
<1>6. f.outlen = d.outlen /\ f.dummy = d.dummy /\ f.state = d.state
  BY <1>2, <1>4, ProgressBalanced
<1>7. Grows(e, f)
  <2>1. f.wire \o f.cells = e.wire \o e.cells
    BY <1>4, <1>5
  <2>2. f.dummy => e.dummy
    BY <1>4, <1>6
  <2> QED BY <1>3, <2>1, <2>2, MovedGrows
<1>8. BytesOut(d) = BytesOut(e) /\ BytesOut(e) \in Nat
  BY <1>1, <1>4, BytesOutNat DEF BytesOut
<1>9. BytesOut(f) = BytesOut(e) + n
  BY <1>5, <1>8
<1>10. f.outlen <= e.outlen
  BY <1>1, <1>2, <1>4, <1>6
<1> QED BY <1>3, <1>4, <1>5, <1>6, <1>7, <1>9, <1>10 DEF f

(* With no defense on, a write moves cells to the wire.                    *)
LEMMA SendAllGrows ==
  ASSUME NEW e, Sound(e), NEW n \in 0..IdleAmount(e)
  PROVE  Grows(e, SendAll(e, n))
<1> DEFINE f == SendAll(e, n)
<1>0. n \in Nat
  BY DEF IdleAmount, Sound, Endpoint
<1>1. Sound(f)
  BY SendAllSound
<1>2. PICK d \in Endpoint :
        /\ f = Progress(d, n)
        /\ d.cells = Firm(e) /\ ~d.dummy
        /\ d.wire = e.wire /\ d.sent = e.sent
        /\ d.outlen = CellSize * Len(d.cells) - (d.sent + n)
        /\ d.sent < CellSize
  BY SendAllTakes
<1> HIDE DEF f
<1>3. f.wire \o f.cells = d.wire \o d.cells /\ f.dummy = d.dummy
  BY <1>0, <1>2, ProgressMoves, ProgressBalanced
<1>4. Committed(f) = f.wire \o f.cells
  BY <1>2, <1>3 DEF Committed
<1>5. Committed(e) = e.wire \o Firm(e) /\ Committed(e) \in Seq(Cell)
  BY CommittedCells
<1>6. Committed(f) = Committed(e)
  BY <1>2, <1>3, <1>4, <1>5
<1>7. Leads(Committed(e), Committed(e))
  BY <1>5, LeadsItself
<1> QED BY <1>6, <1>7 DEF Grows, f

(***************************************************************************)
(* Starting and stopping leaves the stream alone.                          *)
(***************************************************************************)
Still(e, f) == SameOutbuf(e, f) /\ f.wire = e.wire

(* A CHECK leaves the stream and the state of the defense alone.         *)
LEMMA CheckStill ==
  ASSUME NEW e, Sound(e), NEW ok \in BOOLEAN, NEW name \in CheckName
  PROVE  LET f == Check(e, ok, name)
         IN  Sound(f) /\ f \in Endpoint /\ Still(e, f) /\ f.state = e.state
BY CheckSound DEF SameButStatus, Still, Sound

(* defense_info_.reset() leaves the stream alone.                        *)
LEMMA ResetDefenseStill ==
  ASSUME NEW e, Sound(e)
  PROVE  Still(e, ResetDefense(e))
BY DEF ResetDefense, Sound, Endpoint, Still, SameOutbuf

(* start_defense_session leaves the stream alone.                        *)
LEMMA StartDefenseStill ==
  ASSUME NEW e, Sound(e)
  PROVE  Still(e, StartDefense(e))
<1> DEFINE ok1 == e.state = "NONE"
           ok2 == ~e.timer
           c1 == Check(e, ok1, "start_when_none")
           c2 == Check(c1, ok2, "timer_already_running")
           f == DisableWrite([c2 EXCEPT !.timer = TRUE, !.state = "ACTIVE",
                                        !.doneRecv = FALSE])
<1>1. /\ "start_when_none" \in CheckName /\ "timer_already_running" \in CheckName
      /\ ok1 \in BOOLEAN /\ ok2 \in BOOLEAN
  BY DEF CheckName
<1>2. StartDefense(e) = f
  BY DEF StartDefense
<1> HIDE DEF ok1, ok2
<1>3. Sound(c1) /\ Still(e, c1)
  BY <1>1, CheckStill
<1> HIDE DEF c1
<1>4. c2 \in Endpoint /\ Still(c1, c2)
  BY <1>1, <1>3, CheckStill
<1> HIDE DEF c2
<1>5. Still(c2, f)
  BY <1>4 DEF DisableWrite, Endpoint, Still, SameOutbuf
<1> HIDE DEF f
<1> QED BY <1>2, <1>3, <1>4, <1>5 DEF Still, SameOutbuf

(* set_auto_start_defense_session_on_next_send leaves it alone.          *)
LEMMA SetAutoStartStill ==
  ASSUME NEW e, Sound(e)
  PROVE  Still(e, SetAutoStart(e)) /\ SetAutoStart(e).state = "PENDING"
<1> DEFINE ok1 == e.state = "NONE"
           ok2 == e.role = "CSP"
           ok3 == e.spdy = 0
           ok4 == e.outlen = 0
           ok5 == "START" \notin e.need
           c1 == Check(e, ok1, "autostart_when_none")
           c2 == Check(c1, ok2, "autostart_client")
           c3 == Check(c2, ok3, "autostart_no_data")
           c4 == Check(c3, ok4, "autostart_no_cells")
           c5 == Check(c4, ok5, "autostart_flag_clear")
           f == [c5 EXCEPT !.state = "PENDING", !.need = e.need \cup {"START"}]
<1>1. /\ ok1 \in BOOLEAN /\ ok2 \in BOOLEAN /\ ok3 \in BOOLEAN
      /\ ok4 \in BOOLEAN /\ ok5 \in BOOLEAN
      /\ {"autostart_when_none", "autostart_client", "autostart_no_data",
          "autostart_no_cells", "autostart_flag_clear"} \subseteq CheckName
  BY DEF CheckName
<1>2. SetAutoStart(e) = f
  BY DEF SetAutoStart
<1> HIDE DEF ok1, ok2, ok3, ok4, ok5
<1>3. Sound(c1) /\ Still(e, c1)
  BY <1>1, CheckStill
<1> HIDE DEF c1
<1>4. Sound(c2) /\ Still(c1, c2)
  BY <1>1, <1>3, CheckStill
<1> HIDE DEF c2
<1>5. Sound(c3) /\ Still(c2, c3)
  BY <1>1, <1>4, CheckStill
<1> HIDE DEF c3
<1>6. Sound(c4) /\ Still(c3, c4)
  BY <1>1, <1>5, CheckStill
<1> HIDE DEF c4
<1>7. c5 \in Endpoint /\ Still(c4, c5)
  BY <1>1, <1>6, CheckStill
<1> HIDE DEF c5
<1>8. Still(c5, f) /\ f.state = "PENDING"
  BY <1>7 DEF Endpoint, Still, SameOutbuf
<1> HIDE DEF f
<1> QED BY <1>2, <1>3, <1>4, <1>5, <1>6, <1>7, <1>8 DEF Still, SameOutbuf

(* stop_defense_session leaves it alone.                                 *)
LEMMA StopDefenseStill ==
  ASSUME NEW e, Sound(e)
  PROVE  Still(e, StopDefense(e))
<1> DEFINE ok == ~e.stop
           c == Check(e, ok, "stop_requested_once")
           f == [c EXCEPT !.stop = TRUE,
                          !.need = (e.need \ {"START"}) \cup
                                     (IF e.role = "CSP" THEN {"STOP"} ELSE {})]
<1>1. CASE e.state # "ACTIVE"
  BY <1>1, ResetDefenseStill DEF StopDefense
<1>2. CASE e.state = "ACTIVE"
  <2>1. "stop_requested_once" \in CheckName /\ ok \in BOOLEAN
    BY DEF CheckName
  <2>2. StopDefense(e) = f
    BY <1>2 DEF StopDefense
  <2> HIDE DEF ok
  <2>3. c \in Endpoint /\ Still(e, c)
    BY <2>1, CheckStill
  <2> HIDE DEF c
  <2>4. Still(c, f)
    BY <2>3 DEF Endpoint, Still, SameOutbuf
  <2> HIDE DEF f
  <2> QED BY <2>2, <2>3, <2>4 DEF Still, SameOutbuf
<1> QED BY <1>1, <1>2

(* So does a notification, which leaves the defense as it is.            *)
LEMMA NotifyIfDoneStill ==
  ASSUME NEW e, Sound(e)
  PROVE  Still(e, NotifyIfDone(e)) /\ NotifyIfDone(e).state = e.state
<1> DEFINE f == [e EXCEPT !.notified = TRUE]
<1>1. Still(e, f) /\ f.state = e.state /\ Still(e, e)
  BY DEF Sound, Endpoint, Still, SameOutbuf
<1> QED BY <1>1 DEF NotifyIfDone

(* The flags of a cell leave the stream alone, in any combination.       *)
LEMMA HandleFlagsStill ==
  ASSUME NEW e, Sound(e), NEW flags \in SUBSET Flag
  PROVE  Still(e, HandleFlags(e, flags))
<1> DEFINE auto  == "AUTO_STOPPED" \in flags
           ok1 == auto => e.role = "CSP"
           c1 == Check(e, ok1, "client_flag_seen")
           again == auto /\ e.state = "ACTIVE" /\ ~e.stop
           ok2 == again => "START" \notin e.need
           c2 == Check(c1, ok2, "restart_flag_clear")
           w  == [c2 EXCEPT !.need = e.need \cup {"START"}]
           a  == IF again THEN w ELSE c2
           ok3 == ~({"START", "STOP"} \subseteq flags)
           c3 == Check(a, ok3, "start_and_stop")
           ok4 == flags \cap {"START", "STOP"} # {} => e.role = "SSP"
           c4 == Check(c3, ok4, "server_flag_seen")
           s  == IF "START" \in flags THEN StartDefense(c4) ELSE c4
           f  == IF "STOP" \in flags THEN StopDefense(s) ELSE s
<1>1. HandleFlags(e, flags) = f
  BY DEF HandleFlags
<1>2. /\ {"client_flag_seen", "restart_flag_clear", "start_and_stop",
          "server_flag_seen"} \subseteq CheckName
      /\ ok1 \in BOOLEAN /\ ok2 \in BOOLEAN /\ ok3 \in BOOLEAN /\ ok4 \in BOOLEAN
  BY DEF CheckName
<1>3. e.need \cup {"START"} \in SUBSET Flag
  BY DEF Sound, Endpoint, Flag
<1> HIDE DEF ok1, ok2, ok3, ok4
<1>4. Sound(c1) /\ Still(e, c1)
  BY <1>2, CheckStill
<1> HIDE DEF c1
<1>5. Sound(c2) /\ c2 \in Endpoint /\ Still(c1, c2)
  BY <1>2, <1>4, CheckStill
<1> HIDE DEF c2
<1>6. w \in Endpoint /\ Still(c2, w)
  BY <1>3, <1>5 DEF Endpoint, SameOutbuf, Still
<1> HIDE DEF w
<1>7. Sound(a) /\ Still(c2, a)
  BY <1>5, <1>6, SoundFrame DEF Still, SameOutbuf
<1> HIDE DEF a
<1>8. Sound(c3) /\ Still(a, c3)
  BY <1>2, <1>7, CheckStill
<1> HIDE DEF c3
<1>9. Sound(c4) /\ Still(c3, c4)
  BY <1>2, <1>8, CheckStill
<1> HIDE DEF c4
<1>10. Sound(s) /\ Still(c4, s)
  BY <1>9, StartDefenseSound, StartDefenseStill DEF Still, SameOutbuf
<1> HIDE DEF s
<1>11. Still(s, f)
  BY <1>10, StopDefenseStill DEF Still, SameOutbuf
<1> HIDE DEF f
<1> QED BY <1>1, <1>4, <1>5, <1>7, <1>8, <1>9, <1>10, <1>11 DEF Still, SameOutbuf

(* The cell that carries left-over flags goes behind those there.          *)
LEMMA SendFlagsAdds ==
  ASSUME NEW e, Sound(e)
  PROVE  Adds(e, SendFlags(e)) /\ SendFlags(e).state = e.state
<1> DEFINE d == DropWholeDummy(e)
           a == AddDummyCell(d)
<1>0. Adds(e, e)
  BY AddsFrame DEF SameOutbuf
<1>1. Sound(d) /\ ~d.dummy /\ d.state = e.state /\ Adds(e, d)
  BY DropWholeDummySound, DropWholeDummyAdds
<1>2. SendFlags(e) = IF e.need = {} THEN e ELSE EnableWrite(a)
  BY DEF SendFlags
<1> HIDE DEF d
<1>3. Sound(a) /\ a.state = d.state /\ Adds(d, a)
  BY <1>1, AddDummyCellSound, AddDummyCellAdds
<1> HIDE DEF a
<1>4. Sound(EnableWrite(a)) /\ EnableWrite(a).state = a.state
      /\ Adds(a, EnableWrite(a))
  BY <1>3, EnableWriteSound, EnableWriteAdds
<1>5. Adds(e, a)
  BY <1>1, <1>3, AddsOn
<1>6. Adds(e, EnableWrite(a))
  BY <1>3, <1>4, <1>5, AddsOn
<1> QED BY <1>0, <1>1, <1>2, <1>3, <1>4, <1>6

(* Both ways to finish write nothing and leave no defense on.              *)
LEMMA FinishDefenseQuiet ==
  ASSUME NEW e, Sound(e), NEW k \in Nat
  PROVE  /\ Quiet(e, FinishDefense(e, k)) /\ FinishDefense(e, k).state = "NONE"
         /\ Quiet(e, AutoStopDefense(e, k)) /\ AutoStopDefense(e, k).state = "NONE"
<1> DEFINE need == FlagsAfterFinish(e)
           d == ResetDefense(e)
           r(flags) == [d EXCEPT !.timer = FALSE, !.need = flags]
           s(flags) == SendFlags(PumpSend(r(flags), k))
           c(flags) == Check(s(flags), s(flags).need = {}, "flag_left_behind")
<1>1. need \in SUBSET Flag /\ {"AUTO_STOPPED"} \in SUBSET Flag
  BY DEF Flag, FlagsAfterFinish
<1>2. "flag_left_behind" \in CheckName
  BY DEF CheckName
<1>3. FinishDefense(e, k) = NotifyIfDone(c(need))
  BY DEF FinishDefense
<1>4. AutoStopDefense(e, k) = c({"AUTO_STOPPED"})
  BY DEF AutoStopDefense
<1> HIDE DEF need
<1>5. ASSUME NEW flags \in SUBSET Flag
      PROVE  Sound(c(flags)) /\ Quiet(e, c(flags)) /\ c(flags).state = "NONE"
  <2> DEFINE x == r(flags)
             p == PumpSend(x, k)
             y == SendFlags(p)
             z == Check(y, y.need = {}, "flag_left_behind")
  <2>1. Sound(d) /\ d \in Endpoint /\ d.state = "NONE" /\ Still(e, d)
    BY ResetDefenseSound, ResetDefenseStill DEF Sound
  <2>2. c(flags) = z
    OBVIOUS
  <2> HIDE DEF d
  <2>3. x \in Endpoint /\ Still(d, x) /\ x.state = "NONE"
    BY <2>1 DEF Endpoint, Still, SameOutbuf
  <2> HIDE DEF r, s, c, x
  <2>4. Sound(x) /\ Quiet(e, x)
    BY <2>1, <2>3, SoundFrame, QuietFrame DEF Still, SameOutbuf
  <2>5. Sound(p) /\ Quiet(x, p) /\ p.state = "NONE"
    BY <2>3, <2>4, PumpSendSound, PumpSendAdds, AddsQuietly
  <2> HIDE DEF p
  <2>6. Sound(y) /\ Quiet(p, y) /\ y.state = "NONE"
    BY <2>5, SendFlagsSound, SendFlagsAdds, AddsQuietly
  <2> HIDE DEF y
  <2>7. (y.need = {}) \in BOOLEAN
    OBVIOUS
  <2>8. Sound(z) /\ Still(y, z) /\ z.state = "NONE"
    BY <1>2, <2>6, <2>7, CheckStill
  <2>9. Quiet(y, z)
    BY <2>6, <2>8, QuietFrame DEF Still
  <2> HIDE DEF z
  <2>10. Quiet(e, p)
    BY <2>4, <2>5, QuietOn
  <2>11. Quiet(e, y)
    BY <2>5, <2>6, <2>10, QuietOn
  <2>12. Quiet(e, z)
    BY <2>6, <2>8, <2>9, <2>11, QuietOn
  <2> QED BY <2>2, <2>8, <2>12
<1> HIDE DEF c
<1>6. /\ Sound(c(need)) /\ Quiet(e, c(need)) /\ c(need).state = "NONE"
  BY <1>1, <1>5
<1>7. /\ Quiet(e, c({"AUTO_STOPPED"})) /\ c({"AUTO_STOPPED"}).state = "NONE"
  BY <1>1, <1>5
<1> DEFINE g == c(need)
<1>8. Sound(g) /\ Quiet(e, g) /\ g.state = "NONE"
  BY <1>6
<1> HIDE DEF g
<1>9. Sound(NotifyIfDone(g)) /\ Still(g, NotifyIfDone(g))
      /\ NotifyIfDone(g).state = "NONE"
  BY <1>8, NotifyIfDoneSound, NotifyIfDoneStill
<1>10. Quiet(g, NotifyIfDone(g))
  BY <1>8, <1>9, QuietFrame DEF Still
<1>11. Quiet(e, NotifyIfDone(g))
  BY <1>8, <1>9, <1>10, QuietOn
<1> QED BY <1>3, <1>4, <1>7, <1>9, <1>11 DEF g

(***************************************************************************)
(* The handlers.                                                           *)
(***************************************************************************)

(* A tick of an active defense writes one cell at most.                    *)
LEMMA TimerFiredPaces ==
  ASSUME NEW e, Sound(e), NEW expired \in BOOLEAN, NEW k \in Nat,
         NEW n \in 0..MaxWrite(FillOutbuf(e)), e.state = "ACTIVE"
  PROVE  Paces(e, TimerFired(e, expired, k, n))
<1> DEFINE f == TimerFired(e, expired, k, n)
<1>0. Sound(f)
  BY TimerFiredSound
<1>1. CASE IsDoneDefendingSend(e)
  <2>1. f = FinishDefense(e, k)
    BY <1>1 DEF TimerFired
  <2> HIDE DEF f
  <2> QED BY <1>0, <2>1, FinishDefenseQuiet, QuietPaces DEF f
<1>2. CASE ~IsDoneDefendingSend(e) /\ expired /\ e.role = "CSP"
  <2>1. f = Check(e, FALSE, "time_limit")
    BY <1>2 DEF TimerFired
  <2>2. "time_limit" \in CheckName
    BY DEF CheckName
  <2> HIDE DEF f
  <2>3. Still(e, f)
    BY <2>1, <2>2, CheckStill
  <2>4. Quiet(e, f) /\ f.outlen = e.outlen
    BY <2>3, QuietFrame DEF Still, SameOutbuf
  <2> QED BY <1>0, <2>4, QuietPaces DEF f
<1>3. CASE ~IsDoneDefendingSend(e) /\ expired /\ e.role = "SSP"
  <2>1. f = AutoStopDefense(e, k)
    BY <1>3 DEF TimerFired
  <2> HIDE DEF f
  <2> QED BY <1>0, <2>1, FinishDefenseQuiet, QuietPaces DEF f
<1>4. CASE ~IsDoneDefendingSend(e) /\ ~expired
  <2> DEFINE g == FillOutbuf(e)
  <2>1. f = SendCellOutbuf(g, n)
    BY <1>4 DEF TimerFired
  <2>2. /\ Sound(g) /\ Adds(e, g) /\ g.state = "ACTIVE"
        /\ g.outlen = IF e.outlen >= CellSize THEN e.outlen ELSE e.outlen + CellSize
    BY FillOutbufSound, FillOutbufAdds
  <2>3. n \in 0..MaxWrite(g)
    OBVIOUS
  <2> HIDE DEF f, g
  <2>4. n \in 0..g.outlen /\ n <= CellSize /\ f = SendOneCell(g, n)
    <3>1. g.outlen \in Nat /\ CellSize \in Nat
      BY <2>2, CellAssumption DEF Sound, Endpoint
    <3> QED BY <2>1, <2>2, <2>3, <3>1 DEF MaxWrite, SendCellOutbuf, Lesser
  <2>5. /\ Grows(g, f) /\ BytesOut(f) <= BytesOut(g) + CellSize
        /\ f.state = "ACTIVE" /\ f.attempts = (g.attempts + 1) % L
        /\ f.outlen <= g.outlen
    <3>1. BytesOut(f) = BytesOut(g) + n
      BY <2>2, <2>4, SendOneCellMoves
    <3>2. BytesOut(g) \in Nat /\ CellSize \in Nat /\ n \in Nat
      BY <2>2, <2>4, BytesOutNat, CellAssumption DEF Sound
    <3> HIDE DEF BytesOut
    <3>3. BytesOut(f) <= BytesOut(g) + CellSize
      BY <2>4, <3>1, <3>2
    <3> QED BY <2>2, <2>4, <3>3, SendOneCellMoves
  <2>6. Grows(e, g) /\ BytesOut(g) = BytesOut(e) /\ g.attempts = e.attempts
    BY <2>2, AddsQuietly, QuietGrows DEF Adds
  <2>7. Grows(e, f)
    BY <1>0, <2>2, <2>5, <2>6, GrowsOn DEF f
  <2>8. e.outlen \in Nat /\ g.outlen \in Nat /\ f.outlen \in Nat /\ CellSize \in Nat
    BY <1>0, <2>2, CellAssumption DEF f, Sound, Endpoint
  <2>9. f.outlen < 2 * CellSize \/ f.outlen <= e.outlen
    <3>1. CASE e.outlen >= CellSize
      BY <2>2, <2>5, <3>1
    <3>2. CASE ~(e.outlen >= CellSize)
      <4>1. g.outlen < 2 * CellSize
        BY <2>2, <2>8, <3>2
      <4> QED BY <2>5, <2>8, <4>1
    <3> QED BY <3>1, <3>2
  <2> HIDE DEF BytesOut
  <2> QED BY <2>5, <2>6, <2>7, <2>9 DEF Paces, f
<1>5. e.role \in {"CSP", "SSP"}
  BY DEF Sound, Endpoint, Role
<1> QED BY <1>1, <1>2, <1>3, <1>4, <1>5

(* A write event moves cells to the wire, and comes in no active defense.  *)
LEMMA SocketWritablePaces ==
  ASSUME NEW e, Sound(e), NEW n \in 0..MaxWrite(e), e.state # "ACTIVE"
  PROVE  Paces(e, SocketWritable(e, n))
<1>1. CASE e.state # "PENDING"
  <2>1. SocketWritable(e, n) = SendAll(e, n) /\ n \in 0..IdleAmount(e)
    BY <1>1 DEF SocketWritable, SendCellOutbuf, MaxWrite
  <2>2. Grows(e, SendAll(e, n))
    BY <2>1, SendAllGrows
  <2> QED BY <2>1, <2>2 DEF Paces
<1>2. CASE e.state = "PENDING"
  <2> DEFINE ok == e.outlen = CellSize
             c == Check(e, ok, "pending_outbuf_one_cell")
             r == [c EXCEPT !.state = "NONE"]
             s == StartDefense(r)
             f == SendCellOutbuf(s, n)
  <2>1. SocketWritable(e, n) = f
    BY <1>2 DEF SocketWritable
  <2>2. "pending_outbuf_one_cell" \in CheckName /\ ok \in BOOLEAN
    BY DEF CheckName
  <2>3. Sound(c) /\ Still(e, c) /\ c \in Endpoint
    BY <2>2, CheckStill
  <2> HIDE DEF ok, c
  <2>5. r \in Endpoint /\ Still(c, r)
    BY <2>3 DEF Endpoint, DefenseState, Still, SameOutbuf
  <2> HIDE DEF r
  <2>6. Sound(r)
    BY <2>3, <2>5, SoundFrame DEF Still
  <2>7. Sound(s) /\ s.state = "ACTIVE" /\ Still(r, s)
    BY <2>6, StartDefenseSound, StartDefenseStill
  <2> HIDE DEF s
  <2>8. Still(e, s)
    BY <2>3, <2>5, <2>7 DEF Still, SameOutbuf
  <2>9. Grows(e, s)
    BY <2>7, <2>8, QuietFrame, QuietGrows DEF Still
  <2>10. n \in 0..s.outlen /\ f = SendOneCell(s, n)
    <3>1. s.outlen = e.outlen /\ e.outlen \in Nat
      BY <2>8 DEF Still, SameOutbuf, Sound, Endpoint
    <3>2. n \in 0..e.outlen
      BY <1>2, <3>1, CellAssumption DEF MaxWrite, IdleAmount
    <3> QED BY <2>7, <3>1, <3>2 DEF SendCellOutbuf
  <2> HIDE DEF f
  <2>11. Sound(f) /\ Grows(s, f)
    BY <2>7, <2>10, SendOneCellMoves
  <2>12. Grows(e, f)
    BY <2>7, <2>9, <2>11, GrowsOn
  <2> QED BY <2>1, <2>12 DEF Paces
<1> QED BY <1>1, <1>2

(* A cell that is read writes nothing, and leaves the backlog alone while a *)
(* defense is active.                                                      *)
LEMMA HandleCellPaces ==
  ASSUME NEW e, Sound(e), NEW cell \in Cell, NEW k \in Int
  PROVE  Paces(e, HandleCell(e, cell, k))
<1> DEFINE f == HandleFlags(e, cell.flags)
           p == PumpSend(f, k)
           d == IF cell.data > 0 /\ k >= 0 THEN p ELSE f
           ok == e.role = "CSP"
           c == Check(d, ok, "client_flag_seen")
           h == [c EXCEPT !.doneRecv = TRUE]
           g == IF "DONE" \in cell.flags THEN NotifyIfDone(h) ELSE d
<1>1. HandleCell(e, cell, k) = g
  BY DEF HandleCell
<1>2. Sound(g)
  BY <1>1, HandleCellSound
<1>3. cell.flags \in SUBSET Flag
  BY DEF Cell
<1>4. "client_flag_seen" \in CheckName /\ ok \in BOOLEAN
  BY DEF CheckName
<1> HIDE DEF ok
<1>5. Sound(f) /\ Still(e, f)
  BY <1>3, HandleFlagsSound, HandleFlagsStill
<1> HIDE DEF f
<1>6. Quiet(e, f) /\ Quiet(f, f)
  BY <1>5, QuietFrame DEF Still, SameOutbuf
<1>7. k >= 0 => /\ Sound(p) /\ Quiet(f, p) /\ p.state = f.state
                /\ f.state = "ACTIVE" => p.outlen = f.outlen
  BY <1>5, PumpSendSound, PumpSendAdds, AddsQuietly
<1> HIDE DEF p
<1>8. Sound(d) /\ Quiet(f, d) /\ d.state = f.state
      /\ (f.state = "ACTIVE" => d.outlen = f.outlen)
  BY <1>5, <1>6, <1>7
<1> HIDE DEF d
<1>9. Sound(c) /\ c \in Endpoint /\ Still(d, c) /\ c.state = d.state
  BY <1>4, <1>8, CheckStill
<1> HIDE DEF c
<1>10. h \in Endpoint /\ Still(c, h) /\ h.state = c.state
  BY <1>9 DEF Endpoint, Still, SameOutbuf
<1> HIDE DEF h
<1>11. Sound(h)
  BY <1>9, <1>10, SoundFrame DEF Still
<1>12. Still(h, NotifyIfDone(h)) /\ NotifyIfDone(h).state = h.state
  BY <1>11, NotifyIfDoneStill
<1>13. Still(d, g) /\ g.state = d.state
  BY <1>9, <1>10, <1>12 DEF Still, SameOutbuf
<1> HIDE DEF g
<1>14. Quiet(d, g) /\ g.outlen = d.outlen
  BY <1>8, <1>13, QuietFrame DEF Still, SameOutbuf
<1>15. Quiet(e, d)
  BY <1>5, <1>6, <1>8, QuietOn
<1>16. Quiet(e, g)
  BY <1>2, <1>8, <1>14, <1>15, QuietOn
<1>17. g.state = "ACTIVE" => g.outlen = e.outlen
  BY <1>5, <1>8, <1>13, <1>14 DEF Still, SameOutbuf
<1> QED BY <1>1, <1>2, <1>16, <1>17, QuietPaces

(***************************************************************************)
(* The specification.                                                      *)
(***************************************************************************)
LEMMA BeforeStill ==
  ASSUME Sound(ch)
  PROVE  /\ Sound(Before) /\ Still(ch, Before)
         /\ Before.state = ch.state /\ Before.attempts = ch.attempts
         /\ Before.wev = ch.wev /\ Before.timer = ch.timer
<1>1. Sound(Before)
  BY BeforeSound
<1>2. ch \in Endpoint
  BY DEF Sound
<1> QED BY <1>1, <1>2 DEF Before, Endpoint, Still, SameOutbuf

(* ... so a handler may be judged from there.                            *)
LEMMA PacesFromBefore ==
  ASSUME Sound(ch), NEW f, Paces(Before, f)
  PROVE  Paces(ch, f)
<1> DEFINE b == Before
<1>1. Still(ch, b) /\ b.state = ch.state /\ b.attempts = ch.attempts
  BY BeforeStill
<1> HIDE DEF b
<1>2. /\ Committed(b) = Committed(ch) /\ BytesOut(b) = BytesOut(ch)
      /\ b.outlen = ch.outlen
  BY <1>1 DEF Still, SameOutbuf, Committed, BytesOut
<1>3. Paces(b, f)
  BY DEF b
<1> HIDE DEF Committed, BytesOut
<1> QED BY <1>1, <1>2, <1>3 DEF Paces, Grows

(* Every step paces, or is the peer taking a cell off the wire.            *)
LEMMA NextPaces ==
  ASSUME Sound(ch), Watched(ch), [Next]_vars
  PROVE  Paces(ch, ch') \/ PeerReads
<1>0. Sound(Before) /\ Still(ch, Before) /\ Before.state = ch.state
  BY BeforeStill
<1>00. Sound(ch')
  BY NextSound
<1>1. ASSUME NEW k \in PumpSizes, OwnerSends(k)  PROVE Paces(ch, ch')
  <2>1. ch' = PumpSend(Before, k) /\ k \in Nat
    BY <1>1, ChannelAssumption DEF OwnerSends
  <2>2. /\ Quiet(Before, ch')
        /\ Before.state = "ACTIVE" => ch'.outlen = Before.outlen
    BY <1>0, <2>1, PumpSendAdds, AddsQuietly
  <2>3. Paces(Before, ch')
    BY <1>0, <1>00, <2>2, QuietPaces
  <2> QED BY <2>3, PacesFromBefore
<1>2. CASE OwnerSetsAutoStart
  <2>1. ch' = SetAutoStart(Before)
    BY <1>2 DEF OwnerSetsAutoStart
  <2>2. Still(Before, ch')
    BY <1>0, <2>1, SetAutoStartStill
  <2>3. Quiet(Before, ch') /\ ch'.outlen = Before.outlen
    BY <1>0, <2>2, QuietFrame DEF Still, SameOutbuf
  <2>4. Paces(Before, ch')
    BY <1>0, <1>00, <2>3, QuietPaces
  <2> QED BY <2>4, PacesFromBefore
<1>3. CASE OwnerStops
  <2>1. ch' = StopDefense(Before)
    BY <1>3 DEF OwnerStops
  <2>2. Still(Before, ch')
    BY <1>0, <2>1, StopDefenseStill
  <2>3. Quiet(Before, ch') /\ ch'.outlen = Before.outlen
    BY <1>0, <2>2, QuietFrame DEF Still, SameOutbuf
  <2>4. Paces(Before, ch')
    BY <1>0, <1>00, <2>3, QuietPaces
  <2> QED BY <2>4, PacesFromBefore
<1>4. ASSUME NEW expired \in BOOLEAN, NEW k \in PumpSizes, NEW n,
             TimerFires(expired, k, n)
      PROVE  Paces(ch, ch')
  <2>1. k \in Nat /\ n \in 0..MaxWrite(FillOutbuf(Before))
    BY <1>4, ChannelAssumption DEF TimerFires, WriteSizes
  <2>2. ch' = TimerFired(Before, expired, k, n) /\ ch.timer /\ Up
    BY <1>4 DEF TimerFires
  <2>3. Before.state = "ACTIVE"
    BY <1>0, <2>2 DEF Watched, Up
  <2>4. Paces(Before, ch')
    BY <1>0, <2>1, <2>2, <2>3, TimerFiredPaces
  <2> QED BY <2>4, PacesFromBefore
<1>5. ASSUME NEW n, SocketBecomesWritable(n)  PROVE Paces(ch, ch')
  <2>1. n \in 0..MaxWrite(Before) /\ ch' = SocketWritable(Before, n)
        /\ ch.wev /\ Up
    BY <1>5 DEF SocketBecomesWritable, WriteSizes
  <2>2. Before.state # "ACTIVE"
    BY <1>0, <2>1 DEF Watched, Up
  <2>3. Paces(Before, ch')
    BY <1>0, <2>1, <2>2, SocketWritablePaces
  <2> QED BY <2>3, PacesFromBefore
<1>6. ASSUME NEW cell \in PeerCells, NEW k \in PumpSizes \cup {-1},
             ReceiveCell(cell, k)
      PROVE  Paces(ch, ch')
  <2>1. ch.role \in Role
    BY DEF Sound, Endpoint
  <2>2. cell \in Cell
    BY <2>1, CellAssumption, ChannelAssumption DEF PeerCells, Cell
  <2>3. k \in Int
    BY ChannelAssumption
  <2>4. ch' = HandleCell(Before, cell, k)
    BY <1>6 DEF ReceiveCell
  <2>5. Paces(Before, ch')
    BY <1>0, <2>2, <2>3, <2>4, HandleCellPaces
  <2> QED BY <2>5, PacesFromBefore
<1>7. CASE SocketFails
  <2>1. ch' = [Before EXCEPT !.status = "closed"] /\ Before \in Endpoint
    BY <1>0, <1>7 DEF SocketFails, Sound
  <2> HIDE DEF Before
  <2>2. Still(Before, ch')
    BY <2>1 DEF Endpoint, Still, SameOutbuf
  <2>3. Quiet(Before, ch') /\ ch'.outlen = Before.outlen
    BY <1>0, <2>2, QuietFrame DEF Still, SameOutbuf
  <2>4. Paces(Before, ch')
    BY <1>0, <1>00, <2>3, QuietPaces
  <2> QED BY <2>4, PacesFromBefore
<1>8. CASE UNCHANGED vars
  <2>1. ch' = ch
    BY <1>8 DEF vars
  <2>2. Quiet(ch, ch') /\ ch'.outlen = ch.outlen
    BY <2>1, QuietFrame DEF SameOutbuf
  <2> QED BY <1>00, <2>2, QuietPaces
<1> QED BY <1>1, <1>2, <1>3, <1>4, <1>5, <1>6, <1>7, <1>8 DEF Next

(* The peer takes the first cell of the stream.                            *)
LEMMA PeerReadsTail ==
  ASSUME Sound(ch), PeerReads
  PROVE  /\ ch.wire # << >> /\ Committed(ch') = Tail(Committed(ch))
         /\ BytesOut(ch') = BytesOut(ch) - CellSize /\ ch'.outlen = ch.outlen
<1> DEFINE w == ch.wire
           a == Firm(ch)
           b == Before
<1>1. Still(ch, b) /\ b \in Endpoint
  BY BeforeStill DEF Sound
<1>2. ch' = [b EXCEPT !.wire = Tail(w)] /\ w # << >>
  BY DEF PeerReads
<1>3. a \in Seq(Cell) /\ w \in Seq(Cell) /\ Committed(ch) = w \o a
  BY FirmCells, CommittedCells
<1> HIDE DEF b
<1>4. /\ ch'.wire = Tail(w) /\ ch'.cells = ch.cells /\ ch'.dummy = ch.dummy
      /\ ch'.sent = ch.sent /\ ch'.outlen = ch.outlen
  BY <1>1, <1>2 DEF Endpoint, Still, SameOutbuf
<1>5. Committed(ch') = Tail(w) \o a
  BY <1>4 DEF Committed, Firm
<1>6. BytesOut(ch) = CellSize * Len(w) + ch.sent
      /\ BytesOut(ch') = CellSize * Len(Tail(w)) + ch.sent
  BY <1>4 DEF BytesOut
<1> HIDE DEF w, a
<1>7. Tail(w) \o a = Tail(w \o a)
  <2> DEFINE s == Tail(w) \o a
             t == Tail(w \o a)
  <2>1. /\ Tail(w) \in Seq(Cell) /\ Len(Tail(w)) = Len(w) - 1
        /\ \A i \in 1..Len(Tail(w)) : Tail(w)[i] = w[i + 1]
    BY <1>2, <1>3, HeadTailProperties
  <2>2. Len(w) \in Nat /\ Len(a) \in Nat /\ Len(w) >= 1
    <3>1. Len(w) \in Nat /\ Len(a) \in Nat
      BY <1>3, LenProperties
    <3>2. Len(w) # 0
      BY <1>2, <1>3, EmptySeq
    <3> QED BY <3>1, <3>2
  <2>3. /\ w \o a \in Seq(Cell) /\ Len(w \o a) = Len(w) + Len(a)
        /\ \A i \in 1..(Len(w) + Len(a)) :
             (w \o a)[i] = IF i <= Len(w) THEN w[i] ELSE a[i - Len(w)]
    BY <1>3, ConcatProperties
  <2>4. w \o a # << >>
    BY <2>2, <2>3, EmptySeq
  <2>5. /\ t \in Seq(Cell) /\ Len(t) = Len(w \o a) - 1
        /\ \A i \in 1..Len(t) : t[i] = (w \o a)[i + 1]
    BY <2>3, <2>4, HeadTailProperties
  <2>6. /\ s \in Seq(Cell) /\ Len(s) = Len(Tail(w)) + Len(a)
        /\ \A i \in 1..(Len(Tail(w)) + Len(a)) :
             s[i] = IF i <= Len(Tail(w)) THEN Tail(w)[i] ELSE a[i - Len(Tail(w))]
    BY <1>3, <2>1, ConcatProperties
  <2> HIDE DEF s, t
  <2>7. Len(s) = Len(t) /\ Len(s) = Len(w) + Len(a) - 1
    BY <2>1, <2>2, <2>3, <2>5, <2>6
  <2>8. ASSUME NEW i \in 1..Len(s)  PROVE s[i] = t[i]
    <3>1. i + 1 \in 1..(Len(w) + Len(a)) /\ t[i] = (w \o a)[i + 1]
      BY <2>2, <2>5, <2>7
    <3>2. CASE i <= Len(w) - 1
      <4>1. i \in 1..Len(Tail(w))
        BY <2>1, <2>2, <3>2
      <4>2. s[i] = w[i + 1]
        BY <2>1, <2>2, <2>6, <2>7, <3>2, <4>1
      <4>3. i + 1 <= Len(w)
        BY <2>2, <3>2
      <4> QED BY <2>3, <3>1, <4>2, <4>3
    <3>3. CASE ~(i <= Len(w) - 1)
      <4>1. s[i] = a[i - Len(Tail(w))]
        BY <2>1, <2>2, <2>6, <2>7, <3>3
      <4>2. i - Len(Tail(w)) = (i + 1) - Len(w)
        BY <2>1, <2>2
      <4>3. ~(i + 1 <= Len(w))
        BY <2>2, <3>3
      <4> QED BY <2>3, <3>1, <4>1, <4>2, <4>3
    <3> QED BY <3>2, <3>3
  <2>9. s = t
    BY <2>5, <2>6, <2>7, <2>8, SeqEqual
  <2> QED BY <2>9 DEF s, t
<1>8. BytesOut(ch') = BytesOut(ch) - CellSize
  <2> DEFINE v == Len(w)
  <2>1. v \in Nat /\ Len(Tail(w)) = v - 1 /\ ch.sent \in Nat
    BY <1>2, <1>3, HeadTailProperties, LenProperties DEF Sound, Endpoint
  <2> HIDE DEF v
  <2>2. CellSize * (v - 1) = CellSize * v - CellSize /\ CellSize * v \in Nat
    BY <2>1, CellAssumption
  <2> QED BY <1>6, <2>1, <2>2, CellAssumption DEF v
<1> QED BY <1>2, <1>3, <1>4, <1>5, <1>7, <1>8 DEF w

(* An initial part is a prefix.                                          *)
LEMMA LeadsPrefix ==
  ASSUME NEW s \in Seq(Cell), NEW t \in Seq(Cell), Leads(s, t)
  PROVE  IsPrefixOf(s, t)
<1> DEFINE u == SubSeq(t, 1, Len(s))
<1>1. Len(s) \in Nat /\ Len(t) \in Nat
  BY LenProperties
<1>2. Len(s) <= Len(t) /\ \A i \in 1..Len(s) : s[i] = t[i]
  BY DEF Leads
<1>3. \A i \in 1..Len(s) : t[i] \in Cell
  BY <1>1, <1>2, ElementOfSeq
<1>4. /\ u \in Seq(Cell)
      /\ Len(u) = IF 1 <= Len(s) THEN Len(s) - 1 + 1 ELSE 0
      /\ \A i \in 1..(Len(s) - 1 + 1) : u[i] = t[1 + i - 1]
  BY <1>1, <1>3, SubSeqProperties
<1> HIDE DEF u
<1>5. Len(u) = Len(s)
  BY <1>1, <1>4
<1>6. ASSUME NEW i \in 1..Len(u)  PROVE u[i] = s[i]
  <2>1. i \in 1..(Len(s) - 1 + 1) /\ 1 + i - 1 = i /\ i \in 1..Len(s)
    BY <1>1, <1>5
  <2> QED BY <1>2, <1>4, <2>1
<1>7. u = s
  BY <1>4, <1>5, <1>6, SeqEqual
<1> QED BY <1>2, <1>7 DEF IsPrefixOf, u

(* The three action properties, of one step.                               *)
LEMMA StepPaces ==
  ASSUME Sound(ch), Watched(ch), [Next]_vars
  PROVE  /\ \/ IsPrefixOf(Committed(ch), Committed(ch'))
            \/ ch.wire # << >> /\ Committed(ch') = Tail(Committed(ch))
         /\ ch.state = "ACTIVE" /\ ch'.state = "ACTIVE"
              => ch'.outlen < 2 * CellSize \/ ch'.outlen <= ch.outlen
         /\ ch.state = "ACTIVE" /\ BytesOut(ch') > BytesOut(ch)
              => /\ BytesOut(ch') <= BytesOut(ch) + CellSize
                 /\ ch'.state = "ACTIVE" /\ ch'.attempts = (ch.attempts + 1) % L
<1>0. Sound(ch')
  BY NextSound
<1>1. CASE Paces(ch, ch')
  <2>1. Committed(ch) \in Seq(Cell)
    BY CommittedCells
  <2>2. Committed(ch') \in Seq(Cell)
    <3> DEFINE f == ch'
    <3>1. Sound(f)
      BY <1>0
    <3> HIDE DEF f
    <3>2. Committed(f) \in Seq(Cell)
      BY <3>1, CommittedCells
    <3> QED BY <3>2 DEF f
  <2> DEFINE s == Committed(ch)
             t == Committed(ch')
  <2>3. s \in Seq(Cell) /\ t \in Seq(Cell) /\ Leads(s, t)
    BY <1>1, <2>1, <2>2 DEF Paces, Grows
  <2> HIDE DEF s, t
  <2>4. IsPrefixOf(s, t)
    BY <2>3, LeadsPrefix
  <2> QED BY <1>1, <2>4 DEF Paces, s, t
<1>2. CASE PeerReads
  <2>1. /\ ch.wire # << >> /\ Committed(ch') = Tail(Committed(ch))
        /\ BytesOut(ch') = BytesOut(ch) - CellSize /\ ch'.outlen = ch.outlen
    BY <1>2, PeerReadsTail
  <2>2. ch.outlen \in Nat /\ BytesOut(ch) \in Nat /\ CellSize \in Nat
        /\ CellSize > 0
    BY BytesOutNat, CellAssumption DEF Sound
  <2> HIDE DEF BytesOut
  <2>3. ~(BytesOut(ch') > BytesOut(ch)) /\ ch'.outlen <= ch.outlen
    BY <2>1, <2>2
  <2> QED BY <2>1, <2>3
<1> QED BY <1>1, <1>2, NextPaces

(* No handler loses, reorders or alters a cell with data or a flag: it     *)
(* only adds to the committed stream, and only the peer takes from it.     *)
THEOREM ChannelKeepsStream == Spec => StreamOnlyGrows
<1>1. Sound(ch) /\ Watched(ch) /\ [Next]_vars =>
        [\/ IsPrefixOf(Committed(ch), Committed(ch'))
         \/ ch.wire # << >> /\ Committed(ch') = Tail(Committed(ch))]_vars
  BY StepPaces
<1>2. IInv => Sound(ch)
  BY DEF IInv
<1>3. WriteMonitoring => Watched(ch)
  BY DEF WriteMonitoring, Watched, Up
<1> QED BY <1>1, <1>2, <1>3, ChannelIsSound, ChannelWatchesWrites, PTL
        DEF Spec, StreamOnlyGrows

(* A server's backlog of cells only shrinks while a defense is active,     *)
(* until it is below two cells.                                            *)
THEOREM ChannelBacklogShrinks == Spec => BacklogShrinks
<1>1. Sound(ch) /\ Watched(ch) /\ [Next]_vars =>
        [ch.state = "ACTIVE" /\ ch'.state = "ACTIVE"
           => ch'.outlen < 2 * CellSize \/ ch'.outlen <= ch.outlen]_vars
  BY StepPaces
<1>2. IInv => Sound(ch)
  BY DEF IInv
<1>3. WriteMonitoring => Watched(ch)
  BY DEF WriteMonitoring, Watched, Up
<1> QED BY <1>1, <1>2, <1>3, ChannelIsSound, ChannelWatchesWrites, PTL
        DEF Spec, BacklogShrinks

(* While a defense is active, bytes leave only at an attempt that is       *)
(* counted, one cell's worth at most, whatever the streams, the owner and  *)
(* the peer do in between.                                                 *)
THEOREM ChannelIsPaced == Spec => PacedWhileActive
<1>1. Sound(ch) /\ Watched(ch) /\ [Next]_vars =>
        [ch.state = "ACTIVE" /\ BytesOut(ch') > BytesOut(ch)
           => /\ BytesOut(ch') <= BytesOut(ch) + CellSize
              /\ ch'.state = "ACTIVE" /\ ch'.attempts = (ch.attempts + 1) % L]_vars
  BY StepPaces
<1>2. IInv => Sound(ch)
  BY DEF IInv
<1>3. WriteMonitoring => Watched(ch)
  BY DEF WriteMonitoring, Watched, Up
<1> QED BY <1>1, <1>2, <1>3, ChannelIsSound, ChannelWatchesWrites, PTL
        DEF Spec, PacedWhileActive

=============================================================================
