-------------------------- MODULE BufloEndpointProofs --------------------------
(***************************************************************************)
(* What every operation of an endpoint preserves, for all values of the    *)
(* constants: lemmas about the operators of BufloEndpoint, one for each    *)
(* member function that can touch the outbuf, on which the theorems about  *)
(* the specifications rest.                                                *)
(***************************************************************************)
EXTENDS BufloEndpoint, SequenceTheorems, TLAPS

(* The outbuf holds the listed cells, less what is written of the first.   *)
Balanced(e) ==
  /\ e.outlen = CellSize * Len(e.cells) - e.sent
  /\ e.sent < CellSize

(* The dummy that may be dropped is one unsent cell without data or flags. *)
Whole(e) ==
  e.dummy =>
    /\ e.cells # << >>
    /\ e.cells[Len(e.cells)] = [data |-> 0, flags |-> {}]
    /\ Len(e.cells) = 1 => e.sent = 0

Sound(e) == e \in Endpoint /\ Balanced(e) /\ Whole(e)

(* The cells of the outbuf that will be sent, whatever happens.            *)
Firm(e) == IF e.dummy THEN SubSeq(e.cells, 1, Len(e.cells) - 1) ELSE e.cells

(* f agrees with e on everything the outbuf consists of.                   *)
SameOutbuf(e, f) ==
  /\ f.outlen = e.outlen /\ f.cells = e.cells
  /\ f.sent = e.sent /\ f.dummy = e.dummy

(* f differs from e in its status only.                                    *)
SameButStatus(e, f) ==
  /\ SameOutbuf(e, f)
  /\ f.role = e.role /\ f.state = e.state /\ f.stop = e.stop
  /\ f.need = e.need /\ f.attempts = e.attempts /\ f.added = e.added
  /\ f.doneRecv = e.doneRecv /\ f.spdy = e.spdy /\ f.wev = e.wev
  /\ f.timer = e.timer /\ f.wire = e.wire /\ f.notified = e.notified

(* What leaves the outbuf, its list of cells, the progress and the dummy    *)
(* alone cannot unbalance them.                                             *)
LEMMA SoundFrame ==
  ASSUME NEW e, Sound(e), NEW f \in Endpoint, SameOutbuf(e, f)
  PROVE  Sound(f)
BY DEF Sound, Balanced, Whole, SameOutbuf

(* A CHECK only ever touches the status: it ends the process or does        *)
(* nothing.                                                                 *)
LEMMA CheckTyped ==
  ASSUME NEW e \in Endpoint, NEW ok \in BOOLEAN, NEW name \in CheckName
  PROVE  /\ Check(e, ok, name) \in Endpoint
         /\ SameButStatus(e, Check(e, ok, name))
BY DEF Check, Endpoint, Status, SameButStatus, SameOutbuf

(* ... and so keeps an endpoint sound.                                      *)
LEMMA CheckSound ==
  ASSUME NEW e, Sound(e), NEW ok \in BOOLEAN, NEW name \in CheckName
  PROVE  /\ Sound(Check(e, ok, name))
         /\ SameButStatus(e, Check(e, ok, name))
<1>1. e \in Endpoint
  BY DEF Sound
<1>2. Check(e, ok, name) \in Endpoint /\ SameButStatus(e, Check(e, ok, name))
  BY <1>1, CheckTyped
<1> QED BY <1>2, SoundFrame DEF SameButStatus

(* The CHECKs of _maybe_set_cell_flags change nothing but the status.       *)
LEMMA CheckCellFlagsSound ==
  ASSUME NEW e, Sound(e)
  PROVE  Sound(CheckCellFlags(e)) /\ SameButStatus(e, CheckCellFlags(e))
<1> DEFINE ok1 == "START" \in e.need =>
                   /\ e.role = "CSP"
                   /\ \/ e.state = "PENDING"
                      \/ e.state = "ACTIVE" /\ ~e.stop
           ok2 == e.need \cap {"AUTO_STOPPED", "DONE"} # {} => e.role = "SSP"
           c == Check(e, ok1, "start_flag_use")
<1>0. ok1 \in BOOLEAN /\ ok2 \in BOOLEAN
  OBVIOUS
<1>1. "start_flag_use" \in CheckName /\ "server_flag_use" \in CheckName
  BY DEF CheckName
<1> HIDE DEF ok1, ok2
<1>2. Sound(c) /\ SameButStatus(e, c)
  BY <1>0, <1>1, CheckSound
<1> HIDE DEF c
<1>3. Sound(Check(c, ok2, "server_flag_use"))
      /\ SameButStatus(c, Check(c, ok2, "server_flag_use"))
  BY <1>0, <1>1, <1>2, CheckSound
<1>4. CheckCellFlags(e) = Check(c, ok2, "server_flag_use")
  BY DEF CheckCellFlags, c, ok1, ok2
<1> QED BY <1>2, <1>3, <1>4 DEF SameButStatus, SameOutbuf

(* Adding one cell, whatever its payload, adds CellSize bytes and one list  *)
(* entry. It is added only where no dummy is at the end, so no dummy ends up*)
(* inside the outbuf.                                                       *)
LEMMA AppendCellSound ==
  ASSUME NEW e, Sound(e), ~e.dummy, NEW payload \in 0..BodySize
  PROVE  LET f == AppendCell(e, payload)
         IN  /\ Sound(f)
             /\ f.outlen = e.outlen + CellSize
             /\ f.cells = Append(e.cells, [data |-> payload, flags |-> e.need])
             /\ f.sent = e.sent /\ f.dummy = e.dummy
             /\ f.state = e.state /\ f.spdy = e.spdy
<1> DEFINE d == CheckCellFlags(e)
           cell == [data |-> payload, flags |-> e.need]
           f == AppendCell(e, payload)
<1>1. Sound(d) /\ SameButStatus(e, d)
  BY CheckCellFlagsSound
<1>2. e \in Endpoint /\ d \in Endpoint
  BY <1>1 DEF Sound
<1>3. cell \in Cell
  BY <1>2 DEF Cell, Endpoint
<1>4. f = [d EXCEPT !.cells = Append(e.cells, cell),
                    !.outlen = e.outlen + CellSize, !.need = {}]
  BY DEF AppendCell
<1> HIDE DEF d, cell, f
<1>5. e.cells \in Seq(Cell) /\ e.outlen \in Nat /\ e.sent \in Nat
  BY <1>2 DEF Endpoint
<1>6. Append(e.cells, cell) \in Seq(Cell) /\ Len(Append(e.cells, cell)) = Len(e.cells) + 1
      /\ Len(e.cells) \in Nat
  BY <1>3, <1>5, AppendProperties, LenProperties
<1>6a. e.outlen + CellSize \in Nat
  BY <1>5, CellAssumption
<1>7. f \in Endpoint
  BY <1>2, <1>4, <1>6, <1>6a DEF Endpoint
<1>8. /\ f.cells = Append(e.cells, cell) /\ f.outlen = e.outlen + CellSize
      /\ f.sent = e.sent /\ f.dummy = e.dummy
      /\ f.state = e.state /\ f.spdy = e.spdy
  BY <1>1, <1>2, <1>4 DEF Endpoint, SameButStatus, SameOutbuf
<1>9. CellSize * (Len(e.cells) + 1) = CellSize * Len(e.cells) + CellSize
  BY <1>6, CellAssumption
<1>10. Balanced(f)
  BY <1>5, <1>6, <1>8, <1>9, CellAssumption DEF Balanced, Sound
<1>11. Whole(f)
  BY <1>8 DEF Whole
<1> QED BY <1>7, <1>8, <1>10, <1>11 DEF Sound, f, cell

(* _maybe_drop_whole_dummy_cell_at_end_outbuf takes the bytes and the list  *)
(* entry together, and never more bytes than there are.                     *)
LEMMA DropWholeDummySound ==
  ASSUME NEW e, Sound(e)
  PROVE  LET f == DropWholeDummy(e)
         IN  /\ Sound(f) /\ ~f.dummy
             /\ f.state = e.state /\ f.spdy = e.spdy /\ f.need = e.need
             /\ f.outlen = IF e.dummy THEN e.outlen - CellSize ELSE e.outlen
             /\ f.sent = e.sent
             /\ f.role = e.role
<1>1. CASE ~e.dummy
  BY <1>1 DEF DropWholeDummy
<1>2. CASE e.dummy
  <2> DEFINE ok == e.outlen >= CellSize /\ e.cells # << >>
             d == Check(e, ok, "dummy_is_in_outbuf")
             f == DropWholeDummy(e)
             n == Len(e.cells)
             front == SubSeq(e.cells, 1, n - 1)
  <2>1. e \in Endpoint /\ Balanced(e) /\ Whole(e)
    BY DEF Sound
  <2>2. e.cells \in Seq(Cell) /\ e.outlen \in Nat /\ e.sent \in Nat
    BY <2>1 DEF Endpoint
  <2>3. n \in Nat /\ n > 0
    BY <1>2, <2>1, <2>2, EmptySeq DEF Whole
  <2>4. "dummy_is_in_outbuf" \in CheckName /\ ok \in BOOLEAN
    BY DEF CheckName
  <2>5. Sound(d) /\ SameButStatus(e, d) /\ d \in Endpoint
    BY <2>4, CheckSound DEF Sound
  <2>6. f = [d EXCEPT !.cells = front, !.outlen = e.outlen - CellSize,
                      !.dummy = FALSE]
    BY <1>2 DEF DropWholeDummy
  <2> HIDE DEF ok, d, f
  <2>7. \A i \in 1..(n - 1) : e.cells[i] \in Cell
    BY <2>2, <2>3, ElementOfSeq
  <2>8. front \in Seq(Cell) /\ Len(front) = n - 1
    BY <2>3, <2>7, SubSeqProperties
  <2>9. CellSize * (n - 1) = CellSize * n - CellSize
    BY <2>3, CellAssumption
  <2>10. e.outlen - CellSize = CellSize * (n - 1) - e.sent
    BY <2>1, <2>2, <2>3, <2>9, CellAssumption DEF Balanced
  <2>11. e.outlen - CellSize \in Nat
    <3>1. CASE n = 1
      <4>1. e.sent = 0
        BY <3>1, <1>2, <2>1 DEF Whole
      <4>2. CellSize * (n - 1) = 0
        BY <3>1, CellAssumption
      <4> QED BY <2>10, <4>1, <4>2
    <3>2. CASE n # 1
      <4> HIDE DEF n
      <4>1. n - 1 \in Nat /\ n - 1 >= 1
        BY <2>3, <3>2
      <4>2. CellSize * (n - 1) >= CellSize
        BY <4>1, CellAssumption
      <4>3. CellSize * (n - 1) \in Nat
        BY <4>1, CellAssumption
      <4> QED BY <2>1, <2>2, <2>10, <4>2, <4>3, CellAssumption DEF Balanced
    <3> QED BY <3>1, <3>2
  <2>12. f \in Endpoint
    BY <2>5, <2>6, <2>8, <2>11 DEF Endpoint
  <2>13. /\ f.cells = front /\ f.outlen = e.outlen - CellSize
         /\ ~f.dummy /\ f.sent = e.sent
         /\ f.state = e.state /\ f.spdy = e.spdy /\ f.need = e.need
         /\ f.role = e.role
    BY <2>5, <2>6 DEF Endpoint, SameButStatus, SameOutbuf
  <2>14. Balanced(f)
    BY <2>1, <2>8, <2>10, <2>13 DEF Balanced
  <2>15. Whole(f)
    BY <2>13 DEF Whole
  <2> QED BY <1>2, <2>12, <2>13, <2>14, <2>15 DEF Sound, f
<1> QED BY <1>1, <1>2

(* _maybe_add_ONE_data_cell_to_outbuf replaces a dummy at the end or adds a *)
(* cell.                                                                    *)
LEMMA AddDataCellSound ==
  ASSUME NEW e, Sound(e), e.spdy > 0
  PROVE  LET f == AddDataCell(e)
         IN  /\ Sound(f) /\ ~f.dummy
             /\ f.state = e.state
             /\ f.outlen = (IF e.dummy THEN e.outlen ELSE e.outlen + CellSize)
<1> DEFINE p == Lesser(BodySize, e.spdy)
           w == DropWholeDummy(e)
           a == AppendCell(w, p)
           d == [a EXCEPT !.spdy = e.spdy - p]
           c == [d EXCEPT !.added = e.added + 1]
<1>1. e \in Endpoint /\ e.spdy \in Nat /\ e.added \in Nat /\ e.outlen \in Nat
  BY DEF Sound, Endpoint
<1>2. p \in 0..BodySize /\ e.spdy - p \in Nat /\ e.added + 1 \in Nat
  BY <1>1, CellAssumption DEF Lesser
<1>3. /\ Sound(w) /\ ~w.dummy /\ w.state = e.state
      /\ w.outlen = IF e.dummy THEN e.outlen - CellSize ELSE e.outlen
  BY DropWholeDummySound
<1> HIDE DEF p, w
<1>4. /\ Sound(a) /\ ~a.dummy /\ a.state = e.state
      /\ a.outlen = w.outlen + CellSize
  BY <1>2, <1>3, AppendCellSound
<1> HIDE DEF a
<1>5. a \in Endpoint
  BY <1>4 DEF Sound
<1>6. d \in Endpoint /\ SameOutbuf(a, d) /\ d.state = a.state
  BY <1>2, <1>5 DEF Endpoint, SameOutbuf
<1> HIDE DEF d
<1>7. c \in Endpoint /\ SameOutbuf(d, c) /\ c.state = d.state
  BY <1>2, <1>6 DEF Endpoint, SameOutbuf
<1> HIDE DEF c
<1>8. Sound(d) /\ Sound(c)
  BY <1>4, <1>6, <1>7, SoundFrame
<1>9. a.outlen = IF e.dummy THEN e.outlen ELSE e.outlen + CellSize
  BY <1>1, <1>3, <1>4, CellAssumption
<1>10. CASE e.state = "PENDING"
  <2>1. AddDataCell(e) = Check(c, e.added = 0, "pending_one_cell")
    BY <1>10 DEF AddDataCell, c, d, a, w, p
  <2>2. "pending_one_cell" \in CheckName /\ (e.added = 0) \in BOOLEAN
    BY DEF CheckName
  <2>3. Sound(AddDataCell(e)) /\ SameButStatus(c, AddDataCell(e))
    BY <1>8, <2>1, <2>2, CheckSound
  <2> QED BY <1>4, <1>6, <1>7, <1>9, <2>3 DEF SameButStatus, SameOutbuf
<1>11. CASE e.state # "PENDING"
  <2>1. AddDataCell(e) = d
    BY <1>11 DEF AddDataCell, d, a, w, p
  <2> QED BY <1>4, <1>6, <1>8, <1>9, <2>1 DEF SameOutbuf
<1> QED BY <1>10, <1>11

(* _add_ONE_dummy_cell_to_outbuf marks as droppable only a cell without     *)
(* flags, and one that no byte has been written of.                         *)
LEMMA AddDummyCellSound ==
  ASSUME NEW e, Sound(e), ~e.dummy
  PROVE  LET f == AddDummyCell(e)
         IN  /\ Sound(f)
             /\ f.state = e.state
             /\ f.outlen = e.outlen + CellSize
<1> DEFINE a == AppendCell(e, 0)
           f == [a EXCEPT !.dummy = (e.need = {})]
           cell == [data |-> 0, flags |-> e.need]
<1>1. e \in Endpoint /\ 0 \in 0..BodySize
  BY CellAssumption DEF Sound
<1>2. /\ Sound(a) /\ a.outlen = e.outlen + CellSize
      /\ a.cells = Append(e.cells, cell) /\ a.sent = e.sent
      /\ a.state = e.state
  BY <1>1, AppendCellSound
<1> HIDE DEF a
<1>3. a \in Endpoint
  BY <1>2 DEF Sound
<1>4. /\ f \in Endpoint /\ f.outlen = a.outlen /\ f.cells = a.cells
      /\ f.sent = a.sent /\ f.state = a.state /\ f.dummy = (e.need = {})
  BY <1>3 DEF Endpoint
<1>5. AddDummyCell(e) = f
  BY DEF AddDummyCell, f, a
<1> HIDE DEF f, cell
<1>6. Balanced(f)
  BY <1>2, <1>4 DEF Balanced, Sound
<1>7. /\ e.cells \in Seq(Cell) /\ cell \in Cell
      /\ e.outlen \in Nat /\ e.sent \in Nat
  BY <1>1 DEF Endpoint, Cell, cell
<1>8. /\ f.cells # << >> /\ Len(f.cells) = Len(e.cells) + 1
      /\ Len(e.cells) \in Nat
      /\ f.cells[Len(f.cells)] = cell
  BY <1>2, <1>4, <1>7, AppendProperties, LenProperties
<1>9. Len(f.cells) = 1 => f.sent = 0
  <2>1. SUFFICES ASSUME Len(f.cells) = 1  PROVE f.sent = 0
    OBVIOUS
  <2>2. Len(e.cells) = 0
    BY <1>8, <2>1
  <2>3. CellSize * Len(e.cells) = 0
    BY <2>2, CellAssumption
  <2> QED BY <1>2, <1>4, <1>7, <2>3 DEF Sound, Balanced
<1>10. Whole(f)
  <2>1. f.dummy => e.need = {}
    BY <1>4
  <2>2. e.need = {} => cell = [data |-> 0, flags |-> {}]
    BY DEF cell
  <2> QED BY <1>8, <1>9, <2>1, <2>2 DEF Whole
<1> QED BY <1>2, <1>4, <1>5, <1>6, <1>10 DEF Sound

(* _ensure_a_whole_dummy_cell_at_end_outbuf adds a cell unless a dummy is   *)
(* there.                                                                   *)
LEMMA EnsureWholeDummySound ==
  ASSUME NEW e, Sound(e)
  PROVE  LET f == EnsureWholeDummy(e)
         IN  /\ Sound(f)
             /\ f.state = e.state
             /\ f.outlen = (IF e.dummy THEN e.outlen ELSE e.outlen + CellSize)
<1> DEFINE c == Check(e, e.outlen < CellSize, "ensure_dummy_room")
<1>1. "ensure_dummy_room" \in CheckName /\ (e.outlen < CellSize) \in BOOLEAN
  BY DEF CheckName
<1>2. Sound(c) /\ SameButStatus(e, c)
  BY <1>1, CheckSound
<1> HIDE DEF c
<1>3. CASE e.dummy
  BY <1>3 DEF EnsureWholeDummy
<1>4. CASE ~e.dummy
  <2>1. EnsureWholeDummy(e) = AddDummyCell(c)
    BY <1>4 DEF EnsureWholeDummy, c
  <2>2. ~c.dummy /\ c.state = e.state /\ c.outlen = e.outlen
    BY <1>2, <1>4 DEF SameButStatus, SameOutbuf
  <2> QED BY <1>2, <1>4, <2>1, <2>2, AddDummyCellSound
<1> QED BY <1>3, <1>4

(* A whole dummy cell is CellSize bytes of the outbuf.                      *)
LEMMA DummyBytes ==
  ASSUME NEW e, Sound(e), e.dummy
  PROVE  e.outlen >= CellSize
<1>1. e.outlen - CellSize \in Nat
  <2>1. DropWholeDummy(e).outlen = e.outlen - CellSize
    BY DropWholeDummySound
  <2>2. DropWholeDummy(e) \in Endpoint
    BY DropWholeDummySound DEF Sound
  <2> QED BY <2>1, <2>2 DEF Endpoint
<1> QED BY <1>1, CellAssumption DEF Sound, Endpoint

(* A tick always finds, or makes, a whole cell's worth of bytes to send: the*)
(* CHECK at the end of _buflo_timer_fired cannot fail.                      *)
LEMMA FillOutbufSound ==
  ASSUME NEW e, Sound(e)
  PROVE  LET f == FillOutbuf(e)
         IN  /\ Sound(f)
             /\ f.state = e.state
             /\ f.outlen >= CellSize
             /\ f.outlen = IF e.outlen >= CellSize THEN e.outlen
                           ELSE e.outlen + CellSize
<1>1. e.outlen \in Nat /\ e.spdy \in Nat
  BY DEF Sound, Endpoint
<1>2. CASE e.outlen >= CellSize
  BY <1>2 DEF FillOutbuf
<1>3. CASE ~(e.outlen >= CellSize)
  <2>1. ~e.dummy
    BY <1>3, DummyBytes
  <2>2. CASE e.spdy > 0
    BY <1>1, <1>3, <2>1, <2>2, AddDataCellSound, CellAssumption DEF FillOutbuf
  <2>3. CASE ~(e.spdy > 0)
    BY <1>1, <1>3, <2>1, <2>3, EnsureWholeDummySound, CellAssumption DEF FillOutbuf
  <2> QED BY <2>2, <2>3
<1> QED BY <1>2, <1>3

(* Quotient and remainder, as counting cells in bytes needs them.           *)
LEMMA DivMod ==
  ASSUME NEW m \in Nat, NEW d \in Nat \ {0}
  PROVE  /\ m \div d \in Nat /\ m % d \in 0..(d - 1)
         /\ m = d * (m \div d) + (m % d)
BY SMT

(* Multiplication by a cell or body size is monotonic.                      *)
LEMMA MulMono ==
  ASSUME NEW a \in Int, NEW b \in Int, NEW d \in Nat, a <= b
  PROVE  d * a <= d * b
BY SMT

(* The bytes of two runs of cells are the bytes of the one and the other.   *)
LEMMA MulDist ==
  ASSUME NEW a \in Int, NEW b \in Int, NEW d \in Int
  PROVE  d * (a + b) = d * a + d * b
BY SMT

(* Fewer bytes of whole cells are fewer cells.                              *)
LEMMA MulLess ==
  ASSUME NEW a \in Int, NEW b \in Int, NEW d \in Nat, d * a < d * b
  PROVE  a < b
BY SMT

(* The cells of a flush: as many as needed, each with its share of bytes.  *)
LEMMA FlushCellsTyped ==
  ASSUME NEW e \in Endpoint, e.spdy > 0
  PROVE  FlushCells(e) \in Seq(Cell)
<1> DEFINE n == (e.spdy + BodySize - 1) \div BodySize
           payload(i) == Lesser(BodySize, e.spdy - (i - 1) * BodySize)
           flags(i) == IF i = 1 THEN e.need ELSE {}
<1>1. e.spdy \in Nat /\ e.need \in SUBSET Flag /\ BodySize \in Nat \ {0}
  BY CellAssumption DEF Endpoint
<1>2. e.spdy + BodySize - 1 \in Nat
  BY <1>1
<1>3. /\ n \in Nat
      /\ BodySize * n <= e.spdy + BodySize - 1
  <2>1. /\ n \in Nat
        /\ (e.spdy + BodySize - 1) % BodySize \in 0..(BodySize - 1)
        /\ e.spdy + BodySize - 1
             = BodySize * n + ((e.spdy + BodySize - 1) % BodySize)
    BY <1>1, <1>2, DivMod
  <2> HIDE DEF n
  <2>2. BodySize * n \in Nat
    BY <1>1, <2>1
  <2> QED BY <1>1, <2>1, <2>2
<1> HIDE DEF n
<1>4. ASSUME NEW i \in 1..n
      PROVE  [data |-> payload(i), flags |-> flags(i)] \in Cell
  <2>1. i \in Nat /\ i - 1 \in Int /\ i - 1 <= n - 1 /\ n - 1 \in Int
    BY <1>3
  <2>2. BodySize * (i - 1) <= BodySize * (n - 1)
    BY <1>1, <2>1, MulMono
  <2>3. BodySize * (n - 1) = BodySize * n - BodySize
    BY <1>1, <1>3
  <2>4. (i - 1) * BodySize = BodySize * (i - 1) /\ BodySize * (i - 1) \in Int
        /\ BodySize * n \in Int
    BY <1>1, <1>3, <2>1
  <2>5. e.spdy - (i - 1) * BodySize >= 1 /\ e.spdy - (i - 1) * BodySize \in Int
    BY <1>1, <1>3, <2>2, <2>3, <2>4
  <2>6. payload(i) \in 0..BodySize
    BY <1>1, <2>5 DEF Lesser
  <2>7. flags(i) \in SUBSET Flag
    BY <1>1
  <2> QED BY <2>6, <2>7 DEF Cell
<1>5. FlushCells(e) = [i \in 1..n |-> [data |-> payload(i), flags |-> flags(i)]]
  BY DEF FlushCells, n
<1> HIDE DEF payload, flags
<1>6. FlushCells(e) \in [1..n -> Cell]
  BY <1>4, <1>5
<1> QED BY <1>3, <1>6, SeqDef

(* _maybe_flush_data_to_cell_outbuf leaves spdy_outbuf_ empty and accounts  *)
(* for every cell it adds.                                                  *)
LEMMA FlushDataSound ==
  ASSUME NEW e, Sound(e)
  PROVE  LET f == FlushData(e)
         IN  Sound(f) /\ f.state = e.state /\ f.spdy = 0
<1>0. e.spdy \in Nat /\ e \in Endpoint
  BY DEF Sound, Endpoint
<1>1. CASE e.spdy = 0
  BY <1>1 DEF FlushData
<1>2. CASE e.spdy # 0
  <2> DEFINE d  == DropWholeDummy(e)
             c  == CheckCellFlags(d)
             fs == FlushCells(e)
             f  == [c EXCEPT !.cells = d.cells \o fs,
                             !.outlen = d.outlen + CellSize * Len(fs),
                             !.spdy = 0, !.need = {}]
  <2>1. FlushData(e) = f
    BY <1>2 DEF FlushData
  <2>2. Sound(d) /\ ~d.dummy /\ d.state = e.state
    BY DropWholeDummySound
  <2> HIDE DEF d
  <2>3. Sound(c) /\ SameButStatus(d, c)
    BY <2>2, CheckCellFlagsSound
  <2> HIDE DEF c
  <2>4. fs \in Seq(Cell)
    BY <1>0, <1>2, FlushCellsTyped
  <2> HIDE DEF fs
  <2>5. d \in Endpoint /\ c \in Endpoint
    BY <2>2, <2>3 DEF Sound
  <2>6. d.cells \in Seq(Cell) /\ d.outlen \in Nat /\ d.sent \in Nat
    BY <2>5 DEF Endpoint
  <2>7. /\ d.cells \o fs \in Seq(Cell)
        /\ Len(d.cells \o fs) = Len(d.cells) + Len(fs)
        /\ Len(d.cells) \in Nat /\ Len(fs) \in Nat
    BY <2>4, <2>6, ConcatProperties, LenProperties
  <2>8. d.outlen + CellSize * Len(fs) \in Nat
    BY <2>6, <2>7, CellAssumption
  <2>9. f \in Endpoint
    BY <2>5, <2>7, <2>8 DEF Endpoint
  <2>10. /\ f.cells = d.cells \o fs /\ f.outlen = d.outlen + CellSize * Len(fs)
         /\ f.spdy = 0 /\ f.sent = d.sent /\ f.state = d.state /\ ~f.dummy
    BY <2>2, <2>3, <2>5 DEF Endpoint, SameButStatus, SameOutbuf
  <2> HIDE DEF f
  <2>11. CellSize * (Len(d.cells) + Len(fs))
           = CellSize * Len(d.cells) + CellSize * Len(fs)
    <3> DEFINE a == Len(d.cells)
               b == Len(fs)
    <3>1. a \in Int /\ b \in Int /\ CellSize \in Int
      BY <2>7, CellAssumption
    <3> HIDE DEF a, b
    <3>2. CellSize * (a + b) = CellSize * a + CellSize * b
      BY <3>1, MulDist
    <3> QED BY <3>2 DEF a, b
  <2>12. CellSize * Len(d.cells) \in Nat /\ CellSize * Len(fs) \in Nat
    BY <2>7, CellAssumption
  <2>13. Balanced(f)
    <3>1. d.outlen = CellSize * Len(d.cells) - d.sent /\ d.sent < CellSize
      BY <2>2 DEF Sound, Balanced
    <3>2. f.outlen = CellSize * (Len(d.cells) + Len(fs)) - d.sent
      BY <2>6, <2>10, <2>11, <2>12, <3>1
    <3>3. f.outlen = CellSize * Len(f.cells) - f.sent
      BY <2>7, <2>10, <3>2
    <3> QED BY <2>10, <3>1, <3>3 DEF Balanced
  <2>14. Whole(f)
    BY <2>10 DEF Whole
  <2> QED BY <2>1, <2>2, <2>9, <2>10, <2>13, <2>14 DEF Sound
<1> QED BY <1>1, <1>2

(* Adding the write event changes nothing about the outbuf.                 *)
LEMMA EnableWriteSound ==
  ASSUME NEW e, Sound(e)
  PROVE  LET f == EnableWrite(e)
         IN  Sound(f) /\ f.state = e.state /\ f.spdy = e.spdy
<1> DEFINE c == Check(e, e.state # "ACTIVE", "write_event_while_active")
           f == EnableWrite(e)
<1>1. "write_event_while_active" \in CheckName /\ (e.state # "ACTIVE") \in BOOLEAN
  BY DEF CheckName
<1>2. Sound(c) /\ SameButStatus(e, c) /\ c \in Endpoint
  BY <1>1, CheckSound DEF Sound
<1>3. f = [c EXCEPT !.wev = TRUE]
  BY DEF EnableWrite
<1> HIDE DEF c, f
<1>4. f \in Endpoint /\ SameOutbuf(c, f) /\ f.state = c.state /\ f.spdy = c.spdy
  BY <1>2, <1>3 DEF Endpoint, SameOutbuf
<1>5. Sound(f)
  BY <1>2, <1>4, SoundFrame
<1> QED BY <1>2, <1>4, <1>5 DEF f, SameButStatus

(* _pump_spdy_send keeps the endpoint sound and the defense in the state it *)
(* was in.                                                                  *)
LEMMA PumpSendSound ==
  ASSUME NEW e, Sound(e), NEW k \in Nat
  PROVE  Sound(PumpSend(e, k)) /\ PumpSend(e, k).state = e.state
<1> DEFINE d == [e EXCEPT !.spdy = e.spdy + k]
           f == FlushData(d)
           x == Check(d, FALSE, "pending_pump_adds")
<1>1. e \in Endpoint /\ e.spdy + k \in Nat
  BY DEF Sound, Endpoint
<1>2. /\ d \in Endpoint /\ SameOutbuf(e, d)
      /\ d.state = e.state /\ d.spdy = e.spdy + k
  BY <1>1 DEF Endpoint, SameOutbuf
<1> HIDE DEF d
<1>3. Sound(d)
  BY <1>2, SoundFrame
<1>4. CASE e.state = "NONE"
  <2>1. PumpSend(e, k) = IF f.outlen > 0 THEN EnableWrite(f) ELSE f
    BY <1>4 DEF PumpSend, d
  <2>2. Sound(f) /\ f.state = d.state
    BY <1>3, FlushDataSound
  <2> HIDE DEF f
  <2> QED BY <1>2, <2>1, <2>2, EnableWriteSound
<1>5. CASE e.state = "PENDING"
  <2>1. PumpSend(e, k) = EnableWrite(IF d.spdy > 0 THEN AddDataCell(d) ELSE x)
    BY <1>5 DEF PumpSend, d
  <2>2. d.spdy > 0 => Sound(AddDataCell(d)) /\ AddDataCell(d).state = d.state
    BY <1>3, AddDataCellSound
  <2>3. "pending_pump_adds" \in CheckName
    BY DEF CheckName
  <2>4. Sound(x) /\ x.state = d.state
    BY <1>3, <2>3, CheckSound DEF SameButStatus
  <2> HIDE DEF x
  <2> QED BY <1>2, <2>1, <2>2, <2>4, EnableWriteSound
<1>6. CASE e.state \notin {"NONE", "PENDING"}
  BY <1>2, <1>3, <1>6 DEF PumpSend, d
<1> QED BY <1>4, <1>5, <1>6

(***************************************************************************)
(* Writing to the socket.                                                  *)
(***************************************************************************)

(* Counting n written bytes against the listed cells: if what is left of   *)
(* the outbuf is the listed cells less those bytes, the outbuf balances    *)
(* again, and the last cell listed, if any is left, is the one it was.     *)
LEMMA ProgressBalanced ==
  ASSUME NEW e \in Endpoint, NEW n \in Nat,
         e.sent < CellSize,
         e.outlen = CellSize * Len(e.cells) - (e.sent + n)
  PROVE  LET f == Progress(e, n)
         IN  /\ f \in Endpoint /\ Balanced(f)
             /\ f.outlen = e.outlen /\ f.dummy = e.dummy /\ f.state = e.state
             /\ f.cells \in Seq(Cell)
             /\ f.cells # << >> =>
                  f.cells[Len(f.cells)] = e.cells[Len(e.cells)]
<1> DEFINE total == e.sent + n
           w     == total \div CellSize
           r     == total % CellSize
           len   == Len(e.cells)
           front == SubSeq(e.cells, 1, w)
           rest  == SubSeq(e.cells, w + 1, len)
           f     == Progress(e, n)
<1>1. /\ e.cells \in Seq(Cell) /\ e.wire \in Seq(Cell)
      /\ e.sent \in Nat /\ e.outlen \in Nat /\ CellSize \in Nat \ {0}
  BY CellAssumption DEF Endpoint
<1>2. total \in Nat /\ len \in Nat
  BY <1>1, LenProperties
<1>3. f = [e EXCEPT !.sent = r, !.wire = e.wire \o front, !.cells = rest]
  BY DEF Progress
<1>4. e.outlen = CellSize * len - total
  OBVIOUS
<1> HIDE DEF total
<1>5. w \in Nat /\ r \in 0..(CellSize - 1) /\ total = CellSize * w + r
  BY <1>1, <1>2, DivMod
<1> HIDE DEF w, r, len
<1>6. CellSize * w \in Nat /\ CellSize * len \in Nat
  BY <1>1, <1>2, <1>5
<1>7. w <= len
  <2>1. CellSize * w < CellSize * (len + 1)
    <3> DEFINE a == CellSize * w
               b == CellSize * len
    <3>1. CellSize * (len + 1) = b + CellSize
      BY <1>1, <1>2
    <3>2. a \in Nat /\ b \in Nat /\ e.outlen = b - total /\ total = a + r
      BY <1>4, <1>5, <1>6
    <3> HIDE DEF a, b
    <3>3. a < b + CellSize
      BY <1>1, <1>2, <1>5, <3>2
    <3> QED BY <3>1, <3>3 DEF a
  <2>2. w < len + 1
    BY <1>1, <1>2, <1>5, <2>1, MulLess
  <2> QED BY <1>2, <1>5, <2>2
<1>8. \A i \in 1..len : e.cells[i] \in Cell
  BY <1>1, ElementOfSeq DEF len
<1>9. front \in Seq(Cell)
  <2>1. \A i \in 1..w : e.cells[i] \in Cell
    BY <1>2, <1>5, <1>7, <1>8
  <2> QED BY <1>5, <2>1, SubSeqProperties, SMTT(30)
<1>10. /\ rest \in Seq(Cell) /\ Len(rest) = len - w
       /\ \A i \in 1..(len - w) : rest[i] = e.cells[w + i]
  <2>1. \A i \in (w + 1)..len : e.cells[i] \in Cell
    BY <1>5, <1>8
  <2>2. w + 1 \in Int /\ len \in Int /\ w + 1 <= len + 1
    BY <1>2, <1>5, <1>7
  <2>3. /\ rest \in Seq(Cell)
        /\ Len(rest) = IF w + 1 <= len THEN len - (w + 1) + 1 ELSE 0
        /\ \A i \in 1..(len - (w + 1) + 1) : rest[i] = e.cells[(w + 1) + i - 1]
    BY <2>1, <2>2, SubSeqProperties, SMTT(30)
  <2>4. len - (w + 1) + 1 = len - w
    BY <1>2, <1>5
  <2>5. Len(rest) = len - w
    BY <1>2, <1>5, <1>7, <2>3
  <2>6. ASSUME NEW i \in 1..(len - w)  PROVE rest[i] = e.cells[w + i]
    <3>1. (w + 1) + i - 1 = w + i
      BY <1>2, <1>5
    <3> QED BY <2>3, <2>4, <3>1
  <2> QED BY <2>3, <2>5, <2>6
<1>11. e.wire \o front \in Seq(Cell)
  BY <1>1, <1>9, ConcatProperties
<1> HIDE DEF front, rest
<1>12. r \in Nat
  BY <1>1, <1>5
<1>13. f \in Endpoint
  BY <1>3, <1>10, <1>11, <1>12 DEF Endpoint
<1>14. /\ f.cells = rest /\ f.sent = r /\ f.outlen = e.outlen
       /\ f.dummy = e.dummy /\ f.state = e.state
  BY <1>3 DEF Endpoint
<1> HIDE DEF f
<1>15. Balanced(f)
  <2>1. CellSize * (len - w) = CellSize * len - CellSize * w
    BY <1>1, <1>2, <1>5
  <2>2. e.outlen = CellSize * (len - w) - r
    BY <1>1, <1>2, <1>4, <1>5, <1>6, <2>1
  <2>3. f.outlen = CellSize * Len(f.cells) - f.sent
    BY <1>10, <1>14, <2>2
  <2>4. f.sent < CellSize
    BY <1>1, <1>5, <1>14
  <2> QED BY <2>3, <2>4 DEF Balanced
<1>16. f.cells # << >> => f.cells[Len(f.cells)] = e.cells[len]
  <2>1. SUFFICES ASSUME f.cells # << >>
                 PROVE  rest[len - w] = e.cells[len]
    BY <1>10, <1>14
  <2>2. len - w \in 1..(len - w)
    BY <1>2, <1>5, <1>7, <1>10, <1>14, <2>1, EmptySeq
  <2>3. w + (len - w) = len
    BY <1>2, <1>5
  <2> QED BY <1>10, <2>2, <2>3
<1> QED BY <1>10, <1>13, <1>14, <1>15, <1>16 DEF f, len

(* Counting written bytes moves whole cells from the front of the list to  *)
(* the wire, and changes nothing of the line the two make.                 *)
LEMMA ProgressKeepsLine ==
  ASSUME NEW e \in Endpoint, NEW n \in Nat,
         e.sent < CellSize,
         e.outlen = CellSize * Len(e.cells) - (e.sent + n)
  PROVE  LET f == Progress(e, n)
         IN  /\ f.wire \o f.cells = e.wire \o e.cells
             /\ f.attempts = e.attempts
             /\ \E w \in Nat, r \in Nat : /\ e.sent + n = CellSize * w + r
                                        /\ f.sent = r
                                        /\ Len(f.wire) = Len(e.wire) + w
<1> DEFINE total == e.sent + n
           w     == total \div CellSize
           r     == total % CellSize
           len   == Len(e.cells)
           front == SubSeq(e.cells, 1, w)
           rest  == SubSeq(e.cells, w + 1, len)
           f     == Progress(e, n)
<1>1. /\ e.cells \in Seq(Cell) /\ e.wire \in Seq(Cell)
      /\ e.sent \in Nat /\ e.outlen \in Nat /\ CellSize \in Nat \ {0}
  BY CellAssumption DEF Endpoint
<1>2. total \in Nat /\ len \in Nat
  BY <1>1, LenProperties
<1>3. f = [e EXCEPT !.sent = r, !.wire = e.wire \o front, !.cells = rest]
  BY DEF Progress
<1>4. e.outlen = CellSize * len - total
  OBVIOUS
<1>5. total = e.sent + n
  OBVIOUS
<1> HIDE DEF total
<1>6. w \in Nat /\ r \in 0..(CellSize - 1) /\ total = CellSize * w + r
  BY <1>1, <1>2, DivMod
<1> HIDE DEF w, r, len, f
<1>7. w <= len
  <2> DEFINE a == CellSize * w
             b == CellSize * len
  <2>1. CellSize * (len + 1) = b + CellSize
    BY <1>1, <1>2
  <2>2. a \in Nat /\ b \in Nat /\ e.outlen = b - total /\ total = a + r
    BY <1>1, <1>2, <1>4, <1>6
  <2> HIDE DEF a, b
  <2>3. a < b + CellSize
    BY <1>1, <1>2, <1>6, <2>2
  <2>4. CellSize * w < CellSize * (len + 1)
    BY <2>1, <2>3 DEF a
  <2>5. w < len + 1
    BY <1>1, <1>2, <1>6, <2>4, MulLess
  <2> QED BY <1>2, <1>6, <2>5
<1>8. /\ front \in Seq(Cell) /\ Len(front) = w
      /\ \A i \in 1..w : front[i] = e.cells[i]
  <2>1. \A i \in 1..w : e.cells[i] \in Cell
    BY <1>1, <1>2, <1>6, <1>7, ElementOfSeq DEF len
  <2>2. /\ front \in Seq(Cell)
        /\ Len(front) = IF 1 <= w THEN w - 1 + 1 ELSE 0
        /\ \A i \in 1..(w - 1 + 1) : front[i] = e.cells[1 + i - 1]
    BY <1>6, <2>1, SubSeqProperties
  <2>3. Len(front) = w
    BY <1>6, <2>2
  <2>4. ASSUME NEW i \in 1..w  PROVE front[i] = e.cells[i]
    <3>1. 1 + i - 1 = i /\ i \in 1..(w - 1 + 1)
      BY <1>6
    <3> QED BY <2>2, <3>1
  <2> QED BY <2>2, <2>3, <2>4
<1>9. rest \in Seq(Cell)
  <2>1. \A i \in (w + 1)..len : e.cells[i] \in Cell
    BY <1>1, <1>2, <1>6, ElementOfSeq DEF len
  <2>2. w + 1 \in Int /\ len \in Int
    BY <1>2, <1>6
  <2> QED BY <2>1, <2>2, SubSeqProperties
<1>10. front \o rest = e.cells
  <2>1. 1 \in 1..(len + 1) /\ w \in (1 - 1)..len /\ len \in w..len
    BY <1>2, <1>6, <1>7
  <2>2. SubSeq(e.cells, 1, w) \o SubSeq(e.cells, w + 1, len) = SubSeq(e.cells, 1, len)
    BY <1>1, <2>1, ConcatAdjacentSubSeq DEF len
  <2>3. SubSeq(e.cells, 1, len) = e.cells
    BY <1>1, SubSeqFull DEF len
  <2> QED BY <2>2, <2>3
<1> HIDE DEF front, rest
<1>11. /\ f.wire = e.wire \o front /\ f.cells = rest /\ f.sent = r
       /\ f.attempts = e.attempts
  BY <1>3 DEF Endpoint
<1>12. f.wire \o f.cells = e.wire \o e.cells
  <2> DEFINE v == e.wire
  <2>0. v \in Seq(Cell) /\ front \in Seq(Cell) /\ rest \in Seq(Cell)
    BY <1>1, <1>8, <1>9
  <2> HIDE DEF v
  <2>1. (v \o front) \o rest = v \o (front \o rest)
    BY <2>0, ConcatAssociative
  <2> QED BY <1>10, <1>11, <2>1 DEF v
<1>13. Len(f.wire) = Len(e.wire) + w
  <2> DEFINE v == e.wire
  <2>0. v \in Seq(Cell) /\ front \in Seq(Cell) /\ Len(front) = w
    BY <1>1, <1>8
  <2> HIDE DEF v
  <2>1. Len(v \o front) = Len(v) + Len(front)
    BY <2>0, ConcatProperties
  <2> QED BY <1>11, <2>0, <2>1 DEF v
<1>14. r \in Nat
  BY <1>1, <1>6
<1> QED BY <1>5, <1>6, <1>11, <1>12, <1>13, <1>14 DEF f

(* Adding or removing the write event leaves the outbuf alone.              *)
LEMMA ToggleWriteTyped ==
  ASSUME NEW e \in Endpoint
  PROVE  LET f == ToggleWrite(e)
         IN  /\ f \in Endpoint /\ SameOutbuf(e, f)
             /\ f.state = e.state /\ f.wire = e.wire
<1> DEFINE c == Check(e, e.state # "ACTIVE", "write_event_while_active")
           on == e.outlen > 0
           f == ToggleWrite(e)
<1>1. /\ "write_event_while_active" \in CheckName
      /\ (e.state # "ACTIVE") \in BOOLEAN /\ on \in BOOLEAN
  BY DEF CheckName
<1>2. c \in Endpoint /\ SameButStatus(e, c)
  BY <1>1, CheckTyped
<1>3. f = [c EXCEPT !.wev = on]
  BY DEF ToggleWrite
<1> HIDE DEF c, f, on
<1>4. /\ f \in Endpoint /\ SameOutbuf(c, f)
      /\ f.state = c.state /\ f.wire = c.wire
  BY <1>1, <1>2, <1>3 DEF Endpoint, SameOutbuf
<1> QED BY <1>2, <1>4 DEF f, SameButStatus, SameOutbuf

(* So does removing it.                                                     *)
LEMMA DisableWriteTyped ==
  ASSUME NEW e \in Endpoint
  PROVE  LET f == DisableWrite(e)
         IN  /\ f \in Endpoint /\ SameOutbuf(e, f)
             /\ f.state = e.state /\ f.wire = e.wire
BY DEF DisableWrite, Endpoint, SameOutbuf

(* One write of an active defense counts an attempt and takes its bytes    *)
(* from the outbuf before they are counted against the cells.              *)
LEMMA SendOneCellTakes ==
  ASSUME NEW e, Sound(e), NEW n \in 0..e.outlen
  PROVE  \E d \in Endpoint :
           /\ SendOneCell(e, n) = Progress(d, n)
           /\ d.outlen = e.outlen - n /\ d.cells = e.cells /\ d.sent = e.sent
           /\ d.dummy = (e.dummy /\ e.outlen - n >= CellSize)
           /\ d.wire = e.wire /\ d.state = e.state
           /\ d.attempts = (e.attempts + 1) % L
           /\ d.outlen = CellSize * Len(d.cells) - (d.sent + n)
           /\ d.sent < CellSize
<1> DEFINE ok == e.outlen >= CellSize
           c == Check(e, ok, "active_outbuf_has_cell")
           left == e.outlen - n
           d == [c EXCEPT !.outlen   = left,
                          !.attempts = (e.attempts + 1) % L,
                          !.dummy    = e.dummy /\ left >= CellSize]
<1>1. SendOneCell(e, n) = Progress(d, n)
  BY DEF SendOneCell
<1>2. "active_outbuf_has_cell" \in CheckName /\ ok \in BOOLEAN
  BY DEF CheckName
<1>3. c \in Endpoint /\ SameButStatus(e, c)
  BY <1>2, CheckSound DEF Sound
<1>4. /\ e \in Endpoint /\ e.outlen \in Nat /\ e.sent \in Nat
      /\ e.attempts \in Nat /\ e.dummy \in BOOLEAN /\ e.cells \in Seq(Cell)
  BY LAssumption DEF Sound, Endpoint
<1>5. left \in Nat /\ n \in Nat
  BY <1>4
<1>6. (e.attempts + 1) % L \in 0..(L - 1)
  <2>1. e.attempts + 1 \in Nat
    BY <1>4
  <2> QED BY <2>1, LAssumption, DivMod
<1> HIDE DEF ok, c, left
<1>7. d \in Endpoint
  BY <1>3, <1>5, <1>6 DEF Endpoint
<1>8. /\ d.outlen = left /\ d.cells = e.cells /\ d.sent = e.sent
      /\ d.dummy = (e.dummy /\ left >= CellSize)
      /\ d.wire = e.wire /\ d.state = e.state
      /\ d.attempts = (e.attempts + 1) % L
  BY <1>3 DEF Endpoint, SameButStatus, SameOutbuf
<1> HIDE DEF d
<1>9. d.outlen = CellSize * Len(d.cells) - (d.sent + n)
  <2> DEFINE a == CellSize * Len(e.cells)
  <2>1. a \in Int
    BY <1>4, CellAssumption, LenProperties
  <2>2. e.outlen = a - e.sent
    BY DEF Sound, Balanced
  <2> HIDE DEF a
  <2>3. left = a - (e.sent + n)
    BY <1>4, <1>5, <2>1, <2>2 DEF left
  <2> QED BY <1>8, <2>3 DEF a
<1>10. d.sent < CellSize
  BY <1>8 DEF Sound, Balanced
<1> QED BY <1>1, <1>7, <1>8, <1>9, <1>10 DEF left

(* What is left of the outbuf says whether a whole dummy is still at its    *)
(* end.                                                                    *)
LEMMA SendOneCellSound ==
  ASSUME NEW e, Sound(e), NEW n \in 0..e.outlen
  PROVE  Sound(SendOneCell(e, n))
<1> DEFINE left == e.outlen - n
<1>0. n \in Nat
  BY DEF Sound, Endpoint
<1>1. PICK d \in Endpoint :
        /\ SendOneCell(e, n) = Progress(d, n)
        /\ d.outlen = left /\ d.cells = e.cells /\ d.sent = e.sent
        /\ d.dummy = (e.dummy /\ left >= CellSize)
        /\ d.outlen = CellSize * Len(d.cells) - (d.sent + n)
        /\ d.sent < CellSize
  BY SendOneCellTakes
<1> DEFINE f == Progress(d, n)
<1>2. /\ f \in Endpoint /\ Balanced(f)
      /\ f.outlen = d.outlen /\ f.dummy = d.dummy
      /\ f.cells \in Seq(Cell)
      /\ f.cells # << >> => f.cells[Len(f.cells)] = d.cells[Len(d.cells)]
  BY <1>0, <1>1, ProgressBalanced
<1> HIDE DEF f
<1>3. Whole(f)
  <2>1. SUFFICES ASSUME f.dummy
                 PROVE  /\ f.cells # << >>
                        /\ f.cells[Len(f.cells)] = [data |-> 0, flags |-> {}]
                        /\ Len(f.cells) = 1 => f.sent = 0
    BY DEF Whole
  <2>2. e.dummy /\ f.outlen >= CellSize
    BY <1>1, <1>2, <2>1
  <2>3. f.sent \in Nat /\ Len(f.cells) \in Nat /\ f.outlen \in Nat
        /\ f.outlen = CellSize * Len(f.cells) - f.sent
    BY <1>2, LenProperties DEF Endpoint, Balanced
  <2>4. Len(f.cells) # 0
    <3>1. SUFFICES ASSUME Len(f.cells) = 0  PROVE FALSE
      OBVIOUS
    <3>2. CellSize * Len(f.cells) = 0
      BY <3>1, CellAssumption
    <3> QED BY <2>2, <2>3, <3>2, CellAssumption
  <2>5. Len(f.cells) = 1 => f.sent = 0
    <3>1. SUFFICES ASSUME Len(f.cells) = 1  PROVE f.sent = 0
      OBVIOUS
    <3>2. CellSize * Len(f.cells) = CellSize
      BY <3>1, CellAssumption
    <3> QED BY <2>2, <2>3, <3>2, CellAssumption
  <2>6. f.cells # << >>
    BY <2>4
  <2> QED BY <1>1, <1>2, <2>2, <2>5, <2>6 DEF Sound, Whole
<1> QED BY <1>1, <1>2, <1>3 DEF Sound, f

(* One write with no defense on: everything but a dummy at the end, which  *)
(* is dropped whether or not the rest could be written.                    *)
LEMMA SendAllTakes ==
  ASSUME NEW e, Sound(e), NEW n \in 0..IdleAmount(e)
  PROVE  \E d \in Endpoint :
           /\ SendAll(e, n) = Progress(d, n)
           /\ d.cells = Firm(e) /\ ~d.dummy
           /\ d.wire = e.wire /\ d.sent = e.sent
           /\ d.outlen = CellSize * Len(d.cells) - (d.sent + n)
           /\ d.sent < CellSize
<1> DEFINE ok == e.outlen > 0
           c == Check(e, ok, "idle_write_has_cell")
           w == [c EXCEPT !.outlen = e.outlen - n]
           t == IF e.dummy /\ n = IdleAmount(e) THEN DisableWrite(w)
                ELSE ToggleWrite(w)
           ok2 == t.outlen >= CellSize /\ t.cells # << >>
           u == Check(t, ok2, "dummy_is_in_outbuf")
           d == DropWholeDummy(t)
           len == Len(e.cells)
           front == SubSeq(e.cells, 1, len - 1)
<1>1. SendAll(e, n) = Progress(d, n)
  BY DEF SendAll
<1>2. /\ e \in Endpoint /\ e.outlen \in Nat /\ e.sent \in Nat
      /\ e.dummy \in BOOLEAN /\ e.cells \in Seq(Cell)
  BY DEF Sound, Endpoint
<1>3. e.dummy => e.outlen >= CellSize
  BY DummyBytes
<1>4. /\ n \in Nat /\ e.outlen - n \in Nat
      /\ e.dummy => e.outlen - n - CellSize \in Nat
  BY <1>2, <1>3, CellAssumption DEF IdleAmount
<1>5. "idle_write_has_cell" \in CheckName /\ ok \in BOOLEAN
  BY DEF CheckName
<1>6. c \in Endpoint /\ SameButStatus(e, c)
  BY <1>2, <1>5, CheckTyped
<1> HIDE DEF ok, c
<1>7. /\ w \in Endpoint /\ w.outlen = e.outlen - n /\ w.cells = e.cells
      /\ w.sent = e.sent /\ w.dummy = e.dummy /\ w.state = e.state
      /\ w.wire = e.wire
  BY <1>4, <1>6 DEF Endpoint, SameButStatus, SameOutbuf
<1> HIDE DEF w
<1>8. t \in Endpoint /\ SameOutbuf(w, t) /\ t.wire = w.wire
  BY <1>7, DisableWriteTyped, ToggleWriteTyped
<1> HIDE DEF t
<1>9. /\ t.outlen = e.outlen - n /\ t.cells = e.cells
      /\ t.sent = e.sent /\ t.dummy = e.dummy /\ t.wire = e.wire
  BY <1>7, <1>8 DEF SameOutbuf
<1>10. len \in Nat /\ e.sent < CellSize /\ CellSize * len \in Int
       /\ e.outlen = CellSize * len - e.sent
  BY <1>2, CellAssumption, LenProperties DEF Sound, Balanced
<1>11. /\ d \in Endpoint /\ ~d.dummy /\ d.sent < CellSize
       /\ d.outlen = CellSize * Len(d.cells) - (d.sent + n)
       /\ d.cells = Firm(e) /\ d.wire = e.wire /\ d.sent = e.sent
  <2>1. CASE ~e.dummy
    <3>1. d = t
      BY <1>9, <2>1 DEF DropWholeDummy
    <3> DEFINE a == CellSize * len
    <3> HIDE DEF a
    <3>2. e.outlen - n = a - (e.sent + n)
      BY <1>2, <1>4, <1>10 DEF a
    <3> HIDE DEF d
    <3> QED BY <1>8, <1>9, <1>10, <2>1, <3>1, <3>2 DEF a, Firm
  <2>2. CASE e.dummy
    <3>0. Firm(e) = front
      BY <2>2 DEF Firm
    <3>1. d = [u EXCEPT !.cells = front, !.outlen = (e.outlen - n) - CellSize,
                        !.dummy = FALSE]
      BY <1>9, <2>2 DEF DropWholeDummy
    <3>2. "dummy_is_in_outbuf" \in CheckName /\ ok2 \in BOOLEAN
      BY DEF CheckName
    <3>3. u \in Endpoint /\ SameButStatus(t, u)
      BY <1>8, <3>2, CheckTyped
    <3> HIDE DEF u, d, ok2
    <3>4. len > 0
      BY <1>2, <1>10, <2>2, EmptySeq DEF Sound, Whole
    <3>5. \A i \in 1..(len - 1) : e.cells[i] \in Cell
      BY <1>2, <1>10, ElementOfSeq
    <3> HIDE DEF len
    <3>6. front \in Seq(Cell) /\ Len(front) = len - 1
      BY <1>10, <3>4, <3>5, SubSeqProperties
    <3> HIDE DEF front
    <3>7. d \in Endpoint
      BY <1>4, <2>2, <3>1, <3>3, <3>6 DEF Endpoint
    <3>8. /\ ~d.dummy /\ d.cells = front /\ d.sent = e.sent
          /\ d.outlen = (e.outlen - n) - CellSize /\ d.wire = e.wire
      BY <1>9, <3>1, <3>3 DEF Endpoint, SameButStatus, SameOutbuf
    <3>9. CellSize * (len - 1) = CellSize * len - CellSize
      BY <1>10, CellAssumption
    <3>10. (e.outlen - n) - CellSize = CellSize * (len - 1) - (e.sent + n)
      <4> DEFINE a == CellSize * len
                 b == CellSize * (len - 1)
      <4>1. /\ a \in Int /\ b = a - CellSize /\ e.outlen = a - e.sent
            /\ CellSize \in Int
        BY <1>10, <3>9, CellAssumption
      <4> HIDE DEF a, b
      <4>2. (e.outlen - n) - CellSize = b - (e.sent + n)
        BY <1>2, <1>4, <4>1
      <4> QED BY <4>2 DEF b
    <3>11. d.outlen = CellSize * Len(d.cells) - (d.sent + n)
      BY <3>6, <3>8, <3>10
    <3> QED BY <1>10, <3>0, <3>7, <3>8, <3>11
  <2> QED BY <1>2, <2>1, <2>2
<1> HIDE DEF d
<1> QED BY <1>1, <1>11

(* ... and the outbuf stays sound.                                         *)
LEMMA SendAllSound ==
  ASSUME NEW e, Sound(e), NEW n \in 0..IdleAmount(e)
  PROVE  Sound(SendAll(e, n))
<1>0. n \in Nat
  BY DEF IdleAmount, Sound, Endpoint
<1>1. PICK d \in Endpoint :
        /\ SendAll(e, n) = Progress(d, n) /\ ~d.dummy
        /\ d.outlen = CellSize * Len(d.cells) - (d.sent + n)
        /\ d.sent < CellSize
  BY SendAllTakes
<1>2. LET f == Progress(d, n)
      IN  f \in Endpoint /\ Balanced(f) /\ f.dummy = d.dummy
  BY <1>0, <1>1, ProgressBalanced
<1> QED BY <1>1, <1>2 DEF Sound, Whole

(* _send_cell_outbuf keeps the endpoint sound, in a defense and out of one, *)
(* for every number of bytes the socket may take.                           *)
LEMMA SendCellOutbufSound ==
  ASSUME NEW e, Sound(e), NEW n \in 0..MaxWrite(e)
  PROVE  Sound(SendCellOutbuf(e, n))
<1>1. e.outlen \in Nat /\ CellSize \in Nat
  BY CellAssumption DEF Sound, Endpoint
<1>2. CASE e.state = "ACTIVE"
  <2>1. n \in 0..e.outlen
    BY <1>1, <1>2 DEF MaxWrite, Lesser
  <2> QED BY <1>2, <2>1, SendOneCellSound DEF SendCellOutbuf
<1>3. CASE e.state # "ACTIVE"
  BY <1>3, SendAllSound DEF MaxWrite, SendCellOutbuf
<1> QED BY <1>2, <1>3

(***************************************************************************)
(* Defense sessions: what starts, stops and finishes them.                 *)
(***************************************************************************)

(* defense_info_.reset() ends the session and leaves the outbuf alone.      *)
LEMMA ResetDefenseSound ==
  ASSUME NEW e, Sound(e)
  PROVE  LET f == ResetDefense(e)
         IN  Sound(f) /\ f.state = "NONE" /\ f.role = e.role
<1> DEFINE f == ResetDefense(e)
<1>1. e \in Endpoint /\ 0 \in 0..(L - 1)
  BY LAssumption DEF Sound
<1>2. f \in Endpoint /\ SameOutbuf(e, f) /\ f.state = "NONE" /\ f.role = e.role
  BY <1>1 DEF ResetDefense, Endpoint, DefenseState, SameOutbuf
<1>3. Sound(f)
  BY <1>2, SoundFrame
<1> QED BY <1>2, <1>3

(* start_defense_session leaves the outbuf alone.                           *)
LEMMA StartDefenseSound ==
  ASSUME NEW e, Sound(e)
  PROVE  LET f == StartDefense(e)
         IN  Sound(f) /\ f.state = "ACTIVE" /\ SameOutbuf(e, f)
<1> DEFINE ok1 == e.state = "NONE"
           ok2 == ~e.timer
           c1 == Check(e, ok1, "start_when_none")
           c2 == Check(c1, ok2, "timer_already_running")
           s == [c2 EXCEPT !.timer = TRUE, !.state = "ACTIVE", !.doneRecv = FALSE]
           f == StartDefense(e)
<1>1. /\ "start_when_none" \in CheckName /\ "timer_already_running" \in CheckName
      /\ ok1 \in BOOLEAN /\ ok2 \in BOOLEAN
  BY DEF CheckName
<1>2. f = DisableWrite(s)
  BY DEF StartDefense
<1> HIDE DEF ok1, ok2, f
<1>3. Sound(c1) /\ SameButStatus(e, c1)
  BY <1>1, CheckSound
<1> HIDE DEF c1
<1>4. Sound(c2) /\ SameButStatus(c1, c2) /\ c2 \in Endpoint
  BY <1>1, <1>3, CheckSound DEF Sound
<1> HIDE DEF c2
<1>5. s \in Endpoint /\ SameOutbuf(c2, s) /\ s.state = "ACTIVE"
  BY <1>4 DEF Endpoint, DefenseState, SameOutbuf
<1> HIDE DEF s
<1>6. f \in Endpoint /\ SameOutbuf(s, f) /\ f.state = "ACTIVE"
  BY <1>2, <1>5, DisableWriteTyped
<1>7. SameOutbuf(e, f)
  BY <1>3, <1>4, <1>5, <1>6 DEF SameButStatus, SameOutbuf
<1> QED BY <1>6, <1>7, SoundFrame DEF f

(* set_auto_start_defense_session_on_next_send leaves the outbuf alone.     *)
LEMMA SetAutoStartSound ==
  ASSUME NEW e, Sound(e)
  PROVE  Sound(SetAutoStart(e))
<1> DEFINE ok1 == e.state = "NONE"
           ok2 == e.role = "CSP"
           ok3 == e.spdy = 0
           ok4 == e.outlen = 0
           ok5 == "START" \notin e.need
           c1 == Check(e, ok1, "autostart_when_none")
           c2 == Check(c1, ok2, "autostart_client")
           c3 == Check(c2, ok3, "autostart_no_data")
           c4 == Check(c3, ok4, "autostart_no_cells")
           c5 == Check(c4, ok5, "autostart_flag_clear")
           f == [c5 EXCEPT !.state = "PENDING", !.need = e.need \cup {"START"}]
<1>1. /\ ok1 \in BOOLEAN /\ ok2 \in BOOLEAN /\ ok3 \in BOOLEAN
      /\ ok4 \in BOOLEAN /\ ok5 \in BOOLEAN
      /\ {"autostart_when_none", "autostart_client", "autostart_no_data",
          "autostart_no_cells", "autostart_flag_clear"} \subseteq CheckName
  BY DEF CheckName
<1>2. SetAutoStart(e) = f
  BY DEF SetAutoStart
<1> HIDE DEF ok1, ok2, ok3, ok4, ok5
<1>3. Sound(c1)
  BY <1>1, CheckSound
<1> HIDE DEF c1
<1>4. Sound(c2)
  BY <1>1, <1>3, CheckSound
<1> HIDE DEF c2
<1>5. Sound(c3)
  BY <1>1, <1>4, CheckSound
<1> HIDE DEF c3
<1>6. Sound(c4)
  BY <1>1, <1>5, CheckSound
<1> HIDE DEF c4
<1>7. Sound(c5) /\ c5 \in Endpoint
  BY <1>1, <1>6, CheckSound DEF Sound
<1> HIDE DEF c5
<1>8. e.need \cup {"START"} \in SUBSET Flag
  BY DEF Sound, Endpoint, Flag
<1>9. f \in Endpoint /\ SameOutbuf(c5, f)
  BY <1>7, <1>8 DEF Endpoint, DefenseState, SameOutbuf
<1> QED BY <1>2, <1>7, <1>9, SoundFrame

(* stop_defense_session leaves the outbuf alone, even when it resets.       *)
LEMMA StopDefenseSound ==
  ASSUME NEW e, Sound(e)
  PROVE  Sound(StopDefense(e))
<1> DEFINE ok == ~e.stop
           c == Check(e, ok, "stop_requested_once")
           need == (e.need \ {"START"}) \cup
                     (IF e.role = "CSP" THEN {"STOP"} ELSE {})
           f == [c EXCEPT !.stop = TRUE, !.need = need]
<1>1. CASE e.state # "ACTIVE"
  BY <1>1, ResetDefenseSound DEF StopDefense
<1>2. CASE e.state = "ACTIVE"
  <2>1. "stop_requested_once" \in CheckName /\ ok \in BOOLEAN
    BY DEF CheckName
  <2>2. StopDefense(e) = f
    BY <1>2 DEF StopDefense
  <2>3. need \in SUBSET Flag
    BY DEF Sound, Endpoint, Flag
  <2> HIDE DEF ok, need
  <2>4. Sound(c) /\ c \in Endpoint
    BY <2>1, CheckSound DEF Sound
  <2> HIDE DEF c
  <2>5. f \in Endpoint /\ SameOutbuf(c, f)
    BY <2>3, <2>4 DEF Endpoint, SameOutbuf
  <2> QED BY <2>2, <2>4, <2>5, SoundFrame
<1> QED BY <1>1, <1>2

(* _check_notify_a_defense_session_done only notifies.                      *)
LEMMA NotifyIfDoneSound ==
  ASSUME NEW e, Sound(e)
  PROVE  Sound(NotifyIfDone(e))
<1> DEFINE f == [e EXCEPT !.notified = TRUE]
<1>1. f \in Endpoint /\ SameOutbuf(e, f)
  BY DEF Sound, Endpoint, SameOutbuf
<1>2. Sound(f)
  BY <1>1, SoundFrame
<1> QED BY <1>2 DEF NotifyIfDone

(* The dummy that carries left-over flags replaces a droppable one.         *)
LEMMA SendFlagsSound ==
  ASSUME NEW e, Sound(e)
  PROVE  Sound(SendFlags(e))
<1> DEFINE d == DropWholeDummy(e)
           a == AddDummyCell(d)
<1>1. Sound(d) /\ ~d.dummy
  BY DropWholeDummySound
<1> HIDE DEF d
<1>2. Sound(a)
  BY <1>1, AddDummyCellSound
<1> HIDE DEF a
<1>3. Sound(EnableWrite(a))
  BY <1>2, EnableWriteSound
<1> QED BY <1>3 DEF SendFlags, a, d

(* Both ways to finish: a reset, the flags that outlive it, a flush, and a *)
(* cell for the flags the flush could not carry.                           *)
LEMMA FlushAfterResetSound ==
  ASSUME NEW e, Sound(e), NEW k \in Nat, NEW need \in SUBSET Flag
  PROVE  Sound(SendFlags(PumpSend([ResetDefense(e) EXCEPT !.timer = FALSE,
                                                          !.need = need], k)))
<1> DEFINE d == ResetDefense(e)
           r == [d EXCEPT !.timer = FALSE, !.need = need]
<1>1. Sound(d) /\ d \in Endpoint
  BY ResetDefenseSound DEF Sound
<1> HIDE DEF d
<1>2. r \in Endpoint /\ SameOutbuf(d, r)
  BY <1>1 DEF Endpoint, SameOutbuf
<1>3. Sound(r)
  BY <1>1, <1>2, SoundFrame
<1> HIDE DEF r
<1>4. Sound(PumpSend(r, k))
  BY <1>3, PumpSendSound
<1>5. Sound(SendFlags(PumpSend(r, k)))
  BY <1>4, SendFlagsSound
<1> QED BY <1>5 DEF r, d

(* _buflo_timer_fired when the session is done or has run out of time.      *)
LEMMA FinishDefenseSound ==
  ASSUME NEW e, Sound(e), NEW k \in Nat
  PROVE  Sound(FinishDefense(e, k)) /\ Sound(AutoStopDefense(e, k))
<1> DEFINE need == FlagsAfterFinish(e)
           s(flags) == SendFlags(PumpSend([ResetDefense(e) EXCEPT
                                             !.timer = FALSE, !.need = flags], k))
           c(flags) == Check(s(flags), s(flags).need = {}, "flag_left_behind")
<1>1. need \in SUBSET Flag /\ {"AUTO_STOPPED"} \in SUBSET Flag
  BY DEF Flag, FlagsAfterFinish
<1>2. "flag_left_behind" \in CheckName
  BY DEF CheckName
<1>3. FinishDefense(e, k) = NotifyIfDone(c(need))
  BY DEF FinishDefense
<1>4. AutoStopDefense(e, k) = c({"AUTO_STOPPED"})
  BY DEF AutoStopDefense
<1>5. ASSUME NEW flags \in SUBSET Flag  PROVE Sound(c(flags))
  <2>1. Sound(s(flags))
    BY FlushAfterResetSound
  <2> HIDE DEF s
  <2>2. (s(flags).need = {}) \in BOOLEAN
    OBVIOUS
  <2> QED BY <1>2, <2>1, <2>2, CheckSound
<1> HIDE DEF c, need
<1>6. Sound(NotifyIfDone(c(need)))
  BY <1>1, <1>5, NotifyIfDoneSound
<1> QED BY <1>1, <1>3, <1>4, <1>5, <1>6

(***************************************************************************)
(* The event handlers.                                                     *)
(***************************************************************************)

(* _buflo_timer_fired, in each of its branches.                             *)
LEMMA TimerFiredSound ==
  ASSUME NEW e, Sound(e), NEW expired \in BOOLEAN, NEW k \in Nat,
         NEW n \in 0..MaxWrite(FillOutbuf(e))
  PROVE  Sound(TimerFired(e, expired, k, n))
<1>1. CASE IsDoneDefendingSend(e)
  BY <1>1, FinishDefenseSound DEF TimerFired
<1>2. CASE ~IsDoneDefendingSend(e) /\ expired /\ e.role = "CSP"
  <2>1. "time_limit" \in CheckName
    BY DEF CheckName
  <2>2. Sound(Check(e, FALSE, "time_limit"))
    BY <2>1, CheckSound
  <2> QED BY <1>2, <2>2 DEF TimerFired
<1>3. CASE ~IsDoneDefendingSend(e) /\ expired /\ e.role = "SSP"
  <2>1. TimerFired(e, expired, k, n) = AutoStopDefense(e, k)
    BY <1>3 DEF TimerFired
  <2> QED BY <2>1, FinishDefenseSound
<1>4. CASE ~IsDoneDefendingSend(e) /\ ~expired
  <2>1. TimerFired(e, expired, k, n) = SendCellOutbuf(FillOutbuf(e), n)
    BY <1>4 DEF TimerFired
  <2>2. Sound(FillOutbuf(e))
    BY FillOutbufSound
  <2> QED BY <2>1, <2>2, SendCellOutbufSound
<1>5. e.role \in {"CSP", "SSP"}
  BY DEF Sound, Endpoint, Role
<1> QED BY <1>1, <1>2, <1>3, <1>4, <1>5

(* _on_socket_writecb, also when it starts a pending defense and at once    *)
(* makes its first write.                                                   *)
LEMMA SocketWritableSound ==
  ASSUME NEW e, Sound(e), NEW n \in 0..MaxWrite(e)
  PROVE  Sound(SocketWritable(e, n))
<1>1. CASE e.state # "PENDING"
  BY <1>1, SendCellOutbufSound DEF SocketWritable
<1>2. CASE e.state = "PENDING"
  <2> DEFINE ok == e.outlen = CellSize
             c == Check(e, ok, "pending_outbuf_one_cell")
             r == [c EXCEPT !.state = "NONE"]
             s == StartDefense(r)
  <2>1. SocketWritable(e, n) = SendCellOutbuf(s, n)
    BY <1>2 DEF SocketWritable
  <2>2. "pending_outbuf_one_cell" \in CheckName /\ ok \in BOOLEAN
    BY DEF CheckName
  <2>3. Sound(c) /\ SameButStatus(e, c) /\ c \in Endpoint
    BY <2>2, CheckSound DEF Sound
  <2> HIDE DEF ok, c
  <2>4. r \in Endpoint /\ SameOutbuf(c, r)
    BY <2>3 DEF Endpoint, DefenseState, SameOutbuf
  <2> HIDE DEF r
  <2>5. Sound(r)
    BY <2>3, <2>4, SoundFrame
  <2>6. Sound(s) /\ s.state = "ACTIVE" /\ SameOutbuf(r, s)
    BY <2>5, StartDefenseSound
  <2> HIDE DEF s
  <2>7. s.outlen = e.outlen /\ e.outlen \in Nat
    BY <2>3, <2>4, <2>6 DEF SameButStatus, SameOutbuf, Sound, Endpoint
  <2>8. n \in 0..s.outlen
    BY <1>2, <2>7, CellAssumption DEF MaxWrite, IdleAmount
  <2>9. Sound(SendOneCell(s, n))
    BY <2>6, <2>8, SendOneCellSound
  <2> QED BY <2>1, <2>6, <2>9 DEF SendCellOutbuf
<1> QED BY <1>1, <1>2

(* The flags of a cell, in any combination, leave the outbuf alone.         *)
LEMMA HandleFlagsSound ==
  ASSUME NEW e, Sound(e), NEW flags \in SUBSET Flag
  PROVE  Sound(HandleFlags(e, flags))
<1> DEFINE auto  == "AUTO_STOPPED" \in flags
           ok1 == auto => e.role = "CSP"
           c1 == Check(e, ok1, "client_flag_seen")
           again == auto /\ e.state = "ACTIVE" /\ ~e.stop
           ok2 == again => "START" \notin e.need
           c2 == Check(c1, ok2, "restart_flag_clear")
           w  == [c2 EXCEPT !.need = e.need \cup {"START"}]
           a  == IF again THEN w ELSE c2
           ok3 == ~({"START", "STOP"} \subseteq flags)
           c3 == Check(a, ok3, "start_and_stop")
           ok4 == flags \cap {"START", "STOP"} # {} => e.role = "SSP"
           c4 == Check(c3, ok4, "server_flag_seen")
           s  == IF "START" \in flags THEN StartDefense(c4) ELSE c4
<1>1. HandleFlags(e, flags) = IF "STOP" \in flags THEN StopDefense(s) ELSE s
  BY DEF HandleFlags
<1>2. /\ {"client_flag_seen", "restart_flag_clear", "start_and_stop",
          "server_flag_seen"} \subseteq CheckName
      /\ ok1 \in BOOLEAN /\ ok2 \in BOOLEAN /\ ok3 \in BOOLEAN /\ ok4 \in BOOLEAN
  BY DEF CheckName
<1>3. e.need \cup {"START"} \in SUBSET Flag
  BY DEF Sound, Endpoint, Flag
<1> HIDE DEF ok1, ok2, ok3, ok4
<1>4. Sound(c1)
  BY <1>2, CheckSound
<1> HIDE DEF c1
<1>5. Sound(c2) /\ c2 \in Endpoint
  BY <1>2, <1>4, CheckSound DEF Sound
<1> HIDE DEF c2
<1>6. w \in Endpoint /\ SameOutbuf(c2, w)
  BY <1>3, <1>5 DEF Endpoint, SameOutbuf
<1> HIDE DEF w
<1>7. Sound(a)
  BY <1>5, <1>6, SoundFrame
<1> HIDE DEF a
<1>8. Sound(c3)
  BY <1>2, <1>7, CheckSound
<1> HIDE DEF c3
<1>9. Sound(c4)
  BY <1>2, <1>8, CheckSound
<1> HIDE DEF c4
<1>10. Sound(s)
  BY <1>9, StartDefenseSound
<1> HIDE DEF s
<1> QED BY <1>1, <1>10, StopDefenseSound

(* _handle_input_cell, whatever the cell says and whatever the stream's user*)
(* then sends.                                                              *)
LEMMA HandleCellSound ==
  ASSUME NEW e, Sound(e), NEW cell \in Cell, NEW k \in Int
  PROVE  Sound(HandleCell(e, cell, k))
<1> DEFINE f == HandleFlags(e, cell.flags)
           d == IF cell.data > 0 /\ k >= 0 THEN PumpSend(f, k) ELSE f
           ok == e.role = "CSP"
           c == Check(d, ok, "client_flag_seen")
           h == [c EXCEPT !.doneRecv = TRUE]
<1>1. HandleCell(e, cell, k) =
        IF "DONE" \in cell.flags THEN NotifyIfDone(h) ELSE d
  BY DEF HandleCell
<1>2. cell.flags \in SUBSET Flag
  BY DEF Cell
<1>3. "client_flag_seen" \in CheckName /\ ok \in BOOLEAN
  BY DEF CheckName
<1> HIDE DEF ok
<1>4. Sound(f)
  BY <1>2, HandleFlagsSound
<1> HIDE DEF f
<1>5. k >= 0 => Sound(PumpSend(f, k))
  BY <1>4, PumpSendSound
<1>6. Sound(d)
  BY <1>4, <1>5
<1> HIDE DEF d
<1>7. Sound(c) /\ c \in Endpoint
  BY <1>3, <1>6, CheckSound DEF Sound
<1> HIDE DEF c
<1>8. h \in Endpoint /\ SameOutbuf(c, h)
  BY <1>7 DEF Endpoint, SameOutbuf
<1> HIDE DEF h
<1>9. Sound(h)
  BY <1>7, <1>8, SoundFrame
<1> QED BY <1>1, <1>6, <1>9, NotifyIfDoneSound

(* A new channel has an empty outbuf and no cells.                          *)
LEMMA NewEndpointSound ==
  ASSUME NEW role \in Role
  PROVE  Sound(NewEndpoint(role))
<1> DEFINE e == NewEndpoint(role)
<1>1. << >> \in Seq(Cell) /\ Len(<< >>) = 0
  BY EmptySeq
<1>2. /\ "up" \in Status /\ "NONE" \in DefenseState
      /\ {} \in SUBSET Flag /\ 0 \in 0..(L - 1)
  BY LAssumption DEF Status, DefenseState
<1>3. e \in Endpoint
  BY <1>1, <1>2 DEF NewEndpoint, Endpoint
<1>4. e.outlen = 0 /\ e.cells = << >> /\ e.sent = 0 /\ e.dummy = FALSE
  BY DEF NewEndpoint
<1>5. CellSize * 0 = 0
  BY CellAssumption
<1>6. Balanced(e)
  BY <1>1, <1>4, <1>5, CellAssumption DEF Balanced
<1>7. Whole(e)
  BY <1>4 DEF Whole
<1> QED BY <1>3, <1>6, <1>7 DEF Sound

(* A balanced outbuf that lists no cell has no progress on one either.     *)
LEMMA NoCellNoProgress ==
  ASSUME NEW e, Sound(e), e.cells = << >>
  PROVE  e.sent = 0
<1>1. e.outlen \in Nat /\ e.sent \in Nat /\ Len(e.cells) = 0
  BY EmptySeq DEF Sound, Endpoint
<1>2. CellSize * Len(e.cells) = 0
  BY <1>1, CellAssumption
<1> QED BY <1>1, <1>2 DEF Sound, Balanced

-----------------------------------------------------------------------------
(* No wake-up is lost.                                                     *)
(* f is watched for writing as e is, and has failed no check that e passed.*)
Kept(e, f) ==
  /\ f.role = e.role /\ f.state = e.state
  /\ f.timer = e.timer /\ f.wev = e.wev
  /\ f.status = "up" => e.status = "up"

(* WriteMonitoring, of an endpoint.                                        *)
Watched(e) ==
  e.status = "up" =>
    IF e.state = "ACTIVE" THEN e.timer /\ ~e.wev
    ELSE ~e.timer /\ (e.wev <=> e.outlen > 0)

(* NothingStranded, of an endpoint, and that only a client is ever armed.   *)
Served(e) ==
  e.status = "up" => /\ e.state = "PENDING" => e.role = "CSP"
                     /\ e.state = "NONE" => e.spdy = 0 /\ e.need = {}

(* What both depend on is the same in f as in e.                           *)
SameWake(e, f) ==
  Kept(e, f) /\ f.outlen = e.outlen /\ f.spdy = e.spdy /\ f.need = e.need

(* A handler that led from e to f has lost no wake-up and stranded nothing. *)
Wakes(e, f) ==
  /\ f.role = e.role
  /\ f.status = "up" => e.status = "up"
  /\ Watched(f)
  /\ Served(e) => Served(f)

LEMMA SameWakes ==
  ASSUME NEW e, NEW f, SameWake(e, f), Watched(e)
  PROVE  Wakes(e, f)
BY DEF SameWake, Kept, Watched, Served, Wakes

LEMMA WakesTransitive ==
  ASSUME NEW e, NEW f, NEW g, Wakes(e, f), Wakes(f, g)
  PROVE  Wakes(e, g)
BY DEF Wakes

(* A check that passes changes nothing, one that fails ends the process.    *)
LEMMA CheckKeepsTyped ==
  ASSUME NEW e \in Endpoint, NEW ok \in BOOLEAN, NEW name \in CheckName
  PROVE  LET f == Check(e, ok, name)
         IN  Kept(e, f) /\ f \in Endpoint /\ SameButStatus(e, f)
             /\ (f.status = "up" => ok)
<1>1. Check(e, ok, name) \in Endpoint /\ SameButStatus(e, Check(e, ok, name))
  BY CheckTyped
<1>2. name # "up"
  BY DEF CheckName
<1>3. CASE ok \/ e.status # "up"
  BY <1>1, <1>3 DEF Check, Kept, SameButStatus
<1>4. CASE ~(ok \/ e.status # "up")
  <2>1. Check(e, ok, name).status = name
    BY <1>4 DEF Check, Endpoint
  <2> QED BY <1>1, <1>2, <2>1 DEF Kept, SameButStatus
<1> QED BY <1>3, <1>4

LEMMA CheckKeeps ==
  ASSUME NEW e, Sound(e), NEW ok \in BOOLEAN, NEW name \in CheckName
  PROVE  LET f == Check(e, ok, name)
         IN  Kept(e, f) /\ Sound(f) /\ SameButStatus(e, f) /\ (f.status = "up" => ok)
<1>1. Sound(Check(e, ok, name))
  BY CheckSound
<1>2. e \in Endpoint
  BY DEF Sound
<1> QED BY <1>1, <1>2, CheckKeepsTyped

(* The flags of a new cell may fail a check and change nothing else.        *)
LEMMA CheckCellFlagsKeeps ==
  ASSUME NEW e, Sound(e)
  PROVE  LET f == CheckCellFlags(e)
         IN  Kept(e, f) /\ Sound(f) /\ SameButStatus(e, f)
<1> DEFINE ok1 == "START" \in e.need =>
                   /\ e.role = "CSP"
                   /\ \/ e.state = "PENDING"
                      \/ e.state = "ACTIVE" /\ ~e.stop
           ok2 == e.need \cap {"AUTO_STOPPED", "DONE"} # {} => e.role = "SSP"
           c == Check(e, ok1, "start_flag_use")
           f == Check(c, ok2, "server_flag_use")
<1>1. ok1 \in BOOLEAN /\ ok2 \in BOOLEAN
  OBVIOUS
<1>2. "start_flag_use" \in CheckName /\ "server_flag_use" \in CheckName
  BY DEF CheckName
<1>3. CheckCellFlags(e) = f
  BY DEF CheckCellFlags
<1> HIDE DEF ok1, ok2
<1>4. Kept(e, c) /\ Sound(c) /\ SameButStatus(e, c)
  BY <1>1, <1>2, CheckKeeps
<1> HIDE DEF c
<1>5. Kept(c, f) /\ Sound(f) /\ SameButStatus(c, f)
  BY <1>1, <1>2, <1>4, CheckKeeps
<1> HIDE DEF f
<1> QED BY <1>3, <1>4, <1>5 DEF Kept, SameButStatus, SameOutbuf

(* A new cell takes all flags with it and leaves the write event alone.     *)
LEMMA AppendCellKeeps ==
  ASSUME NEW e, Sound(e), NEW payload \in 0..BodySize
  PROVE  LET f == AppendCell(e, payload)
         IN  Kept(e, f) /\ f.need = {} /\ f.spdy = e.spdy
<1> DEFINE d == CheckCellFlags(e)
           f == [d EXCEPT
                   !.cells  = Append(e.cells, [data |-> payload, flags |-> e.need]),
                   !.outlen = e.outlen + CellSize,
                   !.need   = {}]
<1>1. AppendCell(e, payload) = f
  BY DEF AppendCell
<1>2. Kept(e, d) /\ d \in Endpoint /\ SameButStatus(e, d)
  BY CheckCellFlagsKeeps DEF Sound
<1> HIDE DEF d
<1>3. Kept(d, f) /\ f.need = {} /\ f.spdy = d.spdy
  BY <1>2 DEF Kept, Endpoint
<1> HIDE DEF f
<1> QED BY <1>1, <1>2, <1>3 DEF Kept, SameButStatus

(* Dropping a dummy leaves the write event alone.                           *)
LEMMA DropWholeDummyKeeps ==
  ASSUME NEW e, Sound(e)
  PROVE  Kept(e, DropWholeDummy(e))
<1>1. CASE ~e.dummy
  BY <1>1 DEF DropWholeDummy, Kept
<1>2. CASE e.dummy
  <2> DEFINE ok == e.outlen >= CellSize /\ e.cells # << >>
             d == Check(e, ok, "dummy_is_in_outbuf")
             f == [d EXCEPT !.cells  = SubSeq(e.cells, 1, Len(e.cells) - 1),
                            !.outlen = e.outlen - CellSize,
                            !.dummy  = FALSE]
  <2>1. "dummy_is_in_outbuf" \in CheckName /\ ok \in BOOLEAN
    BY DEF CheckName
  <2>2. DropWholeDummy(e) = f
    BY <1>2 DEF DropWholeDummy
  <2> HIDE DEF ok
  <2>3. Kept(e, d) /\ d \in Endpoint
    BY <2>1, CheckKeeps DEF Sound
  <2> HIDE DEF d
  <2>4. Kept(d, f)
    BY <2>3 DEF Kept, Endpoint
  <2> HIDE DEF f
  <2> QED BY <2>2, <2>3, <2>4 DEF Kept
<1> QED BY <1>1, <1>2

(* _maybe_add_ONE_data_cell_to_outbuf leaves something to write.            *)
LEMMA AddDataCellKeeps ==
  ASSUME NEW e, Sound(e), e.spdy > 0
  PROVE  LET f == AddDataCell(e)
         IN  Kept(e, f) /\ f.need = {} /\ f.outlen > 0
<1> DEFINE payload == Lesser(BodySize, e.spdy)
           d == DropWholeDummy(e)
           a == AppendCell(d, payload)
           p == [a EXCEPT !.spdy = e.spdy - payload]
           q == [p EXCEPT !.added = e.added + 1]
           f == AddDataCell(e)
<1>1. e \in Endpoint /\ e.spdy \in Nat /\ e.added \in Nat /\ e.outlen \in Nat
  BY DEF Sound, Endpoint
<1>2. payload \in 0..BodySize /\ e.spdy - payload \in Nat
  BY <1>1, CellAssumption DEF Lesser
<1>3. f = IF e.state = "PENDING" THEN Check(q, e.added = 0, "pending_one_cell") ELSE p
  BY DEF AddDataCell
<1>4. f.outlen > 0
  BY <1>1, AddDataCellSound, DummyBytes, CellAssumption
<1> HIDE DEF payload
<1>5. Sound(d) /\ ~d.dummy /\ Kept(e, d)
  BY DropWholeDummySound, DropWholeDummyKeeps
<1> HIDE DEF d
<1>6. Sound(a) /\ Kept(d, a) /\ a.need = {}
  BY <1>2, <1>5, AppendCellSound, AppendCellKeeps
<1> HIDE DEF a
<1>7. /\ p \in Endpoint /\ SameOutbuf(a, p) /\ Kept(a, p) /\ p.need = {}
  <2>1. a \in Endpoint
    BY <1>6 DEF Sound
  <2> QED BY <1>2, <1>6, <2>1 DEF Endpoint, SameOutbuf, Kept
<1> HIDE DEF p
<1>8. /\ q \in Endpoint /\ SameOutbuf(p, q) /\ Kept(p, q) /\ q.need = {}
  <2>1. p \in Endpoint /\ p.need = {} /\ e.added + 1 \in Nat
    BY <1>1, <1>7
  <2>2. q \in Endpoint
    BY <2>1 DEF Endpoint
  <2> QED BY <2>1, <2>2 DEF Endpoint, SameOutbuf, Kept
<1> HIDE DEF q
<1>9. Sound(p) /\ Sound(q)
  BY <1>6, <1>7, <1>8, SoundFrame
<1>10. "pending_one_cell" \in CheckName /\ (e.added = 0) \in BOOLEAN
  BY DEF CheckName
<1>11. LET x == Check(q, e.added = 0, "pending_one_cell")
       IN  Kept(q, x) /\ x.need = q.need
  BY <1>9, <1>10, CheckKeeps DEF SameButStatus
<1> HIDE DEF f
<1>12. ASSUME e.state = "PENDING"  PROVE Kept(e, f) /\ f.need = {}
  BY <1>3, <1>5, <1>6, <1>7, <1>8, <1>11, <1>12 DEF Kept
<1>13. ASSUME e.state # "PENDING"  PROVE Kept(e, f) /\ f.need = {}
  BY <1>3, <1>5, <1>6, <1>7, <1>13 DEF Kept
<1>14. Kept(e, f) /\ f.need = {}
  BY <1>12, <1>13
<1> QED BY <1>4, <1>14 DEF f

(* _add_ONE_dummy_cell_to_outbuf carries all flags.                         *)
LEMMA AddDummyCellKeeps ==
  ASSUME NEW e, Sound(e), ~e.dummy
  PROVE  LET f == AddDummyCell(e)
         IN  Kept(e, f) /\ f.need = {} /\ f.spdy = e.spdy /\ f.outlen > 0
<1> DEFINE a == AppendCell(e, 0)
           f == [a EXCEPT !.dummy = (e.need = {})]
<1>1. AddDummyCell(e) = f
  BY DEF AddDummyCell
<1>2. 0 \in 0..BodySize /\ e.outlen \in Nat
  BY CellAssumption DEF Sound, Endpoint
<1>3. Sound(a) /\ Kept(e, a) /\ a.need = {} /\ a.spdy = e.spdy
      /\ a.outlen = e.outlen + CellSize
  BY <1>2, AppendCellSound, AppendCellKeeps
<1> HIDE DEF a
<1>4. Kept(a, f) /\ f.need = {} /\ f.spdy = a.spdy /\ f.outlen = a.outlen
  BY <1>3 DEF Sound, Endpoint, Kept
<1> HIDE DEF f
<1> QED BY <1>1, <1>2, <1>3, <1>4, CellAssumption DEF Kept

(* Preparing a tick's cell leaves the write event alone.                    *)
LEMMA FillOutbufKeeps ==
  ASSUME NEW e, Sound(e)
  PROVE  Kept(e, FillOutbuf(e))
<1> DEFINE c == Check(e, e.outlen < CellSize, "ensure_dummy_room")
<1>1. "ensure_dummy_room" \in CheckName /\ (e.outlen < CellSize) \in BOOLEAN
  BY DEF CheckName
<1>2. Sound(c) /\ Kept(e, c) /\ SameButStatus(e, c)
  BY <1>1, CheckKeeps
<1>3. Kept(e, e)
  BY DEF Kept
<1>4. e.spdy > 0 => Kept(e, AddDataCell(e))
  BY AddDataCellKeeps
<1>5. Kept(e, EnsureWholeDummy(e))
  <2>1. CASE e.dummy
    BY <1>3, <2>1 DEF EnsureWholeDummy
  <2>2. CASE ~e.dummy
    <3>1. EnsureWholeDummy(e) = AddDummyCell(c)
      BY <2>2 DEF EnsureWholeDummy
    <3> HIDE DEF c
    <3>2. Kept(c, AddDummyCell(c))
      BY <1>2, <2>2, AddDummyCellKeeps DEF SameButStatus, SameOutbuf
    <3> QED BY <1>2, <3>1, <3>2 DEF Kept
  <2> QED BY <2>1, <2>2
<1> QED BY <1>3, <1>4, <1>5 DEF FillOutbuf

(* A flush of some bytes adds at least one cell.                            *)
LEMMA FlushAddsACell ==
  ASSUME NEW e \in Endpoint, e.spdy > 0
  PROVE  FlushCells(e) \in Seq(Cell) /\ Len(FlushCells(e)) >= 1
<1> DEFINE m == e.spdy + BodySize - 1
           n == m \div BodySize
<1>1. e.spdy \in Nat /\ BodySize \in Nat \ {0}
  BY CellAssumption DEF Endpoint
<1>2. m \in Nat /\ m >= BodySize
  BY <1>1
<1>3. Len(FlushCells(e)) = n
  <2>1. n \in Nat
    BY <1>1, <1>2, DivMod
  <2> QED BY <2>1 DEF FlushCells
<1> HIDE DEF m
<1>4. n \in Nat /\ m = BodySize * n + (m % BodySize) /\ m % BodySize \in 0..(BodySize - 1)
  BY <1>1, <1>2, DivMod
<1>5. n # 0
  <2>1. SUFFICES ASSUME n = 0  PROVE FALSE
    OBVIOUS
  <2>2. BodySize * n = 0
    BY <1>1, <2>1
  <2> HIDE DEF n
  <2> QED BY <1>1, <1>2, <1>4, <2>2
<1> HIDE DEF n
<1> QED BY <1>3, <1>4, <1>5, FlushCellsTyped

(* _maybe_flush_data_to_cell_outbuf leaves something to write if there was  *)
(* something to flush, and is without effect otherwise.                     *)
LEMMA FlushDataKeeps ==
  ASSUME NEW e, Sound(e)
  PROVE  LET f == FlushData(e)
         IN  /\ Kept(e, f)
             /\ e.spdy = 0 => f = e
             /\ e.spdy # 0 => f.outlen > 0 /\ f.need = {}
<1>0. e.spdy \in Nat /\ e \in Endpoint
  BY DEF Sound, Endpoint
<1>1. CASE e.spdy = 0
  BY <1>1 DEF FlushData, Kept
<1>2. CASE e.spdy # 0
  <2> DEFINE d  == DropWholeDummy(e)
             c  == CheckCellFlags(d)
             fs == FlushCells(e)
             f  == [c EXCEPT !.cells = d.cells \o fs,
                             !.outlen = d.outlen + CellSize * Len(fs),
                             !.spdy = 0, !.need = {}]
  <2>1. FlushData(e) = f
    BY <1>2 DEF FlushData
  <2>2. Sound(d) /\ Kept(e, d)
    BY DropWholeDummySound, DropWholeDummyKeeps
  <2> HIDE DEF d
  <2>3. Kept(d, c) /\ c \in Endpoint
    BY <2>2, CheckCellFlagsKeeps DEF Sound
  <2> HIDE DEF c
  <2>4. Len(fs) \in Nat /\ Len(fs) >= 1
    BY <1>0, <1>2, FlushAddsACell, LenProperties
  <2> HIDE DEF fs
  <2>5. CellSize * 1 <= CellSize * Len(fs) /\ CellSize * Len(fs) \in Nat
    BY <2>4, MulMono, CellAssumption
  <2>6. d.outlen \in Nat
    BY <2>2 DEF Sound, Endpoint
  <2>7. d.outlen + CellSize * Len(fs) > 0
    BY <2>5, <2>6, CellAssumption
  <2>8. Kept(c, f) /\ f.outlen = d.outlen + CellSize * Len(fs) /\ f.need = {}
    BY <2>3 DEF Kept, Endpoint
  <2> HIDE DEF f
  <2> QED BY <1>2, <2>1, <2>2, <2>3, <2>7, <2>8 DEF Kept
<1> QED BY <1>1, <1>2

(* The write event may be added only while no defense is active.            *)
LEMMA EnableWriteWatches ==
  ASSUME NEW e, Sound(e)
  PROVE  LET f == EnableWrite(e)
         IN  /\ Sound(f) /\ SameOutbuf(e, f)
             /\ f.role = e.role /\ f.state = e.state /\ f.timer = e.timer
             /\ f.spdy = e.spdy /\ f.need = e.need /\ f.wev
             /\ f.status = "up" => e.status = "up" /\ e.state # "ACTIVE"
<1> DEFINE ok == e.state # "ACTIVE"
           c == Check(e, ok, "write_event_while_active")
           f == [c EXCEPT !.wev = TRUE]
<1>1. "write_event_while_active" \in CheckName /\ ok \in BOOLEAN
  BY DEF CheckName
<1>2. EnableWrite(e) = f /\ Sound(EnableWrite(e))
  BY EnableWriteSound DEF EnableWrite
<1>3. Kept(e, c) /\ c \in Endpoint /\ SameButStatus(e, c) /\ (c.status = "up" => ok)
  BY <1>1, CheckKeeps DEF Sound
<1> HIDE DEF c
<1>4. /\ SameOutbuf(c, f) /\ f.role = c.role /\ f.state = c.state
      /\ f.timer = c.timer /\ f.spdy = c.spdy /\ f.need = c.need /\ f.wev
      /\ f.status = c.status
  BY <1>3 DEF Endpoint, SameOutbuf
<1> HIDE DEF f
<1>5. /\ SameOutbuf(e, f) /\ f.role = e.role /\ f.state = e.state
      /\ f.timer = e.timer /\ f.spdy = e.spdy /\ f.need = e.need
  BY <1>3, <1>4 DEF SameOutbuf, SameButStatus
<1>6. f.status = "up" => e.status = "up" /\ ok
  BY <1>3, <1>4 DEF Kept
<1> QED BY <1>2, <1>4, <1>5, <1>6

(* _pump_spdy_send with no defense on: everything is in cells and the write *)
(* event is on if there is anything to write.                               *)
LEMMA PumpWhenIdle ==
  ASSUME NEW e, Sound(e), NEW k \in Nat, e.state = "NONE"
  PROVE  LET f == PumpSend(e, k)
         IN  /\ f.role = e.role /\ f.state = "NONE" /\ f.timer = e.timer
             /\ (e.wev => e.outlen > 0) => (f.wev <=> f.outlen > 0)
             /\ f.spdy = 0 /\ (e.need = {} => f.need = {})
             /\ f.status = "up" => e.status = "up"
<1> DEFINE d == [e EXCEPT !.spdy = e.spdy + k]
           f == FlushData(d)
<1>1. e \in Endpoint /\ e.spdy + k \in Nat
  BY DEF Sound, Endpoint
<1>2. /\ d \in Endpoint /\ SameOutbuf(e, d) /\ Kept(e, d) /\ d.need = e.need
  BY <1>1 DEF Endpoint, SameOutbuf, Kept
<1>3. PumpSend(e, k) = IF f.outlen > 0 THEN EnableWrite(f) ELSE f
  BY DEF PumpSend
<1> HIDE DEF d
<1>4. Sound(d)
  BY <1>2, SoundFrame
<1>5. /\ Sound(f) /\ f.spdy = 0 /\ Kept(d, f)
      /\ d.spdy = 0 => f = d
      /\ d.spdy # 0 => f.outlen > 0 /\ f.need = {}
  BY <1>4, FlushDataSound, FlushDataKeeps
<1> HIDE DEF f
<1>6. (e.wev => e.outlen > 0) => (f.wev => f.outlen > 0)
  BY <1>2, <1>5 DEF Kept, SameOutbuf
<1>7. e.need = {} => f.need = {}
  BY <1>2, <1>5
<1>8. CASE f.outlen > 0
  BY <1>2, <1>3, <1>5, <1>7, <1>8, EnableWriteWatches DEF Kept, SameOutbuf
<1>9. CASE ~(f.outlen > 0)
  BY <1>2, <1>3, <1>5, <1>6, <1>7, <1>9 DEF Kept
<1> QED BY <1>8, <1>9

(* _pump_spdy_send while a session is pending: one cell, and the event that *)
(* will start the session.                                                  *)
LEMMA PumpWhenPending ==
  ASSUME NEW e, Sound(e), NEW k \in Nat, e.state = "PENDING"
  PROVE  LET f == PumpSend(e, k)
         IN  /\ f.role = e.role /\ f.state = "PENDING" /\ f.timer = e.timer
             /\ f.status = "up" => e.status = "up" /\ f.wev /\ f.outlen > 0
<1> DEFINE d == [e EXCEPT !.spdy = e.spdy + k]
           x == IF d.spdy > 0 THEN AddDataCell(d)
                ELSE Check(d, FALSE, "pending_pump_adds")
<1>1. e \in Endpoint /\ e.spdy + k \in Nat
  BY DEF Sound, Endpoint
<1>2. d \in Endpoint /\ SameOutbuf(e, d) /\ Kept(e, d)
  BY <1>1 DEF Endpoint, SameOutbuf, Kept
<1>3. PumpSend(e, k) = EnableWrite(x)
  BY DEF PumpSend
<1> HIDE DEF d
<1>4. Sound(d)
  BY <1>2, SoundFrame
<1>5. "pending_pump_adds" \in CheckName
  BY DEF CheckName
<1>6. Sound(x) /\ Kept(d, x) /\ (x.status = "up" => x.outlen > 0)
  <2>1. CASE d.spdy > 0
    BY <1>4, <2>1, AddDataCellSound, AddDataCellKeeps
  <2>2. CASE ~(d.spdy > 0)
    BY <1>4, <1>5, <2>2, CheckKeeps
  <2> QED BY <2>1, <2>2
<1> HIDE DEF x
<1> QED BY <1>2, <1>3, <1>6, EnableWriteWatches DEF Kept, SameOutbuf

(* _pump_spdy_send never loses a wake-up.                                   *)
LEMMA PumpSendWatched ==
  ASSUME NEW e, Sound(e), NEW k \in Nat, Watched(e)
  PROVE  Wakes(e, PumpSend(e, k))
<1>1. e \in Endpoint /\ e.state \in DefenseState
  BY DEF Sound, Endpoint
<1>2. CASE e.state = "ACTIVE"
  <2>1. PumpSend(e, k) = [e EXCEPT !.spdy = e.spdy + k]
    BY <1>2 DEF PumpSend
  <2> QED BY <1>1, <1>2, <2>1 DEF Watched, Served, Wakes, Endpoint
<1>3. CASE e.state = "PENDING"
  BY <1>3, PumpWhenPending DEF Watched, Served, Wakes
<1>4. CASE e.state = "NONE"
  BY <1>4, PumpWhenIdle DEF Watched, Served, Wakes
<1> QED BY <1>1, <1>2, <1>3, <1>4 DEF DefenseState

(* Counting written bytes changes the cells and the wire only.              *)
LEMMA ProgressKeeps ==
  ASSUME NEW e \in Endpoint, NEW n
  PROVE  LET f == Progress(e, n)
         IN  Kept(e, f) /\ f.outlen = e.outlen /\ f.spdy = e.spdy /\ f.need = e.need
BY DEF Progress, Endpoint, Kept

(* A tick's write leaves the write event alone.                             *)
LEMMA SendOneCellKeeps ==
  ASSUME NEW e, Sound(e), NEW n \in 0..e.outlen
  PROVE  Kept(e, SendOneCell(e, n))
<1> DEFINE ok == e.outlen >= CellSize
           c == Check(e, ok, "active_outbuf_has_cell")
           left == e.outlen - n
           att == (e.attempts + 1) % L
           dum == e.dummy /\ left >= CellSize
           d == [c EXCEPT !.outlen = left, !.attempts = att, !.dummy = dum]
<1>1. SendOneCell(e, n) = Progress(d, n)
  BY DEF SendOneCell
<1>2. "active_outbuf_has_cell" \in CheckName /\ ok \in BOOLEAN
  BY DEF CheckName
<1>3. e.outlen \in Nat /\ e.dummy \in BOOLEAN /\ e.attempts + 1 \in Nat
  BY LAssumption DEF Sound, Endpoint
<1>4. left \in Nat /\ dum \in BOOLEAN /\ att \in 0..(L - 1)
  <2>1. left \in Nat /\ dum \in BOOLEAN
    BY <1>3
  <2>2. att \in 0..(L - 1)
    BY <1>3, LAssumption, DivMod
  <2> QED BY <2>1, <2>2
<1>5. Kept(e, c) /\ c \in Endpoint
  BY <1>2, CheckKeeps DEF Sound
<1> HIDE DEF c, left, att, dum
<1>6. d \in Endpoint
  BY <1>4, <1>5 DEF Endpoint
<1>7. Kept(c, d)
  BY <1>5 DEF Endpoint, Kept
<1> HIDE DEF d
<1> QED BY <1>1, <1>5, <1>6, <1>7, ProgressKeeps DEF Kept

(* A write with no defense active removes the write event exactly when     *)
(* nothing but a dummy, which is dropped, is left in the outbuf.            *)
LEMMA SendAllWatched ==
  ASSUME NEW e, Sound(e), NEW n \in 0..IdleAmount(e), e.state # "ACTIVE"
  PROVE  LET f == SendAll(e, n)
         IN  /\ f.role = e.role /\ f.state = e.state /\ f.timer = e.timer
             /\ f.wev <=> f.outlen > 0
             /\ f.spdy = e.spdy /\ f.need = e.need
             /\ f.status = "up" => e.status = "up"
<1> DEFINE c == Check(e, e.outlen > 0, "idle_write_has_cell")
           w == [c EXCEPT !.outlen = e.outlen - n]
           x == Check(w, w.state # "ACTIVE", "write_event_while_active")
           t == IF e.dummy /\ n = IdleAmount(e) THEN DisableWrite(w)
                ELSE ToggleWrite(w)
           ok == t.outlen >= CellSize /\ t.cells # << >>
           u == Check(t, ok, "dummy_is_in_outbuf")
           d == DropWholeDummy(t)
<1>1. SendAll(e, n) = Progress(d, n)
  BY DEF SendAll
<1>2. e \in Endpoint /\ e.outlen \in Nat /\ e.dummy \in BOOLEAN
  BY DEF Sound, Endpoint
<1>3. e.dummy => e.outlen >= CellSize
  BY DummyBytes
<1>4. n \in Nat /\ e.outlen - n \in Nat
  BY <1>2, <1>3, CellAssumption DEF IdleAmount
<1>5. "idle_write_has_cell" \in CheckName /\ (e.outlen > 0) \in BOOLEAN
  BY DEF CheckName
<1>6. Kept(e, c) /\ SameButStatus(e, c) /\ c \in Endpoint
  BY <1>5, CheckKeeps DEF Sound
<1> HIDE DEF c
<1>7. /\ w \in Endpoint /\ Kept(c, w) /\ w.outlen = e.outlen - n
      /\ w.dummy = c.dummy /\ w.spdy = c.spdy /\ w.need = c.need
      /\ w.cells = c.cells
  BY <1>4, <1>6 DEF Endpoint, Kept
<1>8. /\ w.role = e.role /\ w.state = e.state /\ w.timer = e.timer
      /\ w.dummy = e.dummy /\ w.spdy = e.spdy /\ w.need = e.need
      /\ w.cells = e.cells
      /\ w.status = "up" => e.status = "up"
  BY <1>6, <1>7 DEF Kept, SameButStatus, SameOutbuf
<1> HIDE DEF w
<1>9. x = w
  BY <1>8 DEF Check
<1>10. /\ t \in Endpoint /\ t.role = w.role /\ t.state = w.state /\ t.timer = w.timer
       /\ t.dummy = w.dummy /\ t.spdy = w.spdy /\ t.need = w.need
       /\ t.status = w.status /\ t.outlen = w.outlen /\ t.cells = w.cells
       /\ t.wev <=> ~(e.dummy /\ n = IdleAmount(e)) /\ w.outlen > 0
  <2>1. CASE e.dummy /\ n = IdleAmount(e)
    BY <1>7, <2>1 DEF DisableWrite, Endpoint
  <2>2. CASE ~(e.dummy /\ n = IdleAmount(e))
    <3>1. t = [w EXCEPT !.wev = (w.outlen > 0)]
      BY <1>9, <2>2 DEF ToggleWrite
    <3>2. (w.outlen > 0) \in BOOLEAN
      OBVIOUS
    <3> QED BY <1>7, <2>2, <3>1, <3>2 DEF Endpoint
  <2> QED BY <2>1, <2>2
<1> HIDE DEF t
<1>11. /\ d \in Endpoint /\ Kept(t, d) /\ d.spdy = t.spdy /\ d.need = t.need
       /\ d.outlen = IF t.dummy THEN t.outlen - CellSize ELSE t.outlen
  <2>1. CASE ~t.dummy
    BY <1>10, <2>1 DEF DropWholeDummy, Kept
  <2>2. CASE t.dummy
    <3> DEFINE front == SubSeq(t.cells, 1, Len(t.cells) - 1)
               rest  == t.outlen - CellSize
    <3>1. d = [u EXCEPT !.cells = front, !.outlen = rest, !.dummy = FALSE]
      BY <2>2 DEF DropWholeDummy
    <3>2. "dummy_is_in_outbuf" \in CheckName /\ ok \in BOOLEAN
      BY DEF CheckName
    <3>3. u \in Endpoint /\ Kept(t, u) /\ SameButStatus(t, u)
      BY <1>10, <3>2, CheckKeepsTyped
    <3>4. e.dummy /\ t.cells = e.cells /\ t.outlen = e.outlen - n
      BY <1>7, <1>8, <1>10, <2>2
    <3>5. rest \in Nat
      BY <1>2, <1>3, <3>4, CellAssumption DEF IdleAmount
    <3>6. front \in Seq(Cell)
      <4>1. t.cells \in Seq(Cell) /\ t.cells # << >>
        BY <3>4 DEF Sound, Whole, Endpoint
      <4>2. Len(t.cells) \in Nat /\ Len(t.cells) > 0
        BY <4>1, EmptySeq, LenProperties
      <4>3. \A i \in 1..(Len(t.cells) - 1) : t.cells[i] \in Cell
        BY <4>1, <4>2, ElementOfSeq
      <4> QED BY <4>2, <4>3, SubSeqProperties
    <3> HIDE DEF front, rest, u, d
    <3>7. d \in Endpoint
      BY <3>1, <3>3, <3>5, <3>6 DEF Endpoint
    <3>8. Kept(u, d) /\ d.spdy = u.spdy /\ d.need = u.need /\ d.outlen = rest
      BY <3>1, <3>3 DEF Endpoint, Kept
    <3> QED BY <2>2, <3>3, <3>7, <3>8 DEF Kept, SameButStatus, rest
  <2> QED BY <2>1, <2>2
<1> HIDE DEF d
<1>12. d.wev <=> d.outlen > 0
  <2>1. t.outlen = e.outlen - n /\ t.dummy = e.dummy /\ d.wev = t.wev
    BY <1>7, <1>8, <1>10, <1>11 DEF Kept
  <2>2. CASE e.dummy
    BY <1>2, <1>3, <1>4, <1>7, <1>10, <1>11, <2>1, <2>2, CellAssumption DEF IdleAmount
  <2>3. CASE ~e.dummy
    BY <1>7, <1>10, <1>11, <2>1, <2>3
  <2> QED BY <2>2, <2>3
<1>13. LET f == Progress(d, n)
       IN  Kept(d, f) /\ f.outlen = d.outlen /\ f.spdy = d.spdy /\ f.need = d.need
  BY <1>11, ProgressKeeps
<1> QED BY <1>1, <1>8, <1>10, <1>11, <1>12, <1>13 DEF Kept

(* _send_cell_outbuf, in a defense and out of one.                          *)
LEMMA SendCellOutbufWatched ==
  ASSUME NEW e, Sound(e), NEW n \in 0..MaxWrite(e), Watched(e)
  PROVE  Wakes(e, SendCellOutbuf(e, n))
<1>1. CASE e.state = "ACTIVE"
  <2>1. e.outlen \in Nat /\ n \in 0..e.outlen
    BY <1>1, CellAssumption DEF MaxWrite, Lesser, Sound, Endpoint
  <2>2. SendCellOutbuf(e, n) = SendOneCell(e, n)
    BY <1>1 DEF SendCellOutbuf
  <2> QED BY <1>1, <2>1, <2>2, SendOneCellKeeps DEF Kept, Watched, Served, Wakes
<1>2. CASE e.state # "ACTIVE"
  <2>1. n \in 0..IdleAmount(e) /\ SendCellOutbuf(e, n) = SendAll(e, n)
    BY <1>2 DEF MaxWrite, SendCellOutbuf
  <2> QED BY <1>2, <2>1, SendAllWatched DEF Watched, Served, Wakes
<1> QED BY <1>1, <1>2

(* A session that starts, starts its timer and removes the write event.     *)
LEMMA StartDefenseWatched ==
  ASSUME NEW e, Sound(e)
  PROVE  LET f == StartDefense(e)
         IN  Wakes(e, f) /\ Served(f) /\ f.state = "ACTIVE"
<1> DEFINE ok1 == e.state = "NONE"
           ok2 == ~e.timer
           c1 == Check(e, ok1, "start_when_none")
           c2 == Check(c1, ok2, "timer_already_running")
           f == [c2 EXCEPT !.timer = TRUE, !.state = "ACTIVE", !.doneRecv = FALSE,
                           !.wev = FALSE]
<1>1. /\ "start_when_none" \in CheckName /\ "timer_already_running" \in CheckName
      /\ ok1 \in BOOLEAN /\ ok2 \in BOOLEAN
  BY DEF CheckName
<1>2. StartDefense(e) = DisableWrite([c2 EXCEPT !.timer = TRUE, !.state = "ACTIVE",
                                                !.doneRecv = FALSE])
  BY DEF StartDefense
<1> HIDE DEF ok1, ok2
<1>3. Kept(e, c1) /\ Sound(c1)
  BY <1>1, CheckKeeps
<1> HIDE DEF c1
<1>4. Kept(c1, c2) /\ c2 \in Endpoint
  BY <1>1, <1>3, CheckKeeps DEF Sound
<1> HIDE DEF c2
<1>5. StartDefense(e) = f
  BY <1>2, <1>4 DEF DisableWrite, Endpoint
<1>6. /\ f.role = c2.role /\ f.status = c2.status /\ f.state = "ACTIVE"
      /\ f.timer /\ ~f.wev
  BY <1>4 DEF Endpoint
<1> HIDE DEF f
<1> QED BY <1>3, <1>4, <1>5, <1>6 DEF Kept, Wakes, Watched, Served

(* A client may be armed only while it has nothing to send.                 *)
LEMMA SetAutoStartWatched ==
  ASSUME NEW e, Sound(e), Watched(e)
  PROVE  Wakes(e, SetAutoStart(e))
<1> DEFINE ok1 == e.state = "NONE"
           ok2 == e.role = "CSP"
           ok3 == e.spdy = 0
           ok4 == e.outlen = 0
           ok5 == "START" \notin e.need
           c1 == Check(e, ok1, "autostart_when_none")
           c2 == Check(c1, ok2, "autostart_client")
           c3 == Check(c2, ok3, "autostart_no_data")
           c4 == Check(c3, ok4, "autostart_no_cells")
           c5 == Check(c4, ok5, "autostart_flag_clear")
           f == [c5 EXCEPT !.state = "PENDING", !.need = e.need \cup {"START"}]
<1>1. /\ ok1 \in BOOLEAN /\ ok2 \in BOOLEAN /\ ok3 \in BOOLEAN
      /\ ok4 \in BOOLEAN /\ ok5 \in BOOLEAN
      /\ {"autostart_when_none", "autostart_client", "autostart_no_data",
          "autostart_no_cells", "autostart_flag_clear"} \subseteq CheckName
  BY DEF CheckName
<1>2. SetAutoStart(e) = f
  BY DEF SetAutoStart
<1> HIDE DEF ok3, ok4, ok5
<1>3. Sound(c1) /\ Kept(e, c1) /\ SameButStatus(e, c1) /\ (c1.status = "up" => ok1)
  BY <1>1, CheckKeeps
<1> HIDE DEF c1
<1>4. Sound(c2) /\ Kept(c1, c2) /\ SameButStatus(c1, c2) /\ (c2.status = "up" => ok2)
  BY <1>1, <1>3, CheckKeeps
<1> HIDE DEF c2
<1>5. Sound(c3) /\ Kept(c2, c3) /\ SameButStatus(c2, c3)
  BY <1>1, <1>4, CheckKeeps
<1> HIDE DEF c3
<1>6. Sound(c4) /\ Kept(c3, c4) /\ SameButStatus(c3, c4)
  BY <1>1, <1>5, CheckKeeps
<1> HIDE DEF c4
<1>7. c5 \in Endpoint /\ Kept(c4, c5) /\ SameButStatus(c4, c5)
  BY <1>1, <1>6, CheckKeeps DEF Sound
<1> HIDE DEF c5
<1>8. /\ f.role = c5.role /\ f.status = c5.status /\ f.timer = c5.timer
      /\ f.wev = c5.wev /\ f.outlen = c5.outlen /\ f.state = "PENDING"
  BY <1>7 DEF Endpoint
<1> HIDE DEF f
<1>9. /\ f.role = e.role /\ f.timer = e.timer /\ f.wev = e.wev
      /\ f.outlen = e.outlen
      /\ f.status = "up" => e.status = "up" /\ ok1 /\ ok2
  BY <1>3, <1>4, <1>5, <1>6, <1>7, <1>8 DEF Kept, SameButStatus, SameOutbuf
<1> QED BY <1>2, <1>8, <1>9 DEF Watched, Served, Wakes

(* A stop of an active defense waits for its timer; any other is a reset,   *)
(* which strands what an armed session was to send.                         *)
LEMMA StopDefenseWatched ==
  ASSUME NEW e, Sound(e), Watched(e)
  PROVE  LET f == StopDefense(e)
         IN  /\ f.role = e.role
             /\ f.status = "up" => e.status = "up"
             /\ Watched(f)
             /\ Served(e) /\ (e.status = "up" => e.state # "PENDING") => Served(f)
<1>0. e \in Endpoint /\ e.state \in DefenseState
  BY DEF Sound, Endpoint
<1>1. CASE e.state # "ACTIVE"
  <2> DEFINE f == ResetDefense(e)
  <2>1. StopDefense(e) = f
    BY <1>1 DEF StopDefense
  <2>2. /\ f.role = e.role /\ f.status = e.status /\ f.state = "NONE"
        /\ f.timer = e.timer /\ f.wev = e.wev /\ f.outlen = e.outlen
        /\ f.spdy = e.spdy /\ f.need = {}
    BY <1>0 DEF ResetDefense, Endpoint
  <2> HIDE DEF f
  <2>3. Watched(f)
    BY <1>1, <2>2 DEF Watched
  <2>4. Served(e) /\ (e.status = "up" => e.state # "PENDING") => Served(f)
    BY <1>0, <1>1, <2>2 DEF Served, DefenseState
  <2> QED BY <2>1, <2>2, <2>3, <2>4
<1>2. CASE e.state = "ACTIVE"
  <2> DEFINE ok == ~e.stop
             c == Check(e, ok, "stop_requested_once")
             need == (e.need \ {"START"}) \cup
                       (IF e.role = "CSP" THEN {"STOP"} ELSE {})
             f == [c EXCEPT !.stop = TRUE, !.need = need]
  <2>1. "stop_requested_once" \in CheckName /\ ok \in BOOLEAN
    BY DEF CheckName
  <2>2. StopDefense(e) = f
    BY <1>2 DEF StopDefense
  <2> HIDE DEF ok, need
  <2>3. Kept(e, c) /\ c \in Endpoint
    BY <2>1, CheckKeeps DEF Sound
  <2> HIDE DEF c
  <2>4. Kept(c, f)
    BY <2>3 DEF Endpoint, Kept
  <2> HIDE DEF f
  <2> QED BY <1>2, <2>2, <2>3, <2>4 DEF Kept, Watched, Served
<1> QED BY <1>1, <1>2

(* _check_notify_a_defense_session_done only notifies.                      *)
LEMMA NotifyIfDoneKeeps ==
  ASSUME NEW e \in Endpoint
  PROVE  SameWake(e, NotifyIfDone(e))
BY DEF NotifyIfDone, SameWake, Kept, Endpoint

(* After a session: everything is in cells, with its flags, and the write   *)
(* event is on if there is anything to write.                               *)
LEMMA FlushAfterResetWatched ==
  ASSUME NEW e, Sound(e), NEW k \in Nat, NEW need \in SUBSET Flag, ~e.wev
  PROVE  LET f == SendFlags(PumpSend([ResetDefense(e) EXCEPT !.timer = FALSE,
                                                             !.need = need], k))
         IN  /\ Wakes(e, f) /\ Served(f) /\ Sound(f)
<1> DEFINE d == ResetDefense(e)
           r == [d EXCEPT !.timer = FALSE, !.need = need]
           q == PumpSend(r, k)
           w == DropWholeDummy(q)
           a == AddDummyCell(w)
           f == SendFlags(q)
<1>1. Sound(d) /\ d \in Endpoint /\ d.state = "NONE" /\ d.role = e.role
      /\ d.status = e.status /\ ~d.wev
  <2>1. Sound(d) /\ d \in Endpoint /\ d.state = "NONE" /\ d.role = e.role
    BY ResetDefenseSound DEF Sound
  <2>2. d.status = e.status /\ d.wev = e.wev
    BY DEF ResetDefense, Sound, Endpoint
  <2> QED BY <2>1, <2>2
<1> HIDE DEF d
<1>2. /\ r \in Endpoint /\ SameOutbuf(d, r) /\ r.state = "NONE"
      /\ r.role = e.role /\ r.status = e.status /\ ~r.wev /\ ~r.timer
  BY <1>1 DEF Endpoint, SameOutbuf
<1>3. Sound(f)
  BY FlushAfterResetSound DEF d
<1>4. Sound(r)
  BY <1>1, <1>2, SoundFrame
<1> HIDE DEF r
<1>5. /\ Sound(q) /\ q.role = e.role /\ q.state = "NONE" /\ ~q.timer
      /\ q.wev <=> q.outlen > 0
      /\ q.spdy = 0
      /\ q.status = "up" => e.status = "up"
  BY <1>2, <1>4, PumpWhenIdle, PumpSendSound
<1> HIDE DEF q
<1>6. CASE q.need = {}
  BY <1>3, <1>5, <1>6 DEF SendFlags, Wakes, Watched, Served, r, q, d
<1>7. CASE q.need # {}
  <2>1. f = EnableWrite(a)
    BY <1>7 DEF SendFlags
  <2>2. Sound(w) /\ ~w.dummy /\ Kept(q, w) /\ w.spdy = q.spdy
    BY <1>5, DropWholeDummySound, DropWholeDummyKeeps
  <2> HIDE DEF w
  <2>3. Sound(a) /\ Kept(w, a) /\ a.need = {} /\ a.spdy = w.spdy /\ a.outlen > 0
    BY <2>2, AddDummyCellSound, AddDummyCellKeeps
  <2> HIDE DEF a
  <2>4. /\ f.outlen = a.outlen /\ f.role = a.role /\ f.state = a.state
        /\ f.timer = a.timer /\ f.spdy = a.spdy /\ f.need = a.need /\ f.wev
        /\ f.status = "up" => a.status = "up"
    BY <2>1, <2>3, EnableWriteWatches DEF SameOutbuf
  <2> HIDE DEF f
  <2>5. /\ f.role = e.role /\ f.state = "NONE" /\ ~f.timer /\ f.wev
        /\ f.outlen > 0 /\ f.spdy = 0 /\ f.need = {}
        /\ f.status = "up" => e.status = "up"
    BY <1>5, <2>2, <2>3, <2>4 DEF Kept
  <2>6. Wakes(e, f) /\ Served(f)
    BY <2>5 DEF Wakes, Watched, Served
  <2> QED BY <1>3, <2>6 DEF f, q, r, d
<1> QED BY <1>6, <1>7

(* Both ways to finish a session leave nothing behind.                      *)
LEMMA FinishDefenseWatched ==
  ASSUME NEW e, Sound(e), NEW k \in Nat, ~e.wev
  PROVE  Wakes(e, FinishDefense(e, k)) /\ Wakes(e, AutoStopDefense(e, k))
<1> DEFINE need == FlagsAfterFinish(e)
           s(flags) == SendFlags(PumpSend([ResetDefense(e) EXCEPT
                                             !.timer = FALSE, !.need = flags], k))
           c(flags) == Check(s(flags), s(flags).need = {}, "flag_left_behind")
<1>1. need \in SUBSET Flag /\ {"AUTO_STOPPED"} \in SUBSET Flag
  BY DEF Flag, FlagsAfterFinish
<1>2. "flag_left_behind" \in CheckName
  BY DEF CheckName
<1>3. FinishDefense(e, k) = NotifyIfDone(c(need))
  BY DEF FinishDefense
<1>4. AutoStopDefense(e, k) = c({"AUTO_STOPPED"})
  BY DEF AutoStopDefense
<1>5. ASSUME NEW flags \in SUBSET Flag
      PROVE  Wakes(e, c(flags)) /\ c(flags) \in Endpoint
  <2>1. Wakes(e, s(flags)) /\ Sound(s(flags))
    BY FlushAfterResetWatched
  <2> HIDE DEF s
  <2>2. (s(flags).need = {}) \in BOOLEAN /\ s(flags) \in Endpoint
    BY <2>1 DEF Sound
  <2> DEFINE z == s(flags)
             y == c(flags)
  <2>3. SameWake(z, y) /\ y \in Endpoint
    <3>1. y = Check(z, z.need = {}, "flag_left_behind")
      OBVIOUS
    <3> HIDE DEF y, z
    <3>2. /\ Check(z, z.need = {}, "flag_left_behind") \in Endpoint
          /\ Kept(z, Check(z, z.need = {}, "flag_left_behind"))
          /\ SameButStatus(z, Check(z, z.need = {}, "flag_left_behind"))
      BY <1>2, <2>2, CheckKeepsTyped DEF z
    <3> QED BY <3>1, <3>2 DEF SameWake, SameButStatus, SameOutbuf
  <2> HIDE DEF c
  <2>4. Watched(s(flags))
    BY <2>1 DEF Wakes
  <2> QED BY <2>1, <2>3, <2>4, SameWakes, WakesTransitive
<1> HIDE DEF c, need
<1>6. Wakes(e, c(need)) /\ SameWake(c(need), NotifyIfDone(c(need))) /\ Watched(c(need))
  BY <1>1, <1>5, NotifyIfDoneKeeps DEF Wakes
<1>7. Wakes(e, NotifyIfDone(c(need)))
  BY <1>6, SameWakes, WakesTransitive
<1> QED BY <1>1, <1>3, <1>4, <1>5, <1>7

(* The timer runs only in a session, and is stopped only with it.           *)
LEMMA TimerFiredWatched ==
  ASSUME NEW e, Sound(e), NEW expired \in BOOLEAN, NEW k \in Nat,
         NEW n \in 0..MaxWrite(FillOutbuf(e)),
         e.status = "up", e.timer, Watched(e)
  PROVE  Wakes(e, TimerFired(e, expired, k, n))
<1>0. e.state = "ACTIVE" /\ ~e.wev
  BY DEF Watched
<1>1. CASE IsDoneDefendingSend(e)
  BY <1>0, <1>1, FinishDefenseWatched DEF TimerFired
<1>2. CASE ~IsDoneDefendingSend(e) /\ expired /\ e.role = "CSP"
  <2> DEFINE f == Check(e, FALSE, "time_limit")
  <2>1. "time_limit" \in CheckName
    BY DEF CheckName
  <2>2. Kept(e, f) /\ f.status # "up"
    BY <2>1, CheckKeeps
  <2> HIDE DEF f
  <2>3. Wakes(e, f)
    BY <2>2 DEF Kept, Wakes, Watched, Served
  <2> QED BY <1>2, <2>3 DEF TimerFired, f
<1>3. CASE ~IsDoneDefendingSend(e) /\ expired /\ e.role = "SSP"
  <2>1. TimerFired(e, expired, k, n) = AutoStopDefense(e, k)
    BY <1>3 DEF TimerFired
  <2> QED BY <1>0, <2>1, FinishDefenseWatched
<1>4. CASE ~IsDoneDefendingSend(e) /\ ~expired
  <2> DEFINE f == FillOutbuf(e)
  <2>1. TimerFired(e, expired, k, n) = SendCellOutbuf(f, n)
    BY <1>4 DEF TimerFired
  <2>2. Sound(f) /\ Kept(e, f) /\ n \in 0..MaxWrite(f)
    BY FillOutbufSound, FillOutbufKeeps
  <2> HIDE DEF f
  <2>3. Wakes(e, f)
    BY <1>0, <2>2 DEF Kept, Wakes, Watched, Served
  <2>4. Wakes(f, SendCellOutbuf(f, n))
    BY <2>2, <2>3, SendCellOutbufWatched DEF Wakes
  <2> QED BY <2>1, <2>3, <2>4, WakesTransitive
<1>5. e.role \in {"CSP", "SSP"}
  BY DEF Sound, Endpoint, Role
<1> QED BY <1>1, <1>2, <1>3, <1>4, <1>5

(* The write event of a pending session hands over to the timer.            *)
LEMMA SocketWritableWatched ==
  ASSUME NEW e, Sound(e), NEW n \in 0..MaxWrite(e), Watched(e)
  PROVE  Wakes(e, SocketWritable(e, n))
<1>1. CASE e.state # "PENDING"
  BY <1>1, SendCellOutbufWatched DEF SocketWritable
<1>2. CASE e.state = "PENDING"
  <2> DEFINE ok == e.outlen = CellSize
             c == Check(e, ok, "pending_outbuf_one_cell")
             r == [c EXCEPT !.state = "NONE"]
             s == StartDefense(r)
  <2>1. SocketWritable(e, n) = SendCellOutbuf(s, n)
    BY <1>2 DEF SocketWritable
  <2>2. "pending_outbuf_one_cell" \in CheckName /\ ok \in BOOLEAN
    BY DEF CheckName
  <2>3. Sound(c) /\ Kept(e, c) /\ SameButStatus(e, c) /\ c \in Endpoint
    BY <2>2, CheckKeeps DEF Sound
  <2> HIDE DEF ok, c
  <2>4. /\ r \in Endpoint /\ SameOutbuf(c, r)
        /\ r.role = c.role /\ r.status = c.status
    BY <2>3 DEF Endpoint, DefenseState, SameOutbuf
  <2> HIDE DEF r
  <2>5. Sound(r)
    BY <2>3, <2>4, SoundFrame
  <2>6. Sound(s) /\ s.state = "ACTIVE" /\ SameOutbuf(r, s)
        /\ Wakes(r, s) /\ Served(s)
    BY <2>5, StartDefenseSound, StartDefenseWatched
  <2> HIDE DEF s
  <2>7. Wakes(e, s)
    BY <2>3, <2>4, <2>6 DEF Kept, Wakes
  <2>8. s.outlen = e.outlen /\ e.outlen \in Nat
    BY <2>3, <2>4, <2>6 DEF SameButStatus, SameOutbuf, Sound, Endpoint
  <2>9. n \in 0..s.outlen
    BY <1>2, <2>8, CellAssumption DEF MaxWrite, IdleAmount
  <2>10. Wakes(s, SendOneCell(s, n))
    BY <2>6, <2>7, <2>9, SendOneCellKeeps DEF Kept, Wakes, Watched, Served
  <2>11. SendCellOutbuf(s, n) = SendOneCell(s, n)
    BY <2>6 DEF SendCellOutbuf
  <2> QED BY <2>1, <2>7, <2>10, <2>11, WakesTransitive
<1> QED BY <1>1, <1>2

(* The flags of a cell from the peer.  Only a server obeys a STOP, and a    *)
(* server is never armed, so no armed session is reset by one.              *)
LEMMA HandleFlagsWatched ==
  ASSUME NEW e, Sound(e), NEW flags \in SUBSET Flag, Watched(e)
  PROVE  Wakes(e, HandleFlags(e, flags))
<1> DEFINE auto  == "AUTO_STOPPED" \in flags
           ok1 == auto => e.role = "CSP"
           c1 == Check(e, ok1, "client_flag_seen")
           again == auto /\ e.state = "ACTIVE" /\ ~e.stop
           ok2 == again => "START" \notin e.need
           c2 == Check(c1, ok2, "restart_flag_clear")
           w  == [c2 EXCEPT !.need = e.need \cup {"START"}]
           a  == IF again THEN w ELSE c2
           ok3 == ~({"START", "STOP"} \subseteq flags)
           c3 == Check(a, ok3, "start_and_stop")
           ok4 == flags \cap {"START", "STOP"} # {} => e.role = "SSP"
           c4 == Check(c3, ok4, "server_flag_seen")
           s  == IF "START" \in flags THEN StartDefense(c4) ELSE c4
           f  == IF "STOP" \in flags THEN StopDefense(s) ELSE s
<1>1. HandleFlags(e, flags) = f
  BY DEF HandleFlags
<1>2. /\ {"client_flag_seen", "restart_flag_clear", "start_and_stop",
          "server_flag_seen"} \subseteq CheckName
      /\ ok1 \in BOOLEAN /\ ok2 \in BOOLEAN /\ ok3 \in BOOLEAN /\ ok4 \in BOOLEAN
  BY DEF CheckName
<1>3. e.need \cup {"START"} \in SUBSET Flag /\ (again => e.state = "ACTIVE")
  BY DEF Sound, Endpoint, Flag
<1>4. "STOP" \in flags /\ ok4 => e.role = "SSP"
  OBVIOUS
<1> HIDE DEF ok1, ok2, ok3, ok4, again
<1>5. Sound(c1) /\ SameWake(e, c1)
  BY <1>2, CheckKeeps DEF SameWake, SameButStatus, SameOutbuf
<1> HIDE DEF c1
<1>6. Sound(c2) /\ c2 \in Endpoint /\ SameWake(c1, c2)
  BY <1>2, <1>5, CheckKeeps DEF Sound, SameWake, SameButStatus, SameOutbuf
<1> HIDE DEF c2
<1>7. w \in Endpoint /\ SameOutbuf(c2, w) /\ Kept(c2, w)
  BY <1>3, <1>6 DEF Endpoint, SameOutbuf, Kept
<1> HIDE DEF w
<1>8. Wakes(e, c2)
  BY <1>5, <1>6, SameWakes, WakesTransitive DEF Wakes
<1>9. Sound(a) /\ Wakes(e, a)
  <2>1. CASE again
    <3>1. Sound(w)
      BY <1>6, <1>7, SoundFrame
    <3>2. w.state = "ACTIVE" /\ w.outlen = c2.outlen
      BY <1>3, <1>5, <1>6, <1>7, <2>1 DEF SameWake, Kept, SameOutbuf
    <3>3. Wakes(e, w)
      BY <1>7, <1>8, <3>2 DEF Kept, Wakes, Watched, Served
    <3> QED BY <2>1, <3>1, <3>3
  <2>2. CASE ~again
    BY <1>6, <1>8, <2>2
  <2> QED BY <2>1, <2>2
<1> HIDE DEF a
<1>10. Sound(c3) /\ SameWake(a, c3)
  BY <1>2, <1>9, CheckKeeps DEF SameWake, SameButStatus, SameOutbuf
<1> HIDE DEF c3
<1>11. Sound(c4) /\ SameWake(c3, c4) /\ (c4.status = "up" => ok4)
  BY <1>2, <1>10, CheckKeeps DEF SameWake, SameButStatus, SameOutbuf
<1> HIDE DEF c4
<1>12. Wakes(a, c3)
  BY <1>9, <1>10, SameWakes DEF Wakes
<1>13. Wakes(e, c4)
  BY <1>9, <1>11, <1>12, SameWakes, WakesTransitive DEF Wakes
<1>14. Sound(s) /\ Wakes(e, s) /\ (s.status = "up" => ok4)
  <2>1. CASE "START" \in flags
    <3>1. Wakes(c4, s) /\ Sound(s)
      BY <1>11, <2>1, StartDefenseSound, StartDefenseWatched
    <3> QED BY <1>11, <1>13, <3>1, WakesTransitive DEF Wakes
  <2>2. CASE "START" \notin flags
    BY <1>11, <1>13, <2>2
  <2> QED BY <2>1, <2>2
<1> HIDE DEF s
<1>15. CASE "STOP" \in flags
  <2>1. f = StopDefense(s) /\ Watched(s)
    BY <1>14, <1>15 DEF Wakes
  <2>2. Served(e) => Served(s) /\ (s.status = "up" => s.state # "PENDING")
    BY <1>4, <1>14, <1>15 DEF Wakes, Served
  <2> HIDE DEF f
  <2> QED BY <1>1, <1>14, <2>1, <2>2, StopDefenseWatched DEF Wakes
<1>16. CASE "STOP" \notin flags
  BY <1>1, <1>14, <1>16
<1> QED BY <1>15, <1>16

(* _handle_input_cell, with the answer of the stream's user.                *)
LEMMA HandleCellWatched ==
  ASSUME NEW e, Sound(e), NEW cell \in Cell, NEW k \in Int, Watched(e)
  PROVE  Wakes(e, HandleCell(e, cell, k))
<1> DEFINE f == HandleFlags(e, cell.flags)
           d == IF cell.data > 0 /\ k >= 0 THEN PumpSend(f, k) ELSE f
           ok == e.role = "CSP"
           c == Check(d, ok, "client_flag_seen")
           h == [c EXCEPT !.doneRecv = TRUE]
<1>1. HandleCell(e, cell, k) =
        IF "DONE" \in cell.flags THEN NotifyIfDone(h) ELSE d
  BY DEF HandleCell
<1>2. cell.flags \in SUBSET Flag
  BY DEF Cell
<1>3. "client_flag_seen" \in CheckName /\ ok \in BOOLEAN
  BY DEF CheckName
<1> HIDE DEF ok
<1>4. Sound(f) /\ Wakes(e, f) /\ Watched(f)
  BY <1>2, HandleFlagsSound, HandleFlagsWatched DEF Wakes
<1> HIDE DEF f
<1>5. k >= 0 => Sound(PumpSend(f, k)) /\ Wakes(f, PumpSend(f, k))
  BY <1>4, PumpSendSound, PumpSendWatched
<1>6. Sound(d) /\ Wakes(e, d) /\ Watched(d)
  BY <1>4, <1>5, WakesTransitive DEF Wakes
<1> HIDE DEF d
<1>7. Sound(c) /\ c \in Endpoint /\ SameWake(d, c)
  BY <1>3, <1>6, CheckKeeps DEF Sound, SameWake, SameButStatus, SameOutbuf
<1> HIDE DEF c
<1>8. h \in Endpoint /\ SameWake(c, h)
  BY <1>7 DEF Endpoint, SameWake, Kept
<1> HIDE DEF h
<1>9. Wakes(d, c) /\ Wakes(c, h)
  BY <1>6, <1>7, <1>8, SameWakes DEF Wakes
<1>10. Wakes(h, NotifyIfDone(h))
  BY <1>8, <1>9, NotifyIfDoneKeeps, SameWakes DEF Wakes
<1>11. Wakes(e, h)
  BY <1>6, <1>9, WakesTransitive
<1>12. Wakes(e, NotifyIfDone(h))
  BY <1>10, <1>11, WakesTransitive
<1> QED BY <1>1, <1>6, <1>12

=============================================================================
