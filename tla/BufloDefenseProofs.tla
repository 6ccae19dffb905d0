-------------------------- MODULE BufloDefenseProofs --------------------------
(***************************************************************************)
(* Two ends and their defense sessions, for every cell size, every L, any  *)
(* pump and write sizes, any bounds, and time limits that may pass at      *)
(* either end: with an owner that respects Rule, no CHECK fails, the two   *)
(* ends are both done when the owner is told so, the server follows the    *)
(* client and the reaper is safe.  When the server's limit never passes,   *)
(* the two ends implement DefenseSession.                                  *)
(*                                                                         *)
(* The argument.  What an end has yet to make the other hear is a line of  *)
(* flag sets: those of the cells in the socket, of the cells in its outbuf *)
(* and of the next cell.  Adding cells, dropping dummies and writing bytes *)
(* keep what the line says and in which order (Carries); so a session is   *)
(* in one of a few phases, told apart by the two states and by what each   *)
(* end still says (Phase), and every handler keeps the phase or moves to   *)
(* the next.                                                               *)
(***************************************************************************)
EXTENDS BufloDefense, BufloEndpointProofs

(* The cells that e has and the other end has not read, in the order in    *)
(* which it will read them.                                                *)
Line(e) == e.wire \o e.cells

(* The places where flags may be: in those cells, or needed in the next.    *)
Slots(e) == 1..(Len(Line(e)) + 1)

Flags(e, i) == IF i <= Len(Line(e)) THEN Line(e)[i].flags ELSE e.need

(* The flags under way, ...                                                 *)
Under(e) == {F \in Flag : \E i \in Slots(e) : F \in Flags(e, i)}

(* ... F before G: no flag is said twice, and no START comes after a STOP.  *)
Fits(F, G) == F \cap G = {} /\ ~("STOP" \in F /\ "START" \in G)

Ordered(e) ==
  /\ \A i, j \in Slots(e) : i < j => Fits(Flags(e, i), Flags(e, j))
  /\ \A i \in Slots(e) : ~({"START", "STOP"} \subseteq Flags(e, i))

(* f has the same to say as e, in as good an order.                         *)
Speaks(e, f) == Under(f) = Under(e) /\ (Ordered(e) => Ordered(f))

-----------------------------------------------------------------------------
LEMMA EmptyFits == \A F : Fits(F, {}) /\ Fits({}, F)
BY DEF Fits

LEMMA LineTyped ==
  ASSUME NEW e \in Endpoint
  PROVE  /\ Line(e) \in Seq(Cell) /\ Len(Line(e)) \in Nat
         /\ Len(Line(e)) = Len(e.wire) + Len(e.cells)
         /\ \A i \in 1..Len(Line(e)) : Line(e)[i].flags \in SUBSET Flag
         /\ \A i \in Slots(e) : i \in Nat /\ Flags(e, i) \in SUBSET Flag
<1>1. e.wire \in Seq(Cell) /\ e.cells \in Seq(Cell) /\ e.need \in SUBSET Flag
  BY DEF Endpoint
<1>2. Line(e) \in Seq(Cell) /\ Len(Line(e)) = Len(e.wire) + Len(e.cells)
  BY <1>1, ConcatProperties DEF Line
<1>3. Len(Line(e)) \in Nat
  BY <1>2, LenProperties
<1>4. ASSUME NEW i \in 1..Len(Line(e)) PROVE Line(e)[i].flags \in SUBSET Flag
  <2>1. Line(e)[i] \in Cell
    BY <1>2, ElementOfSeq
  <2> QED BY <2>1 DEF Cell
<1>5. ASSUME NEW i \in Slots(e) PROVE i \in Nat /\ Flags(e, i) \in SUBSET Flag
  <2>1. i \in Nat /\ i >= 1 /\ i <= Len(Line(e)) + 1
    BY <1>3 DEF Slots
  <2>2. CASE i <= Len(Line(e))
    <3>1. i \in 1..Len(Line(e))
      BY <1>3, <2>1, <2>2
    <3> QED BY <1>4, <2>1, <2>2, <3>1 DEF Flags
  <2>3. CASE ~(i <= Len(Line(e)))
    BY <1>1, <2>1, <2>3 DEF Flags
  <2> QED BY <2>2, <2>3
<1> QED BY <1>2, <1>3, <1>4, <1>5

LEMMA LineParts ==
  ASSUME NEW e \in Endpoint
  PROVE  /\ Len(Line(e)) = Len(e.wire) + Len(e.cells)
         /\ \A i \in 1..(Len(e.wire) + Len(e.cells)) :
              Line(e)[i] = IF i <= Len(e.wire) THEN e.wire[i] ELSE e.cells[i - Len(e.wire)]
<1> DEFINE v == e.wire
           c == e.cells
<1>1. v \in Seq(Cell) /\ c \in Seq(Cell)
  BY DEF Endpoint
<1> HIDE DEF v, c
<1>2. /\ Len(v \o c) = Len(v) + Len(c)
      /\ \A i \in 1..(Len(v) + Len(c)) :
           (v \o c)[i] = IF i <= Len(v) THEN v[i] ELSE c[i - Len(v)]
  BY <1>1, ConcatProperties
<1> QED BY <1>2 DEF v, c, Line

(* Places of a line are renumbered, empty ones come and go, and what stands *)
(* in the others, and in which order, stays.                                *)
LEMMA SameTalk ==
  ASSUME NEW e \in Endpoint, NEW f \in Endpoint,
         NEW h \in [Slots(f) -> Int],
         \A j \in Slots(f) : Flags(f, j) # {} =>
            h[j] \in Slots(e) /\ Flags(e, h[j]) = Flags(f, j),
         \A i \in Slots(e) : Flags(e, i) # {} =>
            \E j \in Slots(f) : Flags(f, j) = Flags(e, i),
         \A i, j \in Slots(f) : i < j => h[i] < h[j]
  PROVE  Speaks(e, f)
<1>1. ASSUME NEW F \in Flag, NEW i \in Slots(e), F \in Flags(e, i) PROVE F \in Under(f)
  <2>1. Flags(e, i) # {}
    BY <1>1
  <2> QED BY <1>1, <2>1 DEF Under
<1>2. ASSUME NEW F \in Flag, NEW j \in Slots(f), F \in Flags(f, j) PROVE F \in Under(e)
  <2>1. Flags(f, j) # {}
    BY <1>2
  <2>2. h[j] \in Slots(e) /\ Flags(e, h[j]) = Flags(f, j)
    BY <2>1
  <2> QED BY <1>2, <2>2 DEF Under
<1>3. Under(f) = Under(e)
  BY <1>1, <1>2 DEF Under
<1>4. ASSUME Ordered(e) PROVE Ordered(f)
  <2>1. ASSUME NEW i \in Slots(f), NEW j \in Slots(f), i < j
        PROVE  Fits(Flags(f, i), Flags(f, j))
    <3>1. CASE Flags(f, i) = {} \/ Flags(f, j) = {}
      BY <3>1, EmptyFits
    <3>2. CASE Flags(f, i) # {} /\ Flags(f, j) # {}
      <4>1. /\ h[i] \in Slots(e) /\ h[j] \in Slots(e) /\ h[i] < h[j]
            /\ Flags(e, h[i]) = Flags(f, i) /\ Flags(e, h[j]) = Flags(f, j)
        BY <2>1, <3>2
      <4>2. Fits(Flags(e, h[i]), Flags(e, h[j]))
        BY <1>4, <4>1 DEF Ordered
      <4> QED BY <4>1, <4>2
    <3> QED BY <3>1, <3>2
  <2>2. ASSUME NEW i \in Slots(f) PROVE ~({"START", "STOP"} \subseteq Flags(f, i))
    <3>1. CASE Flags(f, i) = {}
      BY <3>1
    <3>2. CASE Flags(f, i) # {}
      <4>1. h[i] \in Slots(e) /\ Flags(e, h[i]) = Flags(f, i)
        BY <3>2
      <4> QED BY <1>4, <4>1 DEF Ordered
    <3> QED BY <3>1, <3>2
  <2> QED BY <2>1, <2>2 DEF Ordered
<1> QED BY <1>3, <1>4 DEF Speaks

LEMMA SpeaksTransitive ==
  ASSUME NEW e, NEW f, NEW g, Speaks(e, f), Speaks(f, g)
  PROVE  Speaks(e, g)
BY DEF Speaks

(* The line and the needs are the same.                                     *)
LEMMA SameLineSpeaks ==
  ASSUME NEW e, NEW f, Line(f) = Line(e), f.need = e.need
  PROVE  Speaks(e, f)
<1>1. Slots(f) = Slots(e) /\ \A i : Flags(f, i) = Flags(e, i)
  BY DEF Slots, Flags
<1> QED BY <1>1 DEF Speaks, Under, Ordered

(* Cells are added, of which the first takes all the flags.                 *)
LEMMA LineAdded ==
  ASSUME NEW e \in Endpoint, NEW f \in Endpoint, NEW more \in Seq(Cell),
         f.wire = e.wire, f.cells = e.cells \o more, more # << >>, f.need = {},
         more[1].flags = e.need,
         \A i \in 2..Len(more) : more[i].flags = {}
  PROVE  Speaks(e, f)
<1> DEFINE l == Len(Line(e))
           m == Len(more)
           h == [j \in Slots(f) |-> j]
<1>1. l \in Nat /\ m \in Nat /\ m >= 1
  BY LineTyped, LenProperties, EmptySeq
<1>2. e.wire \in Seq(Cell) /\ e.cells \in Seq(Cell)
  BY DEF Endpoint
<1>3. Line(f) = Line(e) \o more
  <2> DEFINE v == e.wire
             c == e.cells
  <2>1. v \in Seq(Cell) /\ c \in Seq(Cell)
    BY <1>2
  <2>2. Line(e) = v \o c /\ Line(f) = v \o (c \o more)
    BY DEF Line
  <2> HIDE DEF v, c
  <2>3. (v \o c) \o more = v \o (c \o more)
    BY <2>1, ConcatAssociative, SMTT(30)
  <2> QED BY <2>2, <2>3
<1>4. Len(Line(f)) = l + m /\ \A i \in 1..(l + m) :
        Line(f)[i] = IF i <= l THEN Line(e)[i] ELSE more[i - l]
  BY <1>3, LineTyped, ConcatProperties
<1> HIDE DEF l, m
<1>5. Slots(e) = 1..(l + 1) /\ Slots(f) = 1..(l + m + 1)
  BY <1>4 DEF Slots, l
<1>6. ASSUME NEW i \in 1..(l + 1) PROVE Flags(f, i) = Flags(e, i)
  <2>1. i \in 1..(l + m) /\ i <= l + m
    BY <1>1
  <2>2. Flags(f, i) = Line(f)[i].flags
    BY <1>4, <2>1 DEF Flags
  <2>3. CASE i <= l
    BY <1>4, <2>1, <2>2, <2>3 DEF Flags, l
  <2>4. CASE ~(i <= l)
    <3>1. i - l = 1
      BY <1>1, <2>4
    <3>2. Flags(e, i) = e.need
      BY <2>4 DEF Flags, l
    <3> QED BY <1>4, <2>1, <2>2, <2>4, <3>1, <3>2
  <2> QED BY <2>3, <2>4
<1>7. ASSUME NEW i \in 1..(l + m + 1), i \notin 1..(l + 1) PROVE Flags(f, i) = {}
  <2>1. CASE i <= l + m
    <3>1. i \in 1..(l + m) /\ ~(i <= l) /\ i - l \in 2..m
      BY <1>1, <1>7, <2>1
    <3>2. Line(f)[i] = more[i - l]
      BY <1>4, <3>1
    <3> QED BY <1>4, <2>1, <3>1, <3>2 DEF Flags, m
  <2>2. CASE ~(i <= l + m)
    BY <1>4, <2>2 DEF Flags
  <2> QED BY <2>1, <2>2
<1>8. h \in [Slots(f) -> Int] /\ \A j \in Slots(f) : h[j] = j
  BY <1>1, <1>5
<1> HIDE DEF h
<1>9. \A i \in Slots(e) : i \in Slots(f)
  BY <1>1, <1>5
<1>10. \A j \in Slots(f) : Flags(f, j) # {} => h[j] \in Slots(e) /\ Flags(e, h[j]) = Flags(f, j)
  BY <1>5, <1>6, <1>7, <1>8
<1>11. \A i \in Slots(e) : Flags(e, i) # {} => \E j \in Slots(f) : Flags(f, j) = Flags(e, i)
  BY <1>5, <1>6, <1>9
<1>12. \A i, j \in Slots(f) : i < j => h[i] < h[j]
  BY <1>8
<1> QED BY <1>8, <1>10, <1>11, <1>12, SameTalk

(* The last cell, without flags, is taken back.                             *)
LEMMA LineDropped ==
  ASSUME NEW e \in Endpoint, NEW f \in Endpoint, e.cells # << >>,
         e.cells[Len(e.cells)].flags = {},
         f.wire = e.wire, f.cells = SubSeq(e.cells, 1, Len(e.cells) - 1),
         f.need = e.need
  PROVE  Speaks(e, f)
<1> DEFINE n == Len(e.cells)
           w == Len(e.wire)
           h == [j \in Slots(f) |-> IF j <= w + n - 1 THEN j ELSE w + n + 1]
<1>1. e.wire \in Seq(Cell) /\ e.cells \in Seq(Cell) /\ f.cells \in Seq(Cell)
  BY DEF Endpoint
<1>2. w \in Nat /\ n \in Nat /\ n >= 1
  BY <1>1, LenProperties, EmptySeq
<1>3. Len(f.cells) = n - 1 /\ \A i \in 1..(n - 1) : f.cells[i] = e.cells[i]
  <2>1. \A i \in 1..(n - 1) : e.cells[i] \in Cell
    BY <1>1, <1>2, ElementOfSeq
  <2>2. 1 \in Int /\ n - 1 \in Int
    BY <1>2
  <2>3. /\ Len(SubSeq(e.cells, 1, n - 1)) = IF 1 <= n - 1 THEN n - 1 - 1 + 1 ELSE 0
        /\ \A i \in 1..(n - 1 - 1 + 1) : SubSeq(e.cells, 1, n - 1)[i] = e.cells[1 + i - 1]
    BY <2>1, <2>2, SubSeqProperties
  <2> HIDE DEF n
  <2>4. Len(f.cells) = n - 1
    BY <1>2, <2>3 DEF n
  <2>5. ASSUME NEW i \in 1..(n - 1) PROVE f.cells[i] = e.cells[i]
    <3>1. i \in 1..(n - 1 - 1 + 1) /\ 1 + i - 1 = i
      BY <1>2
    <3> QED BY <2>3, <3>1 DEF n
  <2> QED BY <2>4, <2>5
<1>4. Len(Line(e)) = w + n /\ \A i \in 1..(w + n) :
        Line(e)[i] = IF i <= w THEN e.wire[i] ELSE e.cells[i - w]
  BY LineParts
<1>5. Len(Line(f)) = w + (n - 1) /\ \A i \in 1..(w + (n - 1)) :
        Line(f)[i] = IF i <= w THEN e.wire[i] ELSE f.cells[i - w]
  BY <1>3, LineParts
<1> HIDE DEF w, n
<1>6. Slots(e) = 1..(w + n + 1) /\ Slots(f) = 1..(w + n)
  BY <1>2, <1>4, <1>5 DEF Slots
<1>7. ASSUME NEW i \in 1..(w + n - 1) PROVE Flags(f, i) = Flags(e, i)
  <2>1. i \in 1..(w + (n - 1)) /\ i \in 1..(w + n) /\ i <= w + n /\ i <= w + (n - 1)
    BY <1>2
  <2>2. Line(f)[i] = Line(e)[i]
    <3>1. CASE i <= w
      BY <1>4, <1>5, <2>1, <3>1
    <3>2. CASE ~(i <= w)
      <4>1. i - w \in 1..(n - 1)
        BY <1>2, <3>2
      <4> QED BY <1>3, <1>4, <1>5, <2>1, <3>2, <4>1
    <3> QED BY <3>1, <3>2
  <2> QED BY <1>4, <1>5, <2>1, <2>2 DEF Flags
<1>8. Flags(f, w + n) = e.need /\ Flags(e, w + n + 1) = e.need
  BY <1>2, <1>4, <1>5 DEF Flags
<1>9. Flags(e, w + n) = {}
  <2>1. w + n \in 1..(w + n) /\ ~(w + n <= w) /\ (w + n) - w = n /\ w + n <= w + n
    BY <1>2
  <2> QED BY <1>4, <2>1 DEF Flags, n
<1>10. h \in [Slots(f) -> Int] /\ \A j \in Slots(f) : h[j] = IF j <= w + n - 1 THEN j ELSE w + n + 1
  BY <1>2, <1>6
<1> HIDE DEF h
<1>11. ASSUME NEW j \in Slots(f) PROVE h[j] \in Slots(e) /\ Flags(e, h[j]) = Flags(f, j)
  <2>1. CASE j <= w + n - 1
    <3>1. h[j] = j /\ j \in 1..(w + n - 1) /\ j \in 1..(w + n + 1)
      BY <1>2, <1>6, <1>10, <2>1
    <3> QED BY <1>6, <1>7, <3>1
  <2>2. CASE ~(j <= w + n - 1)
    <3>1. h[j] = w + n + 1 /\ j = w + n /\ w + n + 1 \in 1..(w + n + 1)
      <4>1. j \in Nat /\ j <= w + n
        BY <1>2, <1>6
      <4>2. h[j] = w + n + 1
        BY <1>10, <2>2
      <4> QED BY <1>2, <2>2, <4>1, <4>2
    <3> QED BY <1>6, <1>8, <3>1
  <2> QED BY <2>1, <2>2
<1>12. ASSUME NEW i \in Slots(e), Flags(e, i) # {}
       PROVE  \E j \in Slots(f) : Flags(f, j) = Flags(e, i)
  <2>1. i # w + n
    BY <1>9, <1>12
  <2>2. CASE i <= w + n - 1
    <3>1. i \in 1..(w + n - 1) /\ i \in Slots(f)
      BY <1>2, <1>6, <2>2
    <3> QED BY <1>7, <3>1
  <2>3. CASE ~(i <= w + n - 1)
    <3>1. i = w + n + 1 /\ w + n \in Slots(f)
      BY <1>2, <1>6, <2>1, <2>3
    <3> QED BY <1>8, <3>1
  <2> QED BY <2>2, <2>3
<1>13. \A i, j \in Slots(f) : i < j => h[i] < h[j]
  BY <1>2, <1>6, <1>10
<1> QED BY <1>10, <1>11, <1>12, <1>13, SameTalk

-----------------------------------------------------------------------------
SameSession(e, f) ==
  /\ f.role = e.role /\ f.state = e.state /\ f.stop = e.stop
  /\ f.doneRecv = e.doneRecv /\ f.notified = e.notified /\ f.status = e.status

(* f is e with bytes moved, cells added or dummies dropped: it says what e  *)
(* says, and no check has failed on the way.                                *)
Carries(e, f) ==
  /\ SameSession(e, f)
  /\ f.need \in {{}, e.need}
  /\ e.state # "PENDING" => f.added = e.added
  /\ Speaks(e, f)

(* What CheckCellFlags checks.                                              *)
FlagsFit(e) ==
  /\ "START" \in e.need =>
       /\ e.role = "CSP"
       /\ e.state = "PENDING" \/ (e.state = "ACTIVE" /\ ~e.stop)
  /\ e.need \cap {"AUTO_STOPPED", "DONE"} # {} => e.role = "SSP"

LEMMA CarriesTransitive ==
  ASSUME NEW e, NEW f, NEW g, Carries(e, f), Carries(f, g)
  PROVE  Carries(e, g)
BY SpeaksTransitive DEF Carries, SameSession

LEMMA CarriesFits ==
  ASSUME NEW e, NEW f, Carries(e, f), FlagsFit(e)
  PROVE  FlagsFit(f)
BY DEF Carries, SameSession, FlagsFit

LEMMA SameLineCarries ==
  ASSUME NEW e, NEW f, SameSession(e, f), f.need = e.need, f.added = e.added,
         f.wire = e.wire, f.cells = e.cells
  PROVE  Carries(e, f)
BY SameLineSpeaks DEF Carries, Line

LEMMA CheckPasses ==
  ASSUME NEW e, NEW ok, ok, NEW name
  PROVE  Check(e, ok, name) = e
BY DEF Check

LEMMA FlagsPass ==
  ASSUME NEW e, FlagsFit(e)
  PROVE  CheckCellFlags(e) = e
BY DEF CheckCellFlags, Check, FlagsFit

LEMMA AppendCellCarries ==
  ASSUME NEW e, Sound(e), ~e.dummy, FlagsFit(e), NEW payload \in 0..BodySize
  PROVE  LET f == AppendCell(e, payload)
         IN  /\ Carries(e, f) /\ f.need = {} /\ f.wire = e.wire
             /\ f.added = e.added /\ f.spdy = e.spdy
<1> DEFINE f == AppendCell(e, payload)
           cell == [data |-> payload, flags |-> e.need]
           more == << cell >>
<1>1. e \in Endpoint /\ e.cells \in Seq(Cell) /\ e.need \in SUBSET Flag
  BY DEF Sound, Endpoint
<1>2. f = [e EXCEPT !.cells = Append(e.cells, cell),
                    !.outlen = e.outlen + CellSize, !.need = {}]
  BY FlagsPass DEF AppendCell
<1>3. /\ SameSession(e, f) /\ f.need = {} /\ f.wire = e.wire
      /\ f.added = e.added /\ f.spdy = e.spdy
      /\ f.cells = Append(e.cells, cell)
  BY <1>1, <1>2 DEF Endpoint, SameSession
<1>4. f \in Endpoint
  BY AppendCellSound DEF Sound
<1>5. cell \in Cell /\ cell.flags = e.need
  BY <1>1 DEF Cell
<1> HIDE DEF f, cell
<1>6. more \in Seq(Cell) /\ Len(more) = 1 /\ more[1] = cell /\ more # << >>
  BY <1>5
<1>7. Append(e.cells, cell) = e.cells \o more
  BY <1>1, <1>5, AppendIsConcat
<1> HIDE DEF more
<1>8. Speaks(e, f)
  <2>1. \A i \in 2..Len(more) : more[i].flags = {}
    BY <1>6
  <2>2. f.cells = e.cells \o more /\ more[1].flags = e.need
    BY <1>3, <1>5, <1>6, <1>7
  <2> QED BY <1>1, <1>3, <1>4, <1>6, <2>1, <2>2, LineAdded
<1> QED BY <1>3, <1>8 DEF Carries, f

LEMMA DropWholeDummyCarries ==
  ASSUME NEW e, Sound(e)
  PROVE  LET f == DropWholeDummy(e)
         IN  /\ Carries(e, f) /\ f.need = e.need /\ f.wire = e.wire
             /\ f.added = e.added /\ f.spdy = e.spdy
<1> DEFINE f == DropWholeDummy(e)
<1>1. e \in Endpoint
  BY DEF Sound
<1>2. CASE ~e.dummy
  <2>1. f = e
    BY <1>2 DEF DropWholeDummy
  <2> QED BY <2>1, SameLineCarries DEF SameSession
<1>3. CASE e.dummy
  <2>1. e.outlen >= CellSize /\ e.cells # << >>
    BY <1>3, DummyBytes DEF Sound, Whole
  <2>2. f = [e EXCEPT !.cells = SubSeq(e.cells, 1, Len(e.cells) - 1),
                      !.outlen = e.outlen - CellSize, !.dummy = FALSE]
    BY <1>3, <2>1 DEF DropWholeDummy, Check
  <2>3. /\ SameSession(e, f) /\ f.need = e.need /\ f.wire = e.wire
        /\ f.added = e.added /\ f.spdy = e.spdy
        /\ f.cells = SubSeq(e.cells, 1, Len(e.cells) - 1)
    BY <1>1, <2>2 DEF Endpoint, SameSession
  <2>4. e.cells[Len(e.cells)].flags = {}
    BY <1>3 DEF Sound, Whole
  <2>5. f \in Endpoint
    BY DropWholeDummySound DEF Sound
  <2> HIDE DEF f
  <2>6. Speaks(e, f)
    BY <1>1, <2>1, <2>3, <2>4, <2>5, LineDropped
  <2> QED BY <2>3, <2>6 DEF Carries, f
<1> QED BY <1>2, <1>3

LEMMA AddDataCellCarries ==
  ASSUME NEW e, Sound(e), e.spdy > 0, FlagsFit(e), e.state = "PENDING" => e.added = 0
  PROVE  LET f == AddDataCell(e)
         IN  /\ Carries(e, f) /\ f.need = {} /\ f.wire = e.wire
             /\ e.state = "PENDING" => f.added = 1
<1> DEFINE p == Lesser(BodySize, e.spdy)
           w == DropWholeDummy(e)
           a == AppendCell(w, p)
           d == [a EXCEPT !.spdy = e.spdy - p]
           c == [d EXCEPT !.added = e.added + 1]
<1>1. e \in Endpoint /\ e.spdy \in Nat
  BY DEF Sound, Endpoint
<1>2. p \in 0..BodySize
  BY <1>1, CellAssumption DEF Lesser
<1>3. Sound(w) /\ ~w.dummy /\ Carries(e, w) /\ w.wire = e.wire /\ w.added = e.added
  BY DropWholeDummySound, DropWholeDummyCarries
<1> HIDE DEF p, w
<1>4. FlagsFit(w)
  BY <1>3, CarriesFits
<1>5. /\ Sound(a) /\ Carries(w, a) /\ a.need = {} /\ a.wire = w.wire /\ a.added = w.added
  BY <1>2, <1>3, <1>4, AppendCellSound, AppendCellCarries
<1> HIDE DEF a
<1>6. Carries(e, a) /\ a \in Endpoint
  BY <1>3, <1>5, CarriesTransitive DEF Sound
<1>7. SameSession(a, d) /\ d.need = {} /\ d.added = e.added /\ d.wire = e.wire /\ d.cells = a.cells
  BY <1>3, <1>5, <1>6 DEF Endpoint, SameSession
<1>8. Carries(a, d)
  BY <1>3, <1>5, <1>7, SameLineCarries
<1>9. Carries(e, d)
  BY <1>6, <1>8, CarriesTransitive
<1>10. CASE e.state = "PENDING"
  <2>1. AddDataCell(e) = c
    BY <1>10 DEF AddDataCell, Check, c, d, a, w, p
  <2>2. /\ SameSession(d, c) /\ c.need = {} /\ c.added = 1 /\ c.wire = e.wire
        /\ c.cells = d.cells
    BY <1>3, <1>5, <1>6, <1>7, <1>10 DEF Endpoint, SameSession
  <2>3. Speaks(d, c)
    BY <1>7, <2>2, SameLineSpeaks DEF Line
  <2>4. Speaks(e, c)
    BY <1>9, <2>3, SpeaksTransitive DEF Carries
  <2>5. SameSession(e, c)
    BY <1>9, <2>2 DEF SameSession, Carries
  <2> QED BY <1>10, <2>1, <2>2, <2>4, <2>5 DEF Carries
<1>11. CASE e.state # "PENDING"
  <2>1. AddDataCell(e) = d
    BY <1>11 DEF AddDataCell, d, a, w, p
  <2> QED BY <1>7, <1>9, <1>11, <2>1
<1> QED BY <1>10, <1>11

LEMMA AddDummyCellCarries ==
  ASSUME NEW e, Sound(e), ~e.dummy, FlagsFit(e)
  PROVE  LET f == AddDummyCell(e)
         IN  Carries(e, f) /\ f.need = {} /\ f.wire = e.wire
<1> DEFINE a == AppendCell(e, 0)
           f == [a EXCEPT !.dummy = (e.need = {})]
<1>1. 0 \in 0..BodySize
  BY CellAssumption
<1>2. Sound(a) /\ Carries(e, a) /\ a.need = {} /\ a.wire = e.wire
  BY <1>1, AppendCellSound, AppendCellCarries
<1> HIDE DEF a
<1>3. a \in Endpoint
  BY <1>2 DEF Sound
<1>4. /\ SameSession(a, f) /\ f.need = a.need /\ f.added = a.added
      /\ f.wire = a.wire /\ f.cells = a.cells
  BY <1>3 DEF Endpoint, SameSession
<1>5. AddDummyCell(e) = f
  BY DEF AddDummyCell, a
<1> HIDE DEF f
<1>6. Carries(a, f)
  BY <1>4, SameLineCarries
<1> QED BY <1>2, <1>4, <1>5, <1>6, CarriesTransitive

LEMMA FillOutbufCarries ==
  ASSUME NEW e, Sound(e), FlagsFit(e), e.state = "ACTIVE"
  PROVE  Carries(e, FillOutbuf(e))
<1>1. CASE e.outlen >= CellSize
  <2>1. FillOutbuf(e) = e
    BY <1>1 DEF FillOutbuf
  <2> QED BY <2>1, SameLineCarries DEF SameSession
<1>2. CASE ~(e.outlen >= CellSize) /\ e.spdy > 0
  <2>1. FillOutbuf(e) = AddDataCell(e)
    BY <1>2 DEF FillOutbuf
  <2> QED BY <1>2, <2>1, AddDataCellCarries
<1>3. CASE ~(e.outlen >= CellSize) /\ ~(e.spdy > 0)
  <2>1. e.outlen < CellSize
    BY <1>3, CellAssumption DEF Sound, Endpoint
  <2>2. ~e.dummy
    BY <1>3, DummyBytes
  <2>3. FillOutbuf(e) = AddDummyCell(e)
    BY <1>3, <2>1, <2>2 DEF FillOutbuf, EnsureWholeDummy, Check
  <2> QED BY <2>2, <2>3, AddDummyCellCarries
<1> QED BY <1>1, <1>2, <1>3

LEMMA FlushDataCarries ==
  ASSUME NEW e, Sound(e), FlagsFit(e)
  PROVE  LET f == FlushData(e)
         IN  /\ Carries(e, f) /\ f.wire = e.wire /\ f.added = e.added
             /\ e.spdy > 0 => f.need = {}
<1> DEFINE d == DropWholeDummy(e)
           fs == FlushCells(e)
           f == FlushData(e)
<1>1. e \in Endpoint /\ e.spdy \in Nat /\ e.need \in SUBSET Flag
  BY DEF Sound, Endpoint
<1>2. CASE e.spdy = 0
  <2>1. f = e
    BY <1>2 DEF FlushData
  <2> QED BY <1>2, <2>1, SameLineCarries DEF SameSession
<1>3. CASE e.spdy # 0
  <2>1. e.spdy > 0
    BY <1>1, <1>3
  <2>2. fs \in Seq(Cell) /\ Len(fs) >= 1
    BY <1>1, <2>1, FlushAddsACell
  <2>3. fs # << >> /\ fs[1].flags = e.need /\ \A i \in 2..Len(fs) : fs[i].flags = {}
    <3> DEFINE n == (e.spdy + BodySize - 1) \div BodySize
    <3>1. fs = [i \in 1..n |-> [data  |-> Lesser(BodySize, e.spdy - (i - 1) * BodySize),
                               flags |-> IF i = 1 THEN e.need ELSE {}]]
      BY DEF FlushCells
    <3>2. Len(fs) \in Nat /\ DOMAIN fs = 1..Len(fs)
      BY <2>2, LenProperties
    <3> HIDE DEF n
    <3>3. \A i \in 1..n : fs[i].flags = IF i = 1 THEN e.need ELSE {}
      BY <3>1
    <3>4. \A i \in 1..Len(fs) : i \in 1..n
      BY <3>1, <3>2
    <3>5. \A i \in 1..Len(fs) : fs[i].flags = IF i = 1 THEN e.need ELSE {}
      BY <3>3, <3>4
    <3> HIDE DEF fs
    <3>6. fs # << >>
      BY <2>2, EmptySeq
    <3> QED BY <2>2, <3>2, <3>5, <3>6
  <2>4. Sound(d) /\ Carries(e, d) /\ d.need = e.need /\ d.wire = e.wire /\ d.added = e.added
    BY DropWholeDummySound, DropWholeDummyCarries
  <2> HIDE DEF d, fs
  <2>5. FlagsFit(d) /\ d \in Endpoint
    BY <2>4, CarriesFits DEF Sound
  <2>6. f = [d EXCEPT !.cells  = d.cells \o fs,
                      !.outlen = d.outlen + CellSize * Len(fs),
                      !.spdy   = 0,
                      !.need   = {}]
    BY <1>3, <2>5, FlagsPass DEF FlushData, d, fs
  <2>7. /\ SameSession(d, f) /\ f.need = {} /\ f.wire = d.wire /\ f.added = d.added
        /\ f.cells = d.cells \o fs
    BY <2>5, <2>6 DEF Endpoint, SameSession
  <2>8. f \in Endpoint
    BY FlushDataSound DEF Sound
  <2> HIDE DEF f
  <2>9. Speaks(d, f)
    BY <2>2, <2>3, <2>4, <2>5, <2>7, <2>8, LineAdded
  <2>10. Carries(d, f)
    BY <2>7, <2>9 DEF Carries
  <2>11. Carries(e, f)
    BY <2>4, <2>10, CarriesTransitive
  <2> QED BY <2>4, <2>7, <2>11 DEF f
<1> QED BY <1>2, <1>3

(* A pump carries what the endpoint has to say; a pending one takes its     *)
(* first cell.                                                              *)
LEMMA PumpSendCarries ==
  ASSUME NEW e, Sound(e), FlagsFit(e), NEW k \in Nat,
         e.state = "PENDING" => e.added = 0 /\ k > 0
  PROVE  LET f == PumpSend(e, k)
         IN  /\ Carries(e, f) /\ f.wire = e.wire
             /\ e.state = "PENDING" => f.added = 1 /\ f.need = {} /\ f.outlen =
                  IF e.dummy THEN e.outlen ELSE e.outlen + CellSize
<1> DEFINE d == [e EXCEPT !.spdy = e.spdy + k]
           f == PumpSend(e, k)
<1>1. e \in Endpoint /\ e.spdy \in Nat /\ e.spdy + k \in Nat
  BY DEF Sound, Endpoint
<1>2. /\ d \in Endpoint /\ SameSession(e, d) /\ d.need = e.need /\ d.added = e.added
      /\ d.wire = e.wire /\ d.cells = e.cells /\ SameOutbuf(e, d) /\ d.spdy = e.spdy + k
  BY <1>1 DEF Endpoint, SameSession, SameOutbuf
<1> HIDE DEF d
<1>3. Sound(d) /\ Carries(e, d)
  BY <1>2, SoundFrame, SameLineCarries
<1>4. FlagsFit(d)
  BY <1>3, CarriesFits
<1>5. CASE e.state = "NONE"
  <2> DEFINE g == FlushData(d)
  <2>1. Carries(d, g) /\ g.wire = d.wire /\ Sound(g) /\ g.state = "NONE"
    BY <1>2, <1>3, <1>4, <1>5, FlushDataCarries, FlushDataSound DEF SameSession
  <2>2. f = IF g.outlen > 0 THEN EnableWrite(g) ELSE g
    BY <1>5 DEF PumpSend, d
  <2> HIDE DEF g
  <2>3. g \in Endpoint
    BY <2>1 DEF Sound
  <2>4. EnableWrite(g) = [g EXCEPT !.wev = TRUE]
    BY <2>1 DEF EnableWrite, Check
  <2>5. /\ SameSession(g, f) /\ f.need = g.need /\ f.added = g.added
        /\ f.wire = g.wire /\ f.cells = g.cells
    BY <2>2, <2>3, <2>4 DEF Endpoint, SameSession
  <2> HIDE DEF f
  <2>6. Carries(g, f)
    BY <2>5, SameLineCarries
  <2>7. Carries(e, f)
    BY <1>3, <2>1, <2>6, CarriesTransitive
  <2> QED BY <1>2, <1>5, <2>1, <2>5, <2>7 DEF f
<1>6. CASE e.state = "PENDING"
  <2> DEFINE g == AddDataCell(d)
  <2>1. d.spdy > 0 /\ d.state = "PENDING" /\ d.added = 0
    BY <1>1, <1>2, <1>6 DEF SameSession
  <2>2. /\ Carries(d, g) /\ g.need = {} /\ g.wire = d.wire /\ g.added = 1
        /\ Sound(g) /\ g.outlen = IF d.dummy THEN d.outlen ELSE d.outlen + CellSize
        /\ g.state = "PENDING"
    BY <1>3, <1>4, <2>1, AddDataCellCarries, AddDataCellSound
  <2>3. f = EnableWrite(g)
    BY <1>6, <2>1 DEF PumpSend, d
  <2> HIDE DEF g
  <2>4. g \in Endpoint
    BY <2>2 DEF Sound
  <2>5. EnableWrite(g) = [g EXCEPT !.wev = TRUE]
    BY <2>2 DEF EnableWrite, Check
  <2>6. /\ SameSession(g, f) /\ f.need = g.need /\ f.added = g.added
        /\ f.wire = g.wire /\ f.cells = g.cells /\ f.outlen = g.outlen
    BY <2>3, <2>4, <2>5 DEF Endpoint, SameSession
  <2> HIDE DEF f
  <2>7. Carries(g, f)
    BY <2>6, SameLineCarries
  <2>8. Carries(e, f)
    BY <1>3, <2>2, <2>7, CarriesTransitive
  <2> QED BY <1>2, <2>2, <2>6, <2>8 DEF f, SameOutbuf
<1>7. CASE e.state \notin {"NONE", "PENDING"}
  <2>1. f = d
    BY <1>7 DEF PumpSend, d
  <2> QED BY <1>2, <1>3, <1>7, <2>1
<1> QED BY <1>5, <1>6, <1>7

(* Flags that found no cell get one of their own.                           *)
LEMMA SendFlagsCarries ==
  ASSUME NEW e, Sound(e), FlagsFit(e), e.state # "ACTIVE"
  PROVE  LET f == SendFlags(e) IN Carries(e, f) /\ f.need = {}
<1> DEFINE d == DropWholeDummy(e)
           g == AddDummyCell(d)
<1>1. CASE e.need = {}
  <2>1. SendFlags(e) = e
    BY <1>1 DEF SendFlags
  <2> QED BY <1>1, <2>1, SameLineCarries DEF SameSession
<1>2. CASE e.need # {}
  <2>1. Sound(d) /\ ~d.dummy /\ Carries(e, d)
    BY DropWholeDummySound, DropWholeDummyCarries
  <2>2. FlagsFit(d)
    BY <2>1, CarriesFits
  <2> HIDE DEF d
  <2>3. Carries(d, g) /\ g.need = {} /\ Sound(g) /\ g.state = e.state
    BY <2>1, <2>2, AddDummyCellCarries, AddDummyCellSound DEF Carries, SameSession
  <2>4. SendFlags(e) = EnableWrite(g)
    BY <1>2 DEF SendFlags, g, d
  <2> HIDE DEF g
  <2>5. g \in Endpoint
    BY <2>3 DEF Sound
  <2>6. EnableWrite(g) = [g EXCEPT !.wev = TRUE]
    BY <2>3 DEF EnableWrite, Check
  <2> DEFINE f == SendFlags(e)
  <2>7. /\ SameSession(g, f) /\ f.need = g.need /\ f.added = g.added
        /\ f.wire = g.wire /\ f.cells = g.cells
    BY <2>4, <2>5, <2>6 DEF Endpoint, SameSession
  <2> HIDE DEF f
  <2>8. Carries(g, f)
    BY <2>7, SameLineCarries
  <2>9. Carries(e, f)
    BY <2>1, <2>3, <2>8, CarriesTransitive
  <2> QED BY <2>3, <2>7, <2>9 DEF f
<1> QED BY <1>1, <1>2

-----------------------------------------------------------------------------
LEMMA ProgressSame ==
  ASSUME NEW d \in Endpoint, NEW n
  PROVE  LET f == Progress(d, n)
         IN  SameSession(d, f) /\ f.need = d.need /\ f.added = d.added
BY DEF Progress, Endpoint, SameSession

LEMMA SendOneCellCarries ==
  ASSUME NEW e, Sound(e), NEW n \in 0..e.outlen, e.outlen >= CellSize
  PROVE  Carries(e, SendOneCell(e, n))
<1> DEFINE f == SendOneCell(e, n)
           left == e.outlen - n
           c == [e EXCEPT !.outlen   = left,
                          !.attempts = (e.attempts + 1) % L,
                          !.dummy    = e.dummy /\ left >= CellSize]
<1>1. e \in Endpoint
  BY DEF Sound
<1>2. f = [c EXCEPT !.sent  = (c.sent + n) % CellSize,
                    !.wire  = c.wire \o SubSeq(c.cells, 1, (c.sent + n) \div CellSize),
                    !.cells = SubSeq(c.cells, (c.sent + n) \div CellSize + 1, Len(c.cells))]
  BY DEF SendOneCell, Check, Progress, c, left
<1>3. SameSession(e, f) /\ f.need = e.need /\ f.added = e.added
  BY <1>1, <1>2 DEF Endpoint, SameSession
<1>4. Line(f) = Line(e)
  <2>1. PICK d \in Endpoint :
           /\ SendOneCell(e, n) = Progress(d, n)
           /\ d.cells = e.cells /\ d.wire = e.wire
           /\ d.outlen = CellSize * Len(d.cells) - (d.sent + n)
           /\ d.sent < CellSize
    BY SendOneCellTakes
  <2>2. n \in Nat
    BY <1>1 DEF Endpoint
  <2>3. Progress(d, n).wire \o Progress(d, n).cells = d.wire \o d.cells
    BY <2>1, <2>2, ProgressKeepsLine
  <2> QED BY <2>1, <2>3 DEF Line, f
<1> HIDE DEF f
<1>5. Speaks(e, f)
  BY <1>3, <1>4, SameLineSpeaks
<1> QED BY <1>3, <1>5 DEF Carries, f

LEMMA SendAllCarries ==
  ASSUME NEW e, Sound(e), NEW n \in 0..IdleAmount(e), e.state # "ACTIVE", e.outlen > 0
  PROVE  Carries(e, SendAll(e, n))
<1> DEFINE w == [e EXCEPT !.outlen = e.outlen - n]
           t == IF e.dummy /\ n = IdleAmount(e) THEN DisableWrite(w) ELSE ToggleWrite(w)
           d == DropWholeDummy(t)
           f == SendAll(e, n)
<1>1. e \in Endpoint /\ e.outlen \in Nat /\ (e.dummy => e.outlen >= CellSize)
  BY DummyBytes DEF Sound, Endpoint
<1>2. n \in Nat /\ n <= e.outlen /\ (e.dummy => e.outlen - n >= CellSize)
  BY <1>1, CellAssumption DEF IdleAmount
<1>3. f = Progress(d, n)
  BY DEF SendAll, Check, d, t, w
<1>4. /\ w \in Endpoint /\ SameSession(e, w) /\ w.need = e.need /\ w.added = e.added
      /\ w.outlen = e.outlen - n /\ w.dummy = e.dummy /\ w.cells = e.cells
  <2>1. e.outlen - n \in Nat
    BY <1>1, <1>2
  <2> QED BY <1>1, <2>1 DEF Endpoint, SameSession
<1> HIDE DEF w
<1>5. /\ t \in Endpoint /\ SameSession(w, t) /\ t.need = w.need /\ t.added = w.added
      /\ t.outlen = w.outlen /\ t.dummy = w.dummy /\ t.cells = w.cells
  <2>1. ToggleWrite(w) = [w EXCEPT !.wev = (w.outlen > 0)]
    BY <1>4 DEF ToggleWrite, Check, SameSession
  <2>2. DisableWrite(w) = [w EXCEPT !.wev = FALSE]
    BY DEF DisableWrite
  <2>3. PICK b \in BOOLEAN : t = [w EXCEPT !.wev = b]
    <3>1. CASE e.dummy /\ n = IdleAmount(e)
      BY <2>2, <3>1
    <3>2. CASE ~(e.dummy /\ n = IdleAmount(e))
      <4> DEFINE c == w.outlen > 0
      <4>1. t = [w EXCEPT !.wev = c] /\ c \in BOOLEAN
        BY <2>1, <3>2
      <4> HIDE DEF c, t
      <4> QED BY <4>1
    <3> QED BY <3>1, <3>2
  <2> HIDE DEF t
  <2>4. w \in Endpoint
    BY <1>4
  <2>5. t \in Endpoint
    BY <2>3, <2>4 DEF Endpoint
  <2>6. /\ SameSession(w, t) /\ t.need = w.need /\ t.added = w.added
        /\ t.outlen = w.outlen /\ t.dummy = w.dummy /\ t.cells = w.cells
    BY <2>3, <2>4 DEF Endpoint, SameSession
  <2> QED BY <2>5, <2>6
<1> HIDE DEF t
<1>6. /\ SameSession(t, d) /\ d.need = t.need /\ d.added = t.added
  <2>1. CASE ~t.dummy
    BY <2>1 DEF DropWholeDummy, SameSession
  <2>2. CASE t.dummy
    <3>1. t.outlen >= CellSize /\ t.cells # << >>
      BY <1>2, <1>4, <1>5, <2>2 DEF Sound, Whole
    <3>2. d = [t EXCEPT !.cells  = SubSeq(t.cells, 1, Len(t.cells) - 1),
                        !.outlen = t.outlen - CellSize, !.dummy = FALSE]
      BY <2>2, <3>1 DEF DropWholeDummy, Check
    <3> QED BY <1>5, <3>2 DEF Endpoint, SameSession
  <2> QED BY <2>1, <2>2
<1>7. /\ SameSession(d, f) /\ f.need = d.need /\ f.added = d.added
  <2>1. f = [d EXCEPT !.sent  = (d.sent + n) % CellSize,
                      !.wire  = d.wire \o SubSeq(d.cells, 1, (d.sent + n) \div CellSize),
                      !.cells = SubSeq(d.cells, (d.sent + n) \div CellSize + 1, Len(d.cells))]
    BY <1>3 DEF Progress
  <2> QED BY <2>1 DEF SameSession
<1>8. SameSession(e, f) /\ f.need = e.need /\ f.added = e.added
  BY <1>4, <1>5, <1>6, <1>7 DEF SameSession
<1> DEFINE g == [e EXCEPT !.cells = Firm(e)]
<1>9. /\ SameSession(e, g) /\ g.need = e.need /\ g.added = e.added
      /\ g.cells = Firm(e) /\ g.wire = e.wire
  BY <1>1 DEF Endpoint, SameSession
<1> HIDE DEF g
<1>10. Speaks(e, g)
  <2> DEFINE x == DropWholeDummy(e)
  <2>1. Carries(e, x) /\ x.need = e.need /\ x.wire = e.wire
    BY DropWholeDummyCarries
  <2>2. x.cells = Firm(e)
    BY <1>1 DEF DropWholeDummy, Firm, Check, Endpoint
  <2> HIDE DEF x
  <2>3. Speaks(x, g)
    BY <1>9, <2>1, <2>2, SameLineSpeaks DEF Line
  <2> QED BY <2>1, <2>3, SpeaksTransitive DEF Carries
<1>11. Line(f) = Line(g)
  <2>1. PICK b \in Endpoint :
           /\ SendAll(e, n) = Progress(b, n)
           /\ b.cells = Firm(e) /\ b.wire = e.wire
           /\ b.outlen = CellSize * Len(b.cells) - (b.sent + n)
           /\ b.sent < CellSize
    BY SendAllTakes
  <2>2. Progress(b, n).wire \o Progress(b, n).cells = b.wire \o b.cells
    BY <1>2, <2>1, ProgressKeepsLine
  <2> QED BY <1>9, <2>1, <2>2 DEF Line, f
<1> HIDE DEF f
<1>12. Speaks(g, f)
  BY <1>8, <1>9, <1>11, SameLineSpeaks
<1> QED BY <1>8, <1>10, <1>12, SpeaksTransitive DEF Carries, f

LEMMA SendCellOutbufCarries ==
  ASSUME NEW e, Sound(e), NEW n \in 0..MaxWrite(e),
         e.outlen >= IF e.state = "ACTIVE" THEN CellSize ELSE 1
  PROVE  Carries(e, SendCellOutbuf(e, n))
<1>0. e.outlen \in Nat
  BY DEF Sound, Endpoint
<1>1. CASE e.state = "ACTIVE"
  <2>1. n \in 0..e.outlen /\ e.outlen >= CellSize
    BY <1>0, <1>1, CellAssumption DEF MaxWrite, Lesser
  <2> QED BY <1>1, <2>1, SendOneCellCarries DEF SendCellOutbuf
<1>2. CASE e.state # "ACTIVE"
  <2>1. n \in 0..IdleAmount(e) /\ e.outlen > 0
    BY <1>0, <1>2 DEF MaxWrite
  <2> QED BY <1>2, <2>1, SendAllCarries DEF SendCellOutbuf
<1> QED BY <1>1, <1>2

-----------------------------------------------------------------------------
(* The flags in the cells of the line.                                      *)
InLine(e) == {F \in Flag : \E i \in 1..Len(Line(e)) : F \in Line(e)[i].flags}

LEMMA UnderSplit ==
  ASSUME NEW e \in Endpoint
  PROVE  Under(e) = InLine(e) \cup e.need /\ Under(e) \in SUBSET Flag
<1> DEFINE l == Len(Line(e))
<1>1. l \in Nat /\ e.need \in SUBSET Flag /\ Slots(e) = 1..(l + 1)
  BY LineTyped DEF Endpoint, Slots
<1>2. \A i \in 1..l : i \in Slots(e) /\ Flags(e, i) = Line(e)[i].flags
  BY <1>1 DEF Flags
<1>3. l + 1 \in Slots(e) /\ Flags(e, l + 1) = e.need
  BY <1>1 DEF Flags
<1>4. \A i \in Slots(e) : i = l + 1 \/ i \in 1..l
  BY <1>1
<1> HIDE DEF l
<1>5. ASSUME NEW F \in Flag PROVE F \in Under(e) <=> F \in InLine(e) \/ F \in e.need
  <2>1. CASE F \in Under(e)
    <3>1. PICK i \in Slots(e) : F \in Flags(e, i)
      BY <2>1 DEF Under
    <3>2. CASE i = l + 1
      BY <1>3, <2>1, <3>1, <3>2
    <3>3. CASE i \in 1..l
      BY <1>2, <2>1, <3>1, <3>3 DEF InLine, l
    <3> QED BY <1>4, <3>2, <3>3
  <2>2. CASE F \in InLine(e)
    <3>1. PICK i \in 1..l : F \in Line(e)[i].flags
      BY <2>2 DEF InLine, l
    <3> QED BY <1>2, <2>2, <3>1 DEF Under
  <2>3. CASE F \in e.need
    BY <1>3, <2>3 DEF Under
  <2> QED BY <2>1, <2>2, <2>3
<1>6. Under(e) \subseteq Flag /\ InLine(e) \subseteq Flag
  BY DEF Under, InLine
<1> QED BY <1>1, <1>5, <1>6

LEMMA NeedApart ==
  ASSUME NEW e \in Endpoint, Ordered(e)
  PROVE  e.need \cap InLine(e) = {} /\ ~({"START", "STOP"} \subseteq e.need)
<1> DEFINE l == Len(Line(e))
<1>1. l \in Nat /\ Slots(e) = 1..(l + 1)
  BY LineTyped DEF Slots
<1>2. l + 1 \in Slots(e) /\ Flags(e, l + 1) = e.need
  BY <1>1 DEF Flags
<1>3. ASSUME NEW i \in 1..l PROVE Line(e)[i].flags \cap e.need = {}
  <2>1. i \in Slots(e) /\ i < l + 1 /\ Flags(e, i) = Line(e)[i].flags
    BY <1>1 DEF Flags
  <2> QED BY <1>2, <2>1 DEF Ordered, Fits
<1> QED BY <1>2, <1>3 DEF Ordered, InLine

(* Only what is needed changes.                                             *)
LEMMA NeedChanged ==
  ASSUME NEW e \in Endpoint, NEW f \in Endpoint, Line(f) = Line(e), Ordered(e),
         f.need \cap InLine(e) = {},
         ~("STOP" \in InLine(e) /\ "START" \in f.need),
         ~({"START", "STOP"} \subseteq f.need)
  PROVE  Ordered(f) /\ Under(f) = InLine(e) \cup f.need
<1> DEFINE l == Len(Line(e))
<1>1. l \in Nat /\ Slots(e) = 1..(l + 1) /\ Slots(f) = 1..(l + 1)
  BY LineTyped DEF Slots
<1>2. \A i \in 1..l : /\ i \in Slots(e) /\ Flags(e, i) = Line(e)[i].flags
                       /\ Flags(f, i) = Line(e)[i].flags
  BY <1>1 DEF Flags
<1>3. Flags(f, l + 1) = f.need
  BY <1>1 DEF Flags
<1>4. \A i \in Slots(f) : i \in Nat /\ (i = l + 1 \/ i \in 1..l)
  BY <1>1
<1>5. l + 1 \notin 1..l /\ \A j \in Slots(f) : ~(l + 1 < j)
  BY <1>1
<1> HIDE DEF l
<1>6. ASSUME NEW i \in 1..l PROVE Fits(Line(e)[i].flags, f.need)
  <2>1. Line(e)[i].flags \subseteq InLine(e)
    BY LineTyped DEF InLine, l
  <2> QED BY <2>1 DEF Fits
<1>7. \A i, j \in Slots(f) : i < j => Fits(Flags(f, i), Flags(f, j))
  <2> SUFFICES ASSUME NEW i \in Slots(f), NEW j \in Slots(f), i < j
               PROVE  Fits(Flags(f, i), Flags(f, j))
    OBVIOUS
  <2>1. i \in 1..l
    BY <1>4, <1>5
  <2>2. CASE j = l + 1
    BY <1>2, <1>3, <1>6, <2>1, <2>2
  <2>3. CASE j \in 1..l
    BY <1>2, <2>1, <2>3 DEF Ordered
  <2> QED BY <1>4, <2>2, <2>3
<1>8. \A i \in Slots(f) : ~({"START", "STOP"} \subseteq Flags(f, i))
  <2> SUFFICES ASSUME NEW i \in Slots(f) PROVE ~({"START", "STOP"} \subseteq Flags(f, i))
    OBVIOUS
  <2>1. CASE i = l + 1
    BY <1>3, <2>1
  <2>2. CASE i \in 1..l
    BY <1>2, <2>2 DEF Ordered
  <2> QED BY <1>4, <2>1, <2>2
<1>9. InLine(f) = InLine(e)
  BY DEF InLine
<1> QED BY <1>7, <1>8, <1>9, UnderSplit DEF Ordered

(* The other end reads the first cell.                                      *)
LEMMA FirstRead ==
  ASSUME NEW e \in Endpoint, Ordered(e), e.wire # << >>,
         NEW f \in Endpoint, f.wire = Tail(e.wire), f.cells = e.cells, f.need = e.need
  PROVE  LET F == Head(e.wire).flags
         IN  /\ F \subseteq Under(e) /\ Under(f) = Under(e) \ F /\ Ordered(f)
             /\ ~({"START", "STOP"} \subseteq F)
             /\ "STOP" \in F => "START" \notin Under(f)
<1> DEFINE w == e.wire
           n == Len(w)
           c == Len(e.cells)
           F == Head(w).flags
<1>1. /\ w \in Seq(Cell) /\ e.cells \in Seq(Cell) /\ n \in Nat /\ n >= 1 /\ c \in Nat
      /\ w # << >>
  <2>1. w \in Seq(Cell) /\ e.cells \in Seq(Cell) /\ w # << >>
    BY DEF Endpoint
  <2> HIDE DEF w
  <2>2. n \in Nat /\ c \in Nat
    BY <2>1, LenProperties
  <2>3. n \in Nat \ {0}
    BY <2>1, EmptySeq
  <2> QED BY <2>1, <2>2, <2>3
<1>2. Head(w) = w[1]
  <2> HIDE DEF w
  <2> QED BY <1>1
<1>3. Len(Tail(w)) = n - 1 /\ \A i \in 1..(n - 1) : Tail(w)[i] = w[i + 1]
  <2> HIDE DEF w
  <2>1. Len(Tail(w)) = Len(w) - 1 /\ \A i \in 1..Len(Tail(w)) : Tail(w)[i] = w[i + 1]
    BY <1>1, HeadTailProperties
  <2> QED BY <2>1
<1>4. /\ Len(Line(e)) = n + c
      /\ \A i \in 1..(n + c) : Line(e)[i] = IF i <= n THEN w[i] ELSE e.cells[i - n]
  BY LineParts
<1>5. /\ Len(Line(f)) = (n - 1) + c
      /\ \A i \in 1..((n - 1) + c) :
           Line(f)[i] = IF i <= n - 1 THEN Tail(w)[i] ELSE e.cells[i - (n - 1)]
  BY <1>3, LineParts
<1> HIDE DEF w, n, c
<1>6. Slots(e) = 1..(n + c + 1) /\ Slots(f) = 1..(n + c)
  BY <1>1, <1>4, <1>5 DEF Slots
<1>7. ASSUME NEW i \in Slots(f) PROVE i + 1 \in Slots(e) /\ Flags(f, i) = Flags(e, i + 1)
  <2>1. i \in Nat /\ i >= 1 /\ i <= n + c /\ i + 1 \in 1..(n + c + 1)
    BY <1>1, <1>6
  <2>2. CASE i = n + c
    <3>1. ~(i <= (n - 1) + c) /\ ~(i + 1 <= n + c)
      BY <1>1, <2>1, <2>2
    <3> QED BY <1>4, <1>5, <1>6, <2>1, <3>1 DEF Flags
  <2>3. CASE i # n + c
    <3>1. /\ i \in 1..((n - 1) + c) /\ i <= (n - 1) + c
          /\ i + 1 \in 1..(n + c) /\ i + 1 <= n + c
      BY <1>1, <2>1, <2>3
    <3>2. Line(f)[i] = Line(e)[i + 1]
      <4>1. CASE i <= n - 1
        <5>1. i + 1 <= n /\ i \in 1..(n - 1)
          BY <1>1, <2>1, <4>1
        <5> QED BY <1>3, <1>4, <1>5, <3>1, <4>1, <5>1
      <4>2. CASE ~(i <= n - 1)
        <5>1. ~(i + 1 <= n) /\ i - (n - 1) = (i + 1) - n
          BY <1>1, <2>1, <4>2
        <5> QED BY <1>4, <1>5, <3>1, <4>2, <5>1
      <4> QED BY <4>1, <4>2
    <3> QED BY <1>4, <1>5, <1>6, <2>1, <3>1, <3>2 DEF Flags
  <2> QED BY <2>2, <2>3
<1>8. 1 \in Slots(e) /\ Flags(e, 1) = F
  <2>1. 1 \in 1..(n + c) /\ 1 <= n /\ 1 <= n + c /\ 1 \in 1..(n + c + 1)
    BY <1>1
  <2> QED BY <1>2, <1>4, <1>6, <2>1 DEF Flags
<1>9. ASSUME NEW i \in Slots(f) PROVE Fits(F, Flags(f, i))
  <2>1. 1 < i + 1
    BY <1>1, <1>6
  <2> QED BY <1>7, <1>8, <2>1 DEF Ordered
<1>10. \A i \in Slots(e) : i = 1 \/ \E j \in Slots(f) : i = j + 1
  <2> SUFFICES ASSUME NEW i \in Slots(e), i # 1 PROVE \E j \in Slots(f) : i = j + 1
    OBVIOUS
  <2>1. i - 1 \in Slots(f) /\ i = (i - 1) + 1
    BY <1>1, <1>6
  <2> QED BY <2>1
<1>11. F \subseteq Under(e)
  BY <1>8, LineTyped DEF Under
<1>12. Under(f) = Under(e) \ F
  <2>1. ASSUME NEW G \in Under(f) PROVE G \in Under(e) \ F
    <3>1. PICK i \in Slots(f) : G \in Flags(f, i) /\ G \in Flag
      BY <2>1 DEF Under
    <3>2. G \notin F
      BY <1>9, <3>1 DEF Fits
    <3> QED BY <1>7, <3>1, <3>2 DEF Under
  <2>2. ASSUME NEW G \in Under(e), G \notin F PROVE G \in Under(f)
    <3>1. PICK i \in Slots(e) : G \in Flags(e, i) /\ G \in Flag
      BY <2>2 DEF Under
    <3>2. PICK j \in Slots(f) : i = j + 1
      BY <1>8, <1>10, <2>2, <3>1
    <3> QED BY <1>7, <3>1, <3>2 DEF Under
  <2> QED BY <2>1, <2>2
<1>13. Ordered(f)
  <2>1. ASSUME NEW i \in Slots(f), NEW j \in Slots(f), i < j
        PROVE  Fits(Flags(f, i), Flags(f, j))
    <3>1. i + 1 < j + 1
      BY <1>1, <1>6, <2>1
    <3> QED BY <1>7, <3>1 DEF Ordered
  <2>2. ASSUME NEW i \in Slots(f) PROVE ~({"START", "STOP"} \subseteq Flags(f, i))
    BY <1>7 DEF Ordered
  <2> QED BY <2>1, <2>2 DEF Ordered
<1>14. ~({"START", "STOP"} \subseteq F)
  BY <1>8 DEF Ordered
<1>15. "STOP" \in F => "START" \notin Under(f)
  BY <1>9 DEF Under, Fits
<1> QED BY <1>11, <1>12, <1>13, <1>14, <1>15 DEF F, w

-----------------------------------------------------------------------------
(* What an endpoint keeps to between two handlers.                          *)
Tidy(e) ==
  /\ Ordered(e)
  /\ e.state # "ACTIVE" => ~e.stop
  /\ e.state = "NONE" => e.need = {} /\ e.added = 0
  /\ e.role = "SSP" => e.need = {} /\ e.state # "PENDING"

LEMMA CarriesTidy ==
  ASSUME NEW e, NEW f, Carries(e, f), Tidy(e)
  PROVE  Tidy(f) /\ Under(f) = Under(e)
BY DEF Carries, SameSession, Tidy, Speaks

(* A session is over at e: it says c and nothing else is left of it.        *)
Rests(e, f, c) ==
  /\ f.role = e.role /\ f.status = e.status /\ f.doneRecv = e.doneRecv
  /\ f.state = "NONE" /\ Tidy(f) /\ Under(f) = c

(* The flush of a session that is over: need is what is still to be said.   *)
LEMMA FlushAfterReset ==
  ASSUME NEW e, Sound(e), NEW k \in Nat, NEW need \in SUBSET Flag, Ordered(e),
         need \cap InLine(e) = {}, "START" \notin need,
         need \cap {"AUTO_STOPPED", "DONE"} # {} => e.role = "SSP"
  PROVE  LET f == SendFlags(PumpSend([ResetDefense(e) EXCEPT !.timer = FALSE,
                                                             !.need = need], k))
         IN  /\ Rests(e, f, InLine(e) \cup need) /\ f.need = {}
             /\ f.notified = e.notified /\ Sound(f)
<1> DEFINE r == [ResetDefense(e) EXCEPT !.timer = FALSE, !.need = need]
           p == PumpSend(r, k)
           f == SendFlags(p)
<1>1. e \in Endpoint
  BY DEF Sound
<1>2. r = [e EXCEPT !.state = "NONE", !.stop = FALSE, !.need = need,
                    !.attempts = 0, !.added = 0, !.timer = FALSE]
  BY <1>1 DEF ResetDefense, Endpoint
<1>3. /\ r.role = e.role /\ r.status = e.status /\ r.doneRecv = e.doneRecv
      /\ r.notified = e.notified /\ r.state = "NONE" /\ ~r.stop /\ r.need = need
      /\ r.added = 0 /\ r.wire = e.wire /\ r.cells = e.cells /\ SameOutbuf(e, r)
  <2> HIDE DEF r
  <2>1. /\ r.role = e.role /\ r.status = e.status /\ r.doneRecv = e.doneRecv
        /\ r.notified = e.notified /\ r.wire = e.wire /\ r.cells = e.cells
    BY <1>1, <1>2 DEF Endpoint
  <2>2. r.state = "NONE" /\ ~r.stop /\ r.need = need /\ r.added = 0
    BY <1>1, <1>2 DEF Endpoint
  <2>3. SameOutbuf(e, r)
    BY <1>1, <1>2 DEF Endpoint, SameOutbuf
  <2> QED BY <2>1, <2>2, <2>3
<1>4. r \in Endpoint
  <2> DEFINE x == ResetDefense(e)
  <2>1. x \in Endpoint
    BY ResetDefenseSound DEF Sound
  <2> HIDE DEF x
  <2>2. r = [x EXCEPT !.timer = FALSE, !.need = need]
    BY DEF x
  <2> HIDE DEF r
  <2> QED BY <2>1, <2>2 DEF Endpoint
<1>5. Sound(r)
  BY <1>3, <1>4, SoundFrame
<1> HIDE DEF r
<1>6. Line(r) = Line(e)
  BY <1>3 DEF Line
<1>7. Ordered(r) /\ Under(r) = InLine(e) \cup need
  <2>1. ~({"START", "STOP"} \subseteq r.need) /\ "START" \notin r.need
    BY <1>3
  <2> QED BY <1>1, <1>3, <1>4, <1>6, <2>1, NeedChanged
<1>8. FlagsFit(r)
  BY <1>3 DEF FlagsFit
<1>9. Sound(p) /\ Carries(r, p) /\ p.state = "NONE"
  BY <1>3, <1>5, <1>8, PumpSendSound, PumpSendCarries
<1> HIDE DEF p
<1>10. FlagsFit(p)
  BY <1>8, <1>9, CarriesFits
<1>11. Sound(f) /\ Carries(p, f) /\ f.need = {}
  BY <1>9, <1>10, SendFlagsSound, SendFlagsCarries
<1> HIDE DEF f
<1>12. Carries(r, f)
  BY <1>9, <1>11, CarriesTransitive
<1>13. /\ f.role = e.role /\ f.status = e.status /\ f.doneRecv = e.doneRecv
       /\ f.notified = e.notified /\ f.state = "NONE" /\ ~f.stop /\ f.added = 0
  BY <1>3, <1>12 DEF Carries, SameSession
<1>14. Ordered(f) /\ Under(f) = InLine(e) \cup need
  BY <1>7, <1>12 DEF Carries, Speaks
<1>15. Rests(e, f, InLine(e) \cup need)
  BY <1>11, <1>13, <1>14 DEF Rests, Tidy
<1> QED BY <1>11, <1>13, <1>15 DEF f, p, r

(* The defense of e is over: a STOP in no cell yet is sent, a server adds    *)
(* its DONE.                                                                *)
LEMMA FinishEffect ==
  ASSUME NEW e, Sound(e), NEW k \in Nat, Ordered(e), e.need \subseteq {"STOP"},
         e.role = "SSP" => e.need = {} /\ "DONE" \notin Under(e)
  PROVE  LET f == FinishDefense(e, k)
         IN  /\ Rests(e, f, Under(e) \cup IF e.role = "SSP" THEN {"DONE"} ELSE {})
             /\ f.notified = (e.notified \/ e.doneRecv)
<1> DEFINE need == FlagsAfterFinish(e)
           s == SendFlags(PumpSend([ResetDefense(e) EXCEPT !.timer = FALSE, !.need = need], k))
           f == FinishDefense(e, k)
<1>1. e \in Endpoint /\ e.role \in Role /\ e.need \in SUBSET Flag
  BY DEF Sound, Endpoint
<1>2. /\ need = IF e.role = "SSP" THEN {"DONE"} ELSE e.need
      /\ need \in SUBSET Flag /\ "START" \notin need
      /\ need \cap {"AUTO_STOPPED", "DONE"} # {} => e.role = "SSP"
  BY <1>1 DEF FlagsAfterFinish, Flag
<1>3. Under(e) = InLine(e) \cup e.need /\ e.need \cap InLine(e) = {}
  BY <1>1, UnderSplit, NeedApart
<1> HIDE DEF need
<1>4. need \cap InLine(e) = {}
  BY <1>2, <1>3
<1>5. Rests(e, s, InLine(e) \cup need) /\ s.need = {} /\ s.notified = e.notified /\ Sound(s)
  <2>1. /\ need \in SUBSET Flag /\ "START" \notin need /\ need \cap InLine(e) = {}
        /\ need \cap {"AUTO_STOPPED", "DONE"} # {} => e.role = "SSP"
    BY <1>2, <1>4
  <2>2. Sound(e) /\ Ordered(e) /\ k \in Nat
    OBVIOUS
  <2> QED BY ONLY <2>1, <2>2, FlushAfterReset
<1>6. f = NotifyIfDone(Check(s, s.need = {}, "flag_left_behind"))
  BY DEF FinishDefense, need
<1> HIDE DEF s
<1>7. f = NotifyIfDone(s)
  BY <1>5, <1>6 DEF Check
<1>8. s.state = "NONE" /\ s.doneRecv = e.doneRecv /\ s \in Endpoint
  BY <1>5 DEF Rests, Sound
<1>9. InLine(e) \cup need = Under(e) \cup IF e.role = "SSP" THEN {"DONE"} ELSE {}
  BY <1>2, <1>3
<1>10. CASE e.doneRecv
  <2>1. f = [s EXCEPT !.notified = TRUE]
    BY <1>7, <1>8, <1>10 DEF NotifyIfDone
  <2>2. /\ SameSession(s, [f EXCEPT !.notified = s.notified]) /\ f.need = s.need
        /\ f.added = s.added /\ f.wire = s.wire /\ f.cells = s.cells /\ f.notified
    BY <1>8, <2>1 DEF Endpoint, SameSession
  <2> HIDE DEF f
  <2>3. /\ f.role = s.role /\ f.status = s.status /\ f.doneRecv = s.doneRecv
        /\ f.state = s.state /\ f.stop = s.stop
    BY <1>8, <2>1 DEF Endpoint
  <2>4. Speaks(s, f)
    BY <2>2, SameLineSpeaks DEF Line
  <2>5. Rests(e, f, InLine(e) \cup need)
    BY <1>5, <2>2, <2>3, <2>4 DEF Rests, Tidy, Speaks
  <2> QED BY <1>9, <1>10, <2>2, <2>5 DEF f
<1>11. CASE ~e.doneRecv
  <2>1. f = s
    BY <1>7, <1>8, <1>11 DEF NotifyIfDone
  <2>2. e.notified = (e.notified \/ e.doneRecv)
    BY <1>1, <1>11 DEF Endpoint
  <2> QED BY <1>5, <1>9, <2>1, <2>2
<1> QED BY <1>10, <1>11

(* The time limit of a server passes.                                       *)
LEMMA AutoStopEffect ==
  ASSUME NEW e, Sound(e), NEW k \in Nat, Ordered(e), e.role = "SSP", Under(e) = {}
  PROVE  LET f == AutoStopDefense(e, k)
         IN  Rests(e, f, {"AUTO_STOPPED"}) /\ f.notified = e.notified
<1> DEFINE need == {"AUTO_STOPPED"}
           s == SendFlags(PumpSend([ResetDefense(e) EXCEPT !.timer = FALSE, !.need = need], k))
<1>1. e \in Endpoint
  BY DEF Sound
<1>2. InLine(e) = {}
  BY <1>1, UnderSplit
<1>3. need \in SUBSET Flag /\ "START" \notin need /\ need \cap InLine(e) = {}
  BY <1>2 DEF Flag
<1>4. Rests(e, s, InLine(e) \cup need) /\ s.need = {} /\ s.notified = e.notified
  BY <1>3, FlushAfterReset
<1>5. AutoStopDefense(e, k) = Check(s, s.need = {}, "flag_left_behind")
  BY DEF AutoStopDefense
<1> HIDE DEF s
<1>6. AutoStopDefense(e, k) = s
  BY <1>4, <1>5 DEF Check
<1> QED BY <1>2, <1>4, <1>6

(* The four things a tick can do.                                           *)
LEMMA TimerFiredEffect ==
  ASSUME NEW e, Sound(e), Tidy(e), FlagsFit(e), e.state = "ACTIVE", e.status = "up",
         NEW expired \in BOOLEAN, NEW k \in Nat, NEW n \in 0..MaxWrite(FillOutbuf(e)),
         e.stop => e.need \subseteq {"STOP"}, e.role = "SSP" => Under(e) = {}
  PROVE  LET f == TimerFired(e, expired, k, n)
         IN  \/ Carries(e, f)
             \/ /\ e.stop /\ f.notified = (e.notified \/ e.doneRecv)
                /\ Rests(e, f, Under(e) \cup IF e.role = "SSP" THEN {"DONE"} ELSE {})
             \/ /\ expired /\ e.role = "CSP"
                /\ f = [e EXCEPT !.status = "time_limit"]
             \/ /\ expired /\ e.role = "SSP" /\ f.notified = e.notified
                /\ Rests(e, f, {"AUTO_STOPPED"})
<1> DEFINE f == TimerFired(e, expired, k, n)
<1>1. e.role \in Role
  BY DEF Sound, Endpoint
<1>2. CASE IsDoneDefendingSend(e)
  <2>1. f = FinishDefense(e, k)
    BY <1>2 DEF TimerFired
  <2>2. e.stop /\ e.need \subseteq {"STOP"}
    BY <1>2 DEF IsDoneDefendingSend
  <2>3. e.role = "SSP" => e.need = {} /\ "DONE" \notin Under(e)
    BY DEF Tidy
  <2> QED BY <2>1, <2>2, <2>3, FinishEffect DEF Tidy
<1>3. CASE ~IsDoneDefendingSend(e) /\ expired /\ e.role = "CSP"
  <2>1. f = [e EXCEPT !.status = "time_limit"]
    BY <1>3 DEF TimerFired, Check
  <2> QED BY <1>3, <2>1
<1>4. CASE ~IsDoneDefendingSend(e) /\ expired /\ e.role = "SSP"
  <2>1. f = AutoStopDefense(e, k)
    BY <1>4 DEF TimerFired
  <2> QED BY <1>4, <2>1, AutoStopEffect DEF Tidy
<1>5. CASE ~IsDoneDefendingSend(e) /\ ~expired
  <2> DEFINE g == FillOutbuf(e)
  <2>1. f = SendCellOutbuf(g, n)
    BY <1>5 DEF TimerFired
  <2>2. Sound(g) /\ g.state = "ACTIVE" /\ g.outlen >= CellSize /\ Carries(e, g)
    BY FillOutbufSound, FillOutbufCarries
  <2> HIDE DEF g
  <2>3. Carries(g, f)
    BY <2>1, <2>2, SendCellOutbufCarries DEF g
  <2> QED BY <2>2, <2>3, CarriesTransitive
<1> QED BY <1>1, <1>2, <1>3, <1>4, <1>5 DEF Role

(* A pending session starts with the write of its first cell.               *)
Starts(e, f) ==
  /\ f.role = e.role /\ f.status = e.status /\ f.notified = e.notified
  /\ f.state = "ACTIVE" /\ ~f.stop /\ ~f.doneRecv
  /\ f.need \in {{}, e.need} /\ Speaks(e, f)

LEMMA StartDefenseEffect ==
  ASSUME NEW e \in Endpoint, e.state = "NONE", ~e.timer
  PROVE  LET f == StartDefense(e)
         IN  /\ f.role = e.role /\ f.status = e.status /\ f.notified = e.notified
             /\ f.state = "ACTIVE" /\ f.stop = e.stop /\ ~f.doneRecv /\ f.timer
             /\ f.need = e.need /\ f.wire = e.wire /\ f.cells = e.cells
             /\ f.outlen = e.outlen /\ Speaks(e, f)
<1> DEFINE f == StartDefense(e)
<1>1. f = [e EXCEPT !.timer = TRUE, !.state = "ACTIVE", !.doneRecv = FALSE, !.wev = FALSE]
  BY DEF StartDefense, DisableWrite, Check
<1>2. /\ f.role = e.role /\ f.status = e.status /\ f.notified = e.notified
      /\ f.state = "ACTIVE" /\ f.stop = e.stop /\ ~f.doneRecv /\ f.timer
      /\ f.need = e.need /\ f.wire = e.wire /\ f.cells = e.cells
      /\ f.outlen = e.outlen
  BY <1>1 DEF Endpoint
<1> HIDE DEF f
<1>3. Speaks(e, f)
  BY <1>2, SameLineSpeaks DEF Line
<1> QED BY <1>2, <1>3 DEF f

LEMMA SocketWritableEffect ==
  ASSUME NEW e, Sound(e), Tidy(e), Watched(e), e.status = "up", e.wev,
         NEW n \in 0..MaxWrite(e), e.state = "PENDING" => e.outlen = CellSize
  PROVE  LET f == SocketWritable(e, n)
         IN  /\ e.state # "ACTIVE"
             /\ e.state # "PENDING" => Carries(e, f)
             /\ e.state = "PENDING" => Starts(e, f)
<1> DEFINE f == SocketWritable(e, n)
<1>1. /\ e \in Endpoint /\ e.state # "ACTIVE" /\ ~e.timer /\ e.outlen > 0 /\ e.outlen \in Nat
  BY DEF Sound, Watched, Endpoint
<1>2. CASE e.state # "PENDING"
  <2>1. f = SendCellOutbuf(e, n) /\ e.outlen >= 1
    BY <1>1, <1>2 DEF SocketWritable
  <2> QED BY <1>1, <1>2, <2>1, SendCellOutbufCarries
<1>3. CASE e.state = "PENDING"
  <2> DEFINE x == [e EXCEPT !.state = "NONE"]
             y == StartDefense(x)
  <2>1. x \in Endpoint /\ SameOutbuf(e, x)
    BY <1>1 DEF Endpoint, DefenseState, SameOutbuf
  <2>2. /\ x.role = e.role /\ x.status = e.status /\ x.notified = e.notified
        /\ x.state = "NONE" /\ x.stop = e.stop /\ x.timer = e.timer
        /\ x.need = e.need /\ x.wire = e.wire /\ x.cells = e.cells /\ x.outlen = e.outlen
    BY <1>1 DEF Endpoint
  <2>3. f = SendCellOutbuf(y, n)
    BY <1>3 DEF SocketWritable, Check
  <2> HIDE DEF x
  <2>4. Sound(x) /\ Speaks(e, x)
    BY <2>1, <2>2, SoundFrame, SameLineSpeaks DEF Line
  <2>5. /\ Sound(y) /\ y.role = e.role /\ y.status = e.status /\ y.notified = e.notified
        /\ y.state = "ACTIVE" /\ y.stop = e.stop /\ ~y.doneRecv /\ y.need = e.need
        /\ y.outlen = CellSize /\ Speaks(x, y)
    BY <1>1, <1>3, <2>1, <2>2, <2>4, StartDefenseSound, StartDefenseEffect
  <2> HIDE DEF y
  <2>6. n \in 0..MaxWrite(y)
    <3>1. n \in Nat /\ n <= CellSize
      BY <1>1, <1>3, CellAssumption DEF MaxWrite, IdleAmount
    <3>2. MaxWrite(y) = CellSize
      BY <2>5, CellAssumption DEF MaxWrite, Lesser
    <3> QED BY <3>1, <3>2, CellAssumption
  <2>7. Carries(y, f)
    <3>1. y.outlen >= IF y.state = "ACTIVE" THEN CellSize ELSE 1
      BY <2>5, CellAssumption
    <3> QED BY <2>3, <2>5, <2>6, <3>1, SendCellOutbufCarries
  <2> HIDE DEF f
  <2>8. Speaks(e, f)
    BY <2>4, <2>5, <2>7, SpeaksTransitive DEF Carries
  <2>9. ~e.stop
    BY <1>1 DEF Tidy
  <2>10. Starts(e, f)
    BY <2>5, <2>7, <2>8, <2>9 DEF Starts, Carries, SameSession
  <2> QED BY <1>1, <1>3, <2>10 DEF f
<1> QED BY <1>2, <1>3

(* set_auto_start_defense_session_on_next_send.                             *)
LEMMA ArmEffect ==
  ASSUME NEW e, Sound(e), Tidy(e), e.role = "CSP", e.state = "NONE", e.spdy = 0,
         e.outlen = 0, Under(e) = {}
  PROVE  LET f == SetAutoStart(e)
         IN  /\ f.role = e.role /\ f.status = e.status /\ f.notified = e.notified
             /\ f.doneRecv = e.doneRecv /\ f.state = "PENDING" /\ f.added = 0
             /\ f.outlen = 0 /\ f.wire = e.wire /\ Tidy(f) /\ Under(f) = {"START"}
<1> DEFINE f == SetAutoStart(e)
<1>1. e \in Endpoint /\ e.need = {} /\ ~e.stop /\ e.added = 0
  BY DEF Sound, Tidy
<1>2. f = [e EXCEPT !.state = "PENDING", !.need = {"START"}]
  BY <1>1 DEF SetAutoStart, Check
<1>3. /\ f.role = e.role /\ f.status = e.status /\ f.notified = e.notified
      /\ f.doneRecv = e.doneRecv /\ f.state = "PENDING" /\ f.added = 0 /\ ~f.stop
      /\ f.outlen = 0 /\ f.wire = e.wire /\ f.cells = e.cells /\ f.need = {"START"}
  BY <1>1, <1>2 DEF Endpoint
<1>4. f \in Endpoint
  BY SetAutoStartSound DEF Sound
<1> HIDE DEF f
<1>5. InLine(e) = {}
  BY <1>1, UnderSplit
<1>6. Line(f) = Line(e) /\ Ordered(e)
  BY <1>3 DEF Line, Tidy
<1>7. Ordered(f) /\ Under(f) = InLine(e) \cup f.need
  BY <1>1, <1>3, <1>4, <1>5, <1>6, NeedChanged
<1>8. Tidy(f) /\ Under(f) = {"START"}
  BY <1>3, <1>5, <1>7 DEF Tidy
<1> QED BY <1>3, <1>8 DEF f

(* A request to stop changes nothing when no session is on.                 *)
LEMMA StopIdleCarries ==
  ASSUME NEW e, Sound(e), Tidy(e), e.state = "NONE"
  PROVE  Carries(e, StopDefense(e))
<1> DEFINE f == StopDefense(e)
<1>1. e \in Endpoint /\ e.need = {} /\ ~e.stop /\ e.added = 0 /\ e.stop \in BOOLEAN
  BY DEF Sound, Tidy, Endpoint
<1>2. f = [e EXCEPT !.state = "NONE", !.stop = FALSE, !.need = {},
                    !.attempts = 0, !.added = 0]
  BY DEF StopDefense, ResetDefense
<1>3. /\ SameSession(e, f) /\ f.need = e.need /\ f.added = e.added
      /\ f.wire = e.wire /\ f.cells = e.cells
  BY <1>1, <1>2 DEF Endpoint, SameSession
<1> QED BY <1>3, SameLineCarries

(* request_stop(): a START that is in no cell yet is not sent any more.      *)
LEMMA StopEffect ==
  ASSUME NEW e, Sound(e), Tidy(e), e.state = "ACTIVE", ~e.stop,
         e.role = "CSP" => e.need \subseteq {"START"} /\ "STOP" \notin Under(e)
  PROVE  LET f == StopDefense(e)
         IN  /\ f.role = e.role /\ f.status = e.status /\ f.notified = e.notified
             /\ f.doneRecv = e.doneRecv /\ f.state = "ACTIVE" /\ f.stop /\ Tidy(f)
             /\ e.role = "SSP" => f.need = {} /\ Under(f) = Under(e)
             /\ e.role = "CSP" => f.need = {"STOP"} /\ Under(f) =
                  IF "START" \in e.need THEN (Under(e) \ {"START"}) \cup {"STOP"}
                  ELSE Under(e) \cup {"STOP"}
<1> DEFINE f == StopDefense(e)
<1>1. e \in Endpoint /\ e.role \in Role /\ Ordered(e)
  BY DEF Sound, Endpoint, Tidy
<1>2. f = [e EXCEPT !.stop = TRUE,
                    !.need = (e.need \ {"START"}) \cup
                                (IF e.role = "CSP" THEN {"STOP"} ELSE {})]
  BY DEF StopDefense, Check
<1>3. /\ f.role = e.role /\ f.status = e.status /\ f.notified = e.notified
      /\ f.doneRecv = e.doneRecv /\ f.state = "ACTIVE" /\ f.stop
      /\ f.wire = e.wire /\ f.cells = e.cells
      /\ f.need = (e.need \ {"START"}) \cup (IF e.role = "CSP" THEN {"STOP"} ELSE {})
  BY <1>1, <1>2 DEF Endpoint
<1>4. f \in Endpoint
  BY StopDefenseSound DEF Sound
<1> HIDE DEF f
<1>5. Line(f) = Line(e)
  BY <1>3 DEF Line
<1>6. Under(e) = InLine(e) \cup e.need /\ e.need \cap InLine(e) = {}
  BY <1>1, UnderSplit, NeedApart
<1>7. CASE e.role = "SSP"
  <2>1. f.need = e.need /\ e.need = {}
    BY <1>3, <1>7 DEF Tidy
  <2>2. Speaks(e, f)
    BY <1>5, <2>1, SameLineSpeaks
  <2> QED BY <1>1, <1>3, <1>7, <2>1, <2>2 DEF Tidy, Speaks, f
<1>8. CASE e.role = "CSP"
  <2>1. f.need = {"STOP"} /\ "STOP" \notin InLine(e)
    BY <1>3, <1>6, <1>8
  <2>2. Ordered(f) /\ Under(f) = InLine(e) \cup {"STOP"}
    <3>1. /\ f.need \cap InLine(e) = {} /\ "START" \notin f.need
          /\ ~({"START", "STOP"} \subseteq f.need)
      BY <2>1
    <3> QED BY <1>1, <1>4, <1>5, <2>1, <3>1, NeedChanged
  <2>3. InLine(e) = IF "START" \in e.need THEN Under(e) \ {"START"} ELSE Under(e)
    BY <1>6, <1>8
  <2> QED BY <1>3, <1>8, <2>1, <2>2, <2>3 DEF Tidy, f
<1> QED BY <1>1, <1>7, <1>8 DEF Role

-----------------------------------------------------------------------------
(* A cell is read.  Its flags are looked at first, then its payload is      *)
(* answered, then a DONE is noted.                                          *)
Answered(e, cell, k) == IF cell.data > 0 /\ k >= 0 THEN PumpSend(e, k) ELSE e

LEMMA HandleCellSteps ==
  ASSUME NEW e, NEW cell, NEW k
  PROVE  LET d == Answered(HandleFlags(e, cell.flags), cell, k)
         IN  /\ "DONE" \notin cell.flags => HandleCell(e, cell, k) = d
             /\ "DONE" \in cell.flags /\ e.role = "CSP" =>
                  HandleCell(e, cell, k) = NotifyIfDone([d EXCEPT !.doneRecv = TRUE])
<1> DEFINE h == HandleFlags(e, cell.flags)
           d == Answered(h, cell, k)
           c == Check(d, e.role = "CSP", "client_flag_seen")
<1>1. HandleCell(e, cell, k) = IF "DONE" \in cell.flags
                               THEN NotifyIfDone([c EXCEPT !.doneRecv = TRUE]) ELSE d
  BY DEF HandleCell, Answered
<1>2. e.role = "CSP" => c = d
  BY DEF Check
<1> HIDE DEF d, c
<1> QED BY <1>1, <1>2 DEF d

LEMMA AnsweredCarries ==
  ASSUME NEW e, Sound(e), FlagsFit(e), NEW cell, NEW k \in Int,
         k >= 0 /\ e.state = "PENDING" => e.added = 0 /\ k > 0
  PROVE  LET f == Answered(e, cell, k)
         IN  /\ Carries(e, f) /\ f.wire = e.wire /\ Sound(f)
             /\ e.state = "PENDING" =>
                  \/ f.added = e.added /\ f.outlen = e.outlen
                  \/ e.added = 0 /\ f.added = 1 /\ f.need = {} /\ f.outlen =
                       IF e.dummy THEN e.outlen ELSE e.outlen + CellSize
<1>1. CASE cell.data > 0 /\ k >= 0
  <2>1. k \in Nat
    BY <1>1
  <2> QED BY <1>1, <2>1, PumpSendCarries, PumpSendSound DEF Answered
<1>2. CASE ~(cell.data > 0 /\ k >= 0)
  BY <1>2, SameLineCarries DEF Answered, SameSession
<1> QED BY <1>1, <1>2

(* The server reads a cell of the client.                                   *)
LEMMA ServerReads ==
  ASSUME NEW e, Sound(e), Tidy(e), Watched(e), e.status = "up", e.role = "SSP",
         NEW cell, NEW k \in Int,
         cell.flags \in {{}, {"START"}, {"STOP"}},
         cell.flags = {"START"} => e.state = "NONE",
         cell.flags = {"STOP"} /\ e.state = "ACTIVE" => ~e.stop
  PROVE  LET f == HandleCell(e, cell, k)
         IN  /\ f.role = e.role /\ f.status = e.status /\ f.notified = e.notified
             /\ Tidy(f) /\ Under(f) = Under(e)
             /\ cell.flags = {} => f.state = e.state /\ f.stop = e.stop
             /\ cell.flags = {"START"} => f.state = "ACTIVE" /\ ~f.stop
             /\ cell.flags = {"STOP"} => f.state = e.state /\ (f.stop <=> e.state = "ACTIVE")
<1> DEFINE h == HandleFlags(e, cell.flags)
           f == HandleCell(e, cell, k)
<1>1. e \in Endpoint /\ e.state \in {"NONE", "ACTIVE"} /\ e.need = {} /\ e.stop \in BOOLEAN
  BY DEF Sound, Endpoint, Tidy, DefenseState
<1>2. /\ h.role = e.role /\ h.status = e.status /\ h.notified = e.notified
      /\ Sound(h) /\ Tidy(h) /\ Under(h) = Under(e)
      /\ cell.flags = {} => h.state = e.state /\ h.stop = e.stop
      /\ cell.flags = {"START"} => h.state = "ACTIVE" /\ ~h.stop
      /\ cell.flags = {"STOP"} => h.state = e.state /\ (h.stop <=> e.state = "ACTIVE")
  <2>1. CASE cell.flags = {}
    <3>1. h = e
      BY <2>1 DEF HandleFlags, Check
    <3> QED BY <2>1, <3>1
  <2>2. CASE cell.flags = {"START"}
    <3>1. h = StartDefense(e)
      BY <2>2 DEF HandleFlags, Check
    <3>2. ~e.timer /\ e.state = "NONE" /\ ~e.stop
      BY <2>2 DEF Watched, Tidy
    <3> DEFINE g == StartDefense(e)
    <3>3. /\ g.role = e.role /\ g.status = e.status /\ g.notified = e.notified
          /\ g.state = "ACTIVE" /\ ~g.stop /\ g.need = {} /\ Speaks(e, g) /\ Sound(g)
      BY <1>1, <3>2, StartDefenseEffect, StartDefenseSound
    <3> HIDE DEF g
    <3>4. Tidy(g) /\ Under(g) = Under(e)
      BY <3>3 DEF Tidy, Speaks
    <3> QED BY <2>2, <3>1, <3>3, <3>4 DEF g
  <2>3. CASE cell.flags = {"STOP"}
    <3>1. h = StopDefense(e)
      BY <2>3 DEF HandleFlags, Check
    <3> DEFINE g == StopDefense(e)
    <3>2. Sound(g)
      BY StopDefenseSound
    <3>3. CASE e.state = "NONE"
      <4>1. Carries(e, g) /\ ~e.stop
        BY <3>3, StopIdleCarries DEF Tidy
      <4> HIDE DEF g
      <4>2. Tidy(g) /\ Under(g) = Under(e)
        BY <4>1, CarriesTidy
      <4> QED BY <2>3, <3>1, <3>2, <3>3, <4>1, <4>2 DEF Carries, SameSession, g
    <3>4. CASE e.state = "ACTIVE"
      BY <2>3, <3>1, <3>2, <3>4, StopEffect
    <3> QED BY <1>1, <3>3, <3>4
  <2> QED BY <2>1, <2>2, <2>3
<1>3. FlagsFit(h) /\ h.state # "PENDING"
  BY <1>2 DEF Tidy, FlagsFit
<1> HIDE DEF h
<1>4. Carries(h, Answered(h, cell, k))
  BY <1>2, <1>3, AnsweredCarries
<1>5. f = Answered(h, cell, k)
  <2>1. "DONE" \notin cell.flags
    OBVIOUS
  <2> QED BY <2>1, HandleCellSteps DEF h
<1>6. Tidy(f) /\ Under(f) = Under(h)
  BY <1>2, <1>4, <1>5, CarriesTidy
<1> HIDE DEF f
<1> QED BY <1>2, <1>4, <1>5, <1>6 DEF Carries, SameSession, f

(* The client reads a cell of the server.                                   *)
LEMMA ClientReads ==
  ASSUME NEW e, Sound(e), Tidy(e), FlagsFit(e), e.role = "CSP",
         NEW cell, NEW k \in Int,
         k >= 0 /\ e.state = "PENDING" => e.added = 0 /\ k > 0,
         cell.flags \in {{}, {"AUTO_STOPPED"}, {"DONE"}},
         cell.flags # {} => e.state # "PENDING",
         cell.flags = {"AUTO_STOPPED"} /\ e.state = "ACTIVE" /\ ~e.stop => Under(e) = {}
  PROVE  LET f == HandleCell(e, cell, k)
         IN  /\ f.role = e.role /\ f.status = e.status /\ f.state = e.state
             /\ f.stop = e.stop /\ f.wire = e.wire /\ Tidy(f)
             /\ IF cell.flags = {"AUTO_STOPPED"} /\ e.state = "ACTIVE" /\ ~e.stop
                THEN Under(f) = {"START"}
                ELSE Under(f) = Under(e) /\ f.need \in {{}, e.need}
             /\ IF cell.flags = {"DONE"}
                THEN f.doneRecv /\ f.notified = (e.notified \/ e.state = "NONE")
                ELSE f.doneRecv = e.doneRecv /\ f.notified = e.notified
             /\ e.state = "PENDING" =>
                  \/ f.added = e.added /\ f.outlen = e.outlen
                  \/ e.added = 0 /\ f.added = 1 /\ f.need = {} /\ f.outlen =
                       IF e.dummy THEN e.outlen ELSE e.outlen + CellSize
<1> DEFINE h == HandleFlags(e, cell.flags)
           f == HandleCell(e, cell, k)
           again == cell.flags = {"AUTO_STOPPED"} /\ e.state = "ACTIVE" /\ ~e.stop
<1>1. e \in Endpoint /\ e.notified \in BOOLEAN
  BY DEF Sound, Endpoint
<1>2. CASE cell.flags # {"DONE"} /\ ~again
  <2>1. h = e
    BY <1>2 DEF HandleFlags, Check
  <2> DEFINE g == Answered(e, cell, k)
  <2>2. /\ Carries(e, g) /\ g.wire = e.wire
        /\ e.state = "PENDING" =>
             \/ g.added = e.added /\ g.outlen = e.outlen
             \/ e.added = 0 /\ g.added = 1 /\ g.need = {} /\ g.outlen =
                  IF e.dummy THEN e.outlen ELSE e.outlen + CellSize
    BY AnsweredCarries
  <2>3. f = g
    <3>1. "DONE" \notin cell.flags
      BY <1>2
    <3>2. f = Answered(h, cell, k)
      BY <3>1, HandleCellSteps
    <3> HIDE DEF h, f
    <3> QED BY <2>1, <3>2
  <2> HIDE DEF g
  <2>4. Tidy(g) /\ Under(g) = Under(e)
    BY <2>2, CarriesTidy
  <2> QED BY <1>2, <2>2, <2>3, <2>4 DEF Carries, SameSession
<1>3. CASE again
  <2>1. e.need = {} /\ InLine(e) = {}
    BY <1>1, <1>3, UnderSplit
  <2>2. h = [e EXCEPT !.need = {"START"}]
    BY <1>3, <2>1 DEF HandleFlags, Check
  <2>3. /\ SameSession(e, h) /\ h.wire = e.wire /\ h.cells = e.cells /\ h.need = {"START"}
        /\ h.added = e.added
    BY <1>1, <2>2 DEF Endpoint, SameSession
  <2>4. Sound(h)
    BY <1>3, HandleFlagsSound DEF Flag
  <2> HIDE DEF h
  <2>5. h \in Endpoint /\ Line(h) = Line(e) /\ Ordered(e)
    BY <2>3, <2>4 DEF Sound, Line, Tidy
  <2>6. Ordered(h) /\ Under(h) = InLine(e) \cup h.need
    BY <1>1, <2>1, <2>3, <2>5, NeedChanged
  <2>7. Tidy(h) /\ Under(h) = {"START"}
    BY <1>3, <2>1, <2>3, <2>6 DEF Tidy, SameSession
  <2>8. FlagsFit(h) /\ h.state = "ACTIVE"
    BY <1>3, <2>3 DEF FlagsFit, SameSession
  <2> DEFINE g == Answered(h, cell, k)
  <2>9. Carries(h, g) /\ g.wire = h.wire
    BY <2>4, <2>8, AnsweredCarries
  <2>10. f = g
    <3>1. "DONE" \notin cell.flags
      BY <1>3
    <3> QED BY <3>1, HandleCellSteps DEF h
  <2> HIDE DEF g
  <2>11. Tidy(g) /\ Under(g) = {"START"}
    BY <2>7, <2>9, CarriesTidy
  <2> QED BY <1>3, <2>3, <2>8, <2>9, <2>10, <2>11 DEF Carries, SameSession
<1>4. CASE cell.flags = {"DONE"}
  <2>1. h = e
    BY <1>4 DEF HandleFlags, Check
  <2> DEFINE g == Answered(e, cell, k)
             x == [g EXCEPT !.doneRecv = TRUE]
  <2>2. Carries(e, g) /\ g.wire = e.wire /\ Sound(g)
    BY AnsweredCarries
  <2>3. f = NotifyIfDone(x)
    <3>1. "DONE" \in cell.flags
      BY <1>4
    <3> QED BY <2>1, <3>1, HandleCellSteps
  <2> HIDE DEF g
  <2>4. g \in Endpoint /\ Tidy(g) /\ Under(g) = Under(e)
    BY <2>2, CarriesTidy DEF Sound
  <2>5. /\ x.role = g.role /\ x.state = g.state /\ x.stop = g.stop /\ x.status = g.status
        /\ x.need = g.need /\ x.added = g.added /\ x.wire = g.wire /\ x.cells = g.cells
        /\ x.doneRecv /\ x.notified = g.notified /\ x \in Endpoint
    BY <2>4 DEF Endpoint
  <2> HIDE DEF x
  <2>6. f = IF x.state = "NONE" THEN [x EXCEPT !.notified = TRUE] ELSE x
    BY <2>3, <2>5 DEF NotifyIfDone
  <2>7. /\ f.role = x.role /\ f.state = x.state /\ f.stop = x.stop /\ f.status = x.status
        /\ f.need = x.need /\ f.added = x.added /\ f.wire = x.wire /\ f.cells = x.cells
        /\ f.doneRecv = x.doneRecv /\ f.notified = (x.notified \/ x.state = "NONE")
    <3>1. CASE x.state = "NONE"
      <4>1. f = [x EXCEPT !.notified = TRUE]
        BY <2>6, <3>1
      <4> HIDE DEF f
      <4>2. x \in Endpoint
        BY <2>5
      <4> QED BY <3>1, <4>1, <4>2 DEF Endpoint
    <3>2. CASE x.state # "NONE"
      <4>1. f = x /\ x.notified \in BOOLEAN
        BY <2>5, <2>6, <3>2 DEF Endpoint
      <4> QED BY <3>2, <4>1
    <3> QED BY <3>1, <3>2
  <2> HIDE DEF f
  <2>8. Speaks(g, f)
    <3>1. f.wire = g.wire /\ f.cells = g.cells /\ f.need = g.need
      BY <2>5, <2>7
    <3>2. Line(f) = Line(g)
      BY <3>1 DEF Line
    <3> QED BY <3>1, <3>2, SameLineSpeaks
  <2>9. Tidy(f) /\ Under(f) = Under(e)
    BY <2>4, <2>5, <2>7, <2>8 DEF Tidy, Speaks
  <2> QED BY <1>4, <2>2, <2>5, <2>7, <2>9 DEF Carries, SameSession, f
<1> QED BY <1>2, <1>3, <1>4

-----------------------------------------------------------------------------
(* The phases of a session, by what the client c and the server s are and   *)
(* by what each has yet to make the other hear.                             *)
Says(c, s, fromClient, fromServer) ==
  Under(c) = fromClient /\ Under(s) = fromServer

Quiet(c, s) ==
  c.state = "NONE" /\ s.state = "NONE" /\ c.doneRecv /\ Says(c, s, {}, {})

Armed(c, s) ==
  /\ c.state = "PENDING" /\ s.state = "NONE" /\ c.doneRecv
  /\ Says(c, s, {"START"}, {})
  /\ \A i \in 1..Len(c.wire) : "START" \notin c.wire[i].flags
  /\ \/ c.added = 0 /\ c.outlen = 0
     \/ c.added = 1 /\ c.outlen = CellSize /\ c.need = {}

(* Only a server that has stopped on its own is told again to start.        *)
On(c, s) ==
  /\ c.state = "ACTIVE" /\ ~c.stop /\ ~c.doneRecv
  /\ "START" \in c.need => "SSP" \in MayExpire
  /\ \/ s.state = "NONE" /\ Says(c, s, {"START"}, {})
     \/ s.state = "ACTIVE" /\ ~s.stop /\ Says(c, s, {}, {})
     \/ /\ s.state = "NONE" /\ Says(c, s, {}, {"AUTO_STOPPED"})
        /\ "SSP" \in MayExpire

(* The last disjunct with ~c.doneRecv is a server that has stopped on its   *)
(* own and whose client no longer wants it back.                            *)
Off(c, s) ==
  /\ c.state = "NONE" \/ (c.state = "ACTIVE" /\ c.stop)
  /\ "START" \notin c.need
  /\ \/ /\ ~c.doneRecv
        /\ \/ s.state = "NONE" /\ Says(c, s, {"START", "STOP"}, {})
           \/ s.state = "ACTIVE" /\ ~s.stop /\ Says(c, s, {"STOP"}, {})
           \/ s.state = "ACTIVE" /\ s.stop /\ Says(c, s, {}, {})
           \/ s.state = "NONE" /\ Says(c, s, {}, {"DONE"})
           \/ /\ s.state = "NONE" /\ "SSP" \in MayExpire
              /\ Under(c) \subseteq {"STOP"} /\ Under(s) \subseteq {"AUTO_STOPPED"}
     \/ c.doneRecv /\ c.state = "ACTIVE" /\ s.state = "NONE" /\ Says(c, s, {}, {})

Phase(c, s, n) ==
  \/ n = 0 /\ Quiet(c, s)
  \/ n = 1 /\ (Armed(c, s) \/ On(c, s) \/ Off(c, s))

(* The inductive invariant.                                                 *)
Keeps(e) == Sound(e) /\ Watched(e) /\ Tidy(e) /\ ~e.notified

IInv ==
  /\ TypeOK
  /\ \A r \in Role : Keeps(end[r])
  /\ ChecksHold
  /\ Phase(csp, ssp, armed - done)

-----------------------------------------------------------------------------
(* How a step may move a session when the server never stops on its own:    *)
(* one end at a time, and the START is under way until the server has it.   *)
Stands(e, f) == f.state = e.state /\ f.stop = e.stop

Move(c, s, n, c2, s2, n2) ==
  \/ n2 = n + 1 /\ c.state = "NONE" /\ c2.state = "PENDING" /\ Stands(s, s2)
  \/ /\ n2 <= n /\ Stands(s, s2)
     /\ "START" \in Under(c2) <=> "START" \in Under(c)
     /\ \/ Stands(c, c2)
        \/ c.state = "PENDING" /\ c2.state = "ACTIVE" /\ ~c2.stop
        \/ c.state = "ACTIVE" /\ ~c.stop /\ c2.state = "ACTIVE" /\ c2.stop
        \/ c.state = "ACTIVE" /\ c.stop /\ c2.state = "NONE"
  \/ /\ n2 = n /\ Stands(c, c2)
     /\ \/ s.state = "NONE" /\ s2.state = "ACTIVE" /\ ~s2.stop /\ "START" \in Under(c)
        \/ /\ "START" \in Under(c2) <=> "START" \in Under(c)
           /\ \/ s.state = "ACTIVE" /\ ~s.stop /\ s2.state = "ACTIVE" /\ s2.stop
              \/ s.state = "ACTIVE" /\ s.stop /\ s2.state = "NONE"

Moved ==
  "SSP" \notin MayExpire => Move(csp, ssp, armed - done, csp', ssp', armed' - done')

-----------------------------------------------------------------------------
(* f looks to the phases as e does.                                         *)
Looks(e, f) ==
  /\ f.role = e.role /\ f.state = e.state /\ f.stop = e.stop
  /\ f.doneRecv = e.doneRecv /\ f.need \in {{}, e.need} /\ Under(f) = Under(e)

LEMMA CarriesLooks ==
  ASSUME NEW e, NEW f, Carries(e, f)
  PROVE  Looks(e, f)
BY DEF Carries, SameSession, Speaks, Looks

LEMMA LooksPhase ==
  ASSUME NEW c, NEW s, NEW n, NEW c2, NEW s2, Phase(c, s, n), Looks(c, c2), Looks(s, s2),
         c.state = "PENDING" => Armed(c2, s2)
  PROVE  Phase(c2, s2, n)
<1>1. CASE Armed(c, s)
  BY <1>1 DEF Phase, Armed, Quiet, On, Off
<1>2. CASE Quiet(c, s)
  BY <1>2 DEF Looks, Quiet, Says, Phase, Armed, On, Off
<1>3. CASE On(c, s)
  BY <1>3 DEF Looks, On, Says, Phase, Quiet
<1>4. CASE Off(c, s)
  <2>1. Off(c2, s2)
    BY <1>4 DEF Looks, Off, Says
  <2> QED BY <1>4, <2>1 DEF Phase, Quiet, Off
<1> QED BY <1>1, <1>2, <1>3, <1>4 DEF Phase

(* What a phase says of the flags an end may put in a cell.                 *)
LEMMA PhaseFits ==
  ASSUME NEW c \in Endpoint, NEW s \in Endpoint, NEW n, Phase(c, s, n),
         Tidy(c), Tidy(s), c.role = "CSP", s.role = "SSP"
  PROVE  /\ FlagsFit(c) /\ FlagsFit(s)
         /\ c.stop => c.need \subseteq {"STOP"}
         /\ s.state = "ACTIVE" => Under(s) = {}
         /\ c.state = "PENDING" => n = 1 /\ Armed(c, s)
<1>1. c.need \subseteq Under(c)
  BY UnderSplit
<1>2. Under(c) \subseteq {"START", "STOP"}
  BY DEF Phase, Quiet, Armed, On, Off, Says
<1>3. "START" \in c.need => c.state = "PENDING" \/ (c.state = "ACTIVE" /\ ~c.stop)
  BY <1>1 DEF Phase, Quiet, Armed, On, Off, Says
<1>4. c.stop => "START" \notin c.need
  BY <1>3 DEF Tidy
<1>5. c.stop => c.need \subseteq {"STOP"}
  BY <1>1, <1>2, <1>4
<1>6. FlagsFit(c)
  BY <1>1, <1>2, <1>3 DEF FlagsFit
<1>7. FlagsFit(s)
  BY DEF FlagsFit, Tidy
<1>8. s.state = "ACTIVE" => Under(s) = {}
  BY DEF Phase, Quiet, Armed, On, Off, Says
<1>9. c.state = "PENDING" => n = 1 /\ Armed(c, s)
  BY DEF Phase, Quiet, On, Off
<1> QED BY <1>5, <1>6, <1>7, <1>8, <1>9

(* The owner is told; then the notification is gone.                        *)
LEMMA Silenced ==
  ASSUME NEW f, Sound(f), Watched(f), Tidy(f)
  PROVE  LET g == [f EXCEPT !.notified = FALSE]
         IN  /\ Keeps(g) /\ Looks(f, g) /\ g.status = f.status
             /\ g.need = f.need /\ g.added = f.added /\ g.outlen = f.outlen /\ g.wire = f.wire
<1> DEFINE g == [f EXCEPT !.notified = FALSE]
<1>1. f \in Endpoint
  BY DEF Sound
<1>2. /\ g \in Endpoint /\ SameOutbuf(f, g) /\ ~g.notified /\ g.role = f.role
      /\ g.status = f.status /\ g.state = f.state /\ g.stop = f.stop /\ g.need = f.need
      /\ g.added = f.added /\ g.doneRecv = f.doneRecv /\ g.wev = f.wev /\ g.timer = f.timer
      /\ g.wire = f.wire /\ g.outlen = f.outlen /\ g.cells = f.cells
  BY <1>1 DEF Endpoint, SameOutbuf
<1> HIDE DEF g
<1>3. Sound(g)
  BY <1>2, SoundFrame
<1>4. Watched(g)
  BY <1>2 DEF Watched
<1>5. Speaks(f, g)
  BY <1>2, SameLineSpeaks DEF Line
<1>6. Tidy(g) /\ Under(g) = Under(f)
  BY <1>2, <1>5 DEF Tidy, Speaks
<1> QED BY <1>2, <1>3, <1>4, <1>6 DEF Keeps, Looks, g

(* The process ends, or the connection.                                     *)
LEMMA StatusOnly ==
  ASSUME NEW e, Keeps(e), NEW x \in Status, x # "up"
  PROVE  LET g == [e EXCEPT !.status = x]
         IN  /\ Keeps(g) /\ Looks(e, g) /\ g.status = x
             /\ g.need = e.need /\ g.added = e.added /\ g.outlen = e.outlen /\ g.wire = e.wire
<1> DEFINE g == [e EXCEPT !.status = x]
<1>1. e \in Endpoint
  BY DEF Sound, Keeps
<1>2. /\ g \in Endpoint /\ SameOutbuf(e, g) /\ g.notified = e.notified /\ g.role = e.role
      /\ g.status = x /\ g.state = e.state /\ g.stop = e.stop /\ g.need = e.need
      /\ g.added = e.added /\ g.doneRecv = e.doneRecv
      /\ g.wire = e.wire /\ g.outlen = e.outlen /\ g.cells = e.cells
  BY <1>1 DEF Endpoint, SameOutbuf
<1> HIDE DEF g
<1>3. Sound(g)
  BY <1>2, SoundFrame DEF Keeps
<1>4. Watched(g)
  BY <1>2 DEF Watched
<1>5. Speaks(e, g)
  BY <1>2, SameLineSpeaks DEF Line
<1>6. Tidy(g) /\ Under(g) = Under(e)
  BY <1>2, <1>5 DEF Tidy, Speaks, Keeps
<1> QED BY <1>2, <1>3, <1>4, <1>6 DEF Keeps, Looks, g

-----------------------------------------------------------------------------
(* How a process may end.                                                   *)
Allowed == {"up", "closed"} \cup (IF "CSP" \in MayExpire THEN {"time_limit"} ELSE {})

(* What the invariant says of the two ends.                                 *)
LEMMA EndFacts ==
  ASSUME IInv
  PROVE  /\ \A r \in Role : /\ end[r] \in Endpoint /\ Sound(end[r]) /\ Watched(end[r])
                            /\ Tidy(end[r]) /\ ~end[r].notified /\ end[r].role = r
                            /\ FlagsFit(end[r])
         /\ csp.stop => csp.need \subseteq {"STOP"}
         /\ ssp.state = "ACTIVE" => Under(ssp) = {}
         /\ csp.state = "PENDING" => armed - done = 1 /\ Armed(csp, ssp)
         /\ "CSP" \in Role /\ "SSP" \in Role /\ armed \in Nat /\ done \in Nat
<1>1. "CSP" \in Role /\ "SSP" \in Role /\ \A r \in Role : r = "CSP" \/ r = "SSP"
  BY DEF Role
<1>2. \A r \in Role : /\ end[r] \in Endpoint /\ Sound(end[r]) /\ Watched(end[r])
                      /\ Tidy(end[r]) /\ ~end[r].notified /\ end[r].role = r
  BY DEF IInv, Keeps, TypeOK
<1>3. /\ FlagsFit(csp) /\ FlagsFit(ssp)
      /\ csp.stop => csp.need \subseteq {"STOP"}
      /\ ssp.state = "ACTIVE" => Under(ssp) = {}
      /\ csp.state = "PENDING" => armed - done = 1 /\ Armed(csp, ssp)
  <2> DEFINE n == armed - done
  <2>1. Phase(csp, ssp, n)
    BY DEF IInv
  <2> HIDE DEF n
  <2>2. csp \in Endpoint /\ Tidy(csp) /\ csp.role = "CSP"
    BY <1>1, <1>2 DEF csp
  <2>3. ssp \in Endpoint /\ Tidy(ssp) /\ ssp.role = "SSP"
    BY <1>1, <1>2 DEF ssp
  <2>4. /\ FlagsFit(csp) /\ FlagsFit(ssp)
        /\ csp.stop => csp.need \subseteq {"STOP"}
        /\ ssp.state = "ACTIVE" => Under(ssp) = {}
        /\ csp.state = "PENDING" => n = 1 /\ Armed(csp, ssp)
    BY <2>1, <2>2, <2>3, PhaseFits
  <2> QED BY <2>4 DEF n
<1>4. armed \in Nat /\ done \in Nat
  BY DEF IInv, TypeOK
<1> QED BY <1>1, <1>2, <1>3, <1>4 DEF csp, ssp

(* All but the phase, after an end has become f.                            *)
LEMMA BecomesKeeps ==
  ASSUME IInv, NEW r \in Role, NEW f, Sound(f), Watched(f), Tidy(f), f.role = r,
         f.status \in Allowed, Becomes(r, f), armed' \in Nat
  PROVE  /\ TypeOK' /\ (\A q \in Role : Keeps(end[q])') /\ ChecksHold'
         /\ Looks(f, end'[r]) /\ end'[r].need = f.need /\ end'[r].added = f.added
         /\ end'[r].outlen = f.outlen /\ end'[r].wire = f.wire
         /\ \A q \in Role \ {r} : end'[q] = end[q]
         /\ done' = done + (IF f.notified /\ r = "CSP" THEN 1 ELSE 0)
<1> DEFINE g == [f EXCEPT !.notified = FALSE]
<1>1. end' = [end EXCEPT ![r] = g] /\ done' = done + (IF f.notified /\ r = "CSP" THEN 1 ELSE 0)
  BY DEF Becomes
<1>2. /\ Keeps(g) /\ Looks(f, g) /\ g.status = f.status
      /\ g.need = f.need /\ g.added = f.added /\ g.outlen = f.outlen /\ g.wire = f.wire
  BY Silenced
<1> HIDE DEF g
<1>3. end'[r] = g /\ \A q \in Role \ {r} : end'[q] = end[q]
  BY <1>1 DEF IInv, TypeOK
<1>4. g \in Endpoint /\ g.role = r
  BY <1>2 DEF Keeps, Sound, Looks
<1>5. end' \in [Role -> Endpoint]
  BY <1>1, <1>4 DEF IInv, TypeOK
<1>6. \A q \in Role : end'[q].role = q
  BY <1>3, <1>4 DEF IInv, TypeOK
<1>7. done' \in Nat
  BY <1>1 DEF IInv, TypeOK
<1>8. TypeOK'
  BY <1>5, <1>6, <1>7 DEF TypeOK
<1>9. \A q \in Role : Keeps(end'[q])
  BY <1>2, <1>3 DEF IInv
<1>10. \A q \in Role : end'[q].status \in Allowed
  BY <1>2, <1>3 DEF IInv, ChecksHold, Allowed
<1>11. ChecksHold'
  BY <1>10 DEF ChecksHold, Allowed
<1> QED BY <1>1, <1>2, <1>3, <1>8, <1>9, <1>11

LEMMA LooksMoved ==
  ASSUME armed \in Nat, done \in Nat, armed' = armed, done' = done,
         Looks(csp, csp'), Looks(ssp, ssp')
  PROVE  Moved
<1>1. armed' - done' = armed - done /\ armed - done \in Int
  OBVIOUS
<1>2. armed' - done' <= armed - done
  BY <1>1
<1> QED BY <1>2 DEF Moved, Move, Stands, Looks

(* An end that still looks the same keeps the phase.                        *)
LEMMA LooksInv ==
  ASSUME IInv, NEW r \in Role, NEW f, Sound(f), Watched(f), Looks(end[r], f),
         Tidy(f), f.status \in Allowed, Becomes(r, f), ~f.notified, UNCHANGED armed,
         csp.state = "PENDING" /\ r = "CSP" =>
           /\ f.wire = csp.wire
           /\ \/ f.added = csp.added /\ f.outlen = csp.outlen
              \/ f.added = 1 /\ f.outlen = CellSize /\ f.need = {}
  PROVE  IInv' /\ Moved
<1>1. /\ end[r].role = r /\ armed' \in Nat /\ "CSP" \in Role /\ "SSP" \in Role
      /\ r = "CSP" \/ r = "SSP"
  BY EndFacts DEF Role
<1>2. f.role = r
  BY <1>1 DEF Looks
<1>3. /\ TypeOK' /\ (\A q \in Role : Keeps(end[q])') /\ ChecksHold'
      /\ Looks(f, end'[r]) /\ end'[r].need = f.need /\ end'[r].added = f.added
      /\ end'[r].outlen = f.outlen /\ end'[r].wire = f.wire
      /\ \A q \in Role \ {r} : end'[q] = end[q]
      /\ done' = done + (IF f.notified /\ r = "CSP" THEN 1 ELSE 0)
  BY <1>1, <1>2, BecomesKeeps
<1>4. Looks(end[r], end'[r])
  BY <1>3 DEF Looks
<1>5. done' = done
  BY <1>3 DEF IInv, TypeOK
<1>6. Looks(csp, csp') /\ Looks(ssp, ssp')
  <2>1. CASE r = "CSP"
    <3>1. ssp' = ssp
      BY <1>1, <1>3, <2>1 DEF ssp
    <3> QED BY <1>4, <2>1, <3>1 DEF Looks, csp
  <2>2. CASE r = "SSP"
    <3>1. csp' = csp
      BY <1>1, <1>3, <2>2 DEF csp
    <3> QED BY <1>4, <2>2, <3>1 DEF Looks, ssp
  <2> QED BY <1>1, <2>1, <2>2
<1>7. csp.state = "PENDING" => Armed(csp', ssp')
  <2> SUFFICES ASSUME csp.state = "PENDING" PROVE Armed(csp', ssp')
    OBVIOUS
  <2>1. Armed(csp, ssp)
    BY EndFacts
  <2>2. CASE r = "CSP"
    <3>1. /\ csp'.wire = csp.wire
          /\ \/ csp'.added = csp.added /\ csp'.outlen = csp.outlen
             \/ csp'.added = 1 /\ csp'.outlen = CellSize /\ csp'.need = {}
      BY <1>3, <2>2 DEF csp
    <3> QED BY <1>6, <2>1, <3>1 DEF Armed, Looks, Says
  <2>3. CASE r = "SSP"
    <3>1. csp' = csp
      BY <1>1, <1>3, <2>3 DEF csp
    <3> QED BY <1>6, <2>1, <3>1 DEF Armed, Looks, Says
  <2> QED BY <1>1, <2>2, <2>3
<1>8. Phase(csp', ssp', armed - done)
  <2> DEFINE n == armed - done
  <2>1. Phase(csp, ssp, n)
    BY DEF IInv
  <2> HIDE DEF n
  <2>2. Phase(csp', ssp', n)
    BY <1>6, <1>7, <2>1, LooksPhase
  <2> QED BY <2>2 DEF n
<1>9. Moved
  BY <1>1, <1>5, <1>6, EndFacts, LooksMoved
<1> QED BY <1>3, <1>5, <1>8, <1>9 DEF IInv

(* One lemma for the start and one for each action.                         *)
LEMMA InitInv == Init => IInv
<1> SUFFICES ASSUME Init PROVE IInv
  OBVIOUS
<1>1. \A r \in Role : end[r] = NewEndpoint(r)
  BY DEF Init
<1>2. ASSUME NEW r \in Role
      PROVE  /\ Keeps(end[r]) /\ end[r] \in Endpoint /\ end[r].role = r
             /\ end[r].status = "up" /\ Under(end[r]) = {}
             /\ end[r].state = "NONE" /\ end[r].doneRecv
  <2> DEFINE e == NewEndpoint(r)
  <2>1. /\ e.role = r /\ e.status = "up" /\ e.state = "NONE" /\ ~e.stop /\ e.need = {}
        /\ e.added = 0 /\ e.doneRecv /\ e.outlen = 0 /\ e.cells = << >> /\ ~e.wev /\ ~e.timer
        /\ e.wire = << >> /\ ~e.notified
    BY DEF NewEndpoint
  <2>2. Sound(e)
    BY NewEndpointSound
  <2> HIDE DEF e
  <2>3. e \in Endpoint
    BY <2>2 DEF Sound
  <2>4. Watched(e)
    BY <2>1 DEF Watched
  <2>5. Len(Line(e)) = 0
    <3> DEFINE v == e.wire
               c == e.cells
    <3>1. v = << >> /\ c = << >>
      BY <2>1
    <3> HIDE DEF v, c
    <3>2. Len(v) = 0 /\ Len(c) = 0
      BY <3>1
    <3>3. Len(Line(e)) = Len(v) + Len(c)
      BY <2>3, LineTyped DEF v, c
    <3> QED BY <3>2, <3>3
  <2>6. Slots(e) = {1} /\ Flags(e, 1) = {}
    BY <2>1, <2>5 DEF Slots, Flags
  <2>7. Ordered(e) /\ Under(e) = {}
    BY <2>6 DEF Ordered, Under
  <2>8. Tidy(e)
    BY <2>1, <2>7 DEF Tidy
  <2> QED BY <1>1, <2>1, <2>2, <2>3, <2>4, <2>7, <2>8 DEF Keeps, e
<1>3. "CSP" \in Role /\ "SSP" \in Role
  BY DEF Role
<1>4. TypeOK
  <2>1. end = [r \in Role |-> NewEndpoint(r)] /\ armed = 0 /\ done = 0
    BY DEF Init
  <2>2. end \in [Role -> Endpoint]
    BY <1>1, <1>2, <2>1
  <2> QED BY <1>2, <2>1, <2>2 DEF TypeOK
<1>5. ChecksHold
  BY <1>2 DEF ChecksHold
<1>6. Phase(csp, ssp, armed - done)
  <2>1. Quiet(csp, ssp)
    BY <1>2, <1>3 DEF Quiet, Says, csp, ssp
  <2>2. armed - done = 0
    BY DEF Init
  <2> QED BY <2>1, <2>2 DEF Phase
<1> QED BY <1>2, <1>4, <1>5, <1>6 DEF IInv

(* Any stream operation: a pump, which says nothing new.                    *)
LEMMA OwnerSendsInv ==
  ASSUME IInv, Discipline = Rule, NEW r \in Role, NEW k \in PumpSizes, OwnerSends(r, k)
  PROVE  IInv' /\ Moved
<1> DEFINE e == end[r]
           f == PumpSend(e, k)
<1>1. /\ Sound(e) /\ Watched(e) /\ Tidy(e) /\ ~e.notified /\ e.role = r /\ FlagsFit(e)
      /\ e \in Endpoint
  BY EndFacts
<1>2. k \in Nat /\ e.status = "up" /\ Becomes(r, f) /\ UNCHANGED armed
  BY DefenseAssumption DEF OwnerSends, Up
<1>3. e.state = "PENDING" => r = "CSP" /\ Armed(csp, ssp) /\ csp.added = 0 /\ k > 0
  <2> SUFFICES ASSUME e.state = "PENDING"
               PROVE  r = "CSP" /\ Armed(csp, ssp) /\ csp.added = 0 /\ k > 0
    OBVIOUS
  <2>1. r = "CSP"
    BY <1>1 DEF Tidy, Role
  <2>2. csp.state = "PENDING"
    BY <2>1 DEF csp
  <2> QED BY <2>1, <2>2, EndFacts DEF OwnerSends, PumpRespects, Respects, Rule
<1>4. /\ Carries(e, f) /\ f.wire = e.wire
      /\ e.state = "PENDING" => f.added = 1 /\ f.need = {} /\ f.outlen =
            IF e.dummy THEN e.outlen ELSE e.outlen + CellSize
  <2>1. e.state = "PENDING" => e.added = 0 /\ k > 0
    BY <1>3 DEF csp
  <2> QED BY <1>1, <1>2, <2>1, PumpSendCarries
<1>5. e.state = "PENDING" => f.added = 1 /\ f.outlen = CellSize
  <2> SUFFICES ASSUME e.state = "PENDING" PROVE f.added = 1 /\ f.outlen = CellSize
    OBVIOUS
  <2>1. e.outlen = 0
    BY <1>3 DEF Armed, csp
  <2>2. ~e.dummy
    BY <1>1, <2>1, DummyBytes, CellAssumption
  <2> QED BY <1>4, <2>1, <2>2, CellAssumption
<1>6. Sound(f) /\ Watched(f)
  BY <1>1, <1>2, PumpSendSound, PumpSendWatched DEF Wakes
<1>7. Tidy(f) /\ Looks(e, f) /\ f.status \in Allowed /\ ~f.notified
  BY <1>1, <1>2, <1>4, CarriesTidy, CarriesLooks DEF Carries, SameSession, Allowed
<1>8. csp.state = "PENDING" /\ r = "CSP" =>
        f.wire = csp.wire /\ f.added = 1 /\ f.outlen = CellSize /\ f.need = {}
  BY <1>4, <1>5 DEF csp
<1> HIDE DEF f
<1> QED BY <1>2, <1>6, <1>7, <1>8, LooksInv

(* A flag in a cell of the wire is under way.                               *)
LEMMA WireUnder ==
  ASSUME NEW e \in Endpoint, NEW i \in 1..Len(e.wire), NEW F \in e.wire[i].flags
  PROVE  F \in Under(e)
<1> DEFINE v == e.wire
           c == e.cells
<1>1. v \in Seq(Cell) /\ Len(v) \in Nat /\ Len(c) \in Nat
  BY LenProperties DEF Endpoint
<1>2. F \in Flag
  <2>1. v[i] \in Cell
    BY <1>1, ElementOfSeq
  <2> QED BY <2>1 DEF Cell, v
<1> HIDE DEF v, c
<1>3. i \in 1..(Len(v) + Len(c)) /\ i <= Len(v)
  BY <1>1 DEF v
<1>4. i \in 1..Len(Line(e)) /\ Line(e)[i] = e.wire[i]
  BY <1>3, LineParts DEF v, c
<1>5. F \in InLine(e)
  BY <1>2, <1>4 DEF InLine
<1> QED BY <1>5, UnderSplit

(* A session is armed: from Quiet to Armed.                                 *)
LEMMA OwnerArmsInv ==
  ASSUME IInv, Discipline = Rule, OwnerArms
  PROVE  IInv' /\ Moved
<1> DEFINE f == SetAutoStart(csp)
<1>1. /\ csp.state = "NONE" /\ csp.spdy = 0 /\ csp.outlen = 0 /\ armed = done
      /\ Becomes("CSP", f) /\ armed' = armed + 1 /\ csp.status = "up"
  <2>1. Up /\ "CSP" \in Role
    BY DEF OwnerArms, Role
  <2>2. csp.status = "up"
    BY <2>1 DEF Up, csp
  <2> QED BY <2>2 DEF OwnerArms, Respects, Rule
<1>2. /\ Sound(csp) /\ Watched(csp) /\ Tidy(csp) /\ ~csp.notified /\ csp.role = "CSP"
      /\ "CSP" \in Role /\ "SSP" \in Role /\ armed \in Nat /\ done \in Nat
  BY EndFacts DEF csp
<1>3. Quiet(csp, ssp)
  <2>1. armed - done = 0
    BY <1>1, <1>2
  <2> QED BY <2>1 DEF IInv, Phase
<1>4. /\ f.role = "CSP" /\ f.status = "up" /\ ~f.notified /\ f.doneRecv /\ f.state = "PENDING"
      /\ f.added = 0 /\ f.outlen = 0 /\ f.wire = csp.wire /\ Tidy(f) /\ Under(f) = {"START"}
  <2>1. Under(csp) = {}
    BY <1>3 DEF Quiet, Says
  <2> QED BY <1>1, <1>2, <1>3, <2>1, ArmEffect DEF Quiet
<1>5. Sound(f) /\ Watched(f)
  BY <1>2, SetAutoStartSound, SetAutoStartWatched DEF Wakes
<1> HIDE DEF f
<1>6. /\ TypeOK' /\ (\A q \in Role : Keeps(end[q])') /\ ChecksHold'
      /\ Looks(f, csp') /\ csp'.added = 0 /\ csp'.outlen = 0 /\ csp'.wire = csp.wire
      /\ ssp' = ssp /\ done' = done
  <2>1. f.status \in Allowed /\ armed' \in Nat
    BY <1>1, <1>2, <1>4 DEF Allowed
  <2> QED BY <1>1, <1>2, <1>4, <1>5, <2>1, BecomesKeeps DEF csp, ssp
<1>7. \A i \in 1..Len(csp.wire) : "START" \notin csp.wire[i].flags
  BY <1>2, <1>3, EndFacts, WireUnder DEF Quiet, Says, csp, Flag
<1>8. Armed(csp', ssp')
  BY <1>3, <1>4, <1>6, <1>7 DEF Armed, Quiet, Says, Looks
<1>9. armed' - done' = 1 /\ armed - done = 0
  BY <1>1, <1>2, <1>6
<1>10. Moved
  BY <1>1, <1>6, <1>8, <1>9 DEF Moved, Move, Stands, Armed
<1> QED BY <1>6, <1>8, <1>9, <1>10 DEF IInv, Phase

(* A stop is asked for: from On to Off, or nothing when no defense is on.   *)
LEMMA OwnerStopsInv ==
  ASSUME IInv, Discipline = Rule, OwnerStops
  PROVE  IInv' /\ Moved
<1> DEFINE f == StopDefense(csp)
<1>1. /\ csp.state # "PENDING" /\ ~csp.stop /\ Becomes("CSP", f) /\ UNCHANGED armed
      /\ csp.status = "up"
  <2>1. Up /\ "CSP" \in Role
    BY DEF OwnerStops, Role
  <2>2. csp.status = "up"
    BY <2>1 DEF Up, csp
  <2> QED BY <2>2 DEF OwnerStops, Respects, Rule
<1>2. /\ Sound(csp) /\ Watched(csp) /\ Tidy(csp) /\ ~csp.notified /\ csp.role = "CSP"
      /\ csp \in Endpoint
      /\ "CSP" \in Role /\ "SSP" \in Role /\ armed \in Nat /\ done \in Nat
  BY EndFacts DEF csp
<1>3. Sound(f) /\ Watched(f)
  BY <1>2, StopDefenseSound, StopDefenseWatched
<1>4. CASE csp.state = "NONE"
  <2>1. Carries(csp, f)
    BY <1>2, <1>4, StopIdleCarries
  <2> HIDE DEF f
  <2>2. Looks(csp, f) /\ Tidy(f)
    BY <1>2, <2>1, CarriesLooks, CarriesTidy
  <2>3. f.status \in Allowed /\ ~f.notified
    BY <1>1, <1>2, <2>1 DEF Carries, SameSession, Allowed
  <2>4. Looks(end["CSP"], f)
    BY <2>2 DEF csp
  <2> QED BY <1>1, <1>2, <1>3, <1>4, <2>2, <2>3, <2>4, LooksInv
<1>5. CASE csp.state = "ACTIVE"
  <2>1. armed - done = 1 /\ On(csp, ssp)
    BY <1>1, <1>5 DEF IInv, Phase, Quiet, Armed, Off
  <2>2. Under(csp) \subseteq {"START"}
    BY <2>1 DEF On, Says
  <2>3. csp.need \subseteq Under(csp)
    BY <1>2, UnderSplit
  <2>4. /\ f.role = csp.role /\ f.status = csp.status /\ f.notified = csp.notified
        /\ f.doneRecv = csp.doneRecv /\ f.state = "ACTIVE" /\ f.stop /\ Tidy(f)
        /\ f.need = {"STOP"}
        /\ Under(f) = IF "START" \in csp.need THEN (Under(csp) \ {"START"}) \cup {"STOP"}
                      ELSE Under(csp) \cup {"STOP"}
    BY <1>1, <1>2, <1>5, <2>2, <2>3, StopEffect
  <2> HIDE DEF f
  <2>5. /\ TypeOK' /\ (\A q \in Role : Keeps(end[q])') /\ ChecksHold'
        /\ Looks(f, csp') /\ ssp' = ssp /\ done' = done
    <3>1. f.status \in Allowed /\ armed' \in Nat
      BY <1>1, <1>2, <2>4 DEF Allowed
    <3> QED BY <1>1, <1>2, <1>3, <2>4, <3>1, BecomesKeeps DEF csp, ssp
  <2>6. /\ csp'.state = "ACTIVE" /\ csp'.stop /\ "START" \notin csp'.need
        /\ ~csp'.doneRecv
        /\ Under(csp') = IF "START" \in csp.need THEN (Under(csp) \ {"START"}) \cup {"STOP"}
                         ELSE Under(csp) \cup {"STOP"}
        /\ "START" \in csp.need => "SSP" \in MayExpire
    BY <2>1, <2>4, <2>5 DEF Looks, On
  <2>7. Off(csp', ssp')
    <3>1. CASE ssp.state = "NONE" /\ Says(csp, ssp, {"START"}, {})
      <4>1. \/ Under(csp') = {"START", "STOP"}
            \/ Under(csp') = {"STOP"} /\ "SSP" \in MayExpire
        BY <2>6, <3>1 DEF Says
      <4> QED BY <2>5, <2>6, <3>1, <4>1 DEF Off, Says
    <3>2. CASE ssp.state = "ACTIVE" /\ ~ssp.stop /\ Says(csp, ssp, {}, {})
      <4>1. Under(csp') = {"STOP"}
        BY <2>6, <3>2 DEF Says
      <4> QED BY <2>5, <2>6, <3>2, <4>1 DEF Off, Says
    <3>3. CASE ssp.state = "NONE" /\ Says(csp, ssp, {}, {"AUTO_STOPPED"}) /\ "SSP" \in MayExpire
      <4>1. Under(csp') = {"STOP"}
        BY <2>6, <3>3 DEF Says
      <4> QED BY <2>5, <2>6, <3>3, <4>1 DEF Off, Says
    <3> QED BY <2>1, <3>1, <3>2, <3>3 DEF On
  <2>8. armed' - done' = 1
    BY <1>1, <2>1, <2>5
  <2>9. Moved
    <3> SUFFICES ASSUME "SSP" \notin MayExpire
                 PROVE  Move(csp, ssp, armed - done, csp', ssp', armed' - done')
      BY DEF Moved
    <3>1. "START" \in Under(csp') <=> "START" \in Under(csp)
      BY <2>6
    <3>2. armed' - done' <= armed - done
      BY <2>1, <2>8
    <3> QED BY <1>1, <1>5, <2>5, <2>6, <3>1, <3>2 DEF Move, Stands
  <2> QED BY <2>5, <2>7, <2>8, <2>9 DEF IInv, Phase
<1>6. csp.state \in {"NONE", "PENDING", "ACTIVE"}
  BY <1>2 DEF Endpoint, DefenseState
<1> QED BY <1>1, <1>4, <1>5, <1>6

(* A tick: it sends, or the defense of one end is over.                     *)
LEMMA TimerFiresInv ==
  ASSUME IInv, NEW r \in Role, NEW expired \in BOOLEAN, NEW k \in PumpSizes, NEW n,
         TimerFires(r, expired, k, n)
  PROVE  IInv' /\ Moved
<1> DEFINE e == end[r]
           f == TimerFired(e, expired, k, n)
<1>1. /\ Sound(e) /\ Watched(e) /\ Tidy(e) /\ ~e.notified /\ e.role = r /\ FlagsFit(e)
      /\ e \in Endpoint /\ Keeps(e)
  BY EndFacts DEF IInv
<1>2. /\ k \in Nat /\ e.status = "up" /\ e.timer /\ Becomes(r, f) /\ UNCHANGED armed
      /\ expired => r \in MayExpire
  BY DefenseAssumption DEF TimerFires, Up
<1>3. n \in 0..MaxWrite(FillOutbuf(e))
  BY DEF TimerFires, WriteSizes
<1>4. e.state = "ACTIVE"
  BY <1>1, <1>2 DEF Watched
<1>5. r = "CSP" \/ r = "SSP"
  BY DEF Role
<1>6. /\ e.stop => e.need \subseteq {"STOP"}
      /\ e.role = "SSP" => Under(e) = {}
      /\ armed \in Nat /\ done \in Nat /\ "CSP" \in Role /\ "SSP" \in Role
  <2>1. r = "CSP" => (e.stop => e.need \subseteq {"STOP"})
    BY EndFacts DEF csp
  <2>2. r = "SSP" => e.need = {} /\ Under(e) = {}
    BY <1>1, <1>4, EndFacts DEF ssp, Tidy
  <2> QED BY <1>1, <1>5, <2>1, <2>2, EndFacts
<1>7. Sound(f) /\ Watched(f)
  BY <1>1, <1>2, <1>3, TimerFiredSound, TimerFiredWatched DEF Wakes
<1>8. \/ Carries(e, f)
      \/ /\ e.stop /\ f.notified = (e.notified \/ e.doneRecv)
         /\ Rests(e, f, Under(e) \cup IF e.role = "SSP" THEN {"DONE"} ELSE {})
      \/ /\ expired /\ e.role = "CSP"
         /\ f = [e EXCEPT !.status = "time_limit"]
      \/ /\ expired /\ e.role = "SSP" /\ f.notified = e.notified
         /\ Rests(e, f, {"AUTO_STOPPED"})
  BY <1>1, <1>2, <1>3, <1>4, <1>6, TimerFiredEffect
<1> HIDE DEF f
<1>9. ASSUME Looks(e, f), Tidy(f), f.status \in Allowed, ~f.notified PROVE IInv' /\ Moved
  <2>1. r = "CSP" => csp.state # "PENDING"
    BY <1>4 DEF csp
  <2> QED BY <1>2, <1>7, <1>9, <2>1, LooksInv
<1>10. ASSUME f.role = r, f.status = "up", Tidy(f)
       PROVE  /\ TypeOK' /\ (\A q \in Role : Keeps(end[q])') /\ ChecksHold'
              /\ Looks(f, end'[r])
              /\ \A q \in Role \ {r} : end'[q] = end[q]
              /\ done' = done + (IF f.notified /\ r = "CSP" THEN 1 ELSE 0)
  <2>1. f.status \in Allowed /\ armed' \in Nat
    BY <1>2, <1>6, <1>10 DEF Allowed
  <2> QED BY <1>2, <1>7, <1>10, <2>1, BecomesKeeps
<1>11. CASE Carries(e, f)
  <2>1. Looks(e, f) /\ Tidy(f)
    BY <1>1, <1>11, CarriesLooks, CarriesTidy
  <2>2. f.status \in Allowed /\ ~f.notified
    BY <1>1, <1>2, <1>11 DEF Carries, SameSession, Allowed
  <2> QED BY <1>9, <2>1, <2>2
<1>12. CASE expired /\ e.role = "CSP" /\ f = [e EXCEPT !.status = "time_limit"]
  <2>1. "CSP" \in MayExpire /\ "time_limit" \in Allowed /\ "time_limit" \in Status
    BY <1>1, <1>2, <1>12 DEF Allowed, Status, CheckName
  <2>2. Keeps(f) /\ Looks(e, f) /\ f.status = "time_limit"
    BY <1>1, <1>12, <2>1, StatusOnly
  <2> QED BY <1>9, <2>1, <2>2 DEF Keeps
<1>13. CASE r = "CSP" /\ e.stop /\ f.notified = (e.notified \/ e.doneRecv)
             /\ Rests(e, f, Under(e) \cup IF e.role = "SSP" THEN {"DONE"} ELSE {})
  <2>1. f.role = r /\ f.status = "up" /\ Tidy(f) /\ Under(f) = Under(e)
        /\ f.doneRecv = e.doneRecv /\ f.state = "NONE" /\ f.notified = e.doneRecv /\ f.need = {}
    BY <1>1, <1>2, <1>13 DEF Rests, Tidy, Endpoint
  <2>2. /\ TypeOK' /\ (\A q \in Role : Keeps(end[q])') /\ ChecksHold'
        /\ Looks(f, csp') /\ ssp' = ssp
        /\ done' = done + (IF f.notified THEN 1 ELSE 0)
    BY <1>6, <1>10, <1>13, <2>1 DEF csp, ssp
  <2>3. csp.state = "ACTIVE" /\ csp.stop /\ csp = e
    BY <1>4, <1>13 DEF csp
  <2>4. armed - done = 1 /\ Off(csp, ssp)
    BY <2>3 DEF IInv, Phase, Quiet, Armed, On
  <2>5. /\ csp'.state = "NONE" /\ csp'.doneRecv = csp.doneRecv /\ Under(csp') = Under(csp)
        /\ csp'.need = {}
    BY <2>1, <2>2, <2>3 DEF Looks
  <2> HIDE DEF e
  <2>6. Moved
    <3>1. armed' - done' <= armed - done
      BY <1>2, <1>6, <2>2
    <3> QED BY <2>2, <2>3, <2>5, <3>1 DEF Moved, Move, Stands
  <2>7. CASE e.doneRecv
    <3>1. Quiet(csp', ssp')
      BY <2>2, <2>3, <2>4, <2>5, <2>7 DEF Off, Quiet, Says
    <3>2. armed' - done' = 0
      BY <1>2, <1>6, <2>1, <2>2, <2>4, <2>7
    <3> QED BY <2>2, <2>6, <3>1, <3>2 DEF IInv, Phase
  <2>8. CASE ~e.doneRecv
    <3>1. Off(csp', ssp')
      BY <2>2, <2>3, <2>4, <2>5, <2>8 DEF Off, Says
    <3>2. armed' - done' = 1
      BY <1>2, <1>6, <2>1, <2>2, <2>4, <2>8
    <3> QED BY <2>2, <2>6, <3>1, <3>2 DEF IInv, Phase
  <2> QED BY <2>7, <2>8
<1>14. ASSUME r = "SSP", NEW F, Rests(e, f, F)
       PROVE  /\ TypeOK' /\ (\A q \in Role : Keeps(end[q])') /\ ChecksHold'
              /\ csp' = csp /\ armed' - done' = armed - done
              /\ ssp'.state = "NONE" /\ Under(ssp') = F
  <2>1. f.role = r /\ f.status = "up" /\ Tidy(f) /\ f.state = "NONE" /\ Under(f) = F
    BY <1>1, <1>2, <1>14 DEF Rests
  <2>2. /\ TypeOK' /\ (\A q \in Role : Keeps(end[q])') /\ ChecksHold'
        /\ Looks(f, ssp') /\ csp' = csp /\ done' = done
    BY <1>6, <1>10, <1>14, <2>1 DEF csp, ssp
  <2> QED BY <1>2, <2>1, <2>2 DEF Looks
<1>15. CASE r = "SSP" /\ e.stop
             /\ Rests(e, f, Under(e) \cup IF e.role = "SSP" THEN {"DONE"} ELSE {})
  <2>1. Rests(e, f, {"DONE"})
    BY <1>1, <1>6, <1>15
  <2>2. /\ TypeOK' /\ (\A q \in Role : Keeps(end[q])') /\ ChecksHold'
        /\ csp' = csp /\ armed' - done' = armed - done
        /\ ssp'.state = "NONE" /\ Under(ssp') = {"DONE"}
    BY <1>14, <1>15, <2>1
  <2>3. ssp.state = "ACTIVE" /\ ssp.stop
    BY <1>4, <1>15 DEF ssp
  <2>4. armed - done = 1 /\ Off(csp, ssp) /\ Under(csp) = {} /\ ~csp.doneRecv
    BY <2>3 DEF IInv, Phase, Quiet, Armed, On, Off, Says
  <2>5. Off(csp', ssp')
    BY <2>2, <2>4 DEF Off, Says
  <2>6. Moved
    BY <2>2, <2>3, <2>4 DEF Moved, Move, Stands
  <2> QED BY <2>2, <2>4, <2>5, <2>6 DEF IInv, Phase
<1>16. CASE r = "SSP" /\ r \in MayExpire /\ Rests(e, f, {"AUTO_STOPPED"})
  <2>1. /\ TypeOK' /\ (\A q \in Role : Keeps(end[q])') /\ ChecksHold'
        /\ csp' = csp /\ armed' - done' = armed - done
        /\ ssp'.state = "NONE" /\ Under(ssp') = {"AUTO_STOPPED"}
    BY <1>14, <1>16
  <2>2. ssp.state = "ACTIVE"
    BY <1>4, <1>16 DEF ssp
  <2>3. armed - done = 1 /\ (On(csp, ssp) \/ Off(csp, ssp))
    BY <2>2 DEF IInv, Phase, Quiet, Armed
  <2>4. CASE On(csp, ssp)
    <3>1. On(csp', ssp')
      BY <1>16, <2>1, <2>2, <2>4 DEF On, Says
    <3> QED BY <1>16, <2>1, <2>3, <3>1 DEF IInv, Phase, Moved
  <2>5. CASE Off(csp, ssp)
    <3>1. Off(csp', ssp')
      BY <1>16, <2>1, <2>2, <2>5 DEF Off, Says
    <3> QED BY <1>16, <2>1, <2>3, <3>1 DEF IInv, Phase, Moved
  <2> QED BY <2>3, <2>4, <2>5
<1> QED BY <1>1, <1>2, <1>5, <1>8, <1>11, <1>12, <1>13, <1>15, <1>16

(* Bytes are written; a client that is armed starts: from Armed to On.      *)
LEMMA SocketBecomesWritableInv ==
  ASSUME IInv, NEW r \in Role, NEW n, SocketBecomesWritable(r, n)
  PROVE  IInv' /\ Moved
<1> DEFINE e == end[r]
           f == SocketWritable(e, n)
<1>1. /\ Sound(e) /\ Watched(e) /\ Tidy(e) /\ ~e.notified /\ e.role = r
      /\ e \in Endpoint /\ armed \in Nat /\ done \in Nat /\ "CSP" \in Role /\ "SSP" \in Role
  BY EndFacts
<1>2. /\ e.status = "up" /\ e.wev /\ Becomes(r, f) /\ UNCHANGED armed
      /\ n \in 0..MaxWrite(e)
  BY DEF SocketBecomesWritable, Up, WriteSizes
<1>3. e.state = "PENDING" =>
        r = "CSP" /\ armed - done = 1 /\ Armed(csp, ssp) /\ e.outlen = CellSize
  <2> SUFFICES ASSUME e.state = "PENDING"
               PROVE  r = "CSP" /\ armed - done = 1 /\ Armed(csp, ssp) /\ e.outlen = CellSize
    OBVIOUS
  <2>1. r = "CSP"
    BY <1>1 DEF Tidy, Role
  <2>2. armed - done = 1 /\ Armed(csp, ssp)
    BY <2>1, EndFacts DEF csp
  <2>3. e.outlen > 0
    BY <1>1, <1>2 DEF Watched
  <2> QED BY <2>1, <2>2, <2>3 DEF Armed, csp
<1>4. Sound(f) /\ Watched(f)
  BY <1>1, <1>2, SocketWritableSound, SocketWritableWatched DEF Wakes
<1>5. /\ e.state # "PENDING" => Carries(e, f)
      /\ e.state = "PENDING" => Starts(e, f)
  BY <1>1, <1>2, <1>3, SocketWritableEffect
<1> HIDE DEF f
<1>6. CASE e.state # "PENDING"
  <2>1. Looks(e, f) /\ Tidy(f)
    BY <1>1, <1>5, <1>6, CarriesLooks, CarriesTidy
  <2>2. f.status \in Allowed /\ ~f.notified
    BY <1>1, <1>2, <1>5, <1>6 DEF Carries, SameSession, Allowed
  <2>3. r = "CSP" => csp.state # "PENDING"
    BY <1>6 DEF csp
  <2> QED BY <1>2, <1>4, <2>1, <2>2, <2>3, LooksInv
<1>7. CASE e.state = "PENDING"
  <2>1. /\ f.role = "CSP" /\ f.status = "up" /\ ~f.notified /\ f.state = "ACTIVE"
        /\ ~f.stop /\ ~f.doneRecv /\ Under(f) = {"START"} /\ Tidy(f) /\ f.need = {}
    <3>1. Under(e) = {"START"} /\ e.need = {}
      <4>1. CellSize # 0
        BY CellAssumption
      <4> QED BY <1>3, <1>7, <4>1 DEF Armed, Says, csp
    <3> QED BY <1>1, <1>2, <1>3, <1>5, <1>7, <3>1 DEF Starts, Speaks, Tidy
  <2>2. f.status \in Allowed /\ armed' \in Nat
    BY <1>1, <1>2, <2>1 DEF Allowed
  <2>3. /\ TypeOK' /\ (\A q \in Role : Keeps(end[q])') /\ ChecksHold'
        /\ Looks(f, csp') /\ ssp' = ssp /\ done' = done
    BY <1>1, <1>2, <1>3, <1>4, <1>7, <2>1, <2>2, BecomesKeeps DEF csp, ssp
  <2>4. On(csp', ssp')
    BY <1>3, <1>7, <2>1, <2>3 DEF On, Armed, Says, Looks
  <2>5. armed' - done' = 1 /\ armed' - done' <= armed - done
    BY <1>2, <1>3, <1>7, <2>3
  <2>6. Moved
    <3>1. csp.state = "PENDING" /\ Under(csp) = {"START"}
      BY <1>3, <1>7 DEF Armed, Says
    <3> QED BY <2>1, <2>3, <2>5, <3>1 DEF Moved, Move, Stands, Looks
  <2> QED BY <2>3, <2>4, <2>5, <2>6 DEF IInv, Phase
<1> QED BY <1>6, <1>7

(* Nothing but the status changes.                                          *)
LEMMA ConnectionBreaksInv ==
  ASSUME IInv, ConnectionBreaks
  PROVE  IInv' /\ Moved
<1>1. /\ end' = [r \in Role |-> [end[r] EXCEPT !.status = "closed"]]
      /\ UNCHANGED << armed, done >> /\ "closed" \in Status
  BY DEF ConnectionBreaks, Status
<1>2. ASSUME NEW r \in Role
      PROVE  /\ Keeps(end'[r]) /\ Looks(end[r], end'[r]) /\ end'[r].status = "closed"
             /\ end'[r].added = end[r].added /\ end'[r].outlen = end[r].outlen
             /\ end'[r].wire = end[r].wire
  <2>1. Keeps(end[r])
    BY DEF IInv
  <2> DEFINE g == [end[r] EXCEPT !.status = "closed"]
  <2>2. end'[r] = g
    BY <1>1
  <2>3. /\ Keeps(g) /\ Looks(end[r], g) /\ g.status = "closed"
        /\ g.added = end[r].added /\ g.outlen = end[r].outlen /\ g.wire = end[r].wire
    BY <1>1, <2>1, StatusOnly
  <2> HIDE DEF g
  <2> QED BY <2>2, <2>3
<1>3. TypeOK'
  <2>1. \A r \in Role : end'[r] \in Endpoint /\ end'[r].role = r
    BY <1>2 DEF Keeps, Sound, Looks, IInv, TypeOK
  <2>2. end' \in [Role -> Endpoint]
    BY <1>1, <2>1
  <2> QED BY <1>1, <2>1, <2>2 DEF IInv, TypeOK
<1>4. ChecksHold'
  BY <1>2 DEF ChecksHold
<1>5. /\ Looks(csp, csp') /\ Looks(ssp, ssp') /\ csp'.added = csp.added
      /\ csp'.outlen = csp.outlen /\ csp'.wire = csp.wire
  BY <1>2 DEF csp, ssp, Role
<1>6. csp.state = "PENDING" => Armed(csp', ssp')
  <2>1. csp.state = "PENDING" => Armed(csp, ssp)
    BY EndFacts
  <2> QED BY <1>5, <2>1 DEF Armed, Looks, Says
<1>7. Moved
  BY <1>1, <1>5, LooksMoved DEF IInv, TypeOK
<1>8. Phase(csp', ssp', armed' - done')
  <2> DEFINE n == armed - done
  <2>1. Phase(csp, ssp, n) /\ armed' - done' = n
    BY <1>1 DEF IInv
  <2> HIDE DEF n
  <2> QED BY <1>5, <1>6, <2>1, LooksPhase
<1> QED BY <1>2, <1>3, <1>4, <1>8, <1>7 DEF IInv

(* The next cell of a wire is taken from it.                                *)
LEMMA CellTaken ==
  ASSUME NEW e, Keeps(e), e.wire # << >>
  PROVE  LET g == [e EXCEPT !.wire = Tail(e.wire)]
             F == Head(e.wire).flags
         IN  /\ Keeps(g) /\ Head(e.wire) \in Cell /\ F \in SUBSET Flag
             /\ g.role = e.role /\ g.status = e.status /\ g.state = e.state
             /\ g.stop = e.stop /\ g.doneRecv = e.doneRecv /\ g.need = e.need
             /\ g.added = e.added /\ g.outlen = e.outlen
             /\ F \subseteq Under(e) /\ Under(g) = Under(e) \ F
             /\ ~({"START", "STOP"} \subseteq F)
             /\ "STOP" \in F => "START" \notin Under(g)
             /\ \A x : (\A i \in 1..Len(e.wire) : x \notin e.wire[i].flags) =>
                  x \notin F /\ \A i \in 1..Len(g.wire) : x \notin g.wire[i].flags
<1> DEFINE g == [e EXCEPT !.wire = Tail(e.wire)]
           v == e.wire
           F == Head(v).flags
<1>1. e \in Endpoint /\ v \in Seq(Cell) /\ v # << >> /\ Ordered(e)
  BY DEF Keeps, Sound, Endpoint, Tidy
<1>2. Tail(v) \in Seq(Cell) /\ Head(v) \in Cell
  <2> HIDE DEF v
  <2> QED BY <1>1, HeadTailProperties
<1>3. F \in SUBSET Flag
  <2>1. \A c \in Cell : c.flags \in SUBSET Flag
    BY DEF Cell
  <2> QED BY <1>2, <2>1
<1>4. /\ g \in Endpoint /\ SameOutbuf(e, g) /\ g.notified = e.notified /\ g.role = e.role
      /\ g.status = e.status /\ g.state = e.state /\ g.stop = e.stop /\ g.need = e.need
      /\ g.added = e.added /\ g.doneRecv = e.doneRecv /\ g.wev = e.wev /\ g.timer = e.timer
      /\ g.outlen = e.outlen /\ g.cells = e.cells /\ g.wire = Tail(v)
  BY <1>1, <1>2 DEF Endpoint, SameOutbuf
<1> HIDE DEF g
<1>5. Sound(g)
  BY <1>4, SoundFrame DEF Keeps
<1>6. Watched(g)
  BY <1>4 DEF Watched, Keeps
<1>7. /\ F \subseteq Under(e) /\ Under(g) = Under(e) \ F /\ Ordered(g)
      /\ ~({"START", "STOP"} \subseteq F)
      /\ "STOP" \in F => "START" \notin Under(g)
  BY <1>1, <1>4, FirstRead
<1>8. Keeps(g)
  BY <1>4, <1>5, <1>6, <1>7 DEF Tidy, Keeps
<1>9. ASSUME NEW x, \A i \in 1..Len(v) : x \notin v[i].flags
      PROVE  x \notin F /\ \A i \in 1..Len(Tail(v)) : x \notin Tail(v)[i].flags
  <2> HIDE DEF v, F
  <2>1. /\ Len(v) \in Nat /\ Len(v) > 0 /\ Head(v) = v[1] /\ Len(Tail(v)) = Len(v) - 1
        /\ \A i \in 1..Len(Tail(v)) : Tail(v)[i] = v[i + 1]
    BY <1>1, HeadTailProperties, LenProperties, EmptySeq
  <2>2. x \notin F
    BY <1>9, <2>1 DEF F
  <2>3. ASSUME NEW i \in 1..Len(Tail(v)) PROVE x \notin Tail(v)[i].flags
    <3>1. i + 1 \in 1..Len(v)
      BY <2>1
    <3> QED BY <1>9, <2>1, <3>1
  <2> QED BY <2>2, <2>3
<1> QED BY <1>2, <1>3, <1>4, <1>7, <1>8, <1>9 DEF g

(* All but the phase, after end r has read a cell of the other end.         *)
LEMMA ReceiveKeeps ==
  ASSUME IInv, NEW r \in Role, NEW k, ReceiveCell(r, k),
         NEW f, f = HandleCell(end[r], Head(end[Peer(r)].wire), k),
         Sound(f), Watched(f), Tidy(f), f.role = r, f.status = "up"
  PROVE  LET p == Peer(r)
             g == [end[p] EXCEPT !.wire = Tail(end[p].wire)]
         IN  /\ TypeOK' /\ (\A q \in Role : Keeps(end[q])') /\ ChecksHold'
             /\ Looks(f, end'[r]) /\ end'[r].added = f.added
             /\ end'[r].outlen = f.outlen /\ end'[r].wire = f.wire
             /\ end'[p] = g /\ armed' = armed
             /\ done' = IF f.notified /\ r = "CSP" THEN done + 1 ELSE done
<1> DEFINE p == Peer(r)
           g == [end[p] EXCEPT !.wire = Tail(end[p].wire)]
           h == [f EXCEPT !.notified = FALSE]
<1>1. p \in Role /\ p # r /\ \A q \in Role : q = r \/ q = p
  BY DEF Peer, Role
<1>2. /\ end' = [end EXCEPT ![r] = h, ![p].wire = Tail(end[p].wire)] /\ armed' = armed
      /\ done' = done + (IF f.notified /\ r = "CSP" THEN 1 ELSE 0)
      /\ end[p].wire # << >> /\ end[p].status = "up"
  BY <1>1 DEF ReceiveCell, Up
<1>3. /\ Keeps(h) /\ Looks(f, h) /\ h.status = f.status
      /\ h.need = f.need /\ h.added = f.added /\ h.outlen = f.outlen /\ h.wire = f.wire
  BY Silenced
<1>4. Keeps(g) /\ g.role = p /\ g.status = "up"
  <2>1. Keeps(end[p]) /\ end[p].role = p
    BY <1>1 DEF IInv, TypeOK
  <2> QED BY <1>2, <2>1, CellTaken
<1> HIDE DEF h
<1>5. end'[r] = h /\ end'[p] = g /\ DOMAIN end' = Role
      /\ end' = [q \in Role |-> end'[q]]
  BY <1>1, <1>2 DEF IInv, TypeOK
<1> HIDE DEF g
<1>6. g \in Endpoint /\ h \in Endpoint /\ h.role = r
  BY <1>3, <1>4 DEF Keeps, Sound, Looks
<1>7. TypeOK'
  <2>1. \A q \in Role : end'[q] \in Endpoint /\ end'[q].role = q
    BY <1>1, <1>4, <1>5, <1>6
  <2>2. end' \in [Role -> Endpoint]
    BY <1>5, <2>1
  <2>3. armed' \in Nat /\ done' \in Nat
    BY <1>2 DEF IInv, TypeOK
  <2> QED BY <2>1, <2>2, <2>3 DEF TypeOK
<1>8. \A q \in Role : Keeps(end'[q]) /\ end'[q].status = "up"
  BY <1>1, <1>3, <1>4, <1>5
<1>9. ChecksHold'
  BY <1>8 DEF ChecksHold
<1>10. done' = IF f.notified /\ r = "CSP" THEN done + 1 ELSE done
  BY <1>2 DEF IInv, TypeOK
<1> QED BY <1>2, <1>3, <1>5, <1>7, <1>8, <1>9, <1>10 DEF g

(* The server reads: START and STOP move it, in that order.                 *)
LEMMA ServerReceivesInv ==
  ASSUME IInv, NEW k \in PumpSizes \cup {-1}, ReceiveCell("SSP", k)
  PROVE  IInv' /\ Moved
<1> DEFINE cell == Head(csp.wire)
           f == HandleCell(ssp, cell, k)
           F == cell.flags
           g == [csp EXCEPT !.wire = Tail(csp.wire)]
<1>1. /\ Keeps(ssp) /\ Keeps(csp) /\ ssp.role = "SSP" /\ csp.role = "CSP"
      /\ "CSP" \in Role /\ "SSP" \in Role /\ armed \in Nat /\ done \in Nat
      /\ Peer("SSP") = "CSP"
  BY EndFacts DEF IInv, csp, ssp, Role, Peer
<1>2. ssp.status = "up" /\ csp.wire # << >>
  BY <1>1 DEF ReceiveCell, Up, csp, ssp
<1>3. k \in Int
  BY DefenseAssumption
<1>4. /\ Keeps(g) /\ cell \in Cell /\ F \in SUBSET Flag
      /\ g.role = csp.role /\ g.status = csp.status /\ g.state = csp.state
      /\ g.stop = csp.stop /\ g.doneRecv = csp.doneRecv /\ g.need = csp.need
      /\ g.added = csp.added /\ g.outlen = csp.outlen
      /\ F \subseteq Under(csp) /\ Under(g) = Under(csp) \ F
      /\ ~({"START", "STOP"} \subseteq F)
      /\ "STOP" \in F => "START" \notin Under(g)
      /\ \A x : (\A i \in 1..Len(csp.wire) : x \notin csp.wire[i].flags) =>
           x \notin F /\ \A i \in 1..Len(g.wire) : x \notin g.wire[i].flags
  BY <1>1, <1>2, CellTaken
<1> HIDE DEF g, cell
<1>5. F \in {{}, {"START"}, {"STOP"}}
  <2>1. Under(csp) \subseteq {"START", "STOP"}
    BY DEF IInv, Phase, Quiet, Armed, On, Off, Says
  <2> QED BY <1>4, <2>1
<1>6. F = {"START"} => ssp.state = "NONE" /\ armed - done = 1 /\ "START" \in Under(csp)
                       /\ csp.state # "PENDING"
  <2> SUFFICES ASSUME F = {"START"}
               PROVE  ssp.state = "NONE" /\ armed - done = 1 /\ "START" \in Under(csp)
                      /\ csp.state # "PENDING"
    OBVIOUS
  <2>1. "START" \in Under(csp)
    BY <1>4
  <2>2. csp.state # "PENDING"
    <3>1. csp.state = "PENDING" => \A i \in 1..Len(csp.wire) : "START" \notin csp.wire[i].flags
      BY EndFacts DEF Armed
    <3> QED BY <1>4, <3>1
  <2> QED BY <2>1, <2>2 DEF IInv, Phase, Quiet, Armed, On, Off, Says
<1>7. F = {"STOP"} => /\ armed - done = 1 /\ Off(csp, ssp) /\ Under(csp) = {"STOP"}
                      /\ ssp.state = "ACTIVE" => ~ssp.stop
  <2> SUFFICES ASSUME F = {"STOP"}
               PROVE  /\ armed - done = 1 /\ Off(csp, ssp) /\ Under(csp) = {"STOP"}
                      /\ ssp.state = "ACTIVE" => ~ssp.stop
    OBVIOUS
  <2>1. "STOP" \in Under(csp) /\ "START" \notin Under(csp)
    BY <1>4
  <2> QED BY <2>1 DEF IInv, Phase, Quiet, Armed, On, Off, Says
<1>8. /\ f.role = "SSP" /\ f.status = "up" /\ Tidy(f) /\ Under(f) = Under(ssp)
      /\ F = {} => f.state = ssp.state /\ f.stop = ssp.stop
      /\ F = {"START"} => f.state = "ACTIVE" /\ ~f.stop
      /\ F = {"STOP"} => f.state = ssp.state /\ (f.stop <=> ssp.state = "ACTIVE")
  BY <1>1, <1>2, <1>3, <1>5, <1>6, <1>7, ServerReads DEF Keeps
<1>9. Sound(f) /\ Watched(f)
  BY <1>1, <1>3, <1>4, HandleCellSound, HandleCellWatched DEF Keeps, Wakes
<1>10. /\ TypeOK' /\ (\A q \in Role : Keeps(end[q])') /\ ChecksHold'
       /\ Looks(f, ssp') /\ csp' = g /\ armed' = armed /\ done' = done
  <2>1. f = HandleCell(end["SSP"], Head(end[Peer("SSP")].wire), k)
    BY <1>1 DEF cell, csp, ssp
  <2> HIDE DEF f
  <2>2. /\ TypeOK' /\ (\A q \in Role : Keeps(end[q])') /\ ChecksHold'
        /\ Looks(f, end'["SSP"]) /\ armed' = armed
        /\ end'[Peer("SSP")] = [end[Peer("SSP")] EXCEPT !.wire = Tail(end[Peer("SSP")].wire)]
        /\ done' = IF f.notified /\ "SSP" = "CSP" THEN done + 1 ELSE done
    BY <1>1, <1>8, <1>9, <2>1, ReceiveKeeps
  <2>3. ssp' = end'["SSP"] /\ csp' = g
    BY <1>1, <2>2 DEF csp, ssp, g
  <2> QED BY <2>2, <2>3
<1> HIDE DEF f, F
<1>11. /\ ssp'.state = f.state /\ ssp'.stop = f.stop /\ Under(ssp') = Under(ssp)
       /\ csp'.state = csp.state /\ csp'.stop = csp.stop /\ csp'.doneRecv = csp.doneRecv
       /\ csp'.need = csp.need /\ csp'.added = csp.added /\ csp'.outlen = csp.outlen
       /\ Under(csp') = Under(csp) \ F
       /\ \A x : (\A i \in 1..Len(csp.wire) : x \notin csp.wire[i].flags) =>
            \A i \in 1..Len(csp'.wire) : x \notin csp'.wire[i].flags
  BY <1>4, <1>8, <1>10 DEF Looks
<1>12. armed' - done' = armed - done
  BY <1>10
<1>13. CASE F = {}
  <2>1. Under(csp') = Under(csp) /\ ssp'.state = ssp.state /\ ssp'.stop = ssp.stop
    BY <1>8, <1>11, <1>13
  <2>2. Quiet(csp, ssp) => Quiet(csp', ssp')
    BY <1>11, <2>1 DEF Quiet, Says
  <2>3. Armed(csp, ssp) => Armed(csp', ssp')
    BY <1>11, <2>1 DEF Armed, Says
  <2>4. On(csp, ssp) => On(csp', ssp')
    BY <1>11, <2>1 DEF On, Says
  <2>5. Off(csp, ssp) => Off(csp', ssp')
    BY <1>11, <2>1 DEF Off, Says
  <2>6. Moved
    <3>1. armed' - done' <= armed - done
      BY <1>1, <1>10
    <3> QED BY <1>11, <2>1, <3>1 DEF Moved, Move, Stands
  <2> QED BY <1>10, <1>12, <2>2, <2>3, <2>4, <2>5, <2>6 DEF IInv, Phase
<1>14. CASE F = {"START"}
  <2>1. /\ ssp'.state = "ACTIVE" /\ ~ssp'.stop /\ Under(csp') = Under(csp) \ {"START"}
        /\ armed - done = 1 /\ (On(csp, ssp) \/ Off(csp, ssp)) /\ "START" \in Under(csp)
    BY <1>6, <1>8, <1>11, <1>14 DEF IInv, Phase, Quiet, Armed
  <2>2. On(csp, ssp) => On(csp', ssp')
    BY <1>11, <2>1 DEF On, Says
  <2>3. Off(csp, ssp) => Off(csp', ssp')
    BY <1>11, <2>1 DEF Off, Says
  <2>4. Moved
    BY <1>6, <1>11, <1>12, <1>14, <2>1 DEF Moved, Move, Stands
  <2> QED BY <1>10, <1>12, <2>1, <2>2, <2>3, <2>4 DEF IInv, Phase
<1>15. CASE F = {"STOP"}
  <2>1. /\ ssp'.state = ssp.state /\ (ssp'.stop <=> ssp.state = "ACTIVE")
        /\ Under(csp') = {} /\ armed - done = 1 /\ Off(csp, ssp) /\ Under(csp) = {"STOP"}
    BY <1>7, <1>8, <1>11, <1>15
  <2>2. Off(csp', ssp')
    BY <1>11, <2>1 DEF Off, Says
  <2>3. Moved
    <3> SUFFICES ASSUME "SSP" \notin MayExpire
                 PROVE  Move(csp, ssp, armed - done, csp', ssp', armed' - done')
      BY DEF Moved
    <3>1. ssp.state = "ACTIVE" /\ ~ssp.stop
      BY <2>1 DEF Off, Says
    <3> QED BY <1>11, <1>12, <2>1, <3>1 DEF Move, Stands
  <2> QED BY <1>10, <1>12, <2>1, <2>2, <2>3 DEF IInv, Phase
<1> QED BY <1>5, <1>13, <1>14, <1>15 DEF F

(* The client reads: an AUTO_STOPPED makes it ask again, if it still wants  *)
(* the server; a DONE ends the session if its own defense is over.          *)
LEMMA ClientReceivesInv ==
  ASSUME IInv, Discipline = Rule, NEW k \in PumpSizes \cup {-1}, ReceiveCell("CSP", k)
  PROVE  IInv' /\ Moved
<1> DEFINE cell == Head(ssp.wire)
           f == HandleCell(csp, cell, k)
           F == cell.flags
           g == [ssp EXCEPT !.wire = Tail(ssp.wire)]
           again == F = {"AUTO_STOPPED"} /\ csp.state = "ACTIVE" /\ ~csp.stop
<1>1. /\ Keeps(ssp) /\ Keeps(csp) /\ ssp.role = "SSP" /\ csp.role = "CSP"
      /\ "CSP" \in Role /\ "SSP" \in Role /\ armed \in Nat /\ done \in Nat
      /\ Peer("CSP") = "SSP" /\ FlagsFit(csp)
  BY EndFacts DEF IInv, csp, ssp, Role, Peer
<1>2. csp.status = "up" /\ ssp.wire # << >>
  BY <1>1 DEF ReceiveCell, Up, csp, ssp
<1>3. k \in Int /\ (k >= 0 /\ csp.state = "PENDING" => csp.added = 0 /\ k > 0)
  BY <1>1, DefenseAssumption DEF ReceiveCell, PumpRespects, Respects, Rule
<1>4. /\ Keeps(g) /\ cell \in Cell
      /\ g.role = ssp.role /\ g.status = ssp.status /\ g.state = ssp.state
      /\ g.stop = ssp.stop /\ g.doneRecv = ssp.doneRecv /\ g.need = ssp.need
      /\ F \subseteq Under(ssp) /\ Under(g) = Under(ssp) \ F
  BY <1>1, <1>2, CellTaken
<1> HIDE DEF g, cell
<1>5. F \in {{}, {"AUTO_STOPPED"}, {"DONE"}}
  <2>1. Under(ssp) \in {{}, {"AUTO_STOPPED"}, {"DONE"}}
    BY DEF IInv, Phase, Quiet, Armed, On, Off, Says
  <2> QED BY <1>4, <2>1
<1>6. F # {} => csp.state # "PENDING" /\ armed - done = 1
  BY <1>4 DEF IInv, Phase, Quiet, Armed, On, Off, Says
<1>7. again => /\ On(csp, ssp) /\ ssp.state = "NONE" /\ "SSP" \in MayExpire
               /\ Says(csp, ssp, {}, {"AUTO_STOPPED"})
  BY <1>4 DEF IInv, Phase, Quiet, Armed, On, Off, Says
<1>8. F = {"DONE"} => /\ Off(csp, ssp) /\ ssp.state = "NONE" /\ ~csp.doneRecv
                      /\ Says(csp, ssp, {}, {"DONE"})
  BY <1>4 DEF IInv, Phase, Quiet, Armed, On, Off, Says
<1>9. /\ f.role = "CSP" /\ f.status = "up" /\ f.state = csp.state
      /\ f.stop = csp.stop /\ f.wire = csp.wire /\ Tidy(f)
      /\ IF again THEN Under(f) = {"START"}
         ELSE Under(f) = Under(csp) /\ f.need \in {{}, csp.need}
      /\ IF F = {"DONE"} THEN f.doneRecv /\ f.notified = (csp.state = "NONE")
         ELSE f.doneRecv = csp.doneRecv /\ ~f.notified
      /\ csp.state = "PENDING" =>
           \/ f.added = csp.added /\ f.outlen = csp.outlen
           \/ csp.added = 0 /\ f.added = 1 /\ f.need = {} /\ f.outlen =
                IF csp.dummy THEN csp.outlen ELSE csp.outlen + CellSize
  <2>1. F = {"AUTO_STOPPED"} /\ csp.state = "ACTIVE" /\ ~csp.stop => Under(csp) = {}
    BY <1>7 DEF Says
  <2>2. Sound(csp) /\ Tidy(csp) /\ ~csp.notified
    BY <1>1 DEF Keeps
  <2>3. /\ f.role = csp.role /\ f.status = csp.status /\ f.state = csp.state
        /\ f.stop = csp.stop /\ f.wire = csp.wire /\ Tidy(f)
        /\ IF F = {"AUTO_STOPPED"} /\ csp.state = "ACTIVE" /\ ~csp.stop
           THEN Under(f) = {"START"}
           ELSE Under(f) = Under(csp) /\ f.need \in {{}, csp.need}
        /\ IF F = {"DONE"}
           THEN f.doneRecv /\ f.notified = (csp.notified \/ csp.state = "NONE")
           ELSE f.doneRecv = csp.doneRecv /\ f.notified = csp.notified
        /\ csp.state = "PENDING" =>
             \/ f.added = csp.added /\ f.outlen = csp.outlen
             \/ csp.added = 0 /\ f.added = 1 /\ f.need = {} /\ f.outlen =
                  IF csp.dummy THEN csp.outlen ELSE csp.outlen + CellSize
    BY <1>1, <1>3, <1>5, <1>6, <2>1, <2>2, ClientReads
  <2> HIDE DEF f, F
  <2> QED BY <1>1, <1>2, <2>2, <2>3
<1>10. Sound(f) /\ Watched(f)
  BY <1>1, <1>3, <1>4, HandleCellSound, HandleCellWatched DEF Keeps, Wakes
<1>11. /\ TypeOK' /\ (\A q \in Role : Keeps(end[q])') /\ ChecksHold'
       /\ Looks(f, csp') /\ csp'.added = f.added /\ csp'.outlen = f.outlen
       /\ csp'.wire = f.wire /\ ssp' = g /\ armed' = armed
       /\ done' = done + (IF f.notified THEN 1 ELSE 0)
  <2>1. f = HandleCell(end["CSP"], Head(end[Peer("CSP")].wire), k)
    BY <1>1 DEF cell, csp, ssp
  <2> HIDE DEF f
  <2>2. /\ TypeOK' /\ (\A q \in Role : Keeps(end[q])') /\ ChecksHold'
        /\ Looks(f, end'["CSP"]) /\ end'["CSP"].added = f.added
        /\ end'["CSP"].outlen = f.outlen /\ end'["CSP"].wire = f.wire /\ armed' = armed
        /\ end'[Peer("CSP")] = [end[Peer("CSP")] EXCEPT !.wire = Tail(end[Peer("CSP")].wire)]
        /\ done' = IF f.notified /\ "CSP" = "CSP" THEN done + 1 ELSE done
    <3>1. f.role = "CSP" /\ f.status = "up" /\ Tidy(f) /\ "CSP" \in Role
      BY <1>1, <1>9
    <3> QED BY <1>10, <2>1, <3>1, ReceiveKeeps
  <2>3. done' = done + (IF f.notified THEN 1 ELSE 0)
    BY <1>1, <2>2
  <2>4. csp' = end'["CSP"] /\ ssp' = g
    BY <1>1, <2>2 DEF csp, ssp, g
  <2> QED BY <2>2, <2>3, <2>4
<1> HIDE DEF f
<1>12. CASE F = {}
  <2>1. Looks(csp, csp') /\ Looks(ssp, ssp') /\ done' = done
    <3>1. Looks(csp, f)
      BY <1>1, <1>9, <1>12 DEF Looks
    <3>2. Looks(ssp, ssp')
      BY <1>4, <1>11, <1>12 DEF Looks
    <3>3. done' = done
      BY <1>1, <1>9, <1>11, <1>12
    <3> QED BY <1>11, <3>1, <3>2, <3>3 DEF Looks
  <2>2. csp.state = "PENDING" => Armed(csp', ssp')
    <3> SUFFICES ASSUME csp.state = "PENDING" PROVE Armed(csp', ssp')
      OBVIOUS
    <3>1. Armed(csp, ssp)
      BY EndFacts
    <3>2. \/ csp'.added = 0 /\ csp'.outlen = 0
          \/ csp'.added = 1 /\ csp'.outlen = CellSize /\ csp'.need = {}
      <4>1. CASE f.added = csp.added /\ f.outlen = csp.outlen
        BY <1>11, <2>1, <3>1, <4>1 DEF Armed, Looks
      <4>2. CASE csp.added = 0 /\ f.added = 1 /\ f.need = {} /\ f.outlen =
                   IF csp.dummy THEN csp.outlen ELSE csp.outlen + CellSize
        <5>1. csp.outlen = 0 /\ CellSize \in Nat \ {0}
          BY <3>1, <4>2, CellAssumption DEF Armed
        <5>2. ~csp.dummy
          BY <1>1, <5>1, DummyBytes DEF Keeps
        <5> QED BY <1>11, <4>2, <5>1, <5>2 DEF Looks
      <4> QED BY <1>9, <4>1, <4>2
    <3>3. csp'.wire = csp.wire
      BY <1>9, <1>11
    <3> QED BY <2>1, <3>1, <3>2, <3>3 DEF Armed, Looks, Says
  <2>3. Phase(csp', ssp', armed' - done')
    <3> DEFINE n == armed - done
    <3>1. Phase(csp, ssp, n) /\ armed' - done' = n
      BY <1>11, <2>1 DEF IInv
    <3> HIDE DEF n
    <3> QED BY <2>1, <2>2, <3>1, LooksPhase
  <2>4. Moved
    BY <1>1, <1>11, <2>1, LooksMoved
  <2> QED BY <1>11, <2>3, <2>4 DEF IInv
<1>13. CASE again
  <2>1. On(csp', ssp')
    <3>1. Under(ssp') = {} /\ ssp'.state = "NONE"
      BY <1>4, <1>7, <1>11, <1>13 DEF Says
    <3>2. /\ Under(csp') = {"START"} /\ csp'.state = "ACTIVE" /\ ~csp'.stop
          /\ csp'.doneRecv = csp.doneRecv
      BY <1>9, <1>11, <1>13 DEF Looks
    <3> QED BY <1>7, <1>13, <3>1, <3>2 DEF On, Says
  <2>2. armed' - done' = 1
    BY <1>1, <1>6, <1>9, <1>11, <1>13
  <2> QED BY <1>7, <1>11, <1>13, <2>1, <2>2 DEF IInv, Phase, Moved
<1>14. CASE F = {"AUTO_STOPPED"} /\ ~again
  <2>1. Off(csp, ssp) /\ "AUTO_STOPPED" \in Under(ssp)
    BY <1>4, <1>6, <1>14 DEF IInv, Phase, Quiet, Armed, On, Says
  <2>2. "SSP" \in MayExpire
    BY <2>1 DEF Off, Says
  <2>3. /\ Under(csp') = Under(csp) /\ csp'.state = csp.state /\ csp'.stop = csp.stop
        /\ csp'.doneRecv = csp.doneRecv /\ csp'.need \in {{}, csp.need}
    BY <1>9, <1>11, <1>14 DEF Looks
  <2>4. Under(ssp') = Under(ssp) \ {"AUTO_STOPPED"} /\ ssp'.state = ssp.state
    BY <1>4, <1>11, <1>14
  <2>5. Off(csp', ssp')
    BY <2>1, <2>3, <2>4 DEF Off, Says
  <2>6. armed' - done' = 1
    BY <1>1, <1>6, <1>9, <1>11, <1>14
  <2> QED BY <1>11, <2>5, <2>6, <2>2 DEF IInv, Phase, Moved
<1>15. CASE F = {"DONE"}
  <2>1. /\ Under(csp') = {} /\ csp'.state = csp.state /\ csp'.stop = csp.stop
        /\ csp'.doneRecv /\ csp'.need \in {{}, csp.need}
    BY <1>8, <1>9, <1>11, <1>15 DEF Looks, Says
  <2>2. Under(ssp') = {} /\ ssp'.state = "NONE"
    BY <1>4, <1>8, <1>11, <1>15 DEF Says
  <2>3. Moved
    <3>1. armed' - done' <= armed - done
      BY <1>1, <1>11
    <3>2. Stands(csp, csp') /\ Stands(ssp, ssp') /\ Under(csp) = {}
      BY <1>4, <1>8, <1>11, <1>15, <2>1 DEF Stands, Says
    <3> QED BY <2>1, <3>1, <3>2 DEF Moved, Move
  <2>4. CASE csp.state = "NONE"
    <3>1. Quiet(csp', ssp')
      BY <2>1, <2>2, <2>4 DEF Quiet, Says
    <3>2. f.notified
      BY <1>9, <1>15, <2>4
    <3>3. armed' - done' = 0
      BY <1>1, <1>6, <1>11, <1>15, <3>2
    <3> QED BY <1>11, <2>3, <3>1, <3>3 DEF IInv, Phase
  <2>5. CASE csp.state # "NONE"
    <3>1. Off(csp', ssp')
      BY <1>8, <1>15, <2>1, <2>2, <2>5 DEF Off, Says
    <3>2. ~f.notified
      BY <1>9, <1>15, <2>5
    <3>3. armed' - done' = 1
      BY <1>1, <1>6, <1>11, <1>15, <3>2
    <3> QED BY <1>11, <2>3, <3>1, <3>3 DEF IInv, Phase
  <2> QED BY <2>4, <2>5
<1> QED BY <1>5, <1>12, <1>13, <1>14, <1>15

(* Every step keeps the invariant.                                          *)
LEMMA NextInv ==
  ASSUME IInv, Discipline = Rule, [Next]_vars
  PROVE  IInv' /\ Moved
<1>1. ASSUME NEW r \in Role, NEW k \in PumpSizes, OwnerSends(r, k) PROVE IInv' /\ Moved
  BY <1>1, OwnerSendsInv
<1>2. CASE OwnerArms
  BY <1>2, OwnerArmsInv
<1>3. CASE OwnerStops
  BY <1>3, OwnerStopsInv
<1>4. ASSUME NEW r \in Role, Ticks(r, Sizes) PROVE IInv' /\ Moved
  <2>1. PICK expired \in BOOLEAN, k \in PumpSizes, n \in Sizes : TimerFires(r, expired, k, n)
    BY <1>4 DEF Ticks
  <2> QED BY <2>1, TimerFiresInv
<1>5. ASSUME NEW r \in Role, Writes(r, Sizes) PROVE IInv' /\ Moved
  <2>1. PICK n \in Sizes : SocketBecomesWritable(r, n)
    BY <1>5 DEF Writes
  <2> QED BY <2>1, SocketBecomesWritableInv
<1>6. ASSUME NEW r \in Role, Receives(r) PROVE IInv' /\ Moved
  <2>1. PICK k \in PumpSizes \cup {-1} : ReceiveCell(r, k)
    BY <1>6 DEF Receives
  <2>2. CASE r = "CSP"
    BY <2>1, <2>2, ClientReceivesInv
  <2>3. CASE r = "SSP"
    BY <2>1, <2>3, ServerReceivesInv
  <2> QED BY <2>2, <2>3 DEF Role
<1>7. CASE ConnectionBreaks
  BY <1>7, ConnectionBreaksInv
<1>8. CASE UNCHANGED vars
  <2>1. end' = end /\ armed' = armed /\ done' = done
    BY <1>8 DEF vars
  <2>2. csp' = csp /\ ssp' = ssp
    BY <2>1 DEF csp, ssp
  <2>3. TypeOK' /\ ChecksHold' /\ \A r \in Role : Keeps(end'[r])
    BY <2>1 DEF IInv, TypeOK, ChecksHold
  <2>4. Phase(csp', ssp', armed' - done')
    BY <2>1, <2>2 DEF IInv
  <2>5. Moved
    <3>1. Looks(csp, csp') /\ Looks(ssp, ssp')
      BY <2>2 DEF Looks
    <3> QED BY <2>1, <3>1, LooksMoved DEF IInv, TypeOK
  <2> QED BY <2>3, <2>4, <2>5 DEF IInv
<1> QED BY <1>1, <1>2, <1>3, <1>4, <1>5, <1>6, <1>7, <1>8 DEF Next

-----------------------------------------------------------------------------
(* The flags under way, as the properties write them.                       *)
LEMMA UnderWay ==
  ASSUME IInv, NEW r \in Role
  PROVE  FlagsUnderWay(r) = Under(end[r])
<1> DEFINE e == end[r]
           v == e.wire
           c == e.cells
<1>1. e \in Endpoint
  BY EndFacts
<1>2. v \in Seq(Cell) /\ c \in Seq(Cell)
  BY <1>1 DEF Endpoint
<1>3. FlagsUnderWay(r) = e.need \cup UNION {x.flags : x \in CellsOf(e)}
  BY DEF FlagsUnderWay
<1>4. CellsOf(e) = {c[i] : i \in 1..Len(c)} \cup {v[i] : i \in 1..Len(v)}
  BY DEF CellsOf
<1>5. /\ Len(Line(e)) = Len(v) + Len(c)
      /\ \A i \in 1..(Len(v) + Len(c)) :
           Line(e)[i] = IF i <= Len(v) THEN v[i] ELSE c[i - Len(v)]
  BY <1>1, LineParts
<1>6. Under(e) = InLine(e) \cup e.need
  BY <1>1, UnderSplit
<1> HIDE DEF e, v, c
<1>7. /\ Len(v) \in Nat /\ Len(c) \in Nat
      /\ \A i \in 1..Len(v) : v[i].flags \in SUBSET Flag
      /\ \A i \in 1..Len(c) : c[i].flags \in SUBSET Flag
  <2>1. \A x \in Cell : x.flags \in SUBSET Flag
    BY DEF Cell
  <2> QED BY <1>2, <2>1, LenProperties, ElementOfSeq
<1>8. ASSUME NEW x \in CellsOf(e), NEW F \in x.flags PROVE F \in InLine(e)
  <2>1. CASE x \in {c[i] : i \in 1..Len(c)}
    <3>1. PICK i \in 1..Len(c) : x = c[i]
      BY <2>1
    <3>2. /\ Len(v) + i \in 1..(Len(v) + Len(c)) /\ ~(Len(v) + i <= Len(v))
          /\ (Len(v) + i) - Len(v) = i
      BY <1>7
    <3>3. Line(e)[Len(v) + i] = c[i]
      BY <1>5, <3>2
    <3> QED BY <1>5, <1>7, <1>8, <3>1, <3>2, <3>3 DEF InLine
  <2>2. CASE x \in {v[i] : i \in 1..Len(v)}
    <3>1. PICK i \in 1..Len(v) : x = v[i]
      BY <2>2
    <3>2. i \in 1..(Len(v) + Len(c)) /\ i <= Len(v)
      BY <1>7
    <3>3. Line(e)[i] = v[i]
      BY <1>5, <3>2
    <3> QED BY <1>5, <1>7, <1>8, <3>1, <3>2, <3>3 DEF InLine
  <2> QED BY <1>4, <2>1, <2>2
<1>9. ASSUME NEW F \in InLine(e) PROVE \E x \in CellsOf(e) : F \in x.flags
  <2>1. PICK i \in 1..(Len(v) + Len(c)) : F \in Line(e)[i].flags
    BY <1>5 DEF InLine
  <2>2. CASE i <= Len(v)
    <3>1. i \in 1..Len(v) /\ Line(e)[i] = v[i]
      BY <1>5, <1>7, <2>2
    <3> QED BY <1>4, <2>1, <3>1
  <2>3. CASE ~(i <= Len(v))
    <3>1. i - Len(v) \in 1..Len(c) /\ Line(e)[i] = c[i - Len(v)]
      BY <1>5, <1>7, <2>3
    <3> QED BY <1>4, <2>1, <3>1
  <2> QED BY <2>2, <2>3
<1>10. UNION {x.flags : x \in CellsOf(e)} = InLine(e)
  BY <1>8, <1>9
<1>11. FlagsUnderWay(r) = Under(e)
  BY <1>3, <1>6, <1>10
<1> QED BY <1>11 DEF e

(* The inductive invariant is enough.                                       *)
LEMMA InvSafe ==
  ASSUME IInv
  PROVE  ChecksHold /\ DoneMeansBothDone /\ ServerFollows /\ ReapIsSafe
<1>1. FlagsUnderWay("CSP") = Under(csp) /\ FlagsUnderWay("SSP") = Under(ssp)
  BY UnderWay DEF Role, csp, ssp
<1>2. ChecksHold
  BY DEF IInv
<1>3. Phase(csp, ssp, armed - done) /\ armed \in Nat /\ done \in Nat
  BY DEF IInv, TypeOK
<1>4. DoneMeansBothDone
  <2> SUFFICES ASSUME ~Outstanding
               PROVE  \A r \in Role : end[r].state = "NONE" /\ FlagsUnderWay(r) = {}
    BY DEF DoneMeansBothDone
  <2>1. armed - done # 1
    BY <1>3 DEF Outstanding
  <2>2. Quiet(csp, ssp)
    BY <1>3, <2>1 DEF Phase
  <2> QED BY <1>1, <2>2 DEF Quiet, Says, csp, ssp, Role
<1>5. ServerFollowsStart
  <2> SUFFICES ASSUME csp.state = "ACTIVE", ~csp.stop, ssp.state # "ACTIVE"
               PROVE  "START" \in Under(csp) \/ "AUTO_STOPPED" \in Under(ssp)
    BY <1>1 DEF ServerFollowsStart
  <2>1. On(csp, ssp)
    BY <1>3 DEF Phase, Quiet, Armed, Off
  <2> QED BY <2>1 DEF On, Says
<1>6. ServerFollowsStop
  <2> SUFFICES ASSUME csp.state = "NONE", ssp.state = "ACTIVE"
               PROVE  ssp.stop \/ "STOP" \in Under(csp)
    BY <1>1 DEF ServerFollowsStop
  <2>1. Off(csp, ssp)
    BY <1>3 DEF Phase, Quiet, Armed, On
  <2> QED BY <2>1 DEF Off, Says
<1>7. ReapIsSafe
  <2> SUFFICES ASSUME csp.state # "ACTIVE", csp.doneRecv
               PROVE  ssp.state = "NONE" /\ Under(ssp) = {}
    BY <1>1 DEF ReapIsSafe, IsDefenseInProgress
  <2>1. Quiet(csp, ssp) \/ Armed(csp, ssp)
    BY <1>3 DEF Phase, On, Off
  <2> QED BY <2>1 DEF Quiet, Armed, Says
<1> QED BY <1>2, <1>4, <1>5, <1>6, <1>7 DEF ServerFollows

(* The phases hold throughout, whichever time limits may pass, if the owner *)
(* of the client respects what the CHECKs of the source assume.             *)
THEOREM DefenseInv ==
  ASSUME Discipline = Rule
  PROVE  Spec => []IInv
<1>1. Init => IInv
  BY InitInv
<1>2. IInv /\ [Next]_vars => IInv'
  BY NextInv
<1> QED BY <1>1, <1>2, PTL DEF Spec

(* No CHECK and no LOG(FATAL) of the channel ends a process, but for the    *)
(* client's time limit when that may pass.                                  *)
THEOREM DefensePassesChecks ==
  ASSUME Discipline = Rule
  PROVE  Spec => []ChecksHold
<1>1. IInv => ChecksHold
  BY InvSafe
<1> QED BY <1>1, DefenseInv, PTL

(* A_DEFENSE_SESSION_DONE means what its comment says: once the client has  *)
(* been told of every session, neither end defends and no flag is under way *)
(* that could start or stop a defense.                                      *)
THEOREM DoneIsMutual ==
  ASSUME Discipline = Rule
  PROVE  Spec => []DoneMeansBothDone
<1>1. IInv => DoneMeansBothDone
  BY InvSafe
<1> QED BY <1>1, DefenseInv, PTL

(* No flag the server needs is lost in a dropped dummy, in a reset or in    *)
(* the flush that ends a session: it follows the client on and off.         *)
THEOREM ServerAlwaysFollows ==
  ASSUME Discipline = Rule
  PROVE  Spec => []ServerFollows
<1>1. IInv => ServerFollows
  BY InvSafe
<1> QED BY <1>1, DefenseInv, PTL

(* is_defense_in_progress() and has_pending_bytes() of the client tell the  *)
(* reaper of csp.cpp enough: it replaces no channel whose server is still   *)
(* in a session.                                                            *)
THEOREM ReapIsAlwaysSafe ==
  ASSUME Discipline = Rule
  PROVE  Spec => []ReapIsSafe
<1>1. IInv => ReapIsSafe
  BY InvSafe
<1> QED BY <1>1, DefenseInv, PTL

-----------------------------------------------------------------------------
(* What the two ends show of a session when no server stops on its own.     *)
Shows ==
  /\ armed - done = 0 => ClientPhase = "idle" /\ ServerPhase = "idle"
  /\ armed - done = 1 =>
       /\ ClientPhase = CASE csp.state = "PENDING" -> "armed"
                          [] csp.state = "ACTIVE" -> IF csp.stop THEN "stopping" ELSE "on"
                          [] OTHER -> "off"
       /\ ServerPhase = IF ssp.state = "ACTIVE"
                        THEN IF ssp.stop THEN "stopping" ELSE "on"
                        ELSE IF "START" \in Under(csp) THEN "idle" ELSE "off"

LEMMA InvShows ==
  ASSUME IInv, "SSP" \notin MayExpire
  PROVE  Shows
<1>1. FlagsUnderWay("CSP") = Under(csp) /\ FlagsUnderWay("SSP") = Under(ssp)
  BY UnderWay DEF Role, csp, ssp
<1>2. Phase(csp, ssp, armed - done) /\ armed \in Nat /\ done \in Nat /\ csp \in Endpoint
  BY EndFacts DEF IInv, csp
<1>3. armed - done = 0 => ~Outstanding
  BY <1>2 DEF Outstanding
<1>4. armed - done = 1 => Outstanding
  BY <1>2 DEF Outstanding
<1>5. armed - done = 0 => ClientPhase = "idle" /\ ServerPhase = "idle"
  BY <1>3 DEF ClientPhase, ServerPhase
<1>6. csp.state \in {"NONE", "PENDING", "ACTIVE"}
  BY <1>2 DEF Endpoint, DefenseState
<1>7. ASSUME armed - done = 1
      PROVE  ClientPhase = CASE csp.state = "PENDING" -> "armed"
                             [] csp.state = "ACTIVE" -> IF csp.stop THEN "stopping" ELSE "on"
                             [] OTHER -> "off"
  BY <1>4, <1>6, <1>7 DEF ClientPhase
<1>8. ASSUME armed - done = 1, ssp.state # "ACTIVE"
      PROVE  ServerHasFinished <=> "START" \notin Under(csp)
  <2>1. Armed(csp, ssp) \/ On(csp, ssp) \/ Off(csp, ssp)
    BY <1>2, <1>8 DEF Phase
  <2>2. ServerHasFinished <=>
          "DONE" \in Under(ssp) \/ (csp.state # "PENDING" /\ csp.doneRecv)
    BY <1>1 DEF ServerHasFinished
  <2>3. Armed(csp, ssp) => ~ServerHasFinished /\ "START" \in Under(csp)
    BY <2>2 DEF Armed, Says
  <2>4. On(csp, ssp) => ~ServerHasFinished /\ "START" \in Under(csp)
    BY <1>8, <2>2 DEF On, Says
  <2>5. Off(csp, ssp) => (ServerHasFinished <=> "START" \notin Under(csp))
    BY <1>8, <2>2 DEF Off, Says
  <2> QED BY <2>1, <2>3, <2>4, <2>5
<1>9. ASSUME armed - done = 1
      PROVE  ServerPhase = IF ssp.state = "ACTIVE"
                           THEN IF ssp.stop THEN "stopping" ELSE "on"
                           ELSE IF "START" \in Under(csp) THEN "idle" ELSE "off"
  BY <1>4, <1>8, <1>9 DEF ServerPhase
<1> QED BY <1>5, <1>7, <1>9 DEF Shows

(* Seen through the phases, a step is one of DefenseSession or none.        *)
LEMMA StepShows ==
  ASSUME IInv, IInv', Shows, Shows', Moved, "SSP" \notin MayExpire
  PROVE  [Session!Next]_<< ClientPhase, ServerPhase >>
<1> DEFINE n == armed - done
           n2 == armed' - done'
<1>1. Phase(csp, ssp, n) /\ Phase(csp', ssp', n2)
  BY DEF IInv
<1>2. Move(csp, ssp, n, csp', ssp', n2)
  BY DEF Moved
<1>3. /\ n = 0 => ClientPhase = "idle" /\ ServerPhase = "idle"
      /\ n = 1 =>
           /\ ClientPhase = CASE csp.state = "PENDING" -> "armed"
                              [] csp.state = "ACTIVE" -> IF csp.stop THEN "stopping" ELSE "on"
                              [] OTHER -> "off"
           /\ ServerPhase = IF ssp.state = "ACTIVE"
                            THEN IF ssp.stop THEN "stopping" ELSE "on"
                            ELSE IF "START" \in Under(csp) THEN "idle" ELSE "off"
  BY DEF Shows
<1>4. /\ n2 = 0 => ClientPhase' = "idle" /\ ServerPhase' = "idle"
      /\ n2 = 1 =>
           /\ ClientPhase' = CASE csp'.state = "PENDING" -> "armed"
                               [] csp'.state = "ACTIVE" -> IF csp'.stop THEN "stopping" ELSE "on"
                               [] OTHER -> "off"
           /\ ServerPhase' = IF ssp'.state = "ACTIVE"
                             THEN IF ssp'.stop THEN "stopping" ELSE "on"
                             ELSE IF "START" \in Under(csp') THEN "idle" ELSE "off"
  BY DEF Shows
<1>5. n \in {0, 1} /\ n2 \in {0, 1}
  BY <1>1 DEF Phase
<1> HIDE DEF n, n2
<1>6. /\ n = 0 => Quiet(csp, ssp)
      /\ n2 = 0 => Quiet(csp', ssp')
      /\ n2 = 1 => Armed(csp', ssp') \/ On(csp', ssp') \/ Off(csp', ssp')
      /\ n = 1 => Armed(csp, ssp) \/ On(csp, ssp) \/ Off(csp, ssp)
  BY <1>1 DEF Phase
<1>7. CASE n2 = n + 1 /\ csp.state = "NONE" /\ csp'.state = "PENDING" /\ Stands(ssp, ssp')
  <2>1. n = 0 /\ n2 = 1
    BY <1>5, <1>7
  <2>2. ssp'.state = "NONE" /\ "START" \in Under(csp')
    BY <1>6, <1>7, <2>1 DEF Quiet, Armed, On, Off, Says, Stands
  <2>3. Session!Arm
    BY <1>3, <1>4, <1>7, <2>1, <2>2 DEF Session!Arm
  <2> QED BY <2>3 DEF Session!Next
<1>8. CASE /\ n2 <= n /\ Stands(ssp, ssp')
           /\ "START" \in Under(csp') <=> "START" \in Under(csp)
           /\ \/ Stands(csp, csp')
              \/ csp.state = "PENDING" /\ csp'.state = "ACTIVE" /\ ~csp'.stop
              \/ csp.state = "ACTIVE" /\ ~csp.stop /\ csp'.state = "ACTIVE" /\ csp'.stop
              \/ csp.state = "ACTIVE" /\ csp.stop /\ csp'.state = "NONE"
  <2>1. CASE n = 0
    <3>1. n2 = 0
      BY <1>5, <1>8, <2>1
    <3> QED BY <1>3, <1>4, <2>1, <3>1
  <2>2. CASE n = 1 /\ n2 = 1
    <3>1. ServerPhase' = ServerPhase
      BY <1>3, <1>4, <1>8, <2>2 DEF Stands
    <3>2. CASE Stands(csp, csp')
      <4>1. ClientPhase' = ClientPhase
        BY <1>3, <1>4, <2>2, <3>2 DEF Stands
      <4> QED BY <3>1, <4>1
    <3>3. CASE csp.state = "PENDING" /\ csp'.state = "ACTIVE" /\ ~csp'.stop
      <4>1. Session!ClientStarts
        BY <1>3, <1>4, <2>2, <3>1, <3>3 DEF Session!ClientStarts
      <4> QED BY <4>1 DEF Session!Next
    <3>4. CASE csp.state = "ACTIVE" /\ ~csp.stop /\ csp'.state = "ACTIVE" /\ csp'.stop
      <4>1. Session!ClientStops
        BY <1>3, <1>4, <2>2, <3>1, <3>4 DEF Session!ClientStops
      <4> QED BY <4>1 DEF Session!Next
    <3>5. CASE csp.state = "ACTIVE" /\ csp.stop /\ csp'.state = "NONE"
      <4>1. Session!ClientFinishes
        BY <1>3, <1>4, <2>2, <3>1, <3>5 DEF Session!ClientFinishes
      <4> QED BY <4>1 DEF Session!Next
    <3> QED BY <1>8, <3>2, <3>3, <3>4, <3>5
  <2>3. CASE n = 1 /\ n2 = 0
    <3>1. csp'.state = "NONE" /\ ssp.state = "NONE" /\ "START" \notin Under(csp)
      BY <1>6, <1>8, <2>3 DEF Quiet, Says, Stands
    <3>2. ClientPhase \in {"stopping", "off"} /\ ServerPhase = "off"
      BY <1>3, <1>8, <2>3, <3>1 DEF Stands
    <3>3. Session!SessionDone
      BY <1>4, <2>3, <3>2 DEF Session!SessionDone
    <3> QED BY <3>3 DEF Session!Next
  <2> QED BY <1>5, <2>1, <2>2, <2>3
<1>9. CASE /\ n2 = n /\ Stands(csp, csp')
           /\ ssp.state = "NONE" /\ ssp'.state = "ACTIVE" /\ ~ssp'.stop /\ "START" \in Under(csp)
  <2>1. n = 1 /\ n2 = 1 /\ csp'.state # "PENDING"
    BY <1>5, <1>6, <1>9 DEF Quiet, Armed, On, Off
  <2>2. ClientPhase \in {"on", "stopping", "off"} /\ ClientPhase' = ClientPhase
    BY <1>3, <1>4, <1>9, <2>1 DEF Stands
  <2>3. Session!ServerStarts
    BY <1>3, <1>4, <1>9, <2>1, <2>2 DEF Session!ServerStarts
  <2> QED BY <2>3 DEF Session!Next
<1>10. CASE /\ n2 = n /\ Stands(csp, csp')
            /\ ssp.state = "ACTIVE" /\ ~ssp.stop /\ ssp'.state = "ACTIVE" /\ ssp'.stop
  <2>1. n = 1 /\ n2 = 1
    BY <1>5, <1>6, <1>10 DEF Quiet
  <2>2. csp'.state = "NONE" \/ (csp'.state = "ACTIVE" /\ csp'.stop)
    BY <1>6, <1>10, <2>1 DEF Armed, On, Off
  <2>3. ClientPhase \in {"stopping", "off"} /\ ClientPhase' = ClientPhase
    BY <1>3, <1>4, <1>10, <2>1, <2>2 DEF Stands
  <2>4. Session!ServerStops
    BY <1>3, <1>4, <1>10, <2>1, <2>3 DEF Session!ServerStops
  <2> QED BY <2>4 DEF Session!Next
<1>11. CASE /\ n2 = n /\ Stands(csp, csp')
            /\ "START" \in Under(csp') <=> "START" \in Under(csp)
            /\ ssp.state = "ACTIVE" /\ ssp.stop /\ ssp'.state = "NONE"
  <2>1. n = 1 /\ n2 = 1
    BY <1>5, <1>6, <1>11 DEF Quiet
  <2>2. "START" \notin Under(csp')
    BY <1>6, <1>11, <2>1 DEF Armed, On, Off, Says
  <2>3. ClientPhase' = ClientPhase
    BY <1>3, <1>4, <1>11, <2>1 DEF Stands
  <2>4. Session!ServerFinishes
    BY <1>3, <1>4, <1>11, <2>1, <2>2, <2>3 DEF Session!ServerFinishes
  <2> QED BY <2>4 DEF Session!Next
<1> QED BY <1>2, <1>7, <1>8, <1>9, <1>10, <1>11 DEF Move

(* When the server's time limit never passes, the cells, flags and resets   *)
(* of the two ends implement DefenseSession: the server starts and stops    *)
(* once in a session, after the client, and the owner of the client is told *)
(* when, and only when, both have finished.                                 *)
THEOREM DefenseRefinesSession ==
  ASSUME Discipline = Rule, "SSP" \notin MayExpire
  PROVE  Spec => ImplementsSession
<1>1. IInv => Shows
  BY InvShows
<1>2. IInv /\ [Next]_vars => Moved
  BY NextInv
<1>3. IInv /\ IInv' /\ Shows /\ Shows' /\ Moved =>
        [Session!Next]_<< ClientPhase, ServerPhase >>
  BY StepShows
<1>4. Init => Session!Init
  <2> SUFFICES ASSUME Init PROVE Session!Init
    OBVIOUS
  <2>1. ~Outstanding
    BY DEF Init, Outstanding
  <2> QED BY <2>1 DEF Session!Init, ClientPhase, ServerPhase
<1>5. Spec => []IInv
  BY DefenseInv
<1>6. [Session!Next]_<< ClientPhase, ServerPhase >> <=> [Session!Next]_(Session!vars)
  BY DEF Session!vars
<1> QED BY <1>1, <1>2, <1>3, <1>4, <1>5, <1>6, PTL DEF Spec, ImplementsSession, Session!Spec

=============================================================================
