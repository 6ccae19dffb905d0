--------------------------- MODULE WebEngineProofs ---------------------------
(***************************************************************************)
(* The web engine, for any page, any limit of a pump and any size of the   *)
(* document's messages: requests are counted exactly, scripts run in the   *)
(* order of the document, PageLoaded is sent when all there is to wait for *)
(* has ended, and the driver sees the protocol of a renderer.              *)
(*                                                                         *)
(* The argument.  A handler is made of steps that each take the engine     *)
(* from one steady state to another: what is out, what is counted and what *)
(* is loading agree (Fetches); the parser, the elements it has added and   *)
(* the script it waits for agree (Reading, Asked, Watched); and of the     *)
(* scripts it has come to all but that one have run (RanBut).  So Steady   *)
(* is shown of LoadAll, of a script's scope, of one turn of the parsing    *)
(* loop and with it of a pump, of one client that is told and with it of   *)
(* all of them in any order, and only then of the handlers.  While a       *)
(* resource finishes one count is still to be taken off (Ending), and      *)
(* while an element is added its script is neither run nor waited for      *)
(* (Placed).                                                               *)
(***************************************************************************)
EXTENDS WebEngine, FiniteSetTheorems, NaturalsInduction, WellFoundedInduction, TLAPS

(* Why the process ends, if it does.                                       *)
Deaths == {"no", "script not ready", "blocked at end", "no blocking script",
           "script failed", "finish CHECK"}

(* The engine as a record; every handler takes one to another.             *)
Engine ==
  [state : {"IDLE", "PAGE_LOADING"}, model : BOOLEAN,
   loading : SUBSET Res, finished : SUBSET Res, left : [Res -> Nat],
   errored : SUBSET Res, pending : SUBSET (Nat \X Res), count : Nat,
   recvd : Nat, parsed : Nat, scanned : Nat, eof : BOOLEAN, next : Nat,
   block : Nat, watch : SUBSET Res, delayed : BOOLEAN, resume : BOOLEAN,
   done : BOOLEAN, sheets : SUBSET (Elem \cup Page.sheets), exec : BOOLEAN,
   check : BOOLEAN, sched : BOOLEAN, timers : SUBSET Elem, ran : Seq(Elem),
   loaded : BOOLEAN,
   died : Deaths]

(* Requests of load l: one is out for each resource that is loading and    *)
(* has not failed, and those the load event waits for are counted, with k  *)
(* still to be taken off.                                                  *)
Fetches(v, l, k) ==
  /\ v.loading \cap v.finished = {} /\ v.errored \subseteq v.loading
  /\ v.pending = {<< l, r >> : r \in v.loading \ v.errored}
  /\ v.count = Cardinality((v.loading \cap Page.checked) \ v.errored) + k

(* How far the document is received and parsed.                            *)
Reading(v) ==
  /\ v.parsed <= v.recvd /\ v.scanned <= v.recvd /\ v.recvd <= Page.size
  /\ v.next \in 1..(Len(Page.elems) + 1)
  /\ v.block # 0 => v.block = v.next - 1 /\ v.block \in Scripts
  /\ \A i \in Elem : i >= v.next => Page.elems[i].at >= v.parsed
  /\ v.eof => v.recvd = Page.size /\ Main \in v.finished
  /\ v.delayed => v.eof
  /\ v.done => v.eof /\ v.parsed = Page.size /\ v.block = 0
  /\ v.loaded => v.done

(* What the elements parsed so far refer to has been asked for.            *)
Asked(v) ==
  /\ \A i \in Elem : i < v.next /\ ResOf(i) \in Res => ResOf(i) \in v.loading \cup v.finished
  /\ v.watch \subseteq v.loading \cup v.finished
  /\ v.loaded => \A i \in Elem : ResOf(i) \in Page.checked => ResOf(i) \in v.finished \cup v.errored

(* The parser is told only of the script it waits for.                     *)
Watched(v) ==
  /\ \A r \in v.watch : r \in v.loading \ v.errored => v.block # 0 /\ ResOf(v.block) = r
  /\ v.died = "script not ready" => v.block = 0
  /\ v.died \notin {"finish CHECK", "no blocking script"}

(* A sequence of the numbers in a set, in order.                           *)
InOrder(q, S) ==
  /\ \A m, n \in DOMAIN q : m < n => q[m] < q[n]
  /\ {q[n] : n \in DOMAIN q} = S

(* Of the scripts parsed, all but b have run, in order.                    *)
RanBut(v, b) ==
  v.died # "script not ready" => InOrder(v.ran, {i \in Scripts : i < v.next /\ i # b})

(* Scripts to be executed immediately refer to no resource, and nothing    *)
(* before one in the document can make a style sheet pending.              *)
ImmediateFirst ==
  \A i \in Elem : Kind(i) = "inline!" =>
    /\ ResOf(i) = NoRes
    /\ \A r \in Res : Page.fetches[r] \cap Page.sheets = {}
    /\ \A j \in 1..(i - 1) :
         /\ Kind(j) # "css" /\ Page.elems[j].fetches \cap Page.sheets = {}
         /\ Page.elems[j].timer => Page.onTimer \cap Page.sheets = {}
         /\ Kind(j) = "body" => Page.render \cap Page.sheets = {}

(* While such a script is at n or later, no sheet is pending.              *)
Sheltered(v, n) ==
  ImmediateFirst =>
    /\ v.died # "script not ready"
    /\ (\E i \in Elem : i >= n /\ Kind(i) = "inline!") =>
         /\ v.sheets = {}
         /\ v.timers # {} => Page.onTimer \cap Page.sheets = {}
         /\ v.sched => Page.render \cap Page.sheets = {}

Steady(v, l) ==
  /\ v \in Engine /\ Fetches(v, l, 0) /\ Reading(v) /\ Asked(v) /\ Watched(v)
  /\ RanBut(v, v.block) /\ Sheltered(v, v.next)

(* How the page stands to the driver.                                      *)
Phase ==
  /\ msgs \in {"idle", "loading", "loaded", "failed"}
  /\ msgs \in {"idle", "failed"} => w = Idle
  /\ msgs = "loading" => w.state = "PAGE_LOADING" /\ ~w.loaded
  /\ msgs = "loaded" => w.state = "IDLE" /\ w.loaded

WebInv ==
  /\ Steady(w, load) /\ Phase
  /\ load \in 0..MaxLoads /\ open = Cardinality(w.pending)

(* What the handlers that run inside one step leave alone, and that the    *)
(* requests that are out stay out.                                         *)
Kept(v, u) ==
  /\ u.state = v.state /\ u.model = v.model /\ u.loaded = v.loaded /\ u.recvd = v.recvd
  /\ u.finished = v.finished /\ u.errored = v.errored /\ u.left = v.left
  /\ v.pending \subseteq u.pending

(* More is loading than before, or more sheets are pending.                *)
More(v, u) ==
  /\ v \in Engine /\ u \in Engine
  /\ u = [v EXCEPT !.loading = u.loading, !.count = u.count, !.pending = u.pending,
                   !.sheets = u.sheets]
  /\ v.loading \subseteq u.loading /\ v.pending \subseteq u.pending
  /\ v.sheets \subseteq u.sheets

-----------------------------------------------------------------------------
(* The page.                                                               *)
LEMMA PageFacts ==
  /\ IsFiniteSet(Res) /\ Main \in Res /\ NoRes \notin Res
  /\ Len(Page.elems) \in Nat /\ Page.size \in Nat
  /\ Page.checked \subseteq Res /\ Page.sheets \subseteq Res
  /\ \A i \in Elem : /\ i \in Nat /\ i > 0 /\ Page.elems[i].at \in Nat
                      /\ Page.elems[i].at < Page.size /\ ResOf(i) \in Res \cup {NoRes}
                      /\ Kind(i) \in {"img", "css", "body", "script", "inline!"}
                      /\ Page.elems[i].timer \in BOOLEAN
  /\ \A i, j \in Elem : i < j => Page.elems[i].at < Page.elems[j].at
<1> DEFINE E == [at : Nat, kind : {"img", "css", "body", "script", "inline!"},
                 res : Res \cup {NoRes}, fetches : SUBSET Res, timer : BOOLEAN]
<1>1. Page.elems \in Seq(E)
  BY PageAssumption
<1> HIDE DEF E
<1>2. Len(Page.elems) \in Nat /\ \A i \in Elem : Page.elems[i] \in E
  BY <1>1 DEF Elem
<1>3. \A i \in Elem : i \in Nat /\ i > 0
  BY <1>2 DEF Elem
<1>4. \A e \in E : /\ e.at \in Nat /\ e.res \in Res \cup {NoRes} /\ e.timer \in BOOLEAN
                    /\ e.kind \in {"img", "css", "body", "script", "inline!"}
  BY DEF E
<1> QED BY PageAssumption, <1>2, <1>3, <1>4 DEF ResOf, Kind

(* A set of numbers has a least one.                                       *)
LEMMA HasLeast ==
  ASSUME NEW T, T \subseteq Nat, T # {}
  PROVE  \E x \in T : \A y \in T : x <= y
<1> DEFINE Less == OpToRel(<, Nat)
<1>1. IsWellFoundedOn(Less, Nat)
  BY NatLessThanWellFounded
<1>2. \A x, y \in Nat : x < y => <<x, y>> \in Less
  BY DEF OpToRel
<1> HIDE DEF Less
<1>3. PICK x \in T : \A y \in T : ~(<<y, x>> \in Less)
  BY <1>1, WFMin
<1>4. \A y \in T : y \in Nat /\ x \in Nat /\ ~(y < x)
  BY <1>2, <1>3
<1> QED BY <1>3, <1>4

(* A set of numbers that holds 0, and what comes after each, holds all.    *)
LEMMA HoldsAll ==
  ASSUME NEW m \in Nat, NEW G, 0 \in G, \A n \in 0..m : n < m /\ n \in G => n + 1 \in G
  PROVE  \A n \in 0..m : n \in G
<1> SUFFICES ASSUME \E n \in 0..m : n \notin G
             PROVE  FALSE
  OBVIOUS
<1> DEFINE T == {n \in 0..m : n \notin G}
<1>1. T \subseteq Nat /\ T # {}
  OBVIOUS
<1>2. PICK x \in T : \A y \in T : x <= y
  BY <1>1, HasLeast
<1>3. x \in 0..m /\ x \notin G /\ x # 0
  BY <1>2
<1>4. x - 1 \in 0..m /\ x - 1 < m /\ x - 1 \notin T
  BY <1>2, <1>3
<1>5. x - 1 \in G
  BY <1>4
<1>6. (x - 1) + 1 \in G
  BY <1>4, <1>5
<1> QED BY <1>3, <1>6

-----------------------------------------------------------------------------
(* Counting.                                                               *)

(* There are as many requests of a load as there are resources asked for.  *)
LEMMA PendingCount ==
  ASSUME NEW S, S \subseteq Res, NEW l
  PROVE  LET P == {<< l, r >> : r \in S}
         IN  IsFiniteSet(P) /\ Cardinality(P) \in Nat /\ Cardinality(P) <= Cardinality(Res)
<1> DEFINE P == {<< l, r >> : r \in S}
           f == [p \in P |-> p[2]]
<1>1. f \in [P -> Res]
  OBVIOUS
<1>2. \A p, q \in P : f[p] = f[q] => p = q
  OBVIOUS
<1>3. f \in Injection(P, Res)
  BY <1>1, <1>2 DEF Injection, IsInjective
<1>4. IsFiniteSet(P) /\ Cardinality(P) <= Cardinality(Res)
  BY <1>3, FS_Injection, PageFacts
<1> QED BY <1>4, FS_CardinalityType

(* Those that are new add up with those there were.                        *)
LEMMA AddedUp ==
  ASSUME NEW P, NEW Q, IsFiniteSet(Q), P \subseteq Q
  PROVE  /\ Cardinality(Q) = Cardinality(P) + Cardinality(Q \ P)
         /\ Cardinality(P) \in Nat /\ Cardinality(Q \ P) \in Nat
<1>1. IsFiniteSet(P) /\ IsFiniteSet(Q \ P)
  BY FS_Subset
<1>2. Q = P \cup (Q \ P) /\ P \cap (Q \ P) = {}
  OBVIOUS
<1>3. Cardinality(Q) = Cardinality(P) + Cardinality(Q \ P) - Cardinality(P \cap (Q \ P))
  BY <1>1, <1>2, FS_Union
<1>4. Cardinality(P \cap (Q \ P)) = 0
  BY <1>2, FS_EmptySet
<1>5. Cardinality(P) \in Nat /\ Cardinality(Q \ P) \in Nat
  BY <1>1, FS_CardinalityType
<1> QED BY <1>3, <1>4, <1>5

-----------------------------------------------------------------------------
(* Resources are loaded, and scopes run.                                   *)

(* All but four fields are the same.                                       *)
LEMMA MoreSame ==
  ASSUME NEW v, NEW u, More(v, u)
  PROVE  /\ u.state = v.state /\ u.model = v.model /\ u.finished = v.finished
         /\ u.left = v.left /\ u.errored = v.errored /\ u.recvd = v.recvd
         /\ u.parsed = v.parsed /\ u.scanned = v.scanned /\ u.eof = v.eof
         /\ u.next = v.next /\ u.block = v.block /\ u.watch = v.watch
         /\ u.delayed = v.delayed /\ u.resume = v.resume /\ u.done = v.done
         /\ u.exec = v.exec /\ u.check = v.check /\ u.sched = v.sched
         /\ u.timers = v.timers /\ u.ran = v.ran /\ u.loaded = v.loaded
         /\ u.died = v.died
BY ZenonT(40) DEF More, Engine

LEMMA MoreKeeps ==
  ASSUME NEW v, NEW u, NEW l, NEW k, More(v, u), Fetches(u, l, k)
  PROVE  /\ Kept(v, u)
         /\ Reading(v) => Reading(u)
         /\ Asked(v) => Asked(u)
         /\ Asked(v) /\ Watched(v) => Watched(u)
         /\ \A b : RanBut(v, b) => RanBut(u, b)
         /\ \A n : Sheltered(v, n) /\ u.sheets = v.sheets => Sheltered(u, n)
<1>1. v.loading \subseteq u.loading /\ v.pending \subseteq u.pending
  BY DEF More
<1>2. Kept(v, u)
  BY <1>1, MoreSame DEF Kept
<1>3. Reading(v) => Reading(u)
  BY MoreSame DEF Reading
<1>4. Asked(v) => Asked(u)
  BY <1>1, MoreSame DEF Asked
<1>5. Asked(v) /\ Watched(v) => Watched(u)
  BY ZenonT(60), <1>1, MoreSame DEF Asked, Watched, Fetches
<1>6. ASSUME NEW b PROVE RanBut(v, b) => RanBut(u, b)
  <2>1. u.ran = v.ran /\ u.next = v.next /\ u.died = v.died
    BY MoreSame
  <2> QED BY Zenon, <2>1 DEF RanBut
<1>7. ASSUME NEW n PROVE Sheltered(v, n) /\ u.sheets = v.sheets => Sheltered(u, n)
  <2>1. u.timers = v.timers /\ u.sched = v.sched /\ u.died = v.died
    BY MoreSame
  <2> QED BY Zenon, <2>1 DEF Sheltered
<1> QED BY <1>2, <1>3, <1>4, <1>5, <1>6, <1>7

LEMMA LoadsMore ==
  ASSUME load \in Nat, NEW v \in Engine, NEW R, NEW k \in Nat, Fetches(v, load, k)
  PROVE  LET u == LoadAll(v, R)
         IN  /\ More(v, u) /\ Fetches(u, load, k) /\ u.sheets = v.sheets
             /\ R \cap Res \subseteq u.loading \cup u.finished
<1> DEFINE new == (R \cap Res) \ (v.loading \cup v.finished)
           u == LoadAll(v, R)
           P == (v.loading \cap Page.checked) \ v.errored
           Q == (u.loading \cap Page.checked) \ u.errored
<1>1. /\ u = [v EXCEPT !.loading = @ \cup new,
                       !.count   = @ + Cardinality(new \cap Page.checked),
                       !.pending = @ \cup {<< load, r >> : r \in new}]
      /\ new \subseteq Res
  BY DEF LoadAll
<1> HIDE DEF new, u
<1>2. IsFiniteSet(new \cap Page.checked) /\ Cardinality(new \cap Page.checked) \in Nat
  <2>1. new \cap Page.checked \in SUBSET Res
    BY <1>1
  <2> QED BY <2>1, FS_Subset, FS_CardinalityType, PageFacts
<1>3. /\ u.loading = v.loading \cup new /\ u.errored = v.errored
      /\ u.count = v.count + Cardinality(new \cap Page.checked)
      /\ u.pending = v.pending \cup {<< load, r >> : r \in new}
      /\ u.finished = v.finished /\ u.sheets = v.sheets
  BY <1>1 DEF Engine
<1>4. u \in Engine
  <2>1. /\ v.loading \cup new \in SUBSET Res
        /\ v.count + Cardinality(new \cap Page.checked) \in Nat
        /\ v.pending \cup {<< load, r >> : r \in new} \in SUBSET (Nat \X Res)
    BY SMTT(30), <1>1, <1>2 DEF Engine
  <2> QED BY <1>1, <2>1 DEF Engine
<1>5. u = [v EXCEPT !.loading = u.loading, !.count = u.count, !.pending = u.pending,
                    !.sheets = u.sheets]
  BY <1>1, <1>3 DEF Engine
<1>6. More(v, u)
  BY <1>3, <1>5, <1>4 DEF More
<1>7. new \cap v.loading = {} /\ new \cap v.finished = {} /\ v.errored \subseteq v.loading
  BY DEF new, Fetches
<1>8. P \subseteq Q /\ Q \ P = new \cap Page.checked /\ Q \subseteq Res
  BY <1>1, <1>3, <1>7 DEF Engine
<1>9. Cardinality(Q) = Cardinality(P) + Cardinality(new \cap Page.checked) /\ Cardinality(P) \in Nat
  <2>1. IsFiniteSet(Q)
    BY <1>8, FS_Subset, PageFacts
  <2> HIDE DEF P, Q
  <2> QED BY <1>8, <2>1, AddedUp
<1>10. u.count = Cardinality(Q) + k
  <2>1. v.count = Cardinality(P) + k
    BY DEF Fetches
  <2> HIDE DEF P, Q
  <2> QED BY <1>2, <1>3, <1>9, <2>1
<1>11. u.pending = {<< load, r >> : r \in u.loading \ u.errored}
  BY <1>3, <1>7 DEF Fetches
<1>12. Fetches(u, load, k)
  BY <1>3, <1>7, <1>10, <1>11 DEF Fetches
<1>13. R \cap Res \subseteq u.loading \cup u.finished
  BY <1>3 DEF new
<1> QED BY <1>3, <1>6, <1>12, <1>13 DEF u

LEMMA ScopeLoads ==
  ASSUME load \in Nat, NEW v \in Engine, NEW R, NEW k \in Nat, Fetches(v, load, k)
  PROVE  LET u == ExecuteScope(v, R)
         IN  /\ More(v, u) /\ Fetches(u, load, k)
             /\ R \cap Page.sheets = {} => u.sheets = v.sheets
<1> DEFINE t == LoadAll(v, R)
           u == ExecuteScope(v, R)
<1>1. More(v, t) /\ Fetches(t, load, k) /\ t.sheets = v.sheets
  BY LoadsMore
<1>2. u = [t EXCEPT !.sheets = @ \cup ((R \cap Page.sheets) \ t.finished)]
  BY DEF ExecuteScope
<1> HIDE DEF t, u
<1>3. t \in Engine
  BY <1>1 DEF More
<1>4. /\ u \in Engine /\ u.sheets = t.sheets \cup ((R \cap Page.sheets) \ t.finished)
      /\ u.loading = t.loading /\ u.count = t.count /\ u.pending = t.pending
      /\ u.finished = t.finished /\ u.errored = t.errored
  BY ZenonT(60), <1>2, <1>3 DEF Engine
<1>5. Fetches(u, load, k)
  BY <1>1, <1>4 DEF Fetches
<1>6. t = [v EXCEPT !.loading = t.loading, !.count = t.count, !.pending = t.pending,
                    !.sheets = t.sheets]
  BY <1>1 DEF More
<1>7. u = [v EXCEPT !.loading = u.loading, !.count = u.count, !.pending = u.pending,
                    !.sheets = u.sheets]
  BY <1>2, <1>4, <1>6 DEF Engine
<1>8. More(v, u)
  BY <1>1, <1>4, <1>7 DEF More
<1> QED BY <1>1, <1>4, <1>5, <1>8 DEF u

-----------------------------------------------------------------------------
(* Steps that change none of the fields a part speaks of.                  *)
LEMMA SameKeeps ==
  ASSUME NEW v, NEW u,
         u.loading = v.loading, u.finished = v.finished, u.errored = v.errored,
         u.pending = v.pending, u.count = v.count, u.recvd = v.recvd, u.parsed = v.parsed,
         u.scanned = v.scanned, u.next = v.next, u.eof = v.eof, u.block = v.block,
         u.done = v.done, u.delayed = v.delayed, u.loaded = v.loaded, u.watch = v.watch,
         u.ran = v.ran, u.died = v.died
  PROVE  /\ \A l, k : Fetches(v, l, k) => Fetches(u, l, k)
         /\ Reading(v) => Reading(u)
         /\ Asked(v) => Asked(u)
         /\ Watched(v) => Watched(u)
         /\ \A b : RanBut(v, b) => RanBut(u, b)
         /\ \A n : Sheltered(v, n) /\ u.sheets \subseteq v.sheets /\ u.timers \subseteq v.timers
                   /\ (u.sched => v.sched) => Sheltered(u, n)
<1>1. ASSUME NEW l, NEW k PROVE Fetches(v, l, k) => Fetches(u, l, k)
  BY Zenon DEF Fetches
<1>2. Reading(v) => Reading(u)
  BY DEF Reading
<1>3. Asked(v) => Asked(u)
  BY DEF Asked
<1>4. Watched(v) => Watched(u)
  BY DEF Watched
<1>5. ASSUME NEW b PROVE RanBut(v, b) => RanBut(u, b)
  BY Zenon DEF RanBut
<1>6. ASSUME NEW n, Sheltered(v, n), u.sheets \subseteq v.sheets, u.timers \subseteq v.timers,
             u.sched => v.sched
      PROVE  Sheltered(u, n)
  BY <1>6 DEF Sheltered
<1> QED BY <1>1, <1>2, <1>3, <1>4, <1>5, <1>6

LEMMA Checked ==
  ASSUME NEW v, NEW l, Steady(v, l)
  PROVE  LET u == CheckCompleted(v)
         IN  Steady(u, l) /\ Kept(v, u) /\ u.block = v.block
<1> DEFINE u == CheckCompleted(v)
<1>1. v \in Engine
  BY DEF Steady
<1>2. u \in Engine /\ (u = v \/ u = [v EXCEPT !.check = TRUE])
  <2>1. [v EXCEPT !.check = TRUE] \in Engine
    BY <1>1 DEF Engine
  <2> QED BY <1>1, <2>1 DEF CheckCompleted
<1> HIDE DEF u
<1>3. /\ u.loading = v.loading /\ u.finished = v.finished /\ u.errored = v.errored
      /\ u.pending = v.pending /\ u.count = v.count /\ u.recvd = v.recvd /\ u.parsed = v.parsed
      /\ u.scanned = v.scanned /\ u.next = v.next /\ u.eof = v.eof /\ u.block = v.block
      /\ u.done = v.done /\ u.delayed = v.delayed /\ u.loaded = v.loaded /\ u.watch = v.watch
      /\ u.ran = v.ran /\ u.died = v.died /\ u.sheets = v.sheets /\ u.timers = v.timers
      /\ u.sched = v.sched /\ u.state = v.state /\ u.model = v.model /\ u.left = v.left
  BY <1>1, <1>2 DEF Engine
<1>4. Kept(v, u)
  BY <1>3 DEF Kept
<1>5. Fetches(u, l, 0) /\ Reading(u) /\ Asked(u) /\ Watched(u) /\ RanBut(u, u.block)
  BY <1>3, SameKeeps DEF Steady
<1>6. Sheltered(u, u.next)
  BY <1>3, SameKeeps DEF Steady
<1> QED BY <1>2, <1>3, <1>4, <1>5, <1>6 DEF Steady, u

(* What ImmediateFirst says of an element before such a script.            *)
LEMMA Shield ==
  ASSUME ImmediateFirst, NEW i \in Elem, NEW j \in Elem, i < j, Kind(j) = "inline!"
  PROVE  /\ Kind(i) # "css" /\ Page.elems[i].fetches \cap Page.sheets = {}
         /\ Page.elems[i].timer => Page.onTimer \cap Page.sheets = {}
         /\ Kind(i) = "body" => Page.render \cap Page.sheets = {}
<1>1. i \in 1..(j - 1)
  BY PageFacts
<1> QED BY <1>1 DEF ImmediateFirst

(* Appending to a sequence.                                                *)
LEMMA Appended ==
  ASSUME NEW S, NEW q \in Seq(S), NEW e \in S
  PROVE  /\ Append(q, e) \in Seq(S) /\ Len(q) \in Nat /\ DOMAIN q = 1..Len(q)
         /\ DOMAIN Append(q, e) = 1..(Len(q) + 1)
         /\ \A n \in 1..Len(q) : Append(q, e)[n] = q[n]
         /\ Append(q, e)[Len(q) + 1] = e
  OBVIOUS

(* Appended to numbers below it in order, a number is the last.            *)
LEMMA LastOne ==
  ASSUME NEW i \in Nat, NEW q \in Seq(Nat), \A n \in DOMAIN q : q[n] < i,
         \A m, n \in DOMAIN q : m < n => q[m] < q[n]
  PROVE  LET p == Append(q, i)
         IN  /\ \A m, n \in DOMAIN p : m < n => p[m] < p[n]
             /\ {p[n] : n \in DOMAIN p} = {q[n] : n \in DOMAIN q} \cup {i}
<1> DEFINE p == Append(q, i)
<1>1. PICK len \in Nat : len = Len(q)
  OBVIOUS
<1>2. /\ DOMAIN q = 1..len /\ DOMAIN p = 1..(len + 1)
      /\ \A n \in 1..len : p[n] = q[n]
      /\ p[len + 1] = i
  BY <1>1, Appended
<1> HIDE DEF p
<1>3. \A n \in 1..(len + 1) : n \in 1..len \/ n = len + 1
  OBVIOUS
<1>4. ASSUME NEW m \in 1..(len + 1), NEW n \in 1..(len + 1), m < n
      PROVE  p[m] < p[n]
  <2>1. m \in 1..len
    BY <1>3, <1>4
  <2>2. CASE n = len + 1
    BY <1>2, <2>1, <2>2
  <2>3. CASE n \in 1..len
    BY <1>2, <1>4, <2>1, <2>3
  <2> QED BY <1>3, <2>2, <2>3
<1>5. {p[n] : n \in 1..(len + 1)} = {q[n] : n \in 1..len} \cup {i}
  <2>1. 1..(len + 1) = (1..len) \cup {len + 1}
    OBVIOUS
  <2> QED BY <1>2, <2>1
<1> QED BY <1>2, <1>4, <1>5 DEF p

(* A script that runs is the last of those that have.                      *)
LEMMA RunsLast ==
  ASSUME NEW i \in Scripts, NEW q \in Seq(Elem),
         InOrder(q, {j \in Scripts : j < i + 1 /\ j # i})
  PROVE  InOrder(Append(q, i), {j \in Scripts : j < i + 1 /\ j # 0})
<1>1. \A j \in Scripts : j \in Elem /\ j \in Nat /\ j > 0
  BY PageFacts DEF Scripts
<1>2. i \in Nat /\ q \in Seq(Nat)
  <2>1. \A j \in Elem : j \in Nat
    BY PageFacts
  <2>2. q \in [1..Len(q) -> Elem] /\ Len(q) \in Nat
    OBVIOUS
  <2>3. q \in [1..Len(q) -> Nat]
    BY <2>1, <2>2
  <2>4. q \in Seq(Nat)
    BY <2>2, <2>3
  <2> QED BY <1>1, <2>4
<1>3. /\ \A m, n \in DOMAIN q : m < n => q[m] < q[n]
      /\ {q[n] : n \in DOMAIN q} = {j \in Scripts : j < i + 1 /\ j # i}
  BY DEF InOrder
<1>4. ASSUME NEW n \in DOMAIN q
      PROVE  q[n] < i
  <2>1. PICK j : j = q[n]
    OBVIOUS
  <2>2. j \in Scripts /\ j < i + 1 /\ j # i
    BY <1>3, <2>1
  <2> QED BY <1>1, <1>2, <2>1, <2>2
<1>5. {j \in Scripts : j < i + 1 /\ j # i} \cup {i} = {j \in Scripts : j < i + 1 /\ j # 0}
  BY <1>1, <1>2
<1>6. LET p == Append(q, i)
      IN  /\ \A m, n \in DOMAIN p : m < n => p[m] < p[n]
          /\ {p[n] : n \in DOMAIN p} = {q[n] : n \in DOMAIN q} \cup {i}
  <2>1. \A m, n \in DOMAIN q : m < n => q[m] < q[n]
    BY <1>3
  <2>2. \A n \in DOMAIN q : q[n] < i
    BY <1>4
  <2> QED BY <1>2, <2>1, <2>2, LastOne
<1>7. PICK p : p = Append(q, i)
  OBVIOUS
<1>8. /\ \A m, n \in DOMAIN p : m < n => p[m] < p[n]
      /\ {p[n] : n \in DOMAIN p} = {q[n] : n \in DOMAIN q} \cup {i}
  BY <1>6, <1>7
<1> QED BY <1>3, <1>5, <1>7, <1>8 DEF InOrder

(* A script runs, or, with a sheet pending, is found not to be ready.      *)
LEMMA ScriptRuns ==
  ASSUME load \in Nat, NEW v \in Engine, NEW i \in Scripts, i = v.next - 1,
         Fetches(v, load, 0), Reading(v), Asked(v), Watched(v), RanBut(v, i),
         Sheltered(v, v.next), v.block \in {0, i}, v.block = i => Ready(v, i),
         ImmediateFirst => Ready(v, i)
  PROVE  LET u == RunScript(v, i)
         IN  Steady(u, load) /\ Kept(v, u) /\ u.block = 0 /\ u.done = v.done
<1> DEFINE u == RunScript(v, i)
<1>1. i \in Elem /\ i \in Nat /\ i > 0 /\ v.next \in Nat /\ v.next = i + 1
  <2>1. i \in Elem
    BY DEF Scripts
  <2>2. i \in Nat /\ i > 0 /\ v.next \in Nat
    BY <2>1, PageFacts DEF Engine
  <2> QED BY <2>1, <2>2
<1>2. CASE ~Ready(v, i)
  <2>1. u = [v EXCEPT !.died = "script not ready"] /\ v.block = 0 /\ ~ImmediateFirst
    BY <1>2 DEF RunScript
  <2> HIDE DEF u
  <2>2. u \in Engine
    <3>1. "script not ready" \in Deaths
      BY DEF Deaths
    <3> QED BY <2>1, <3>1 DEF Engine
  <2>3. /\ u.loading = v.loading /\ u.finished = v.finished /\ u.errored = v.errored
        /\ u.pending = v.pending /\ u.count = v.count /\ u.recvd = v.recvd /\ u.parsed = v.parsed
        /\ u.scanned = v.scanned /\ u.next = v.next /\ u.eof = v.eof /\ u.block = v.block
        /\ u.done = v.done /\ u.delayed = v.delayed /\ u.loaded = v.loaded /\ u.watch = v.watch
        /\ u.state = v.state /\ u.model = v.model /\ u.left = v.left
        /\ u.died = "script not ready"
    BY <2>1 DEF Engine
  <2>4. Fetches(u, load, 0)
    BY <2>3, Zenon DEF Fetches
  <2>5. Reading(u) /\ Asked(u)
    BY <2>3 DEF Reading, Asked
  <2>6. Watched(u) /\ RanBut(u, u.block) /\ Sheltered(u, u.next)
    BY <2>1, <2>3 DEF Watched, RanBut, Sheltered
  <2>7. Kept(v, u)
    BY <2>3 DEF Kept
  <2>8. u.block = 0 /\ u.done = v.done
    BY <2>1, <2>3
  <2> QED BY <2>2, <2>4, <2>5, <2>6, <2>7, <2>8 DEF Steady, u
<1>3. CASE Ready(v, i)
  <2> DEFINE x == [v EXCEPT !.block = 0, !.ran = Append(@, i)]
             t == ExecuteScope(x, Page.elems[i].fetches)
  <2>1. u = IF Page.elems[i].timer THEN [t EXCEPT !.timers = @ \cup {i}] ELSE t
    BY <1>3 DEF RunScript
  <2>2. x \in Engine
    <3>1. Append(v.ran, i) \in Seq(Elem)
      BY <1>1, Appended DEF Engine
    <3> QED BY <3>1 DEF Engine
  <2>3. /\ x.loading = v.loading /\ x.finished = v.finished /\ x.errored = v.errored
        /\ x.pending = v.pending /\ x.count = v.count /\ x.recvd = v.recvd /\ x.parsed = v.parsed
        /\ x.scanned = v.scanned /\ x.next = v.next /\ x.eof = v.eof /\ x.block = 0
        /\ x.done = v.done /\ x.delayed = v.delayed /\ x.loaded = v.loaded /\ x.watch = v.watch
        /\ x.state = v.state /\ x.model = v.model /\ x.left = v.left /\ x.died = v.died
        /\ x.sheets = v.sheets /\ x.timers = v.timers /\ x.sched = v.sched
        /\ x.ran = Append(v.ran, i)
    BY DEF Engine
  <2> HIDE DEF u, x
  <2>4. Fetches(x, load, 0)
    BY <2>3, Zenon DEF Fetches
  <2>5. Reading(x) /\ Asked(x)
    BY <2>3 DEF Reading, Asked
  <2>6. Watched(x)
    <3>1. ASSUME NEW r \in v.watch, r \in v.loading \ v.errored
          PROVE  FALSE
      <4>1. v.block # 0 /\ ResOf(v.block) = r
        BY <3>1 DEF Watched
      <4>2. v.block = i /\ ResOf(i) = r /\ r \in Res
        BY <3>1, <4>1 DEF Engine
      <4>3. r \in v.finished
        BY <1>3, <4>2, PageFacts DEF Ready
      <4> QED BY <3>1, <4>3 DEF Fetches
    <3> QED BY <2>3, <3>1 DEF Watched
  <2>7. RanBut(x, 0)
    <3>1. PICK q : q = v.ran
      OBVIOUS
    <3>2. q \in Seq(Elem) /\ x.ran = Append(q, i)
      BY <2>3, <3>1 DEF Engine
    <3>3. ASSUME v.died # "script not ready"
          PROVE  InOrder(Append(q, i), {j \in Scripts : j < i + 1 /\ j # 0})
      <4>1. InOrder(q, {j \in Scripts : j < i + 1 /\ j # i})
        BY <1>1, <3>1, <3>3, Zenon DEF RanBut
      <4> QED BY <3>2, <4>1, RunsLast
    <3>4. x.ran = Append(q, i) /\ x.next = i + 1 /\ x.died = v.died
      BY <1>1, <2>3, <3>2
    <3> QED BY <3>3, <3>4, Zenon DEF RanBut
  <2>8. Sheltered(x, v.next)
    BY <2>3 DEF Sheltered
  <2>9. /\ More(x, t) /\ Fetches(t, load, 0)
        /\ Page.elems[i].fetches \cap Page.sheets = {} => t.sheets = x.sheets
    BY <2>2, <2>4, ScopeLoads
  <2> HIDE DEF t
  <2>10. /\ Kept(x, t) /\ Reading(t) /\ Asked(t) /\ Watched(t) /\ RanBut(t, 0)
         /\ t \in Engine
    BY <2>5, <2>6, <2>7, <2>9, MoreKeeps DEF More
  <2>11. /\ t.next = x.next /\ t.block = x.block /\ t.done = x.done /\ t.timers = x.timers /\ t.sched = x.sched
         /\ t.died = x.died
    BY <2>9, MoreSame
  <2>12. ASSUME ImmediateFirst, NEW j \in Elem, j >= v.next, Kind(j) = "inline!"
         PROVE  /\ t.sheets = {}
                /\ t.timers # {} \/ Page.elems[i].timer => Page.onTimer \cap Page.sheets = {}
                /\ t.sched => Page.render \cap Page.sheets = {}
    <3>1. i < j
      <4>1. j \in Nat /\ j >= v.next
        BY <2>12, PageFacts
      <4> QED BY <1>1, <4>1
    <3>2. /\ Page.elems[i].fetches \cap Page.sheets = {}
          /\ Page.elems[i].timer => Page.onTimer \cap Page.sheets = {}
      BY <1>1, <2>12, <3>1, Shield
    <3>3. /\ x.sheets = {}
          /\ x.timers # {} => Page.onTimer \cap Page.sheets = {}
          /\ x.sched => Page.render \cap Page.sheets = {}
      BY <2>8, <2>12 DEF Sheltered
    <3> QED BY <2>9, <2>11, <3>2, <3>3
  <2>13. /\ u \in Engine /\ u.timers \subseteq t.timers \cup {i}
         /\ u.timers = t.timers \/ Page.elems[i].timer
         /\ u.loading = t.loading /\ u.finished = t.finished /\ u.errored = t.errored
         /\ u.pending = t.pending /\ u.count = t.count /\ u.recvd = t.recvd /\ u.parsed = t.parsed
         /\ u.scanned = t.scanned /\ u.next = t.next /\ u.eof = t.eof /\ u.block = t.block
         /\ u.done = t.done /\ u.delayed = t.delayed /\ u.loaded = t.loaded /\ u.watch = t.watch
         /\ u.state = t.state /\ u.model = t.model /\ u.left = t.left /\ u.died = t.died
         /\ u.sheets = t.sheets /\ u.sched = t.sched /\ u.ran = t.ran
    <3>1. CASE Page.elems[i].timer
      <4>1. u = [t EXCEPT !.timers = @ \cup {i}]
        BY <2>1, <3>1
      <4>2. t.timers \cup {i} \in SUBSET Elem
        BY <1>1, <2>10 DEF Engine
      <4>3. u \in Engine
        BY ZenonT(60), <2>10, <4>1, <4>2 DEF Engine
      <4>4. u.timers = t.timers \cup {i}
        BY <2>10, <4>1 DEF Engine
      <4>5. /\ u.loading = t.loading /\ u.finished = t.finished /\ u.errored = t.errored
            /\ u.pending = t.pending /\ u.count = t.count /\ u.recvd = t.recvd
            /\ u.parsed = t.parsed /\ u.scanned = t.scanned /\ u.next = t.next
            /\ u.eof = t.eof /\ u.block = t.block /\ u.done = t.done
            /\ u.delayed = t.delayed /\ u.loaded = t.loaded /\ u.watch = t.watch
            /\ u.state = t.state /\ u.model = t.model /\ u.left = t.left
            /\ u.died = t.died /\ u.sheets = t.sheets /\ u.sched = t.sched /\ u.ran = t.ran
        BY <2>10, <4>1 DEF Engine
      <4> QED BY <3>1, <4>3, <4>4, <4>5
    <3>2. CASE ~Page.elems[i].timer
      BY <2>1, <2>10, <3>2
    <3> QED BY <3>1, <3>2
  <2>14. Fetches(u, load, 0) /\ Reading(u) /\ Asked(u) /\ Watched(u) /\ RanBut(u, 0)
    BY <2>9, <2>10, <2>13, SameKeeps
  <2>15. Sheltered(u, u.next)
    BY <2>3, <2>8, <2>11, <2>12, <2>13 DEF Sheltered
  <2>16. Kept(v, u)
    BY <2>3, <2>10, <2>13 DEF Kept
  <2>17. u.block = 0 /\ u.done = v.done
    BY <2>3, <2>11, <2>13
  <2> QED BY <2>13, <2>14, <2>15, <2>16, <2>17 DEF Steady, u
<1> QED BY <1>2, <1>3

LEMMA KeptOn ==
  ASSUME NEW v, NEW u, NEW t, Kept(v, u), Kept(u, t)
  PROVE  Kept(v, t)
BY DEF Kept

-----------------------------------------------------------------------------
(* The parser.                                                             *)

(* Element i is in the document and its resource asked for; what it means  *)
(* for the parser is still to come.                                        *)
Placed(v, i) ==
  /\ v \in Engine /\ Fetches(v, load, 0) /\ Reading(v) /\ Asked(v) /\ Watched(v)
  /\ RanBut(v, i) /\ Sheltered(v, i)
  /\ i \in Elem /\ i = v.next - 1 /\ v.block = 0 /\ v.died = "no" /\ ~v.done

LEMMA BlocksOrRuns ==
  ASSUME load \in Nat, NEW v, NEW i \in Scripts, Placed(v, i)
  PROVE  LET u == SetBlockingScript(v, i)
         IN  Steady(u, load) /\ Kept(v, u) /\ u.done = v.done
<1> DEFINE u == SetBlockingScript(v, i)
<1>1. /\ v \in Engine /\ i \in Elem /\ i \in Nat /\ i > 0 /\ v.next \in Nat /\ v.next = i + 1
      /\ v.block = 0 /\ v.died = "no"
  <2>1. v \in Engine /\ i \in Elem /\ i = v.next - 1 /\ v.block = 0 /\ v.died = "no"
    BY DEF Placed
  <2>2. i \in Nat /\ i > 0 /\ v.next \in Nat
    BY <2>1, PageFacts DEF Engine
  <2> QED BY <2>1, <2>2
<1>2. Sheltered(v, v.next)
  BY <1>1, PageFacts DEF Placed, Sheltered
<1>3. CASE Kind(i) = "inline!" \/ Ready(v, i)
  <2>1. ImmediateFirst => Ready(v, i)
    <3>1. ASSUME ImmediateFirst, Kind(i) = "inline!"
          PROVE  Ready(v, i)
      <4>1. i >= i
        BY <1>1
      <4>2. v.sheets = {}
        BY <1>1, <3>1, <4>1 DEF Placed, Sheltered
      <4>3. ResOf(i) = NoRes
        BY <1>1, <3>1 DEF ImmediateFirst
      <4> QED BY <4>2, <4>3 DEF Ready
    <3> QED BY <1>3, <3>1
  <2>2. u = RunScript(v, i)
    BY <1>3 DEF SetBlockingScript
  <2>3. v.block \in {0, i} /\ (v.block = i => Ready(v, i)) /\ i = v.next - 1
    BY <1>1
  <2>4. Fetches(v, load, 0) /\ Reading(v) /\ Asked(v) /\ Watched(v) /\ RanBut(v, i)
    BY DEF Placed
  <2> QED BY <1>1, <1>2, <2>1, <2>2, <2>3, <2>4, ScriptRuns
<1>4. CASE Kind(i) # "inline!" /\ ~Ready(v, i)
  <2> DEFINE W == IF ResOf(i) # NoRes /\ ResOf(i) \notin v.finished
                  THEN v.watch \cup {ResOf(i)} ELSE v.watch
  <2>1. u = [v EXCEPT !.block = i, !.watch = W]
    BY <1>4 DEF SetBlockingScript
  <2>2. /\ W \in SUBSET Res /\ v.watch \subseteq v.loading \cup v.finished
        /\ W \subseteq v.watch \cup {ResOf(i)}
        /\ W \subseteq v.loading \cup v.finished
    <3>1. v.watch \in SUBSET Res /\ v.watch \subseteq v.loading \cup v.finished
      BY <1>1 DEF Placed, Asked, Engine
    <3>2. ResOf(i) # NoRes => ResOf(i) \in Res /\ ResOf(i) \in v.loading \cup v.finished
      <4>1. i < v.next
        BY <1>1
      <4> QED BY <1>1, <4>1, PageFacts DEF Placed, Asked
    <3> QED BY <3>1, <3>2
  <2> HIDE DEF u, W
  <2>3. u \in Engine
    BY <1>1, <2>1, <2>2 DEF Engine
  <2>4. /\ u.loading = v.loading /\ u.finished = v.finished /\ u.errored = v.errored
        /\ u.pending = v.pending /\ u.count = v.count /\ u.recvd = v.recvd /\ u.parsed = v.parsed
        /\ u.scanned = v.scanned /\ u.next = v.next /\ u.eof = v.eof /\ u.block = i
        /\ u.done = v.done /\ u.delayed = v.delayed /\ u.loaded = v.loaded /\ u.watch = W
        /\ u.ran = v.ran /\ u.died = v.died /\ u.sheets = v.sheets /\ u.timers = v.timers
        /\ u.sched = v.sched /\ u.state = v.state /\ u.model = v.model /\ u.left = v.left
    BY <1>1, <2>1 DEF Engine
  <2>5. Fetches(u, load, 0)
    BY <2>4, Zenon DEF Fetches, Placed
  <2>6. Reading(u)
    BY <1>1, <2>4 DEF Reading, Placed
  <2>7. Asked(u)
    BY <2>2, <2>4 DEF Asked, Placed
  <2>8. Watched(u)
    <3>1. ASSUME NEW r \in W, r \in v.loading \ v.errored
          PROVE  ResOf(i) = r
      <4>1. r \notin v.watch
        BY <1>1, <3>1 DEF Watched, Placed
      <4> QED BY <2>2, <3>1, <4>1
    <3>2. i # 0 /\ v.died = "no"
      BY <1>1
    <3> QED BY <2>4, <3>1, <3>2 DEF Watched
  <2>9. RanBut(u, i)
    BY <2>4, Zenon DEF RanBut, Placed
  <2>10. Sheltered(u, u.next)
    BY <1>2, <2>4 DEF Sheltered
  <2>11. Kept(v, u)
    BY <2>4 DEF Kept
  <2> QED BY <2>3, <2>4, <2>5, <2>6, <2>7, <2>8, <2>9, <2>10, <2>11 DEF Steady, u
<1> QED BY <1>3, <1>4

LEMMA Inserts ==
  ASSUME load \in Nat, NEW v, NEW i, Placed(v, i)
  PROVE  LET u == Insert(v, i)
         IN  Steady(u, load) /\ Kept(v, u) /\ u.done = v.done
<1> DEFINE u == Insert(v, i)
<1>1. /\ v \in Engine /\ i \in Elem /\ i \in Nat /\ i > 0 /\ v.next \in Nat /\ v.next = i + 1
      /\ v.block = 0 /\ v.died = "no"
  <2>1. v \in Engine /\ i \in Elem /\ i = v.next - 1 /\ v.block = 0 /\ v.died = "no"
    BY DEF Placed
  <2>2. i \in Nat /\ i > 0 /\ v.next \in Nat
    BY <2>1, PageFacts DEF Engine
  <2> QED BY <2>1, <2>2
<1>2. CASE i \in Scripts
  <2>1. u = SetBlockingScript(v, i)
    BY <1>2 DEF Insert, Scripts
  <2> QED BY <1>2, <2>1, BlocksOrRuns
<1>3. CASE i \notin Scripts
  <2>1. Kind(i) \in {"css", "body", "img"}
    BY <1>1, <1>3, PageFacts DEF Scripts
  <2>2. /\ u = v \/ u = [v EXCEPT !.sheets = @ \cup {i}] \/ u = [v EXCEPT !.sched = TRUE]
        /\ Kind(i) # "css" => u = v \/ u = [v EXCEPT !.sched = TRUE]
        /\ Kind(i) # "body" => u = v \/ u = [v EXCEPT !.sheets = @ \cup {i}]
    <3>1. CASE Kind(i) = "css"
      BY <1>3, <3>1 DEF Insert
    <3>2. CASE Kind(i) = "body"
      BY <1>3, <3>2 DEF Insert
    <3>3. CASE Kind(i) = "img"
      BY <1>3, <3>3 DEF Insert
    <3> QED BY <2>1, <3>1, <3>2, <3>3
  <2> HIDE DEF u
  <2>3. /\ u \in Engine /\ u.timers = v.timers
        /\ Kind(i) # "css" => u.sheets = v.sheets
        /\ Kind(i) # "body" => u.sched = v.sched
        /\ u.loading = v.loading /\ u.finished = v.finished /\ u.errored = v.errored
        /\ u.pending = v.pending /\ u.count = v.count /\ u.recvd = v.recvd /\ u.parsed = v.parsed
        /\ u.scanned = v.scanned /\ u.next = v.next /\ u.eof = v.eof /\ u.block = v.block
        /\ u.done = v.done /\ u.delayed = v.delayed /\ u.loaded = v.loaded /\ u.watch = v.watch
        /\ u.ran = v.ran /\ u.died = v.died
        /\ u.state = v.state /\ u.model = v.model /\ u.left = v.left
    <3>1. CASE u = v
      BY <1>1, <3>1
    <3>2. CASE u = [v EXCEPT !.sheets = @ \cup {i}] /\ Kind(i) # "body"
      <4>1. v.sheets \cup {i} \in SUBSET (Elem \cup Page.sheets)
        BY <1>1 DEF Engine
      <4>2. u \in Engine
        BY <1>1, <3>2, <4>1 DEF Engine
      <4>3. Kind(i) # "css" => u.sheets = v.sheets
        BY <1>1, <2>2 DEF Engine
      <4>4. /\ u.sched = v.sched
            /\ u.loading = v.loading /\ u.finished = v.finished /\ u.errored = v.errored
            /\ u.pending = v.pending /\ u.count = v.count /\ u.recvd = v.recvd
            /\ u.parsed = v.parsed /\ u.scanned = v.scanned /\ u.next = v.next
            /\ u.eof = v.eof /\ u.block = v.block /\ u.done = v.done
            /\ u.delayed = v.delayed /\ u.loaded = v.loaded /\ u.watch = v.watch
            /\ u.ran = v.ran /\ u.died = v.died /\ u.timers = v.timers
            /\ u.state = v.state /\ u.model = v.model /\ u.left = v.left
        BY <1>1, <3>2 DEF Engine
      <4> QED BY <4>2, <4>3, <4>4
    <3>3. CASE u = [v EXCEPT !.sched = TRUE] /\ Kind(i) # "css"
      <4>1. u \in Engine
        BY <1>1, <3>3 DEF Engine
      <4>2. Kind(i) # "body" => u.sched = v.sched
        BY <1>1, <2>2 DEF Engine
      <4>3. /\ u.sheets = v.sheets
            /\ u.loading = v.loading /\ u.finished = v.finished /\ u.errored = v.errored
            /\ u.pending = v.pending /\ u.count = v.count /\ u.recvd = v.recvd
            /\ u.parsed = v.parsed /\ u.scanned = v.scanned /\ u.next = v.next
            /\ u.eof = v.eof /\ u.block = v.block /\ u.done = v.done
            /\ u.delayed = v.delayed /\ u.loaded = v.loaded /\ u.watch = v.watch
            /\ u.ran = v.ran /\ u.died = v.died /\ u.timers = v.timers
            /\ u.state = v.state /\ u.model = v.model /\ u.left = v.left
        BY <1>1, <3>3 DEF Engine
      <4> QED BY <4>1, <4>2, <4>3
    <3> QED BY <2>1, <2>2, <3>1, <3>2, <3>3
  <2>4. Fetches(u, load, 0) /\ Reading(u) /\ Asked(u) /\ Watched(u) /\ RanBut(u, i)
    BY <2>3, SameKeeps DEF Placed
  <2>5. RanBut(u, 0)
    <3>1. {j \in Scripts : j < u.next /\ j # i} = {j \in Scripts : j < u.next /\ j # 0}
      BY <1>3, PageFacts DEF Scripts
    <3> QED BY <2>4, <3>1 DEF RanBut
  <2>6. Sheltered(u, u.next)
    <3>1. ASSUME ImmediateFirst, NEW j \in Elem, j >= u.next, Kind(j) = "inline!"
          PROVE  /\ u.sheets = {}
                 /\ u.timers # {} => Page.onTimer \cap Page.sheets = {}
                 /\ u.sched => Page.render \cap Page.sheets = {}
      <4>1. j \in Nat /\ i < j /\ j >= i
        <5>1. j \in Nat
          BY PageFacts
        <5> QED BY <1>1, <2>3, <3>1, <5>1
      <4>2. Kind(i) # "css" /\ (Kind(i) = "body" => Page.render \cap Page.sheets = {})
        BY <1>1, <3>1, <4>1, Shield
      <4>3. /\ v.sheets = {}
            /\ v.timers # {} => Page.onTimer \cap Page.sheets = {}
            /\ v.sched => Page.render \cap Page.sheets = {}
        BY <3>1, <4>1 DEF Placed, Sheltered
      <4> QED BY <2>3, <4>2, <4>3
    <3>2. u.died = "no"
      BY <1>1, <2>3
    <3> QED BY <3>1, <3>2 DEF Sheltered
  <2>7. Kept(v, u)
    BY <2>3 DEF Kept
  <2>8. u.block = 0
    BY <1>1, <2>3
  <2> QED BY <2>3, <2>4, <2>5, <2>6, <2>7, <2>8 DEF Steady, u
<1> QED BY <1>2, <1>3

(* The next element is parsed, and its resource asked for.                 *)
LEMMA Places ==
  ASSUME load \in Nat, NEW v, NEW i \in Elem, Steady(v, load), i = v.next,
         v.block = 0, v.died = "no", ~v.done, Page.elems[i].at + 1 <= v.recvd
  PROVE  LET x == [v EXCEPT !.parsed = Page.elems[i].at + 1, !.next = i + 1]
             u == LoadAll(x, {ResOf(i)})
         IN  Placed(u, i) /\ Kept(v, u)
<1> DEFINE x == [v EXCEPT !.parsed = Page.elems[i].at + 1, !.next = i + 1]
           u == LoadAll(x, {ResOf(i)})
<1>1. v \in Engine /\ i \in Nat /\ i > 0 /\ Page.elems[i].at \in Nat
  BY PageFacts DEF Steady
<1>2. x \in Engine
  <2>1. Page.elems[i].at + 1 \in Nat /\ i + 1 \in Nat
    BY <1>1
  <2> QED BY ZenonT(60), <1>1, <2>1 DEF Engine
<1>3. /\ x.loading = v.loading /\ x.finished = v.finished /\ x.errored = v.errored
      /\ x.pending = v.pending /\ x.count = v.count /\ x.recvd = v.recvd
      /\ x.parsed = Page.elems[i].at + 1
      /\ x.scanned = v.scanned /\ x.next = i + 1 /\ x.eof = v.eof /\ x.block = 0
      /\ x.done = FALSE /\ x.delayed = v.delayed /\ x.loaded = v.loaded /\ x.watch = v.watch
      /\ x.ran = v.ran /\ x.died = "no" /\ x.sheets = v.sheets /\ x.timers = v.timers
      /\ x.sched = v.sched /\ x.state = v.state /\ x.model = v.model /\ x.left = v.left
  <2>1. v.done = FALSE
    BY <1>1 DEF Engine
  <2> QED BY <1>1, <2>1 DEF Engine
<1> HIDE DEF x
<1>4. Fetches(x, load, 0)
  BY <1>3, Zenon DEF Fetches, Steady
<1>5. Reading(x)
  <2>1. ASSUME NEW j \in Elem, j >= i + 1
        PROVE  Page.elems[j].at >= Page.elems[i].at + 1
    <3>1. j \in Nat /\ i < j /\ Page.elems[j].at \in Nat
      <4>1. j \in Nat
        BY PageFacts
      <4> QED BY <1>1, <2>1, <4>1, PageFacts
    <3>2. Page.elems[i].at < Page.elems[j].at
      BY <3>1, PageFacts
    <3> QED BY <1>1, <3>1, <3>2
  <2>2. i + 1 \in 1..(Len(Page.elems) + 1)
    BY <1>1, PageFacts DEF Elem
  <2>3. /\ v.scanned <= v.recvd /\ v.recvd <= Page.size
        /\ v.eof => v.recvd = Page.size /\ Main \in v.finished
        /\ v.delayed => v.eof
        /\ ~v.loaded
    BY DEF Steady, Reading
  <2> QED BY <1>3, <2>1, <2>2, <2>3 DEF Reading
<1>6. More(x, u) /\ Fetches(u, load, 0) /\ u.sheets = x.sheets
      /\ {ResOf(i)} \cap Res \subseteq u.loading \cup u.finished
  BY <1>2, <1>4, LoadsMore
<1> HIDE DEF u
<1>7. Kept(x, u) /\ Reading(u) /\ u \in Engine
  BY <1>5, <1>6, MoreKeeps DEF More
<1>8. /\ u.next = x.next /\ u.block = x.block /\ u.done = x.done /\ u.died = x.died
      /\ u.watch = x.watch /\ u.loaded = x.loaded /\ u.finished = x.finished
      /\ u.errored = x.errored /\ u.ran = x.ran /\ u.timers = x.timers /\ u.sched = x.sched
      /\ x.loading \subseteq u.loading
  <2>1. x.loading \subseteq u.loading
    BY <1>6 DEF More
  <2> QED BY <1>6, <2>1, MoreSame
<1>9. Asked(u)
  <2>1. ASSUME NEW j \in Elem, j < i + 1, ResOf(j) \in Res
        PROVE  ResOf(j) \in u.loading \cup u.finished
    <3>1. j \in Nat
      BY PageFacts
    <3>2. CASE j = i
      BY <1>6, <2>1, <3>2
    <3>3. CASE j # i
      <4>1. j < v.next
        BY <1>1, <2>1, <3>1, <3>3
      <4>2. ResOf(j) \in v.loading \cup v.finished
        BY <2>1, <4>1 DEF Steady, Asked
      <4> QED BY <1>3, <1>8, <4>2
    <3> QED BY <3>2, <3>3
  <2>2. ~u.loaded
    BY <1>3, <1>8 DEF Steady, Reading
  <2>3. v.watch \subseteq v.loading \cup v.finished
    BY DEF Steady, Asked
  <2> QED BY <1>3, <1>8, <2>1, <2>2, <2>3 DEF Asked
<1>10. Watched(u)
  <2>1. ASSUME NEW r \in v.watch, r \in u.loading \ u.errored
        PROVE  FALSE
    <3>1. r \in v.loading \cup v.finished
      BY <2>1 DEF Steady, Asked
    <3>2. r \in v.loading \ v.errored
      BY <1>3, <1>6, <1>8, <2>1, <3>1 DEF Fetches
    <3> QED BY <2>1, <3>2 DEF Steady, Watched
  <2> QED BY <1>3, <1>8, <2>1 DEF Watched
<1>11. RanBut(u, i)
  <2>1. {j \in Scripts : j < i + 1 /\ j # i} = {j \in Scripts : j < i /\ j # 0}
    BY <1>1, PageFacts DEF Scripts
  <2>2. InOrder(v.ran, {j \in Scripts : j < i /\ j # 0})
    BY Zenon DEF Steady, RanBut
  <2> QED BY <1>3, <1>8, <2>1, <2>2 DEF RanBut
<1>12. Sheltered(u, i)
  BY <1>3, <1>6, <1>8 DEF Steady, Sheltered
<1>13. Kept(v, u)
  <2>1. Kept(v, x)
    BY <1>3 DEF Kept
  <2> QED BY <1>7, <2>1, KeptOn
<1>14. i = u.next - 1 /\ u.block = 0 /\ u.died = "no" /\ ~u.done
  BY <1>1, <1>3, <1>8
<1> QED BY <1>6, <1>7, <1>9, <1>10, <1>11, <1>12, <1>13, <1>14 DEF Placed, u, x

LEMMA ParsesElem ==
  ASSUME load \in Nat, NEW v, NEW limit \in Nat, Steady(v, load), ~v.done, limit <= v.recvd
  PROVE  \A u \in ParseElem(v, limit) : Steady(u, load) /\ Kept(v, u) /\ ~u.done
<1>1. v \in Engine /\ v.next \in Nat /\ v.parsed \in Nat /\ v.recvd \in Nat
  BY DEF Steady, Engine
<1>2. CASE v.parsed >= limit \/ v.block # 0 \/ v.died # "no"
  BY <1>2 DEF ParseElem, Kept
<1>3. CASE ~(v.parsed >= limit \/ v.block # 0 \/ v.died # "no")
  <2>1. CASE v.next > Len(Page.elems) \/ Page.elems[v.next].at + 1 > limit
    <3> DEFINE u == [v EXCEPT !.parsed = limit]
    <3>1. ParseElem(v, limit) = {u}
      BY <1>3, <2>1 DEF ParseElem
    <3>2. u \in Engine
      BY <1>1 DEF Engine
    <3>3. /\ u.loading = v.loading /\ u.finished = v.finished /\ u.errored = v.errored
          /\ u.pending = v.pending /\ u.count = v.count /\ u.recvd = v.recvd /\ u.parsed = limit
          /\ u.scanned = v.scanned /\ u.next = v.next /\ u.eof = v.eof /\ u.block = v.block
          /\ u.done = v.done /\ u.delayed = v.delayed /\ u.loaded = v.loaded
          /\ u.watch = v.watch /\ u.ran = v.ran /\ u.died = v.died /\ u.sheets = v.sheets
          /\ u.timers = v.timers /\ u.sched = v.sched /\ u.state = v.state
          /\ u.model = v.model /\ u.left = v.left
      BY <1>1 DEF Engine
    <3> HIDE DEF u
    <3>4. Fetches(u, load, 0)
      BY <3>3, Zenon DEF Fetches, Steady
    <3>5. Reading(u)
      <4>1. ASSUME NEW j \in Elem, j >= v.next
            PROVE  Page.elems[j].at >= limit
        <5>1. /\ j \in Nat /\ j <= Len(Page.elems) /\ v.next \in Elem
              /\ Page.elems[j].at \in Nat /\ Page.elems[v.next].at \in Nat
          <6>1. j \in Nat /\ Len(Page.elems) \in Nat /\ j <= Len(Page.elems) /\ v.next > 0
            BY PageFacts DEF Elem, Steady, Reading
          <6>2. v.next \in Elem
            BY <1>1, <4>1, <6>1 DEF Elem
          <6> QED BY <6>1, <6>2, PageFacts
        <5>2. Page.elems[v.next].at >= limit
          BY <1>1, <2>1, <5>1, PageFacts, <4>1
        <5>3. j = v.next \/ Page.elems[v.next].at < Page.elems[j].at
          BY <1>1, <4>1, <5>1, PageFacts
        <5> QED BY <5>1, <5>2, <5>3
      <4>2. /\ v.scanned <= v.recvd /\ v.recvd <= Page.size
            /\ v.next \in 1..(Len(Page.elems) + 1)
            /\ v.eof => v.recvd = Page.size /\ Main \in v.finished
            /\ v.delayed => v.eof
            /\ ~v.loaded
        BY DEF Steady, Reading
      <4> QED BY <1>3, <3>3, <4>1, <4>2 DEF Reading
    <3>6. Asked(u) /\ Watched(u)
      BY <3>3 DEF Asked, Watched, Steady
    <3>7. RanBut(u, u.block)
      BY <3>3, Zenon DEF RanBut, Steady
    <3>8. Sheltered(u, u.next)
      BY <3>3, Zenon DEF Sheltered, Steady
    <3>9. Kept(v, u)
      BY <3>3 DEF Kept
    <3> QED BY <3>1, <3>2, <3>3, <3>4, <3>5, <3>6, <3>7, <3>8, <3>9 DEF Steady
  <2>2. CASE ~(v.next > Len(Page.elems) \/ Page.elems[v.next].at + 1 > limit)
    <3> DEFINE i == v.next
               x == [v EXCEPT !.parsed = Page.elems[i].at + 1, !.next = i + 1]
               t == LoadAll(x, {ResOf(i)})
    <3>1. i \in Elem /\ Page.elems[i].at \in Nat
      <4>1. i > 0 /\ Len(Page.elems) \in Nat
        BY PageFacts DEF Steady, Reading
      <4>2. i \in Elem
        BY <1>1, <2>2, <4>1 DEF Elem
      <4> QED BY <4>2, PageFacts
    <3>2. Page.elems[i].at + 1 <= v.recvd
      BY <1>1, <2>2, <3>1
    <3>3. ParseElem(v, limit) = AddElem(x, i)
      BY <1>3, <2>2 DEF ParseElem
    <3> HIDE DEF i
    <3>4. Placed(t, i) /\ Kept(v, t)
      BY <1>3, <3>1, <3>2, Places DEF i
    <3> HIDE DEF t, x
    <3>5. ParseElem(v, limit) = {Insert(t, i)}
      BY <3>3 DEF AddElem, t
    <3>6. /\ Steady(Insert(t, i), load) /\ Kept(t, Insert(t, i))
          /\ Insert(t, i).done = t.done /\ ~t.done
      BY <3>4, Inserts DEF Placed
    <3> QED BY <3>4, <3>5, <3>6, KeptOn
  <2> QED BY <2>1, <2>2
<1> QED BY <1>2, <1>3

(* The turns of the parsing loop.                                          *)
ParseTurns(v, limit) ==
  CHOOSE after : after = [n \in 0..(Len(Page.elems) + 1) |->
                            IF n = 0 THEN {v} ELSE ParseAll(after[n - 1], limit)]

LEMMA ParseTurned ==
  ASSUME NEW v, NEW limit
  PROVE  LET t == ParseTurns(v, limit)
             m == Len(Page.elems) + 1
         IN  /\ m \in Nat /\ t[0] = {v}
             /\ \A n \in 0..m : n < m => t[n + 1] = ParseAll(t[n], limit)
             /\ Parse(v, limit) = t[m]
<1> DEFINE t == ParseTurns(v, limit)
           m == Len(Page.elems) + 1
           Up(g, k) == g = [n \in 0..k |-> IF n = 0 THEN {v} ELSE ParseAll(g[n - 1], limit)]
           G == {k \in Nat : \E g : Up(g, k)}
<1>1. 0 \in G
  <2> DEFINE g == [n \in 0..0 |-> {v}]
  <2>1. g = [n \in 0..0 |-> IF n = 0 THEN {v} ELSE ParseAll(g[n - 1], limit)]
    OBVIOUS
  <2> QED BY <2>1
<1>2. \A k \in 0..m : k < m /\ k \in G => k + 1 \in G
  <2> SUFFICES ASSUME NEW k \in 0..m, k \in G
               PROVE  k + 1 \in G
    OBVIOUS
  <2>1. PICK g : Up(g, k)
    OBVIOUS
  <2> DEFINE h == [n \in 0..(k + 1) |-> IF n = k + 1 THEN ParseAll(g[k], limit) ELSE g[n]]
  <2>2. ASSUME NEW n \in 0..(k + 1)
        PROVE  h[n] = IF n = 0 THEN {v} ELSE ParseAll(h[n - 1], limit)
    <3>1. CASE n = k + 1
      <4>1. h[n] = ParseAll(g[k], limit) /\ n - 1 = k /\ n # 0
        BY <3>1
      <4>2. h[k] = g[k]
        OBVIOUS
      <4> QED BY <4>1, <4>2
    <3>2. CASE n # k + 1
      <4>1. n \in 0..k /\ h[n] = g[n]
        BY <3>2
      <4>2. g[n] = IF n = 0 THEN {v} ELSE ParseAll(g[n - 1], limit)
        BY <2>1, <4>1
      <4>3. n # 0 => h[n - 1] = g[n - 1]
        BY <4>1
      <4> HIDE DEF h
      <4> QED BY <4>1, <4>2, <4>3
    <3> QED BY <3>1, <3>2
  <2>3. Up(h, k + 1)
    <3>1. h = [n \in 0..(k + 1) |-> h[n]]
      OBVIOUS
    <3> HIDE DEF h
    <3> QED BY <2>2, <3>1
  <2> HIDE DEF h
  <2>4. \E f : Up(f, k + 1)
    BY <2>3
  <2> HIDE DEF Up
  <2> QED BY <2>4
<1> HIDE DEF G
<1>3. m \in Nat /\ m \in G
  <2>1. m \in Nat /\ m \in 0..m
    BY PageFacts
  <2> HIDE DEF m
  <2>2. \A n \in 0..m : n \in G
    BY <1>1, <1>2, <2>1, HoldsAll
  <2> QED BY <2>1, <2>2
<1>4. \E g : Up(g, m)
  BY <1>3 DEF G
<1>5. t = [n \in 0..m |-> IF n = 0 THEN {v} ELSE ParseAll(t[n - 1], limit)]
  BY <1>4 DEF ParseTurns
<1>6. Parse(v, limit) = t[m]
  BY DEF Parse, ParseTurns
<1> HIDE DEF t
<1>7. t[0] = {v}
  BY <1>3, <1>5
<1>8. ASSUME NEW n \in 0..m, n < m
      PROVE  t[n + 1] = ParseAll(t[n], limit)
  <2>1. n + 1 \in 0..m /\ n + 1 # 0 /\ (n + 1) - 1 = n
    BY <1>3, <1>8
  <2> QED BY <1>5, <2>1
<1> QED BY <1>3, <1>6, <1>7, <1>8 DEF t

LEMMA Parses ==
  ASSUME load \in Nat, NEW v, NEW limit \in Nat, Steady(v, load), ~v.done, limit <= v.recvd
  PROVE  \A u \in Parse(v, limit) : Steady(u, load) /\ Kept(v, u) /\ ~u.done
<1> DEFINE Good(u) == Steady(u, load) /\ Kept(v, u) /\ ~u.done
           t == ParseTurns(v, limit)
           m == Len(Page.elems) + 1
           G == {n \in Nat : \A u \in t[n] : Good(u)}
<1>1. /\ m \in Nat /\ t[0] = {v} /\ Parse(v, limit) = t[m]
      /\ \A n \in 0..m : n < m => t[n + 1] = ParseAll(t[n], limit)
  BY ParseTurned
<1> HIDE DEF t, m
<1>2. 0 \in G
  <2>1. Good(v)
    BY DEF Kept
  <2> QED BY <1>1, <2>1
<1>3. ASSUME NEW n \in 0..m, n < m, n \in G
      PROVE  n + 1 \in G
  <2>1. ASSUME NEW u \in t[n + 1]
        PROVE  Good(u)
    <3>1. PICK x \in t[n] : u \in ParseElem(x, limit)
      BY <1>1, <1>3, <2>1 DEF ParseAll
    <3>2. Good(x)
      BY <1>3, <3>1
    <3>3. limit <= x.recvd
      BY <3>2 DEF Kept
    <3>4. Steady(u, load) /\ Kept(x, u) /\ ~u.done
      BY <3>1, <3>2, <3>3, ParsesElem
    <3> QED BY <3>2, <3>4, KeptOn
  <2> HIDE DEF Good
  <2> QED BY <2>1, <1>3
<1>4. m \in G
  <2> HIDE DEF G
  <2>1. \A n \in 0..m : n \in G
    BY <1>1, <1>2, <1>3, HoldsAll
  <2> QED BY <1>1, <2>1
<1> QED BY <1>1, <1>4

LEMMA Preloads ==
  ASSUME load \in Nat, NEW v, Steady(v, load)
  PROVE  LET u == PreloadScan(v)
         IN  Steady(u, load) /\ Kept(v, u) /\ u.done = v.done
<1> DEFINE u == PreloadScan(v)
<1>1. PICK R : u = [LoadAll(v, R) EXCEPT !.scanned = v.recvd]
  BY DEF PreloadScan
<1> DEFINE t == LoadAll(v, R)
<1>2. v \in Engine /\ Fetches(v, load, 0)
  BY DEF Steady
<1>3. More(v, t) /\ Fetches(t, load, 0) /\ t.sheets = v.sheets
  BY <1>2, LoadsMore
<1>4. u = [t EXCEPT !.scanned = v.recvd]
  BY <1>1
<1> HIDE DEF t, u
<1>5. /\ t \in Engine /\ Kept(v, t) /\ Reading(t) /\ Asked(t) /\ Watched(t)
      /\ \A b : RanBut(v, b) => RanBut(t, b)
      /\ \A n : Sheltered(v, n) => Sheltered(t, n)
  BY <1>3, MoreKeeps DEF Steady, More
<1>6. t.block = v.block /\ t.next = v.next /\ t.recvd = v.recvd /\ t.done = v.done
  BY <1>3, MoreSame
<1>7. u \in Engine
  BY <1>2, <1>4, <1>5 DEF Engine
<1>8. /\ u.loading = t.loading /\ u.finished = t.finished /\ u.errored = t.errored
      /\ u.pending = t.pending /\ u.count = t.count /\ u.recvd = t.recvd /\ u.parsed = t.parsed
      /\ u.scanned = v.recvd /\ u.next = t.next /\ u.eof = t.eof /\ u.block = t.block
      /\ u.done = t.done /\ u.delayed = t.delayed /\ u.loaded = t.loaded /\ u.watch = t.watch
      /\ u.ran = t.ran /\ u.died = t.died /\ u.sheets = t.sheets /\ u.timers = t.timers
      /\ u.sched = t.sched /\ u.state = t.state /\ u.model = t.model /\ u.left = t.left
  BY <1>4, <1>5 DEF Engine
<1>9. Fetches(u, load, 0)
  BY <1>3, <1>8, Zenon DEF Fetches
<1>10. Reading(u)
  <2>1. v.recvd <= v.recvd
    BY <1>2 DEF Engine
  <2> QED BY <1>5, <1>6, <1>8, <2>1 DEF Reading
<1>11. Asked(u) /\ Watched(u)
  BY <1>5, <1>8 DEF Asked, Watched
<1>12. RanBut(u, u.block)
  <2>1. RanBut(t, v.block)
    BY <1>5 DEF Steady
  <2> QED BY <1>6, <1>8, <2>1, Zenon DEF RanBut
<1>13. Sheltered(u, u.next)
  <2>1. Sheltered(t, v.next)
    BY <1>5 DEF Steady
  <2> QED BY <1>6, <1>8, <2>1, Zenon DEF Sheltered
<1>14. Kept(v, u)
  BY <1>5, <1>8 DEF Kept
<1>15. u.done = v.done
  BY <1>6, <1>8
<1> QED BY <1>7, <1>9, <1>10, <1>11, <1>12, <1>13, <1>14, <1>15 DEF Steady, u

LEMMA PumpStops ==
  ASSUME load \in Nat, NEW v, Steady(v, load), ~v.done
  PROVE  LET u == StopPump(v)
         IN  Steady(u, load) /\ Kept(v, u) /\ ~u.done
<1> DEFINE u == StopPump(v)
<1>1. v \in Engine
  BY DEF Steady
<1>2. CASE v.parsed = v.recvd /\ v.eof /\ v.block # 0
  <2>1. u = [v EXCEPT !.died = "blocked at end"]
    BY <1>2 DEF StopPump
  <2> HIDE DEF u
  <2>2. u \in Engine
    <3>1. "blocked at end" \in Deaths
      BY DEF Deaths
    <3> QED BY <1>1, <2>1, <3>1 DEF Engine
  <2>3. /\ u.loading = v.loading /\ u.finished = v.finished /\ u.errored = v.errored
        /\ u.pending = v.pending /\ u.count = v.count /\ u.recvd = v.recvd /\ u.parsed = v.parsed
        /\ u.scanned = v.scanned /\ u.next = v.next /\ u.eof = v.eof /\ u.block = v.block
        /\ u.done = v.done /\ u.delayed = v.delayed /\ u.loaded = v.loaded /\ u.watch = v.watch
        /\ u.ran = v.ran /\ u.died = "blocked at end" /\ u.sheets = v.sheets
        /\ u.timers = v.timers /\ u.sched = v.sched /\ u.state = v.state /\ u.model = v.model
        /\ u.left = v.left
    BY <1>1, <2>1 DEF Engine
  <2>4. Fetches(u, load, 0)
    BY <2>3, Zenon DEF Fetches, Steady
  <2>5. Reading(u) /\ Asked(u) /\ Watched(u)
    BY <2>3 DEF Reading, Asked, Watched, Steady
  <2>6. RanBut(u, u.block)
    <3>1. v.died # "script not ready"
      BY <1>2 DEF Steady, Watched
    <3> QED BY <2>3, <3>1, Zenon DEF RanBut, Steady
  <2>7. Sheltered(u, u.next)
    BY <2>3 DEF Sheltered, Steady
  <2>8. Kept(v, u)
    BY <2>3 DEF Kept
  <2> QED BY <2>2, <2>3, <2>4, <2>5, <2>6, <2>7, <2>8 DEF Steady, u
<1>3. CASE v.parsed = v.recvd /\ v.eof /\ v.block = 0
  <2>1. u = [v EXCEPT !.delayed = TRUE]
    <3>1. v.parsed \in Nat /\ v.recvd \in Nat
      BY <1>1 DEF Engine
    <3> QED BY <1>3, <3>1 DEF StopPump
  <2> HIDE DEF u
  <2>2. u \in Engine
    BY <1>1, <2>1 DEF Engine
  <2>3. /\ u.loading = v.loading /\ u.finished = v.finished /\ u.errored = v.errored
        /\ u.pending = v.pending /\ u.count = v.count /\ u.recvd = v.recvd /\ u.parsed = v.parsed
        /\ u.scanned = v.scanned /\ u.next = v.next /\ u.eof = v.eof /\ u.block = v.block
        /\ u.done = v.done /\ u.delayed = TRUE /\ u.loaded = v.loaded /\ u.watch = v.watch
        /\ u.ran = v.ran /\ u.died = v.died /\ u.sheets = v.sheets
        /\ u.timers = v.timers /\ u.sched = v.sched /\ u.state = v.state /\ u.model = v.model
        /\ u.left = v.left
    BY <1>1, <2>1 DEF Engine
  <2>4. Fetches(u, load, 0)
    BY <2>3, Zenon DEF Fetches, Steady
  <2>5. Reading(u) /\ Asked(u) /\ Watched(u)
    BY <1>3, <2>3 DEF Reading, Asked, Watched, Steady
  <2>6. RanBut(u, u.block)
    BY <2>3, Zenon DEF RanBut, Steady
  <2>7. Sheltered(u, u.next)
    BY <2>3 DEF Sheltered, Steady
  <2>8. Kept(v, u)
    BY <2>3 DEF Kept
  <2> QED BY <2>2, <2>3, <2>4, <2>5, <2>6, <2>7, <2>8 DEF Steady, u
<1>4. CASE ~(v.parsed = v.recvd /\ v.eof)
  <2>1. u = v \/ u = [v EXCEPT !.resume = TRUE]
    BY <1>4 DEF StopPump
  <2> HIDE DEF u
  <2>2. u \in Engine
    <3>1. [v EXCEPT !.resume = TRUE] \in Engine
      BY <1>1 DEF Engine
    <3> QED BY <1>1, <2>1, <3>1
  <2>3. /\ u.loading = v.loading /\ u.finished = v.finished /\ u.errored = v.errored
        /\ u.pending = v.pending /\ u.count = v.count /\ u.recvd = v.recvd /\ u.parsed = v.parsed
        /\ u.scanned = v.scanned /\ u.next = v.next /\ u.eof = v.eof /\ u.block = v.block
        /\ u.done = v.done /\ u.delayed = v.delayed /\ u.loaded = v.loaded /\ u.watch = v.watch
        /\ u.ran = v.ran /\ u.died = v.died /\ u.sheets = v.sheets
        /\ u.timers = v.timers /\ u.sched = v.sched /\ u.state = v.state /\ u.model = v.model
        /\ u.left = v.left
    BY <1>1, <2>1 DEF Engine
  <2>4. Fetches(u, load, 0) /\ Reading(u) /\ Asked(u) /\ Watched(u) /\ RanBut(u, u.block)
    BY <2>3, SameKeeps DEF Steady
  <2>5. Sheltered(u, u.next)
    BY <2>3, SameKeeps DEF Steady
  <2>6. Kept(v, u)
    BY <2>3 DEF Kept
  <2> QED BY <2>2, <2>3, <2>4, <2>5, <2>6 DEF Steady, u
<1> QED BY <1>2, <1>3, <1>4

(* One pump, and one only if the parser may go on.                         *)
LEMMA Pumps ==
  ASSUME load \in Nat, NEW v, Steady(v, load)
  PROVE  \A u \in PumpIfPossible(v) : Steady(u, load) /\ Kept(v, u)
<1>1. CASE v.done \/ v.block # 0
  BY <1>1 DEF PumpIfPossible, Kept
<1>2. CASE ~(v.done \/ v.block # 0)
  <2> DEFINE limit == IF v.parsed + PumpLimit < v.recvd THEN v.parsed + PumpLimit ELSE v.recvd
  <2>1. limit \in Nat /\ limit <= v.recvd
    <3>1. v.parsed \in Nat /\ v.recvd \in Nat /\ PumpLimit \in Nat
      BY PageAssumption DEF Steady, Engine
    <3> QED BY <3>1
  <2>2. PumpIfPossible(v) = {IF u.block # 0 THEN PreloadScan(u) ELSE u :
                               u \in {StopPump(t) : t \in Parse(v, limit)}}
    BY <1>2 DEF PumpIfPossible, PumpTokenizer
  <2> HIDE DEF limit
  <2> SUFFICES ASSUME NEW u \in PumpIfPossible(v)
               PROVE  Steady(u, load) /\ Kept(v, u)
    OBVIOUS
  <2>3. PICK t \in Parse(v, limit) :
          u = IF StopPump(t).block # 0 THEN PreloadScan(StopPump(t)) ELSE StopPump(t)
    BY <2>2
  <2>4. Steady(t, load) /\ Kept(v, t) /\ ~t.done
    BY <1>2, <2>1, Parses
  <2>5. Steady(StopPump(t), load) /\ Kept(v, StopPump(t))
    BY <2>4, PumpStops, KeptOn
  <2>6. PICK x : x = StopPump(t)
    OBVIOUS
  <2>7. u = x \/ u = PreloadScan(x)
    BY <2>3, <2>6
  <2>8. Steady(x, load) /\ Kept(v, x)
    BY <2>5, <2>6
  <2> QED BY <2>7, <2>8, Preloads, KeptOn
<1> QED BY <1>1, <1>2

(* A document parsed to its end has no element left.                       *)
LEMMA AllParsed ==
  ASSUME NEW v, Reading(v), v.parsed = Page.size
  PROVE  v.next = Len(Page.elems) + 1 /\ \A i \in Elem : i < v.next
<1>1. /\ v.next \in 1..(Len(Page.elems) + 1) /\ Len(Page.elems) \in Nat
      /\ \A i \in Elem : i >= v.next => Page.elems[i].at >= Page.size
  BY PageFacts DEF Reading
<1>2. ASSUME NEW i \in Elem
      PROVE  i < v.next
  <2>1. i \in Nat /\ v.next \in Nat /\ Page.size \in Nat /\ Page.elems[i].at \in Nat
        /\ Page.elems[i].at < Page.size
    BY <1>1, PageFacts
  <2> QED BY <1>1, <2>1
<1>3. v.next = Len(Page.elems) + 1
  <2>1. v.next \in Nat /\ (v.next \in Elem \/ v.next = Len(Page.elems) + 1)
    BY <1>1 DEF Elem
  <2> QED BY <1>2, <2>1
<1> QED BY <1>2, <1>3

LEMMA Ends ==
  ASSUME load \in Nat, NEW v, Steady(v, load), v.block = 0, v.parsed >= v.recvd, v.eof
  PROVE  LET u == End(v)
         IN  Steady(u, load) /\ Kept(v, u) /\ u.block = 0
<1> DEFINE x == [v EXCEPT !.done = TRUE, !.delayed = FALSE]
           t == ExecuteScope(x, Page.onParsed)
<1>1. /\ v \in Engine /\ Reading(v) /\ v.parsed = Page.size
  <2>1. v \in Engine /\ Reading(v) /\ v.parsed \in Nat /\ v.recvd \in Nat
    BY DEF Steady, Engine
  <2> QED BY <2>1 DEF Reading
<1>2. x \in Engine
  BY <1>1 DEF Engine
<1>3. /\ x.loading = v.loading /\ x.finished = v.finished /\ x.errored = v.errored
      /\ x.pending = v.pending /\ x.count = v.count /\ x.recvd = v.recvd /\ x.parsed = v.parsed
      /\ x.scanned = v.scanned /\ x.next = v.next /\ x.eof = v.eof /\ x.block = v.block
      /\ x.done = TRUE /\ x.delayed = FALSE /\ x.loaded = v.loaded /\ x.watch = v.watch
      /\ x.ran = v.ran /\ x.died = v.died /\ x.sheets = v.sheets
      /\ x.timers = v.timers /\ x.sched = v.sched /\ x.state = v.state /\ x.model = v.model
      /\ x.left = v.left
  BY <1>1 DEF Engine
<1> HIDE DEF x
<1>4. Fetches(x, load, 0)
  BY <1>3, Zenon DEF Fetches, Steady
<1>5. Reading(x) /\ Asked(x) /\ Watched(x)
  BY <1>1, <1>3 DEF Reading, Asked, Watched, Steady
<1>6. RanBut(x, 0)
  BY <1>3, Zenon DEF RanBut, Steady
<1>7. More(x, t) /\ Fetches(t, load, 0)
  BY <1>2, <1>4, ScopeLoads
<1> HIDE DEF t
<1>8. Kept(x, t) /\ Reading(t) /\ Asked(t) /\ Watched(t) /\ RanBut(t, 0) /\ t \in Engine
  BY <1>5, <1>6, <1>7, MoreKeeps DEF More
<1>9. t.block = 0 /\ t.next = v.next /\ t.died = v.died
  BY <1>3, <1>7, MoreSame
<1>10. Sheltered(t, t.next)
  <2>1. \A i \in Elem : ~(i >= v.next)
    <3>1. \A i \in Elem : i < v.next /\ i \in Nat
      BY <1>1, AllParsed, PageFacts
    <3>2. v.next \in Nat
      BY <1>1 DEF Engine
    <3> QED BY <3>1, <3>2
  <2>2. ImmediateFirst => v.died # "script not ready"
    BY DEF Steady, Sheltered
  <2> QED BY <1>9, <2>1, <2>2 DEF Sheltered
<1>11. Steady(t, load)
  BY <1>7, <1>8, <1>9, <1>10 DEF Steady
<1>12. Kept(v, t)
  <2>1. Kept(v, x)
    BY <1>3 DEF Kept
  <2> QED BY <1>8, <2>1, KeptOn
<1>13. End(v) = CheckCompleted(t)
  BY DEF End, t, x
<1> QED BY <1>9, <1>11, <1>12, <1>13, Checked, KeptOn

LEMMA ResumesParsing ==
  ASSUME load \in Nat, NEW v, Steady(v, load)
  PROVE  \A u \in ResumeParsing(v) : Steady(u, load) /\ Kept(v, u)
<1> SUFFICES ASSUME NEW x \in PumpIfPossible(v)
             PROVE  Steady(EndIfDelayed(x), load) /\ Kept(v, EndIfDelayed(x))
  BY DEF ResumeParsing
<1>1. Steady(x, load) /\ Kept(v, x)
  BY Pumps
<1>2. CASE ~x.delayed \/ ShouldDelayEnd(x)
  BY <1>1, <1>2 DEF EndIfDelayed
<1>3. CASE ~(~x.delayed \/ ShouldDelayEnd(x))
  <2>1. x.block = 0 /\ ~(x.parsed < x.recvd) /\ x.delayed
    BY <1>3 DEF ShouldDelayEnd
  <2>2. x.parsed \in Nat /\ x.recvd \in Nat /\ x.eof
    BY <1>1, <2>1 DEF Steady, Engine, Reading
  <2>3. x.parsed >= x.recvd
    BY <2>1, <2>2
  <2>4. EndIfDelayed(x) = End(x)
    BY <1>3 DEF EndIfDelayed
  <2> QED BY <1>1, <2>1, <2>2, <2>3, <2>4, Ends, KeptOn
<1> QED BY <1>2, <1>3

LEMMA AttemptsToEnd ==
  ASSUME load \in Nat, NEW v, Steady(v, load), v.recvd = Page.size, Main \in v.finished
  PROVE  LET x == [v EXCEPT !.eof = TRUE]
             u == AttemptToEnd(x)
         IN  Steady(u, load) /\ Kept(v, u) /\ u.block = v.block
<1> DEFINE x == [v EXCEPT !.eof = TRUE]
           u == AttemptToEnd(x)
<1>1. v \in Engine
  BY DEF Steady
<1>2. x \in Engine
  BY <1>1 DEF Engine
<1>3. /\ x.loading = v.loading /\ x.finished = v.finished /\ x.errored = v.errored
      /\ x.pending = v.pending /\ x.count = v.count /\ x.recvd = v.recvd /\ x.parsed = v.parsed
      /\ x.scanned = v.scanned /\ x.next = v.next /\ x.eof = TRUE /\ x.block = v.block
      /\ x.done = v.done /\ x.delayed = v.delayed /\ x.loaded = v.loaded /\ x.watch = v.watch
      /\ x.ran = v.ran /\ x.died = v.died /\ x.sheets = v.sheets
      /\ x.timers = v.timers /\ x.sched = v.sched /\ x.state = v.state /\ x.model = v.model
      /\ x.left = v.left
  BY <1>1 DEF Engine
<1> HIDE DEF x
<1>4. Fetches(x, load, 0)
  BY <1>3, Zenon DEF Fetches, Steady
<1>5. Reading(x) /\ Asked(x) /\ Watched(x)
  BY <1>1, <1>3 DEF Reading, Asked, Watched, Steady
<1>6. RanBut(x, x.block)
  BY <1>3, Zenon DEF RanBut, Steady
<1>7. Sheltered(x, x.next)
  BY <1>3 DEF Sheltered, Steady
<1>8. Steady(x, load)
  BY <1>2, <1>4, <1>5, <1>6, <1>7 DEF Steady
<1>9. Kept(v, x)
  BY <1>3 DEF Kept
<1>10. CASE ShouldDelayEnd(x)
  <2>1. u = [x EXCEPT !.delayed = TRUE]
    BY <1>10 DEF AttemptToEnd
  <2> HIDE DEF u
  <2>2. u \in Engine
    BY <1>2, <2>1 DEF Engine
  <2>3. /\ u.loading = x.loading /\ u.finished = x.finished /\ u.errored = x.errored
        /\ u.pending = x.pending /\ u.count = x.count /\ u.recvd = x.recvd /\ u.parsed = x.parsed
        /\ u.scanned = x.scanned /\ u.next = x.next /\ u.eof = x.eof /\ u.block = x.block
        /\ u.done = x.done /\ u.delayed = TRUE /\ u.loaded = x.loaded /\ u.watch = x.watch
        /\ u.ran = x.ran /\ u.died = x.died /\ u.sheets = x.sheets
        /\ u.timers = x.timers /\ u.sched = x.sched /\ u.state = x.state /\ u.model = x.model
        /\ u.left = x.left
    BY <1>2, <2>1 DEF Engine
  <2>4. Fetches(u, load, 0)
    BY <1>4, <2>3, Zenon DEF Fetches
  <2>5. Reading(u) /\ Asked(u) /\ Watched(u)
    BY ZenonT(60), <1>3, <1>5, <2>3 DEF Reading, Asked, Watched
  <2>6. RanBut(u, u.block)
    BY <1>6, <2>3, Zenon DEF RanBut
  <2>7. Sheltered(u, u.next)
    BY <1>7, <2>3 DEF Sheltered
  <2>8. Kept(x, u) /\ u.block = v.block
    BY <1>3, <2>3 DEF Kept
  <2> QED BY <1>9, <2>2, <2>4, <2>5, <2>6, <2>7, <2>8, KeptOn DEF Steady, u, x
<1>11. CASE ~ShouldDelayEnd(x)
  <2>1. x.block = 0 /\ ~(x.parsed < x.recvd)
    BY <1>11 DEF ShouldDelayEnd
  <2>2. x.parsed >= x.recvd /\ x.eof
    BY <1>2, <1>3, <2>1 DEF Engine
  <2>3. u = End(x)
    BY <1>11 DEF AttemptToEnd
  <2>4. Steady(u, load) /\ Kept(x, u) /\ u.block = 0
    BY <1>8, <2>1, <2>2, <2>3, Ends
  <2> QED BY <1>3, <1>9, <2>1, <2>4, KeptOn DEF u, x
<1> QED BY <1>10, <1>11

LEMMA ExecutesScripts ==
  ASSUME load \in Nat, NEW v, Steady(v, load)
  PROVE  \A u \in ExecuteScripts(v) : Steady(u, load) /\ Kept(v, u)
<1> DEFINE x == IF v.block # 0 /\ Ready(v, v.block) THEN RunScript(v, v.block) ELSE v
<1>1. Steady(x, load) /\ Kept(v, x)
  <2>1. CASE v.block # 0 /\ Ready(v, v.block)
    <3> DEFINE i == v.block
    <3>1. i \in Scripts /\ i = v.next - 1 /\ v \in Engine
      BY <2>1 DEF Steady, Reading
    <3>2. /\ Fetches(v, load, 0) /\ Reading(v) /\ Asked(v) /\ Watched(v) /\ RanBut(v, i)
          /\ Sheltered(v, v.next)
      BY DEF Steady
    <3>3. x = RunScript(v, i) /\ Ready(v, i) /\ v.block \in {0, i}
      BY <2>1
    <3> HIDE DEF i, x
    <3> QED BY <3>1, <3>2, <3>3, ScriptRuns
  <2>2. CASE ~(v.block # 0 /\ Ready(v, v.block))
    <3>1. x = v
      BY <2>2
    <3> QED BY <3>1 DEF Kept
  <2> QED BY <2>1, <2>2
<1>2. ExecuteScripts(v) = IF x.block = 0 THEN ResumeParsing(x) ELSE {x}
  BY DEF ExecuteScripts
<1> HIDE DEF x
<1> QED BY <1>1, <1>2, ResumesParsing, KeptOn

-----------------------------------------------------------------------------
(* A resource's clients are told.                                          *)
LEMMA SheetRemoved ==
  ASSUME NEW v, NEW l, Steady(v, l), NEW i
  PROVE  LET u == RemoveSheet(v, i)
         IN  Steady(u, l) /\ Kept(v, u) /\ u.block = v.block
<1> DEFINE rest == v.sheets \ {i}
           u == RemoveSheet(v, i)
<1>1. v \in Engine
  BY DEF Steady
<1>2. u = [v EXCEPT !.sheets = rest, !.exec = @ \/ rest = {}]
  BY DEF RemoveSheet
<1>3. rest \in SUBSET (Elem \cup Page.sheets) /\ rest \subseteq v.sheets
      /\ (v.exec \/ rest = {}) \in BOOLEAN
  BY <1>1 DEF Engine
<1> HIDE DEF rest, u
<1>4. u \in Engine
  BY ZenonT(60), <1>1, <1>2, <1>3 DEF Engine
<1>5. /\ u.loading = v.loading /\ u.finished = v.finished /\ u.errored = v.errored
      /\ u.pending = v.pending /\ u.count = v.count /\ u.recvd = v.recvd /\ u.parsed = v.parsed
      /\ u.scanned = v.scanned /\ u.next = v.next /\ u.eof = v.eof /\ u.block = v.block
      /\ u.done = v.done /\ u.delayed = v.delayed /\ u.loaded = v.loaded /\ u.watch = v.watch
      /\ u.ran = v.ran /\ u.died = v.died /\ u.sheets = rest /\ u.timers = v.timers
      /\ u.sched = v.sched /\ u.state = v.state /\ u.model = v.model /\ u.left = v.left
  BY <1>1, <1>2 DEF Engine
<1>6. Kept(v, u)
  BY <1>5 DEF Kept
<1>7. Fetches(u, l, 0) /\ Reading(u) /\ Asked(u) /\ Watched(u) /\ RanBut(u, u.block)
  BY <1>5, SameKeeps DEF Steady
<1>8. Sheltered(u, u.next)
  BY <1>3, <1>5, SameKeeps DEF Steady
<1> QED BY <1>4, <1>5, <1>6, <1>7, <1>8 DEF Steady, u

LEMMA Notified ==
  ASSUME load \in Nat, NEW v, Steady(v, load), NEW c, NEW ok \in BOOLEAN,
         c[1] \in {"fetcher", "parser", "document", "sheet"},
         c[1] = "parser" => v.block # 0,
         c[1] = "document" => v.recvd = Page.size /\ Main \in v.finished
  PROVE  \A u \in NotifyFinished(v, c, ok) :
           Steady(u, load) /\ Kept(v, u) /\ (c[1] # "parser" => u.block = v.block)
<1>1. CASE c[1] = "fetcher"
  <2>1. NotifyFinished(v, c, ok) = {CheckCompleted(v)}
    BY <1>1 DEF NotifyFinished
  <2> QED BY <2>1, Checked
<1>2. CASE c[1] = "document"
  <2>1. NotifyFinished(v, c, ok) = {AttemptToEnd([v EXCEPT !.eof = TRUE])}
    BY <1>2 DEF NotifyFinished
  <2> QED BY <1>2, <2>1, AttemptsToEnd
<1>3. CASE c[1] = "sheet"
  <2>1. NotifyFinished(v, c, ok) = {RemoveSheet(v, c[2])}
    BY <1>3 DEF NotifyFinished
  <2> QED BY <2>1, SheetRemoved
<1>4. CASE c[1] = "parser" /\ ok
  <2>1. NotifyFinished(v, c, ok) = ExecuteScripts(v)
    BY <1>4 DEF NotifyFinished
  <2> QED BY <1>4, <2>1, ExecutesScripts
<1>5. CASE c[1] = "parser" /\ ~ok
  <2> DEFINE u == [v EXCEPT !.died = "script failed"]
  <2>1. NotifyFinished(v, c, ok) = {u}
    BY <1>5 DEF NotifyFinished
  <2>2. v \in Engine
    BY DEF Steady
  <2>3. u \in Engine
    <3>1. "script failed" \in Deaths
      BY DEF Deaths
    <3> QED BY <2>2, <3>1 DEF Engine
  <2>4. /\ u.loading = v.loading /\ u.finished = v.finished /\ u.errored = v.errored
        /\ u.pending = v.pending /\ u.count = v.count /\ u.recvd = v.recvd /\ u.parsed = v.parsed
        /\ u.scanned = v.scanned /\ u.next = v.next /\ u.eof = v.eof /\ u.block = v.block
        /\ u.done = v.done /\ u.delayed = v.delayed /\ u.loaded = v.loaded /\ u.watch = v.watch
        /\ u.ran = v.ran /\ u.died = "script failed" /\ u.sheets = v.sheets
        /\ u.timers = v.timers /\ u.sched = v.sched /\ u.state = v.state /\ u.model = v.model
        /\ u.left = v.left
    BY <2>2 DEF Engine
  <2> HIDE DEF u
  <2>5. Fetches(u, load, 0)
    BY <2>4, Zenon DEF Fetches, Steady
  <2>6. Reading(u) /\ Asked(u) /\ Watched(u)
    BY ZenonT(60), <2>4 DEF Reading, Asked, Watched, Steady
  <2>7. RanBut(u, u.block)
    <3>1. v.died # "script not ready"
      BY <1>5 DEF Steady, Watched
    <3> QED BY <2>4, <3>1, Zenon DEF RanBut, Steady
  <2>8. Sheltered(u, u.next)
    BY <2>4 DEF Sheltered, Steady
  <2>9. Kept(v, u)
    BY <2>4 DEF Kept
  <2> QED BY <1>5, <2>1, <2>3, <2>5, <2>6, <2>7, <2>8, <2>9 DEF Steady
<1> QED BY <1>1, <1>2, <1>3, <1>4, <1>5

(* The clients are finitely many.                                          *)
LEMMA FewClients ==
  ASSUME NEW v \in Engine, NEW r
  PROVE  Cardinality(Clients(v, r)) \in Nat
<1> DEFINE T == {t \in v.sheets : SheetRes(t) = r}
           I == {<< "sheet", s >> : s \in T}
           f == [s \in T |-> << "sheet", s >>]
           A == {<< "fetcher", r >>}
           B == IF r \in v.watch THEN {<< "parser", r >>} ELSE {}
           C == IF r = Main THEN {<< "document", r >>} ELSE {}
<1>1. IsFiniteSet(T)
  <2>1. IsFiniteSet(Elem) /\ IsFiniteSet(Page.sheets)
    <3>1. IsFiniteSet(Elem)
      BY PageFacts, FS_Interval DEF Elem
    <3>2. IsFiniteSet(Page.sheets)
      BY PageFacts, FS_Subset
    <3> QED BY <3>1, <3>2
  <2>2. IsFiniteSet(Elem \cup Page.sheets)
    BY <2>1, FS_Union
  <2>3. T \in SUBSET (Elem \cup Page.sheets)
    BY DEF Engine
  <2> QED BY <2>2, <2>3, FS_Subset
<1>2. f \in Surjection(T, I)
  BY DEF Surjection
<1>3. IsFiniteSet(I)
  <2> HIDE DEF T, I, f
  <2> QED BY <1>1, <1>2, FS_Surjection
<1>4. IsFiniteSet(A) /\ IsFiniteSet(B) /\ IsFiniteSet(C)
  BY FS_Singleton, FS_EmptySet
<1>5. Clients(v, r) = ((A \cup B) \cup C) \cup I
  BY DEF Clients
<1> HIDE DEF A, B, C, I
<1>6. IsFiniteSet(((A \cup B) \cup C) \cup I)
  <2>1. IsFiniteSet(A \cup B)
    BY <1>4, FS_Union
  <2>2. IsFiniteSet((A \cup B) \cup C)
    BY <1>4, <2>1, FS_Union
  <2> QED BY <1>3, <2>2, FS_Union
<1> QED BY <1>5, <1>6, FS_CardinalityType

NotifyTurns(v, order, ok) ==
  CHOOSE after : after = [n \in 0..Len(order) |->
                            IF n = 0 THEN {v} ELSE NotifyEach(after[n - 1], order[n], ok)]

LEMMA NotifyTurned ==
  ASSUME NEW v, NEW order, NEW ok, Len(order) \in Nat
  PROVE  LET t == NotifyTurns(v, order, ok)
             m == Len(order)
         IN  /\ t[0] = {v}
             /\ \A n \in 0..m : n < m => t[n + 1] = NotifyEach(t[n], order[n + 1], ok)
             /\ NotifyAll(v, order, ok) = t[m]
<1> DEFINE t == NotifyTurns(v, order, ok)
           m == Len(order)
           Up(g, k) == g = [n \in 0..k |-> IF n = 0 THEN {v} ELSE NotifyEach(g[n - 1], order[n], ok)]
           G == {k \in Nat : \E g : Up(g, k)}
<1>1. 0 \in G
  <2> DEFINE g == [n \in 0..0 |-> {v}]
  <2>1. g = [n \in 0..0 |-> IF n = 0 THEN {v} ELSE NotifyEach(g[n - 1], order[n], ok)]
    OBVIOUS
  <2> QED BY <2>1
<1>2. \A k \in 0..m : k < m /\ k \in G => k + 1 \in G
  <2> SUFFICES ASSUME NEW k \in 0..m, k \in G
               PROVE  k + 1 \in G
    OBVIOUS
  <2>1. PICK g : Up(g, k)
    OBVIOUS
  <2> DEFINE h == [n \in 0..(k + 1) |-> IF n = k + 1 THEN NotifyEach(g[k], order[n], ok) ELSE g[n]]
  <2>2. ASSUME NEW n \in 0..(k + 1)
        PROVE  h[n] = IF n = 0 THEN {v} ELSE NotifyEach(h[n - 1], order[n], ok)
    <3>1. CASE n = k + 1
      <4>1. h[n] = NotifyEach(g[k], order[n], ok) /\ n - 1 = k /\ n # 0
        BY <3>1
      <4>2. h[k] = g[k]
        OBVIOUS
      <4> QED BY <4>1, <4>2
    <3>2. CASE n # k + 1
      <4>1. n \in 0..k /\ h[n] = g[n]
        BY <3>2
      <4>2. g[n] = IF n = 0 THEN {v} ELSE NotifyEach(g[n - 1], order[n], ok)
        BY <2>1, <4>1
      <4>3. n # 0 => h[n - 1] = g[n - 1]
        BY <4>1
      <4> HIDE DEF h
      <4> QED BY <4>1, <4>2, <4>3
    <3> QED BY <3>1, <3>2
  <2>3. Up(h, k + 1)
    <3>1. h = [n \in 0..(k + 1) |-> h[n]]
      OBVIOUS
    <3> HIDE DEF h
    <3> QED BY <2>2, <3>1
  <2> HIDE DEF h
  <2>4. \E f : Up(f, k + 1)
    BY <2>3
  <2> HIDE DEF Up
  <2> QED BY <2>4
<1> HIDE DEF G
<1>3. m \in G
  <2>1. m \in Nat /\ m \in 0..m
    OBVIOUS
  <2> HIDE DEF m
  <2>2. \A n \in 0..m : n \in G
    BY <1>1, <1>2, <2>1, HoldsAll
  <2> QED BY <2>1, <2>2
<1>4. \E g : Up(g, m)
  BY <1>3 DEF G
<1>5. t = [n \in 0..m |-> IF n = 0 THEN {v} ELSE NotifyEach(t[n - 1], order[n], ok)]
  BY <1>4 DEF NotifyTurns
<1>6. NotifyAll(v, order, ok) = t[m]
  BY DEF NotifyAll, NotifyTurns
<1> HIDE DEF t
<1>7. t[0] = {v}
  BY <1>5
<1>8. ASSUME NEW n \in 0..m, n < m
      PROVE  t[n + 1] = NotifyEach(t[n], order[n + 1], ok)
  <2>1. n + 1 \in 0..m /\ n + 1 # 0 /\ (n + 1) - 1 = n
    BY <1>8
  <2> QED BY <1>5, <2>1
<1> QED BY <1>6, <1>7, <1>8 DEF t

(* All clients are told, in some order: the parser while it still waits.   *)
LEMMA AllNotified ==
  ASSUME load \in Nat, NEW v, Steady(v, load), NEW x \in Engine, NEW r, NEW ok \in BOOLEAN,
         NEW order \in Orders(Clients(x, r)), r \in x.watch => v.block # 0,
         r = Main => v.recvd = Page.size /\ Main \in v.finished
  PROVE  \A u \in NotifyAll(v, order, ok) : Steady(u, load) /\ Kept(v, u)
<1> DEFINE S == Clients(x, r)
<1>1. PICK m \in Nat : m = Cardinality(S)
  BY FewClients
<1>2. /\ order \in [1..m -> S]
      /\ \A i, j \in 1..m : i # j => order[i] # order[j]
  BY <1>1 DEF Orders
<1>3. Len(order) = m
  <2> HIDE DEF S
  <2>1. order \in Seq(S)
    BY <1>2
  <2> QED BY <1>2, <2>1
<1>4. \A c \in S : /\ c[1] \in {"fetcher", "parser", "document", "sheet"}
                   /\ c[1] = "parser" => c = << "parser", r >> /\ r \in x.watch
                   /\ c[1] = "document" => r = Main
  BY DEF Clients
<1> HIDE DEF S
<1> DEFINE Good(u, n) == /\ Steady(u, load) /\ Kept(v, u)
                         /\ (\E j \in 1..m : j > n /\ order[j][1] = "parser") => u.block # 0
           t == NotifyTurns(v, order, ok)
           G == {n \in Nat : \A u \in t[n] : Good(u, n)}
<1>5. /\ t[0] = {v} /\ NotifyAll(v, order, ok) = t[m]
      /\ \A n \in 0..m : n < m => t[n + 1] = NotifyEach(t[n], order[n + 1], ok)
  BY <1>3, NotifyTurned
<1> HIDE DEF t
<1>6. 0 \in G
  <2>1. Good(v, 0)
    BY <1>2, <1>4 DEF Kept
  <2> HIDE DEF Good
  <2> QED BY <1>5, <2>1
<1>7. ASSUME NEW n \in 0..m, n < m, n \in G
      PROVE  n + 1 \in G
  <2>1. ASSUME NEW u \in t[n + 1]
        PROVE  Good(u, n + 1)
    <3>1. PICK y \in t[n] : u \in NotifyFinished(y, order[n + 1], ok)
      BY <1>5, <1>7, <2>1 DEF NotifyEach
    <3>2. Good(y, n)
      BY <1>7, <3>1
    <3>3. n + 1 \in 1..m /\ n + 1 > n
      BY <1>7
    <3>4. PICK c : c = order[n + 1]
      OBVIOUS
    <3>5. c \in S /\ c[1] \in {"fetcher", "parser", "document", "sheet"}
      BY <1>2, <1>4, <3>3, <3>4
    <3>6. c[1] = "parser" => y.block # 0
      BY <3>2, <3>3, <3>4
    <3>7. c[1] = "document" => y.recvd = Page.size /\ Main \in y.finished
      BY <1>4, <3>2, <3>5 DEF Kept
    <3>8. Steady(u, load) /\ Kept(y, u) /\ (c[1] # "parser" => u.block = y.block)
      BY <3>1, <3>2, <3>4, <3>5, <3>6, <3>7, Notified
    <3>9. Kept(v, u)
      BY <3>2, <3>8, KeptOn
    <3>10. ASSUME NEW j \in 1..m, j > n + 1, order[j][1] = "parser"
           PROVE  u.block # 0
      <4>1. j # n + 1 /\ j > n
        BY <3>10
      <4>2. order[j] # c
        BY <1>2, <3>3, <3>4, <4>1
      <4>3. c[1] # "parser"
        BY <1>2, <1>4, <3>5, <3>10, <4>2
      <4>4. y.block # 0
        BY <3>2, <3>10, <4>1
      <4> QED BY <3>8, <4>3, <4>4
    <3> QED BY <3>8, <3>9, <3>10
  <2> HIDE DEF Good
  <2> QED BY <2>1
<1>8. m \in G
  <2> HIDE DEF G
  <2>1. \A n \in 0..m : n \in G
    BY <1>6, <1>7, HoldsAll
  <2> QED BY <2>1
<1> QED BY <1>5, <1>8

-----------------------------------------------------------------------------
(* A request ends.                                                         *)

(* One request less to be counted.                                         *)
Counted(r) == IF r \in Page.checked THEN 1 ELSE 0

(* What is left to be done with resource r, counted still.                 *)
Ending(v, r) ==
  /\ v \in Engine /\ Fetches(v, load, Counted(r)) /\ Reading(v) /\ Asked(v) /\ Watched(v)
  /\ RanBut(v, v.block) /\ Sheltered(v, v.next)
  /\ r \in v.watch => v.block # 0
  /\ r = Main => v.recvd = Page.size /\ Main \in v.finished

LEMMA NotifiesAll ==
  ASSUME load \in Nat, NEW v, NEW r, NEW ok \in BOOLEAN, Ending(v, r)
  PROVE  \A u \in NotifyFinishedAll(v, r, ok) : Steady(u, load) /\ Kept(v, u)
<1> DEFINE x == IF r \in Page.checked THEN [v EXCEPT !.count = @ - 1] ELSE v
           P == (v.loading \cap Page.checked) \ v.errored
<1>1. v \in Engine /\ Cardinality(P) \in Nat /\ v.count = Cardinality(P) + Counted(r)
  <2>1. v \in Engine /\ v.count = Cardinality(P) + Counted(r)
    BY DEF Ending, Fetches
  <2>2. P \in SUBSET Res
    BY <2>1 DEF Engine
  <2> HIDE DEF P
  <2>3. Cardinality(P) \in Nat
    BY <2>2, PageFacts, FS_Subset, FS_CardinalityType
  <2> QED BY <2>1, <2>3
<1>2. x \in Engine /\ x.count = Cardinality(P)
  <2> HIDE DEF P
  <2>1. CASE r \in Page.checked
    <3>1. v.count - 1 = Cardinality(P)
      BY <1>1, <2>1 DEF Counted
    <3>2. PICK n \in Nat : n = v.count - 1 /\ n = Cardinality(P)
      BY <1>1, <3>1
    <3>3. x = [v EXCEPT !.count = n]
      BY <2>1, <3>2
    <3> HIDE DEF x
    <3>4. x \in Engine /\ x.count = n
      BY <1>1, <3>3 DEF Engine
    <3> QED BY <3>2, <3>4
  <2>2. CASE r \notin Page.checked
    <3>1. v.count = Cardinality(P)
      BY <1>1, <2>2 DEF Counted
    <3> QED BY <1>1, <2>2, <3>1
  <2> QED BY <2>1, <2>2
<1>3. /\ x.loading = v.loading /\ x.finished = v.finished /\ x.errored = v.errored
      /\ x.pending = v.pending /\ x.recvd = v.recvd /\ x.parsed = v.parsed
      /\ x.scanned = v.scanned /\ x.next = v.next /\ x.eof = v.eof /\ x.block = v.block
      /\ x.done = v.done /\ x.delayed = v.delayed /\ x.loaded = v.loaded /\ x.watch = v.watch
      /\ x.ran = v.ran /\ x.died = v.died /\ x.sheets = v.sheets
      /\ x.timers = v.timers /\ x.sched = v.sched /\ x.state = v.state /\ x.model = v.model
      /\ x.left = v.left
  <2>1. CASE r \in Page.checked
    <3>1. x = [v EXCEPT !.count = v.count - 1]
      BY <2>1
    <3> HIDE DEF x, P
    <3> QED BY <1>1, <3>1 DEF Engine
  <2>2. CASE r \notin Page.checked
    BY <2>2
  <2> QED BY <2>1, <2>2
<1>4. NotifyFinishedAll(v, r, ok) = UNION {NotifyAll(x, order, ok) : order \in Orders(Clients(x, r))}
  BY DEF NotifyFinishedAll
<1> HIDE DEF x
<1>5. Fetches(x, load, 0)
  <2>1. x.count = Cardinality(P) + 0
    BY <1>1, <1>2
  <2>2. /\ v.loading \cap v.finished = {} /\ v.errored \subseteq v.loading
        /\ v.pending = {<< load, s >> : s \in v.loading \ v.errored}
    BY Zenon DEF Ending, Fetches
  <2> QED BY <1>3, <2>1, <2>2, Zenon DEF Fetches
<1>6. Reading(x) /\ Asked(x) /\ Watched(x)
  BY <1>3 DEF Reading, Asked, Watched, Ending
<1>7. RanBut(x, x.block)
  BY <1>3, Zenon DEF RanBut, Ending
<1>8. Sheltered(x, x.next)
  BY <1>3 DEF Sheltered, Ending
<1>9. Steady(x, load)
  BY <1>2, <1>5, <1>6, <1>7, <1>8 DEF Steady
<1>10. Kept(v, x)
  BY <1>3 DEF Kept
<1>11. /\ r \in x.watch => x.block # 0
       /\ r = Main => x.recvd = Page.size /\ Main \in x.finished
  BY <1>3 DEF Ending
<1> SUFFICES ASSUME NEW order \in Orders(Clients(x, r)), NEW u \in NotifyAll(x, order, ok)
             PROVE  Steady(u, load) /\ Kept(v, u)
  BY <1>4
<1> QED BY <1>2, <1>9, <1>10, <1>11, AllNotified, KeptOn

(* The state of the load is as before, and requests that are out stay out. *)
Going(v, u) == u.state = v.state /\ u.loaded = v.loaded /\ v.pending \subseteq u.pending

LEMMA KeptGoing ==
  ASSUME NEW v, NEW u, NEW t
  PROVE  /\ Kept(v, u) => Going(v, u)
         /\ Going(v, u) /\ Kept(u, t) => Going(v, t)
BY DEF Kept, Going

(* One that is counted is taken off.                                       *)
LEMMA OneLess ==
  ASSUME NEW P, P \subseteq Res, NEW r, r \in Page.checked <=> r \in P
  PROVE  Cardinality(P) = Cardinality(P \ {r}) + Counted(r)
<1>1. IsFiniteSet(P)
  BY PageFacts, FS_Subset
<1>2. Cardinality(P \ {r}) = IF r \in P THEN Cardinality(P) - 1 ELSE Cardinality(P)
  BY <1>1, FS_RemoveElement
<1>3. Cardinality(P) \in Nat
  BY <1>1, FS_CardinalityType
<1> QED BY <1>2, <1>3 DEF Counted

LEMMA Finishes ==
  ASSUME load \in Nat, Steady(w, load), NEW r \in Res, NEW ok \in BOOLEAN,
         << load, r >> \in w.pending, r = Main => ok,
         ok /\ r = Main /\ w.left[Main] = 0 => w.recvd = Page.size
  PROVE  LET v == [w EXCEPT !.pending = @ \ {<< load, r >>}]
         IN  \A u \in Finish(v, r, ok) : Steady(u, load) /\ Going(v, u)
<1> DEFINE v == [w EXCEPT !.pending = @ \ {<< load, r >>}]
           Q == {<< load, s >> : s \in (w.loading \ {r}) \ w.errored}
           P == (w.loading \cap Page.checked) \ w.errored
<1>1. w \in Engine /\ w.left \in [Res -> Nat]
  BY DEF Steady, Engine
<1>2. /\ w.loading \cap w.finished = {} /\ w.errored \subseteq w.loading
      /\ w.pending = {<< load, s >> : s \in w.loading \ w.errored}
      /\ w.count = Cardinality(P) + 0 /\ r \in w.loading /\ r \notin w.errored
  BY DEF Steady, Fetches
<1>3. w.pending \ {<< load, r >>} = Q
  BY <1>2
<1>4. v = [w EXCEPT !.pending = Q]
  BY <1>3
<1>5. Q \in SUBSET (Nat \X Res)
  BY <1>1, <1>3 DEF Engine
<1>6. w.count = Cardinality(P \ {r}) + Counted(r)
  <2>1. P \subseteq Res /\ (r \in Page.checked <=> r \in P)
    BY <1>1, <1>2 DEF Engine
  <2>2. Cardinality(P) = Cardinality(P \ {r}) + Counted(r) /\ Cardinality(P) \in Nat
    <3> HIDE DEF P
    <3>1. Cardinality(P) \in Nat
      BY <2>1, PageFacts, FS_Subset, FS_CardinalityType
    <3> QED BY <2>1, <3>1, OneLess
  <2> HIDE DEF P
  <2> QED BY <1>2, <2>2
<1> HIDE DEF v, Q
<1>7. v \in Engine
  BY <1>1, <1>4, <1>5 DEF Engine
<1>8. /\ v.loading = w.loading /\ v.finished = w.finished /\ v.errored = w.errored
      /\ v.pending = Q /\ v.recvd = w.recvd /\ v.parsed = w.parsed /\ v.count = w.count
      /\ v.scanned = w.scanned /\ v.next = w.next /\ v.eof = w.eof /\ v.block = w.block
      /\ v.done = w.done /\ v.delayed = w.delayed /\ v.loaded = w.loaded /\ v.watch = w.watch
      /\ v.ran = w.ran /\ v.died = w.died /\ v.sheets = w.sheets
      /\ v.timers = w.timers /\ v.sched = w.sched /\ v.state = w.state /\ v.model = w.model
      /\ v.left = w.left
  BY <1>1, <1>4 DEF Engine
<1>9. r \in w.watch => w.block # 0
  BY <1>2 DEF Steady, Watched
<1>10. CASE ok /\ v.left[r] > 0
  <2> DEFINE u == LoadNextEntry(v, r)
  <2>1. Finish(v, r, ok) = {u}
    <3>1. v.left[r] # 0
      BY <1>1, <1>8, <1>10
    <3>2. r \in v.loading
      BY <1>2, <1>8
    <3> QED BY <1>10, <3>1, <3>2 DEF Finish
  <2>2. u = [v EXCEPT !.left[r] = @ - 1, !.pending = @ \cup {<< load, r >>}]
    BY DEF LoadNextEntry
  <2> HIDE DEF u
  <2>3. [w.left EXCEPT ![r] = @ - 1] \in [Res -> Nat] /\ Q \cup {<< load, r >>} = w.pending
    <3>1. w.left[r] - 1 \in Nat
      BY <1>1, <1>8, <1>10
    <3>2. [w.left EXCEPT ![r] = @ - 1] \in [Res -> Nat]
      BY <1>1, <3>1
    <3>3. Q \cup {<< load, r >>} = w.pending
      BY <1>3
    <3> QED BY <3>2, <3>3
  <2>4. u = [w EXCEPT !.left = [w.left EXCEPT ![r] = @ - 1]]
    <3>1. u = [v EXCEPT !.left = [w.left EXCEPT ![r] = @ - 1], !.pending = w.pending]
      BY <1>7, <1>8, <2>2, <2>3 DEF Engine
    <3> QED BY <1>1, <1>4, <3>1 DEF Engine
  <2>5. u \in Engine
    BY <1>1, <2>3, <2>4 DEF Engine
  <2>6. /\ u.loading = w.loading /\ u.finished = w.finished /\ u.errored = w.errored
        /\ u.pending = w.pending /\ u.count = w.count /\ u.recvd = w.recvd /\ u.parsed = w.parsed
        /\ u.scanned = w.scanned /\ u.next = w.next /\ u.eof = w.eof /\ u.block = w.block
        /\ u.done = w.done /\ u.delayed = w.delayed /\ u.loaded = w.loaded /\ u.watch = w.watch
        /\ u.ran = w.ran /\ u.died = w.died /\ u.sheets = w.sheets
        /\ u.timers = w.timers /\ u.sched = w.sched /\ u.state = w.state
    BY <1>1, <2>4 DEF Engine
  <2>7. Fetches(u, load, 0) /\ Reading(u) /\ Asked(u) /\ Watched(u) /\ RanBut(u, u.block)
    BY <2>6, SameKeeps DEF Steady
  <2>8. Sheltered(u, u.next)
    BY <2>6, SameKeeps DEF Steady
  <2>9. Going(v, u)
    BY <1>8, <2>3, <2>6 DEF Going
  <2> QED BY <2>1, <2>5, <2>7, <2>8, <2>9 DEF Steady, v
<1>11. CASE ok /\ ~(v.left[r] > 0)
  <2> DEFINE y == Finished(v, r)
             t == ExecuteScope(y, Page.fetches[r])
  <2>1. v.left[r] = 0
    BY <1>1, <1>8, <1>11
  <2>2. Finish(v, r, ok) = NotifyFinishedAll(t, r, TRUE)
    BY <1>2, <1>8, <1>11, <2>1 DEF Finish
  <2>3. y = [v EXCEPT !.loading = w.loading \ {r}, !.finished = w.finished \cup {r}]
    BY <1>8 DEF Finished
  <2> HIDE DEF y, t
  <2>4. y \in Engine
    <3>1. w.loading \ {r} \in SUBSET Res /\ w.finished \cup {r} \in SUBSET Res
      BY <1>1 DEF Engine
    <3> QED BY <1>7, <2>3, <3>1 DEF Engine
  <2>5. /\ y.loading = w.loading \ {r} /\ y.finished = w.finished \cup {r}
        /\ y.errored = w.errored /\ y.count = w.count
        /\ y.pending = Q /\ y.recvd = w.recvd /\ y.parsed = w.parsed
        /\ y.scanned = w.scanned /\ y.next = w.next /\ y.eof = w.eof /\ y.block = w.block
        /\ y.done = w.done /\ y.delayed = w.delayed /\ y.loaded = w.loaded /\ y.watch = w.watch
        /\ y.ran = w.ran /\ y.died = w.died /\ y.sheets = w.sheets
        /\ y.timers = w.timers /\ y.sched = w.sched /\ y.state = w.state
    BY <1>7, <1>8, <2>3 DEF Engine
  <2>6. Fetches(y, load, Counted(r))
    <3>1. (y.loading \cap Page.checked) \ y.errored = P \ {r}
      BY <2>5
    <3>2. y.count = Cardinality((y.loading \cap Page.checked) \ y.errored) + Counted(r)
      BY <1>6, <2>5, <3>1
    <3>3. y.pending = {<< load, s >> : s \in y.loading \ y.errored}
      BY <2>5 DEF Q
    <3>4. y.loading \cap y.finished = {} /\ y.errored \subseteq y.loading
      BY <1>2, <2>5
    <3> QED BY <3>2, <3>3, <3>4 DEF Fetches
  <2>7. Reading(y) /\ Asked(y) /\ Watched(y)
    BY ZenonT(60), <1>2, <2>5 DEF Reading, Asked, Watched, Steady
  <2>8. RanBut(y, y.block)
    BY <2>5, Zenon DEF RanBut, Steady
  <2>9. Sheltered(y, y.next)
    BY <2>5 DEF Sheltered, Steady
  <2>10. /\ More(y, t) /\ Fetches(t, load, Counted(r))
         /\ Page.fetches[r] \cap Page.sheets = {} => t.sheets = y.sheets
    <3>1. Counted(r) \in Nat
      BY DEF Counted
    <3> QED BY <2>4, <2>6, <3>1, ScopeLoads DEF t
  <2>11. /\ Kept(y, t) /\ Reading(t) /\ Asked(t) /\ Watched(t) /\ RanBut(t, y.block)
         /\ t \in Engine /\ \A n : Sheltered(y, n) /\ t.sheets = y.sheets => Sheltered(t, n)
    BY <2>7, <2>8, <2>10, MoreKeeps DEF More
  <2>12. t.block = y.block /\ t.next = y.next /\ t.died = y.died /\ t.watch = y.watch
    BY <2>10, MoreSame
  <2>13. Sheltered(t, t.next)
    <3>1. CASE ImmediateFirst /\ \E i \in Elem : i >= y.next /\ Kind(i) = "inline!"
      <4>1. Page.fetches[r] \cap Page.sheets = {}
        BY <3>1 DEF ImmediateFirst
      <4> QED BY <2>9, <2>10, <2>11, <2>12, <4>1
    <3>2. CASE ~(ImmediateFirst /\ \E i \in Elem : i >= y.next /\ Kind(i) = "inline!")
      BY <2>9, <2>12, <3>2 DEF Sheltered
    <3> QED BY <3>1, <3>2
  <2>14. Ending(t, r)
    <3>1. r \in t.watch => t.block # 0
      BY <1>9, <2>5, <2>12
    <3>2. r = Main => t.recvd = Page.size /\ Main \in t.finished
      BY <1>8, <1>11, <2>1, <2>5, <2>11 DEF Kept
    <3> QED BY <2>10, <2>11, <2>12, <2>13, <3>1, <3>2 DEF Ending
  <2>15. \A u \in NotifyFinishedAll(t, r, TRUE) : Steady(u, load) /\ Kept(t, u)
    BY <2>14, NotifiesAll
  <2>16. Going(v, t)
    BY <1>8, <2>5, <2>11 DEF Going, Kept
  <2> QED BY <2>2, <2>15, <2>16, KeptGoing DEF v
<1>12. CASE ~ok
  <2> DEFINE y == [v EXCEPT !.errored = @ \cup {r}]
  <2>1. Finish(v, r, ok) = NotifyFinishedAll(y, r, FALSE)
    BY <1>2, <1>8, <1>12 DEF Finish
  <2>2. y = [v EXCEPT !.errored = w.errored \cup {r}]
    BY <1>8
  <2> HIDE DEF y
  <2>3. y \in Engine
    <3>1. w.errored \cup {r} \in SUBSET Res
      BY <1>1 DEF Engine
    <3> QED BY <1>7, <2>2, <3>1 DEF Engine
  <2>4. /\ y.loading = w.loading /\ y.finished = w.finished
        /\ y.errored = w.errored \cup {r} /\ y.count = w.count
        /\ y.pending = Q /\ y.recvd = w.recvd /\ y.parsed = w.parsed
        /\ y.scanned = w.scanned /\ y.next = w.next /\ y.eof = w.eof /\ y.block = w.block
        /\ y.done = w.done /\ y.delayed = w.delayed /\ y.loaded = w.loaded /\ y.watch = w.watch
        /\ y.ran = w.ran /\ y.died = w.died /\ y.sheets = w.sheets
        /\ y.timers = w.timers /\ y.sched = w.sched /\ y.state = w.state
    BY <1>7, <1>8, <2>2 DEF Engine
  <2>5. Fetches(y, load, Counted(r))
    <3>1. (y.loading \cap Page.checked) \ y.errored = P \ {r}
      BY <2>4
    <3>2. y.count = Cardinality((y.loading \cap Page.checked) \ y.errored) + Counted(r)
      BY <1>6, <2>4, <3>1
    <3>3. y.pending = {<< load, s >> : s \in y.loading \ y.errored}
      BY <2>4 DEF Q
    <3>4. y.loading \cap y.finished = {} /\ y.errored \subseteq y.loading
      BY <1>2, <2>4
    <3> QED BY <3>2, <3>3, <3>4 DEF Fetches
  <2>6. Reading(y) /\ Asked(y) /\ Watched(y)
    BY ZenonT(60), <1>2, <2>4 DEF Reading, Asked, Watched, Steady
  <2>7. RanBut(y, y.block)
    BY <2>4, Zenon DEF RanBut, Steady
  <2>8. Sheltered(y, y.next)
    BY <2>4 DEF Sheltered, Steady
  <2>9. Ending(y, r)
    BY <1>9, <1>12, <2>3, <2>4, <2>5, <2>6, <2>7, <2>8 DEF Ending
  <2>10. \A u \in NotifyFinishedAll(y, r, FALSE) : Steady(u, load) /\ Kept(y, u)
    BY <2>9, NotifiesAll
  <2>11. Going(v, y)
    BY <1>8, <2>4 DEF Going
  <2> QED BY <2>1, <2>10, <2>11, KeptGoing DEF v
<1> QED BY <1>10, <1>11, <1>12 DEF v

-----------------------------------------------------------------------------
(* The work at the end of a task, and what is left when nothing goes on.   *)
LEMMA ScopeRuns ==
  ASSUME load \in Nat, NEW v, NEW R, Steady(v, load),
         ImmediateFirst /\ (\E i \in Elem : i >= v.next /\ Kind(i) = "inline!")
           => R \cap Page.sheets = {}
  PROVE  LET u == ExecuteScope(v, R)
         IN  Steady(u, load) /\ Kept(v, u) /\ More(v, u)
<1> DEFINE u == ExecuteScope(v, R)
<1>1. v \in Engine /\ Fetches(v, load, 0) /\ Reading(v) /\ Asked(v) /\ Watched(v)
      /\ RanBut(v, v.block) /\ Sheltered(v, v.next)
  BY DEF Steady
<1>2. /\ More(v, u) /\ Fetches(u, load, 0)
      /\ R \cap Page.sheets = {} => u.sheets = v.sheets
  BY <1>1, ScopeLoads
<1> HIDE DEF u
<1>3. /\ Kept(v, u) /\ Reading(u) /\ Asked(u) /\ Watched(u) /\ RanBut(u, v.block)
      /\ u \in Engine /\ (u.sheets = v.sheets => Sheltered(u, v.next))
  BY <1>1, <1>2, MoreKeeps DEF More
<1>4. u.block = v.block /\ u.next = v.next /\ u.died = v.died
  BY <1>2, MoreSame
<1>5. Sheltered(u, u.next)
  <2>1. CASE ImmediateFirst /\ \E i \in Elem : i >= v.next /\ Kind(i) = "inline!"
    BY <1>2, <1>3, <1>4, <2>1
  <2>2. CASE ~(ImmediateFirst /\ \E i \in Elem : i >= v.next /\ Kind(i) = "inline!")
    BY <1>1, <1>4, <2>2 DEF Sheltered
  <2> QED BY <2>1, <2>2
<1> QED BY <1>2, <1>3, <1>4, <1>5 DEF Steady, u

LEMMA EndsTask ==
  ASSUME load \in Nat, NEW v, Steady(v, load)
  PROVE  Steady(EndOfTask(v), load) /\ Kept(v, EndOfTask(v))
<1>1. CASE ~v.sched
  BY <1>1 DEF EndOfTask, Kept
<1>2. CASE v.sched
  <2> DEFINE x == [v EXCEPT !.sched = FALSE]
  <2>1. EndOfTask(v) = ExecuteScope(x, Page.render)
    BY <1>2 DEF EndOfTask
  <2>2. v \in Engine
    BY DEF Steady
  <2>3. x \in Engine
    BY <2>2 DEF Engine
  <2>4. /\ x.loading = v.loading /\ x.finished = v.finished /\ x.errored = v.errored
        /\ x.pending = v.pending /\ x.count = v.count /\ x.recvd = v.recvd /\ x.parsed = v.parsed
        /\ x.scanned = v.scanned /\ x.next = v.next /\ x.eof = v.eof /\ x.block = v.block
        /\ x.done = v.done /\ x.delayed = v.delayed /\ x.loaded = v.loaded /\ x.watch = v.watch
        /\ x.ran = v.ran /\ x.died = v.died /\ x.sheets = v.sheets /\ x.timers = v.timers
        /\ x.sched = FALSE /\ x.state = v.state /\ x.model = v.model /\ x.left = v.left
    BY <2>2 DEF Engine
  <2> HIDE DEF x
  <2>5. Fetches(x, load, 0) /\ Reading(x) /\ Asked(x) /\ Watched(x) /\ RanBut(x, x.block)
    BY <2>4, SameKeeps DEF Steady
  <2>6. Sheltered(x, x.next)
    BY <2>4, SameKeeps DEF Steady
  <2>7. Steady(x, load) /\ Kept(v, x)
    BY <2>3, <2>4, <2>5, <2>6 DEF Steady, Kept
  <2>8. ImmediateFirst /\ (\E i \in Elem : i >= x.next /\ Kind(i) = "inline!")
          => Page.render \cap Page.sheets = {}
    BY <1>2, <2>4 DEF Steady, Sheltered
  <2> QED BY <2>1, <2>7, <2>8, ScopeRuns, KeptOn
<1> QED BY <1>1, <1>2

LEMMA LoadsUnloaded ==
  ASSUME load \in Nat, NEW v, Steady(v, load)
  PROVE  Steady(MaybeLoadUnloaded(v), load) /\ Kept(v, MaybeLoadUnloaded(v))
<1> DEFINE u == LoadAll(v, Res)
<1>1. MaybeLoadUnloaded(v) = v \/ MaybeLoadUnloaded(v) = u
  BY DEF MaybeLoadUnloaded
<1>2. Kept(v, v)
  BY DEF Kept
<1>3. v \in Engine /\ Fetches(v, load, 0) /\ Reading(v) /\ Asked(v) /\ Watched(v)
      /\ RanBut(v, v.block) /\ Sheltered(v, v.next)
  BY DEF Steady
<1>4. More(v, u) /\ Fetches(u, load, 0) /\ u.sheets = v.sheets
  BY <1>3, LoadsMore
<1> HIDE DEF u
<1>5. /\ Kept(v, u) /\ Reading(u) /\ Asked(u) /\ Watched(u) /\ RanBut(u, v.block)
      /\ u \in Engine /\ Sheltered(u, v.next)
  BY <1>3, <1>4, MoreKeeps DEF More
<1>6. u.block = v.block /\ u.next = v.next
  BY <1>4, MoreSame
<1>7. Steady(u, load)
  BY <1>4, <1>5, <1>6 DEF Steady
<1> QED BY <1>1, <1>2, <1>5, <1>7

-----------------------------------------------------------------------------
(* THE STEPS                                                               *)

(* The engine before any load, and after one that was given up.            *)
LEMMA IdleSteady ==
  ASSUME NEW l
  PROVE  Steady(Idle, l) /\ Idle.pending = {}
<1>1. [r \in Res |-> Page.chain[r] - 1] \in [Res -> Nat]
  BY PageAssumption
<1>2. Idle \in Engine
  <2>1. "no" \in Deaths
    BY DEF Deaths
  <2> QED BY <1>1, <2>1 DEF Idle, Engine
<1>3. Fetches(Idle, l, 0)
  <2>1. Cardinality(({} \cap Page.checked) \ {}) = 0
    <3>1. ({} \cap Page.checked) \ {} = {}
      OBVIOUS
    <3> QED BY <3>1, FS_EmptySet
  <2> QED BY <2>1 DEF Idle, Fetches
<1>4. Reading(Idle)
  <2>1. \A i \in Elem : Page.elems[i].at >= 0
    BY PageFacts
  <2>2. 0 <= Page.size /\ 1 \in 1..(Len(Page.elems) + 1)
    BY PageFacts
  <2> QED BY <2>1, <2>2 DEF Idle, Reading
<1>5. Asked(Idle)
  <2>1. \A i \in Elem : ~(i < 1)
    BY PageFacts
  <2> QED BY <2>1 DEF Idle, Asked
<1>6. Watched(Idle)
  BY DEF Idle, Watched
<1>7. RanBut(Idle, 0)
  <2>1. {i \in Scripts : i < 1 /\ i # 0} = {}
    BY PageFacts DEF Scripts
  <2>2. InOrder(<< >>, {})
    BY DEF InOrder
  <2>3. Idle.ran = << >> /\ Idle.next = 1
    BY DEF Idle
  <2> QED BY <2>1, <2>2, <2>3 DEF RanBut
<1>8. Sheltered(Idle, 1)
  BY DEF Idle, Sheltered
<1>9. Idle.block = 0 /\ Idle.next = 1 /\ Idle.pending = {}
  BY DEF Idle
<1> QED BY <1>2, <1>3, <1>4, <1>5, <1>6, <1>7, <1>8, <1>9 DEF Steady

LEMMA InitWeb == Init => WebInv
<1> SUFFICES ASSUME Init
             PROVE  WebInv
  OBVIOUS
<1>1. w = Idle /\ load = 0 /\ msgs = "idle" /\ open = 0
  BY DEF Init
<1>2. Steady(w, load) /\ w.pending = {}
  BY <1>1, IdleSteady
<1>3. 0 \in 0..MaxLoads
  BY PageAssumption
<1> QED BY <1>1, <1>2, <1>3, FS_EmptySet DEF WebInv, Phase

(* Requests that are out.                                                  *)
LEMMA Pending ==
  ASSUME NEW v, NEW l, Steady(v, l)
  PROVE  /\ IsFiniteSet(v.pending) /\ Cardinality(v.pending) \in 0..Cardinality(Res)
         /\ \A q \in v.pending : q = << l, q[2] >> /\ q[2] \in v.loading /\ q[2] \in Res
<1> DEFINE S == v.loading \ v.errored
<1>1. v.pending = {<< l, r >> : r \in S} /\ S \subseteq Res /\ v.loading \subseteq Res
  BY DEF Steady, Fetches, Engine
<1>2. IsFiniteSet(v.pending) /\ Cardinality(v.pending) \in Nat
      /\ Cardinality(v.pending) <= Cardinality(Res)
  <2>1. PICK T : T = S
    OBVIOUS
  <2>2. T \subseteq Res /\ v.pending = {<< l, r >> : r \in T}
    BY <1>1, <2>1
  <2>3. /\ IsFiniteSet({<< l, r >> : r \in T}) /\ Cardinality({<< l, r >> : r \in T}) \in Nat
        /\ Cardinality({<< l, r >> : r \in T}) <= Cardinality(Res)
    BY <2>2, PendingCount
  <2> QED BY <2>2, <2>3
<1>3. Cardinality(Res) \in Nat
  BY PageFacts, FS_CardinalityType
<1>4. \A q \in v.pending : q = << l, q[2] >> /\ q[2] \in v.loading /\ q[2] \in Res
  BY <1>1
<1> QED BY <1>2, <1>3, <1>4

(* A handler's outcome, with its requests announced.                       *)
LEMMA Became ==
  ASSUME WebInv, NEW S, \A u \in S : Steady(u, load) /\ Going(w, u), w # Idle,
         Become(S), UNCHANGED << load, msgs >>
  PROVE  WebInv'
<1>1. PICK u \in S : w' = u /\ open' = open + Announced(u, w)
  BY DEF Become
<1>2. Steady(u, load) /\ Going(w, u)
  OBVIOUS
<1>3. open' = Cardinality(u.pending)
  <2>1. IsFiniteSet(u.pending) /\ w.pending \subseteq u.pending
    BY <1>2, Pending DEF Going
  <2>2. Cardinality(u.pending) = Cardinality(w.pending) + Cardinality(u.pending \ w.pending)
    BY <2>1, AddedUp
  <2> QED BY <1>1, <2>2 DEF Announced, WebInv
<1>4. Steady(w', load')
  BY <1>1, <1>2
<1>5. Phase'
  BY <1>1, <1>2 DEF Phase, WebInv, Going
<1> QED BY <1>1, <1>3, <1>4, <1>5 DEF WebInv

(* An engine that has something to do is not idle.                         *)
LEMMA Awake ==
  ASSUME WebInv,
         w.pending # {} \/ w.sched \/ w.resume \/ w.exec \/ w.check \/ w.timers # {}
  PROVE  /\ w # Idle /\ msgs \in {"loading", "loaded"} /\ load \in Nat
         /\ Steady(w, load) /\ w \in Engine
<1>1. w # Idle
  BY DEF Idle
<1>2. load \in Nat
  BY PageAssumption DEF WebInv
<1> QED BY <1>1, <1>2 DEF WebInv, Phase, Steady

LEMMA Loads == ASSUME WebInv, LoadPage PROVE WebInv'
<1> DEFINE l == load + 1
           checked == Cardinality({Main} \cap Page.checked)
           u == [Idle EXCEPT !.state = "PAGE_LOADING", !.model = TRUE, !.loading = {Main},
                             !.count = checked, !.pending = {<< l, Main >>}]
<1>1. w = Idle /\ load \in 0..MaxLoads /\ open = 0 /\ msgs = "idle"
  <2>1. w = Idle /\ load \in 0..MaxLoads /\ open = Cardinality(w.pending) /\ msgs = "idle"
    BY DEF LoadPage, WebInv, Phase
  <2>2. w.pending = {}
    BY <2>1 DEF Idle
  <2> QED BY <2>1, <2>2, FS_EmptySet
<1>2. w' = u /\ open' = open + Announced(u, w) /\ load' = l /\ msgs' = "loading"
      /\ load < MaxLoads
  BY DEF LoadPage, Become
<1>3. l \in Nat /\ l \in 0..MaxLoads
  BY <1>1, <1>2, PageAssumption
<1>4. Idle \in Engine
  BY IdleSteady DEF Steady
<1>5. /\ Fetches(Idle, l, 0) /\ Reading(Idle) /\ Asked(Idle) /\ Watched(Idle)
      /\ RanBut(Idle, Idle.block) /\ Sheltered(Idle, Idle.next)
  BY IdleSteady DEF Steady
<1>6. IsFiniteSet({Main} \cap Page.checked) /\ checked \in Nat
  <2>1. {Main} \cap Page.checked \in SUBSET Res
    BY PageFacts
  <2>2. IsFiniteSet({Main} \cap Page.checked)
    BY <2>1, FS_Subset, PageFacts
  <2> QED BY <2>2, FS_CardinalityType
<1> HIDE DEF checked
<1>7. {Main} \in SUBSET Res /\ {<< l, Main >>} \in SUBSET (Nat \X Res)
  BY <1>3, PageFacts
<1>8. u \in Engine
  BY <1>4, <1>6, <1>7 DEF Engine
<1>9. /\ u.loading = {Main} /\ u.finished = {} /\ u.errored = {} /\ u.pending = {<< l, Main >>}
      /\ u.count = checked /\ u.recvd = Idle.recvd /\ u.parsed = Idle.parsed
      /\ u.scanned = Idle.scanned /\ u.next = Idle.next /\ u.eof = FALSE /\ u.block = Idle.block
      /\ u.done = FALSE /\ u.delayed = FALSE /\ u.loaded = FALSE /\ u.watch = {}
      /\ u.ran = Idle.ran /\ u.died = Idle.died /\ u.sheets = Idle.sheets
      /\ u.timers = Idle.timers /\ u.sched = Idle.sched /\ u.state = "PAGE_LOADING"
  BY DEF Idle
<1>10. /\ Idle.eof = FALSE /\ Idle.done = FALSE /\ Idle.delayed = FALSE /\ Idle.loaded = FALSE
       /\ Idle.watch = {} /\ Idle.next = 1 /\ Idle.pending = {} /\ Idle.died = "no"
       /\ Idle.block = 0
  BY DEF Idle
<1> HIDE DEF u, l
<1>11. Fetches(u, l, 0)
  <2>1. (u.loading \cap Page.checked) \ u.errored = {Main} \cap Page.checked
    BY <1>9
  <2>2. u.pending = {<< l, r >> : r \in u.loading \ u.errored}
    BY <1>9
  <2>3. u.count = Cardinality((u.loading \cap Page.checked) \ u.errored) + 0
    BY <1>6, <1>9, <2>1 DEF checked
  <2> QED BY <1>9, <2>2, <2>3 DEF Fetches
<1>12. Reading(u)
  BY <1>5, <1>9 DEF Reading
<1>13. Asked(u) /\ Watched(u)
  <2>1. \A i \in Elem : ~(i < 1)
    BY PageFacts
  <2> QED BY <1>9, <1>10, <2>1 DEF Asked, Watched
<1>14. RanBut(u, u.block)
  BY <1>5, <1>9, Zenon DEF RanBut
<1>15. Sheltered(u, u.next)
  BY <1>5, <1>9 DEF Sheltered
<1>16. Steady(u, l)
  BY <1>8, <1>11, <1>12, <1>13, <1>14, <1>15 DEF Steady
<1>17. open' = Cardinality(u.pending)
  <2>1. Announced(u, w) = Cardinality(u.pending)
    <3>1. u.pending \ w.pending = u.pending
      BY <1>1, <1>10
    <3> QED BY <3>1 DEF Announced
  <2>2. Cardinality(u.pending) \in Nat
    <3>1. IsFiniteSet(u.pending)
      BY <1>9, Pending, <1>16
    <3> QED BY <3>1, FS_CardinalityType
  <2> QED BY <1>1, <1>2, <2>1, <2>2
<1> QED BY <1>2, <1>3, <1>9, <1>16, <1>17 DEF WebInv, Phase

LEMMA Resets == ASSUME WebInv, Reset PROVE WebInv'
<1>1. w' = Idle /\ open' = 0 /\ msgs' = "idle" /\ load' = load /\ load \in 0..MaxLoads
  BY DEF Reset, WebInv
<1>2. Steady(w', load') /\ w'.pending = {}
  BY <1>1, IdleSteady
<1> QED BY <1>1, <1>2, FS_EmptySet DEF WebInv, Phase

(* Data comes before the document's end.                                   *)
LEMMA Receives == ASSUME WebInv, DataReceived PROVE WebInv'
<1> DEFINE recvd == IF w.recvd + Chunk < Page.size THEN w.recvd + Chunk ELSE Page.size
           u == [w EXCEPT !.recvd = recvd]
           t == IF u.block # 0 THEN PreloadScan(u) ELSE u
           S == {EndOfTask(x) : x \in UNION {PumpIfPossible(y) : y \in ResumeParsing(t)}}
<1>1. << load, Main >> \in w.pending /\ w.recvd < Page.size
  BY DEF DataReceived
<1>2. Become(S) /\ UNCHANGED << load, msgs >>
  BY DEF DataReceived
<1>3. w # Idle /\ load \in Nat /\ Steady(w, load) /\ w \in Engine
  BY <1>1, Awake
<1>4. w.recvd <= recvd /\ recvd <= Page.size /\ recvd \in Nat
  <2>1. w.recvd \in Nat /\ Page.size \in Nat /\ Chunk \in Nat
    BY <1>3, PageAssumption DEF Engine
  <2> QED BY <1>1, <2>1
<1> HIDE DEF recvd
<1>5. u \in Engine
  BY <1>3, <1>4 DEF Engine
<1>6. /\ u.loading = w.loading /\ u.finished = w.finished /\ u.errored = w.errored
      /\ u.pending = w.pending /\ u.count = w.count /\ u.recvd = recvd /\ u.parsed = w.parsed
      /\ u.scanned = w.scanned /\ u.next = w.next /\ u.eof = w.eof /\ u.block = w.block
      /\ u.done = w.done /\ u.delayed = w.delayed /\ u.loaded = w.loaded /\ u.watch = w.watch
      /\ u.ran = w.ran /\ u.died = w.died /\ u.sheets = w.sheets
      /\ u.timers = w.timers /\ u.sched = w.sched /\ u.state = w.state
  BY <1>3 DEF Engine
<1>7. Main \in w.loading
  BY <1>1, <1>3, Pending
<1> HIDE DEF u
<1>8. Fetches(u, load, 0)
  BY <1>3, <1>6 DEF Steady, Fetches
<1>9. Asked(u) /\ Watched(u)
  BY <1>3, <1>6 DEF Steady, Asked, Watched
<1>10. RanBut(u, u.block)
  BY <1>3, <1>6, Zenon DEF Steady, RanBut
<1>11. Sheltered(u, u.next)
  BY <1>3, <1>6 DEF Steady, Sheltered
<1>12. Reading(u)
  <2>1. ~w.eof
    BY <1>3, <1>7 DEF Steady, Fetches, Reading
  <2>2. u.parsed <= u.recvd /\ u.scanned <= u.recvd /\ u.recvd <= Page.size
    <3>1. w.parsed <= w.recvd /\ w.scanned <= w.recvd /\ w.parsed \in Nat /\ w.scanned \in Nat
          /\ w.recvd \in Nat
      BY <1>3 DEF Steady, Engine, Reading
    <3> QED BY <1>4, <1>6, <3>1
  <2> QED BY <1>3, <1>6, <2>1, <2>2 DEF Steady, Reading
<1>13. Steady(u, load) /\ Going(w, u)
  BY <1>5, <1>6, <1>8, <1>9, <1>10, <1>11, <1>12 DEF Steady, Going
<1>14. Steady(t, load) /\ Going(w, t)
  BY <1>3, <1>13, Preloads, KeptGoing
<1> HIDE DEF t
<1>15. ASSUME NEW y \in ResumeParsing(t), NEW x \in PumpIfPossible(y)
       PROVE  Steady(EndOfTask(x), load) /\ Going(w, EndOfTask(x))
  <2>1. Steady(y, load) /\ Going(w, y)
    BY <1>3, <1>14, ResumesParsing, KeptGoing
  <2>2. Steady(x, load) /\ Going(w, x)
    BY <1>3, <2>1, Pumps, KeptGoing
  <2> QED BY <1>3, <2>2, EndsTask, KeptGoing
<1>16. \A z \in S : Steady(z, load) /\ Going(w, z)
  BY <1>15
<1> HIDE DEF S
<1> QED BY <1>2, <1>3, <1>16, Became

LEMMA Responds == ASSUME WebInv, ReceivedResponse PROVE WebInv'
<1>1. w.pending # {} /\ Become({EndOfTask(w)}) /\ UNCHANGED << load, msgs >>
  BY DEF ReceivedResponse
<1>2. w # Idle /\ load \in Nat /\ Steady(w, load)
  BY <1>1, Awake
<1>3. Steady(EndOfTask(w), load) /\ Going(w, EndOfTask(w))
  BY <1>2, EndsTask, KeptGoing
<1> QED BY <1>1, <1>2, <1>3, Became

(* A request ends.                                                         *)
LEMMA Completes ==
  ASSUME WebInv, NEW q \in w.pending, NEW ok \in BOOLEAN, RequestComplete(q, ok)
  PROVE  WebInv'
<1> DEFINE r == q[2]
           v == [w EXCEPT !.pending = @ \ {q}]
<1>1. w # Idle /\ load \in Nat /\ Steady(w, load) /\ w \in Engine
  BY Awake
<1>2. q = << load, r >> /\ r \in Res /\ IsFiniteSet(w.pending)
  BY <1>1, Pending
<1>3. load' = load /\ load \in 0..MaxLoads
  BY DEF RequestComplete, WebInv
<1>4. CASE r = Main /\ ~ok
  <2>1. w' = Idle /\ open' = 0 /\ msgs' = "failed"
    BY <1>4 DEF RequestComplete
  <2>2. Steady(w', load') /\ w'.pending = {}
    BY <2>1, IdleSteady
  <2> QED BY <1>3, <2>1, <2>2, FS_EmptySet DEF WebInv, Phase
<1>5. CASE ~(r = Main /\ ~ok)
  <2>1. /\ \E x \in Finish(v, r, ok) :
             \E u \in {MaybeLoadUnloaded(EndOfTask(x))} :
               w' = u /\ open' = open - 1 + Announced(u, v)
        /\ msgs' = msgs
    BY <1>5 DEF RequestComplete
  <2>2. PICK x \in Finish(v, r, ok) :
          LET u == MaybeLoadUnloaded(EndOfTask(x))
          IN  w' = u /\ open' = open - 1 + Announced(u, v)
    BY <2>1
  <2> DEFINE u == MaybeLoadUnloaded(EndOfTask(x))
  <2>3. ok /\ r = Main /\ w.left[Main] = 0 => w.recvd = Page.size
    BY DEF RequestComplete
  <2>4. Steady(x, load) /\ Going(v, x)
    <3>1. v = [w EXCEPT !.pending = @ \ {<< load, r >>}]
      BY <1>2
    <3>2. << load, r >> \in w.pending /\ (r = Main => ok)
      BY <1>2, <1>5
    <3> HIDE DEF v, r
    <3> QED BY <1>1, <1>2, <2>2, <2>3, <3>1, <3>2, Finishes
  <2>5. Steady(EndOfTask(x), load) /\ Going(v, EndOfTask(x))
    BY <1>1, <2>4, EndsTask, KeptGoing
  <2>6. Steady(u, load) /\ Going(v, u)
    BY <1>1, <2>5, LoadsUnloaded, KeptGoing
  <2> HIDE DEF u
  <2>7. v.pending = w.pending \ {q} /\ v.state = w.state /\ v.loaded = w.loaded
    BY <1>1 DEF Engine
  <2>8. Cardinality(v.pending) = Cardinality(w.pending) - 1
    BY <1>2, <2>7, FS_RemoveElement
  <2>9. open' = Cardinality(u.pending)
    <3>1. IsFiniteSet(u.pending) /\ v.pending \subseteq u.pending
      BY <2>6, Pending DEF Going
    <3>2. /\ Cardinality(u.pending) = Cardinality(v.pending) + Cardinality(u.pending \ v.pending)
          /\ Cardinality(v.pending) \in Nat /\ Cardinality(u.pending \ v.pending) \in Nat
      BY <3>1, AddedUp
    <3>3. open' = open - 1 + Cardinality(u.pending \ v.pending)
      BY <2>2 DEF Announced, u
    <3>4. open = Cardinality(w.pending) /\ Cardinality(w.pending) \in Nat
      BY <1>2, FS_CardinalityType DEF WebInv
    <3> QED BY <2>8, <3>2, <3>3, <3>4
  <2>10. w' = u
    BY <2>2 DEF u
  <2>11. Phase'
    BY <1>1, <2>1, <2>6, <2>7, <2>10 DEF WebInv, Phase, Going
  <2> QED BY <1>3, <2>6, <2>9, <2>10, <2>11 DEF WebInv
<1> QED BY <1>4, <1>5

(* A timer that fired is no longer running; the engine is as it was.       *)
LEMMA TimerOff ==
  ASSUME WebInv, NEW v \in Engine,
         \/ v = [w EXCEPT !.resume = FALSE]
         \/ v = [w EXCEPT !.exec = FALSE]
         \/ v = [w EXCEPT !.check = FALSE]
         \/ \E i \in w.timers : v = [w EXCEPT !.timers = @ \ {i}]
  PROVE  /\ Steady(v, load) /\ Going(w, v) /\ v.pending = w.pending
         /\ v.state = w.state /\ v.count = w.count /\ v.done = w.done
         /\ v.next = w.next /\ v.timers \subseteq w.timers
<1>1. w \in Engine /\ Steady(w, load)
  BY DEF WebInv, Steady
<1>2. PICK T \in SUBSET Elem :
        /\ T \subseteq w.timers
        /\ \/ v = [w EXCEPT !.resume = FALSE, !.timers = T]
           \/ v = [w EXCEPT !.exec = FALSE, !.timers = T]
           \/ v = [w EXCEPT !.check = FALSE, !.timers = T]
           \/ v = [w EXCEPT !.timers = T]
  <2>1. w.timers \in SUBSET Elem
    BY <1>1 DEF Engine
  <2>2. CASE \E i \in w.timers : v = [w EXCEPT !.timers = @ \ {i}]
    <3>1. PICK i \in w.timers : v = [w EXCEPT !.timers = w.timers \ {i}]
      BY <2>2
    <3>2. w.timers \ {i} \in SUBSET Elem /\ w.timers \ {i} \subseteq w.timers
      BY <2>1
    <3> QED BY <3>1, <3>2
  <2>3. CASE v = [w EXCEPT !.resume = FALSE]
    <3>1. v = [w EXCEPT !.resume = FALSE, !.timers = w.timers]
      BY <1>1, <2>3 DEF Engine
    <3> QED BY <2>1, <3>1
  <2>4. CASE v = [w EXCEPT !.exec = FALSE]
    <3>1. v = [w EXCEPT !.exec = FALSE, !.timers = w.timers]
      BY <1>1, <2>4 DEF Engine
    <3> QED BY <2>1, <3>1
  <2>5. CASE v = [w EXCEPT !.check = FALSE]
    <3>1. v = [w EXCEPT !.check = FALSE, !.timers = w.timers]
      BY <1>1, <2>5 DEF Engine
    <3> QED BY <2>1, <3>1
  <2> QED BY <2>2, <2>3, <2>4, <2>5
<1>3. /\ v.loading = w.loading /\ v.finished = w.finished /\ v.errored = w.errored
      /\ v.pending = w.pending /\ v.count = w.count /\ v.recvd = w.recvd /\ v.parsed = w.parsed
      /\ v.scanned = w.scanned /\ v.next = w.next /\ v.eof = w.eof /\ v.block = w.block
      /\ v.done = w.done /\ v.delayed = w.delayed /\ v.loaded = w.loaded /\ v.watch = w.watch
      /\ v.ran = w.ran /\ v.died = w.died /\ v.sheets = w.sheets
      /\ v.timers \subseteq w.timers /\ v.sched = w.sched /\ v.state = w.state
  <2>1. CASE v = [w EXCEPT !.resume = FALSE, !.timers = T]
    BY <1>1, <1>2, <2>1 DEF Engine
  <2>2. CASE v = [w EXCEPT !.exec = FALSE, !.timers = T]
    BY <1>1, <1>2, <2>2 DEF Engine
  <2>3. CASE v = [w EXCEPT !.check = FALSE, !.timers = T]
    BY <1>1, <1>2, <2>3 DEF Engine
  <2>4. CASE v = [w EXCEPT !.timers = T]
    BY <1>1, <1>2, <2>4 DEF Engine
  <2> QED BY <1>2, <2>1, <2>2, <2>3, <2>4
<1>4. Fetches(v, load, 0) /\ Reading(v) /\ Asked(v) /\ Watched(v) /\ RanBut(v, v.block)
  BY <1>1, <1>3, SameKeeps DEF Steady
<1>5. Sheltered(v, v.next)
  BY <1>1, <1>3 DEF Steady, Sheltered
<1> QED BY <1>3, <1>4, <1>5 DEF Steady, Going

LEMMA Resumes == ASSUME WebInv, ResumeTimerFires PROVE WebInv'
<1> DEFINE v == [w EXCEPT !.resume = FALSE]
<1>1. w.resume /\ Become(ResumeParsing(v)) /\ UNCHANGED << load, msgs >>
  BY DEF ResumeTimerFires
<1>2. w # Idle /\ load \in Nat /\ w \in Engine
  BY <1>1, Awake
<1>3. v \in Engine
  BY <1>2 DEF Engine
<1>4. Steady(v, load) /\ Going(w, v)
  BY <1>3, TimerOff
<1> HIDE DEF v
<1>5. \A u \in ResumeParsing(v) : Steady(u, load) /\ Going(w, u)
  BY <1>2, <1>4, ResumesParsing, KeptGoing
<1> QED BY <1>1, <1>2, <1>5, Became

LEMMA Executes == ASSUME WebInv, ExecTimerFires PROVE WebInv'
<1> DEFINE v == [w EXCEPT !.exec = FALSE]
           S == IF v.sheets = {} THEN ExecuteScripts(v) ELSE {v}
<1>1. w.exec /\ Become(S) /\ UNCHANGED << load, msgs >>
  BY DEF ExecTimerFires
<1>2. w # Idle /\ load \in Nat /\ w \in Engine
  BY <1>1, Awake
<1>3. v \in Engine
  BY <1>2 DEF Engine
<1>4. Steady(v, load) /\ Going(w, v)
  BY <1>3, TimerOff
<1> HIDE DEF v
<1>5. \A u \in ExecuteScripts(v) : Steady(u, load) /\ Going(w, u)
  BY <1>2, <1>4, ExecutesScripts, KeptGoing
<1>6. \A u \in S : Steady(u, load) /\ Going(w, u)
  BY <1>4, <1>5
<1> HIDE DEF S
<1> QED BY <1>1, <1>2, <1>6, Became

LEMMA DomTimers == ASSUME WebInv, NEW i \in w.timers, DomTimerFires(i) PROVE WebInv'
<1> DEFINE v == [w EXCEPT !.timers = @ \ {i}]
           u == ExecuteScope(v, Page.onTimer)
<1>1. Become({EndOfTask(u)}) /\ UNCHANGED << load, msgs >>
  <2>1. {EndOfTask(x) : x \in {u}} = {EndOfTask(u)}
    OBVIOUS
  <2> QED BY <2>1 DEF DomTimerFires
<1>2. w # Idle /\ load \in Nat /\ w \in Engine /\ Steady(w, load)
  BY Awake
<1>3. v \in Engine
  BY <1>2 DEF Engine
<1>4. Steady(v, load) /\ Going(w, v) /\ v.next = w.next
  BY <1>3, TimerOff
<1> HIDE DEF v
<1>5. ImmediateFirst /\ (\E e \in Elem : e >= v.next /\ Kind(e) = "inline!")
        => Page.onTimer \cap Page.sheets = {}
  BY <1>2, <1>4 DEF Steady, Sheltered
<1>6. Steady(u, load) /\ Going(w, u)
  BY <1>2, <1>4, <1>5, ScopeRuns, KeptGoing
<1> HIDE DEF u
<1>7. Steady(EndOfTask(u), load) /\ Going(w, EndOfTask(u))
  BY <1>2, <1>6, EndsTask, KeptGoing
<1> QED BY <1>1, <1>2, <1>7, Became

(* The load event: what is waited for has ended, as nothing is counted.    *)
LEMMA Completed == ASSUME WebInv, CheckTimerFires PROVE WebInv'
<1> DEFINE v == [w EXCEPT !.check = FALSE]
           x == ExecuteScope(v, Page.onLoad)
           y == [x EXCEPT !.state = "IDLE", !.loaded = TRUE]
           u == MaybeLoadUnloaded(y)
<1>1. w.check /\ UNCHANGED load /\ load' = load
  BY DEF CheckTimerFires
<1>2. w # Idle /\ load \in Nat /\ w \in Engine /\ Steady(w, load)
      /\ msgs \in {"loading", "loaded"}
  BY <1>1, Awake
<1>3. v \in Engine
  BY <1>2 DEF Engine
<1>4. Steady(v, load) /\ Going(w, v) /\ v.pending = w.pending
      /\ v.state = w.state /\ v.count = w.count /\ v.done = w.done
  BY <1>3, TimerOff
<1>5. /\ v.state # "PAGE_LOADING" \/ ~v.done \/ v.count # 0 =>
           w' = v /\ UNCHANGED << msgs, open >>
      /\ ~(v.state # "PAGE_LOADING" \/ ~v.done \/ v.count # 0) =>
           w' = u /\ open' = open + Announced(u, w) /\ msgs' = "loaded"
  BY DEF CheckTimerFires, Become
<1> HIDE DEF v
<1>6. CASE v.state # "PAGE_LOADING" \/ ~v.done \/ v.count # 0
  <2>1. w' = v /\ UNCHANGED << msgs, open >>
    BY <1>5, <1>6
  <2>2. Phase'
    BY <1>2, <1>4, <2>1 DEF WebInv, Phase, Going
  <2> QED BY <1>1, <1>4, <2>1, <2>2 DEF WebInv
<1>7. CASE ~(v.state # "PAGE_LOADING" \/ ~v.done \/ v.count # 0)
  <2>1. v.parsed = Page.size
    BY <1>4, <1>7 DEF Steady, Reading
  <2>2. v.next = Len(Page.elems) + 1 /\ \A i \in Elem : i < v.next
    BY <1>4, <2>1, AllParsed DEF Steady
  <2>3. v.next \in Nat
    BY <1>3 DEF Engine
  <2>4. ~\E i \in Elem : i >= v.next /\ Kind(i) = "inline!"
    BY <2>2, <2>3, PageFacts
  <2>5. Steady(x, load) /\ Kept(v, x) /\ More(v, x)
    BY <1>2, <1>4, <2>4, ScopeRuns
  <2>6. x.next = v.next /\ x.done = v.done /\ x.finished = v.finished /\ x.errored = v.errored
    BY <2>5, MoreSame
  <2> HIDE DEF x
  <2>7. x \in Engine
    BY <2>5 DEF Steady
  <2>8. y \in Engine
    BY <2>7 DEF Engine
  <2>9. /\ y.loading = x.loading /\ y.finished = x.finished /\ y.errored = x.errored
        /\ y.pending = x.pending /\ y.count = x.count /\ y.recvd = x.recvd /\ y.parsed = x.parsed
        /\ y.scanned = x.scanned /\ y.next = x.next /\ y.eof = x.eof /\ y.block = x.block
        /\ y.done = x.done /\ y.delayed = x.delayed /\ y.loaded = TRUE /\ y.watch = x.watch
        /\ y.ran = x.ran /\ y.died = x.died /\ y.sheets = x.sheets
        /\ y.timers = x.timers /\ y.sched = x.sched /\ y.state = "IDLE"
    BY <2>7 DEF Engine
  <2> HIDE DEF y
  <2>10. \A i \in Elem : ResOf(i) \in Page.checked => ResOf(i) \in y.finished \cup y.errored
    <3>1. v.loading \cap Page.checked \subseteq v.errored
      <4> DEFINE P == (v.loading \cap Page.checked) \ v.errored
      <4>1. Cardinality(P) + 0 = 0
        BY <1>4, <1>7 DEF Steady, Fetches
      <4>2. P \in SUBSET Res
        BY <1>3 DEF Engine
      <4>3. IsFiniteSet(P)
        BY <4>2, FS_Subset, PageFacts
      <4>4. Cardinality(P) \in Nat
        BY <4>3, FS_CardinalityType
      <4> HIDE DEF P
      <4>5. P = {}
        BY <4>1, <4>3, <4>4, FS_EmptySet
      <4> QED BY <4>5 DEF P
    <3>2. \A i \in Elem : ResOf(i) \in Res => ResOf(i) \in v.loading \cup v.finished
      BY <1>4, <2>2 DEF Steady, Asked
    <3> QED BY <2>6, <2>9, <3>1, <3>2, PageFacts
  <2>11. Fetches(y, load, 0)
    BY <2>5, <2>9 DEF Steady, Fetches
  <2>12. Reading(y)
    BY <1>7, <2>5, <2>6, <2>9 DEF Steady, Reading
  <2>13. Asked(y) /\ Watched(y)
    BY <2>5, <2>9, <2>10 DEF Steady, Asked, Watched
  <2>14. RanBut(y, y.block)
    BY <2>5, <2>9, Zenon DEF Steady, RanBut
  <2>15. Sheltered(y, y.next)
    BY <2>5, <2>9 DEF Steady, Sheltered
  <2>16. Steady(y, load)
    BY <2>8, <2>11, <2>12, <2>13, <2>14, <2>15 DEF Steady
  <2>17. Steady(u, load) /\ Kept(y, u)
    BY <1>2, <2>16, LoadsUnloaded
  <2>18. w' = u /\ open' = open + Announced(u, w) /\ msgs' = "loaded"
    BY <1>5, <1>7
  <2> HIDE DEF u
  <2>19. w.pending \subseteq u.pending /\ u.state = "IDLE" /\ u.loaded
    BY <1>4, <2>5, <2>9, <2>17 DEF Kept
  <2>20. open' = Cardinality(u.pending)
    <3>1. IsFiniteSet(u.pending)
      BY <2>17, Pending
    <3>2. Cardinality(u.pending) = Cardinality(w.pending) + Cardinality(u.pending \ w.pending)
      BY <2>19, <3>1, AddedUp
    <3> QED BY <2>18, <3>2 DEF Announced, WebInv
  <2> QED BY <1>1, <2>17, <2>18, <2>19, <2>20 DEF WebInv, Phase
<1> QED BY <1>6, <1>7

(* THE INDUCTIVE INVARIANT                                                 *)
LEMMA NextWeb == WebInv /\ [Next]_vars => WebInv'
<1> SUFFICES ASSUME WebInv, [Next]_vars
             PROVE  WebInv'
  OBVIOUS
<1>1. CASE LoadPage
  BY <1>1, Loads
<1>2. CASE Reset
  BY <1>2, Resets
<1>3. CASE DataReceived
  BY <1>3, Receives
<1>4. CASE ReceivedResponse
  BY <1>4, Responds
<1>5. CASE Completions
  BY <1>5, Completes DEF Completions
<1>6. CASE \E q \in stale : StaleAnswer(q)
  BY <1>6 DEF StaleAnswer, WebInv, Phase
<1>7. CASE ResumeTimerFires
  BY <1>7, Resumes
<1>8. CASE ExecTimerFires
  BY <1>8, Executes
<1>9. CASE CheckTimerFires
  BY <1>9, Completed
<1>10. CASE \E i \in w.timers : DomTimerFires(i)
  BY <1>10, DomTimers
<1>11. CASE UNCHANGED vars
  BY <1>11 DEF vars, WebInv, Phase
<1> QED BY <1>1, <1>2, <1>3, <1>4, <1>5, <1>6, <1>7, <1>8, <1>9, <1>10, <1>11 DEF Next

(* Every handler leaves the engine as WebInv says, whatever it calls on the *)
(* way and in whatever order a resource's clients are told.                *)
THEOREM WebInvHolds == Spec => []WebInv
BY InitWeb, NextWeb, PTL DEF Spec

-----------------------------------------------------------------------------
(* What follows from it.                                                   *)

LEMMA Safe == WebInv => EngineIsSafe
<1> SUFFICES ASSUME WebInv
             PROVE  EngineIsSafe
  OBVIOUS
<1>1. w \in Engine /\ Fetches(w, load, 0) /\ Reading(w) /\ Asked(w) /\ Watched(w)
      /\ Steady(w, load) /\ load \in 0..MaxLoads /\ open = Cardinality(w.pending)
  BY DEF WebInv, Steady
<1>2. open \in 0..Cardinality(Res)
  BY <1>1, Pending
<1>3. /\ w.count \in 0..Cardinality(Res)
      /\ w.count = Cardinality((w.loading \cap Page.checked) \ w.errored)
  <2> DEFINE P == (w.loading \cap Page.checked) \ w.errored
  <2>1. P \in SUBSET Res
    BY <1>1 DEF Engine
  <2>2. w.count = Cardinality(P) + 0
    BY <1>1 DEF Fetches
  <2> HIDE DEF P
  <2>3. Cardinality(P) \in Nat /\ Cardinality(P) <= Cardinality(Res)
    <3>1. IsFiniteSet(P) /\ Cardinality(P) <= Cardinality(Res)
      BY <2>1, FS_Subset, PageFacts
    <3> QED BY <3>1, FS_CardinalityType
  <2>4. Cardinality(Res) \in Nat
    BY PageFacts, FS_CardinalityType
  <2> QED BY <2>2, <2>3, <2>4 DEF P
<1>4. w.block \in Elem \cup {0}
  BY <1>1 DEF Reading, Scripts
<1>5. /\ w.state \in {"IDLE", "PAGE_LOADING"} /\ w.loading \cup w.finished \subseteq Res
      /\ w.sheets \subseteq Elem \cup Page.sheets /\ w.count \in Nat
  BY <1>1 DEF Engine
<1>6. /\ w.loading \cap w.finished = {}
      /\ w.count = Cardinality((w.loading \cap Page.checked) \ w.errored)
  BY <1>1, <1>3, <1>5 DEF Fetches
<1>7. w.parsed <= w.recvd /\ w.scanned <= w.recvd /\ w.recvd <= Page.size
  BY <1>1 DEF Reading
<1>8. w.died # "finish CHECK"
  BY <1>1 DEF Watched
<1>9. TypeOK
  BY <1>1, <1>2, <1>3, <1>4, <1>5, <1>6, <1>7 DEF TypeOK
<1>10. CountExact
  BY <1>6, <1>8 DEF CountExact
<1> QED BY <1>1, <1>9, <1>10 DEF EngineIsSafe, DriverSeesPending

(* Requests are counted exactly: what the load event waits for is what is  *)
(* loading and has not failed, whatever order the answers come in, and the *)
(* driver counts those that are out.                                       *)
THEOREM EngineStaysSafe == Spec => []EngineIsSafe
BY WebInvHolds, Safe, PTL

LEMMA Ordered == WebInv /\ w.died # "script not ready" => ScriptsInOrder
<1> SUFFICES ASSUME WebInv, w.died # "script not ready"
             PROVE  ScriptsInOrder
  OBVIOUS
<1>1. w.died # "no blocking script"
  BY DEF WebInv, Steady, Watched
<1>2. InOrder(w.ran, {i \in Scripts : i < w.next /\ i # w.block})
  BY DEF WebInv, Steady, RanBut
<1> QED BY <1>1, <1>2 DEF ScriptsInOrder, InOrder

LEMMA NeverUnready == ASSUME ImmediateFirst PROVE WebInv => w.died # "script not ready"
BY DEF WebInv, Steady, Sheltered

(* On any page: unless a script came up that was not ready, scripts have   *)
(* run once each and in the order of the document, all of those parsed but *)
(* the one that blocks, and the parser is never told of a script it does   *)
(* not wait for.                                                           *)
THEOREM ScriptsRunInOrder == Spec => [](w.died # "script not ready" => ScriptsInOrder)
BY WebInvHolds, Ordered, PTL

(* On every page where nothing before a script that is executed            *)
(* immediately makes a style sheet pending, no script comes up that is not *)
(* ready.  On others one can, and the CHECK that it is ready ends the      *)
(* process.                                                                *)
THEOREM ScriptsStayInOrder == ASSUME ImmediateFirst PROVE Spec => []ScriptsInOrder
BY WebInvHolds, Ordered, NeverUnready, PTL

LEMMA Loaded == WebInv => LoadedMeansLoaded
<1> SUFFICES ASSUME WebInv, w.loaded
             PROVE  LoadedMeansLoaded
  BY DEF LoadedMeansLoaded
<1>1. Reading(w) /\ Asked(w)
  BY DEF WebInv, Steady
<1>2. w.parsed = Page.size /\ w.block = 0
  BY <1>1 DEF Reading
<1>3. w.next = Len(Page.elems) + 1
  BY <1>1, <1>2, AllParsed
<1> QED BY <1>1, <1>2, <1>3 DEF LoadedMeansLoaded, Asked

(* The driver hears PageLoaded when the document is parsed to its end, no  *)
(* script is waited for and every resource that counts has ended.          *)
THEOREM LoadedStaysLoaded == Spec => []LoadedMeansLoaded
BY WebInvHolds, Loaded, PTL

-----------------------------------------------------------------------------
(* The renderer's protocol, step by step.                                  *)

LEMMA OpenBound == WebInv => open \in 0..Cardinality(Res)
BY Pending DEF WebInv

LEMMA BeginsProtocol == Init => Protocol!RInit
BY DEF Init, Protocol!RInit

LEMMA LoadBegins == ASSUME WebInv, WebInv', LoadPage PROVE Protocol!Begin
<1> DEFINE P == {<< load + 1, Main >>}
<1>1. open' = Cardinality(w'.pending)
  BY DEF WebInv
<1>2. w'.pending = P
  <2> DEFINE n == Cardinality({Main} \cap Page.checked)
             u == [Idle EXCEPT !.state = "PAGE_LOADING", !.model = TRUE, !.loading = {Main},
                               !.count = n, !.pending = P]
  <2>1. w' = u
    BY DEF LoadPage, Become
  <2> HIDE DEF P, n
  <2>2. u.pending = P
    BY DEF Idle
  <2> QED BY <2>1, <2>2
<1>3. Cardinality(P) = 1
  BY FS_Singleton
<1> HIDE DEF P
<1> QED BY <1>1, <1>2, <1>3 DEF LoadPage, Protocol!Begin

(* The document can fail only before it is parsed, so before the load      *)
(* event.                                                                  *)
LEMMA FailsLoading ==
  ASSUME WebInv, NEW q \in w.pending, q[2] = Main
  PROVE  msgs = "loading"
<1>1. load \in Nat /\ Steady(w, load) /\ msgs \in {"loading", "loaded"}
  BY Awake
<1>2. Main \in w.loading
  BY <1>1, Pending
<1>3. ~w.loaded
  BY <1>1, <1>2 DEF Steady, Fetches, Reading
<1> QED BY <1>1, <1>3 DEF WebInv, Phase

LEMMA StepsProtocol ==
  WebInv /\ WebInv' /\ [Next]_vars => [Protocol!RNext]_<< msgs, open >>
<1> SUFFICES ASSUME WebInv, WebInv', [Next]_vars
             PROVE  [Protocol!RNext]_<< msgs, open >>
  OBVIOUS
<1>1. open \in 0..Cardinality(Res) /\ open' \in 0..Cardinality(Res)
  <2>1. open' = Cardinality(w'.pending) /\ Steady(w', load')
    BY DEF WebInv
  <2> QED BY <2>1, OpenBound, Pending
<1>2. ASSUME msgs \in {"loading", "loaded"}, msgs' = msgs
      PROVE  [Protocol!RNext]_<< msgs, open >>
  BY <1>1, <1>2 DEF Protocol!RNext, Protocol!Work
<1>3. CASE LoadPage
  BY <1>3, LoadBegins DEF Protocol!RNext
<1>4. CASE Reset
  BY <1>4 DEF Reset, Protocol!RNext, Protocol!Forget
<1>5. CASE DataReceived
  BY <1>2, <1>5, Awake DEF DataReceived
<1>6. CASE ReceivedResponse
  BY <1>2, <1>6, Awake DEF ReceivedResponse
<1>7. CASE Completions
  <2>1. PICK q \in w.pending, ok \in BOOLEAN : RequestComplete(q, ok)
    BY <1>7 DEF Completions
  <2>2. CASE q[2] = Main /\ ~ok
    <3>1. msgs' = "failed" /\ open' = 0
      BY <2>1, <2>2 DEF RequestComplete
    <3> QED BY <2>2, <3>1, FailsLoading DEF Protocol!RNext, Protocol!Failed
  <2>3. CASE ~(q[2] = Main /\ ~ok)
    <3>1. msgs' = msgs
      BY <2>1, <2>3 DEF RequestComplete
    <3> QED BY <1>2, <3>1, Awake
  <2> QED BY <2>2, <2>3
<1>8. CASE \E q \in stale : StaleAnswer(q)
  BY <1>8 DEF StaleAnswer
<1>9. CASE ResumeTimerFires
  BY <1>2, <1>9, Awake DEF ResumeTimerFires
<1>10. CASE ExecTimerFires
  BY <1>2, <1>10, Awake DEF ExecTimerFires
<1>11. CASE CheckTimerFires
  <2>1. msgs \in {"loading", "loaded"} /\ w \in Engine
    BY <1>11, Awake DEF CheckTimerFires
  <2>2. CASE UNCHANGED << msgs, open >>
    BY <2>2
  <2>3. CASE ~UNCHANGED << msgs, open >>
    <3> DEFINE v == [w EXCEPT !.check = FALSE]
               u == MaybeLoadUnloaded([ExecuteScope(v, Page.onLoad) EXCEPT !.state = "IDLE",
                                                                           !.loaded = TRUE])
    <3>1. v.state = "PAGE_LOADING" /\ msgs' = "loaded"
          /\ w' = u /\ open' = open + Announced(u, w)
      BY <1>11, <2>3 DEF CheckTimerFires, Become
    <3>2. v.state = w.state
      BY <2>1 DEF Engine
    <3>3. msgs = "loading"
      BY <2>1, <3>1, <3>2 DEF WebInv, Phase
    <3>4. Announced(w', w) \in Nat
      <4>1. IsFiniteSet(w'.pending)
        BY Pending DEF WebInv
      <4>2. IsFiniteSet(w'.pending \ w.pending)
        BY <4>1, FS_Subset
      <4> QED BY <4>2, FS_CardinalityType DEF Announced
    <3> HIDE DEF u
    <3>5. open' >= open
      BY <1>1, <3>1, <3>4
    <3>6. open' \in open..Cardinality(Res)
      BY <1>1, <3>5
    <3> QED BY <3>1, <3>3, <3>6 DEF Protocol!RNext, Protocol!Loaded
  <2> QED BY <2>2, <2>3
<1>12. CASE \E i \in w.timers : DomTimerFires(i)
  <2>1. w.timers # {} /\ msgs' = msgs
    BY <1>12 DEF DomTimerFires
  <2> QED BY <1>2, <2>1, Awake
<1>13. CASE UNCHANGED vars
  BY <1>13 DEF vars
<1> QED BY <1>3, <1>4, <1>5, <1>6, <1>7, <1>8, <1>9, <1>10, <1>11, <1>12, <1>13 DEF Next

(* The web engine keeps the renderer's protocol: one outcome to a load,    *)
(* requests only while the page is there, and silence after a failure.     *)
THEOREM EngineFollowsProtocol == Spec => FollowsProtocol
BY WebInvHolds, BeginsProtocol, StepsProtocol, PTL DEF Spec, FollowsProtocol, Protocol!RSpec

==============================================================================
