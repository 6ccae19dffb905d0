--------------------------- MODULE PageDriverProofs ---------------------------
(***************************************************************************)
(* What the driver believes of the page is true, for any number of loads   *)
(* and of requests, if the proxy it uses is connected before the renderer. *)
(*                                                                         *)
(* DriverIsSafe is not inductive.  Which reply the driver may still get,   *)
(* and where it stands among the messages before it, follows from the      *)
(* state the driver called from (Talk): the answer to a Reset comes last,  *)
(* the answer to a LoadPage first, or behind the page's first request.     *)
(* That the count of pending requests is never set to zero needs that      *)
(* every end of a request in flight is covered by a request announced      *)
(* before it, at every place of the queue (Covered).                       *)
(***************************************************************************)
EXTENDS PageDriver, FiniteSetTheorems, FunctionTheorems, TLAPS

Replies == {"ResetResp", "LoadPageResp"}

Message ==
  [type : {"RequestWillBeSent", "RequestFinished", "PageLoaded", "PageLoadFailed"} \cup Replies,
   load : Nat]

Call == [type : {"LoadPage", "Reset"}, load : Nat]

Info == [status : {"NONE", "PENDING", "OK"}, pending : 0..MaxReqs,
         dom : BOOLEAN, clamped : BOOLEAN]

Driver ==
  [state : {"INITIAL", "RESET_RENDERER", "DONE_RESET_RENDERER", "THINKING",
            "LOADING_PAGE", "WAIT_FOR_MORE_REQUESTS"},
   load : 0..MaxLoads, info : Info, wait : BOOLEAN, timeout : BOOLEAN,
   think : BOOLEAN, reports : Nat, stops : Nat]

Types ==
  /\ conf \in Confs /\ d \in Driver
  /\ toR \in Seq(Call) /\ toD \in Seq(Message)
  /\ rload \in Nat /\ reqs \in 0..MaxReqs
  /\ phase \in {"idle", "loading", "loaded", "failed"} /\ open \in 0..MaxOpen
  /\ over \in {"no", "exit", "untested", "call timed out"}

(* The driver's timers and what it notes of a load, by its state.          *)
Notes ==
  /\ d.state # "DONE_RESET_RENDERER"
  /\ d.think <=> d.state = "THINKING"
  /\ d.timeout => Loading
  /\ d.info.dom <=> d.state = "WAIT_FOR_MORE_REQUESTS"
  /\ d.state = "LOADING_PAGE" => d.info.status = "PENDING"
  /\ d.state = "WAIT_FOR_MORE_REQUESTS" => d.info.status = "OK" /\ d.timeout
  /\ d.state = "THINKING" => d.load < MaxLoads
  /\ d.state = "INITIAL" => d.load = 0

(* The renderer's channel is READY once the driver has left INITIAL, the   *)
(* proxy's before it.                                                      *)
Channels ==
  /\ "renderer" \in ready <=> d.state # "INITIAL"
  /\ "renderer" \in ready /\ UseProxy => "proxy" \in ready

NoReply(q) == \A i \in 1..Len(q) : q[i].type \notin Replies

(* The answer to a Reset is the last message in q, and the only reply.     *)
EndsInReset(q) ==
  /\ Len(q) > 0 /\ q[Len(q)].type = "ResetResp"
  /\ \A i \in 1..(Len(q) - 1) : q[i].type \notin Replies

(* The answer to a LoadPage is the only reply in q, and only the page's    *)
(* first request is before it.                                             *)
Answered(q) ==
  \/ /\ Len(q) > 0 /\ q[1].type = "LoadPageResp"
     /\ \A i \in 2..Len(q) : q[i].type \notin Replies
  \/ /\ Len(q) > 1 /\ q[1].type = "RequestWillBeSent" /\ q[2].type = "LoadPageResp"
     /\ \A i \in 3..Len(q) : q[i].type \notin Replies

Silent == toR = << >> /\ toD = << >> /\ phase = "idle"

ResetTalk ==
  \/ Len(toR) = 1 /\ toR[1].type = "Reset" /\ NoReply(toD)
  \/ toR = << >> /\ phase = "idle" /\ EndsInReset(toD)

LoadTalk ==
  \/ /\ Len(toR) = 1 /\ toR[1].type = "LoadPage" /\ toR[1].load = d.load
     /\ toD = << >> /\ phase = "idle" /\ ~d.timeout
     /\ d.info.pending = 0
  \/ /\ toR = << >> /\ phase # "idle"
     /\ IF d.timeout THEN NoReply(toD) ELSE Answered(toD)

WaitTalk == toR = << >> /\ phase # "idle" /\ NoReply(toD)

(* What is under way between the driver and the renderer, by the driver's  *)
(* state.                                                                  *)
Talk ==
  /\ d.state \in {"INITIAL", "THINKING"} => Silent
  /\ d.state = "RESET_RENDERER" => ResetTalk
  /\ d.state = "LOADING_PAGE" => LoadTalk
  /\ d.state = "WAIT_FOR_MORE_REQUESTS" => WaitTalk

(* All of q is about load l.                                               *)
Speaks(q, l) == \A i \in 1..Len(q) : q[i].type # "ResetResp" => q[i].load = l

(* The renderer speaks of the driver's load.                               *)
SameLoad ==
  /\ Speaks(toD, d.load)
  /\ phase # "idle" => rload = d.load
  /\ phase = "idle" => open = 0

(* The messages of type t among the first k of q.                          *)
Places(q, t, k) == {i \in 1..k : q[i].type = t}
Count(q, t, k) == Cardinality(Places(q, t, k))
Sent(q, k) == Count(q, "RequestWillBeSent", k)
Ended(q, k) == Count(q, "RequestFinished", k)

(* With n requests pending, no end of a request in q sets the count to     *)
(* zero.                                                                   *)
Covered(q, n) == \A k \in 0..Len(q) : Ended(q, k) <= n + Sent(q, k)

(* With n requests pending before q is handled, o are open after it.       *)
Balanced(q, n, o) == n + Sent(q, Len(q)) = o + Ended(q, Len(q))

Bounded == d.info.pending + Sent(toD, Len(toD)) <= reqs

Ledger ==
  Loading /\ phase # "failed" =>
    Covered(toD, d.info.pending) /\ Balanced(toD, d.info.pending, open) /\ ~d.info.clamped

(* The inductive invariant.                                                *)
IInv ==
  /\ Types /\ Notes /\ Channels /\ Talk /\ SameLoad
  /\ Bounded /\ Ledger /\ OneReportPerLoad /\ WaitsWhenQuiet

-----------------------------------------------------------------------------
(* Counting messages.                                                      *)

(* Counts are numbers.                                                     *)
LEMMA PlacesFinite ==
  \A q \in Seq(Message) : \A t : \A k \in 0..Len(q) :
    IsFiniteSet(Places(q, t, k)) /\ Count(q, t, k) \in Nat
<1> TAKE q \in Seq(Message)
<1> TAKE t
<1> TAKE k \in 0..Len(q)
<1>1. k \in Nat
  OBVIOUS
<1>2. IsFiniteSet(1..k)
  BY <1>1, FS_Interval
<1>3. Places(q, t, k) \subseteq 1..k
  BY DEF Places
<1>4. IsFiniteSet(Places(q, t, k))
  BY <1>2, <1>3, FS_Subset
<1> QED BY <1>4, FS_CardinalityType DEF Count

(* There is nothing among the first none.                                  *)
LEMMA CountNone == \A q \in Seq(Message) : \A t : Count(q, t, 0) = 0
<1> TAKE q \in Seq(Message)
<1> TAKE t
<1>1. Places(q, t, 0) = {}
  BY DEF Places
<1> QED BY <1>1, FS_EmptySet DEF Count

(* One message more.                                                       *)
LEMMA CountNext ==
  \A q \in Seq(Message) : \A t : \A k \in 1..Len(q) :
    Count(q, t, k) = Count(q, t, k - 1) + (IF q[k].type = t THEN 1 ELSE 0)
<1> TAKE q \in Seq(Message)
<1> TAKE t
<1> TAKE k \in 1..Len(q)
<1> DEFINE P == Places(q, t, k - 1)
<1>1. k - 1 \in 0..Len(q)
  OBVIOUS
<1>2. IsFiniteSet(P) /\ Cardinality(P) \in Nat
  BY <1>1, PlacesFinite DEF Count
<1>3. k \notin P
  BY DEF Places
<1>4. CASE q[k].type = t
  <2>1. Places(q, t, k) = P \cup {k}
    BY <1>4 DEF Places
  <2>2. Cardinality(P \cup {k}) = Cardinality(P) + 1
    BY <1>2, <1>3, FS_AddElement
  <2> QED BY <1>4, <2>1, <2>2 DEF Count
<1>5. CASE q[k].type # t
  <2>1. Places(q, t, k) = P
    BY <1>5 DEF Places
  <2> QED BY <1>2, <1>5, <2>1 DEF Count
<1> QED BY <1>4, <1>5

(* Counts in a queue a message is put into.                                *)
LEMMA CountAppend ==
  \A q \in Seq(Message), m \in Message : \A t :
    /\ \A k \in 0..Len(q) : Count(Append(q, m), t, k) = Count(q, t, k)
    /\ Count(Append(q, m), t, Len(q) + 1)
         = Count(q, t, Len(q)) + (IF m.type = t THEN 1 ELSE 0)
<1> TAKE q \in Seq(Message), m \in Message
<1> TAKE t
<1> DEFINE r == Append(q, m)
<1>1. r \in Seq(Message) /\ Len(r) = Len(q) + 1 /\ Len(q) \in Nat
  OBVIOUS
<1>2. r[Len(q) + 1] = m /\ \A i \in 1..Len(q) : r[i] = q[i]
  OBVIOUS
<1> HIDE DEF r
<1>3. ASSUME NEW k \in 0..Len(q)
      PROVE  Count(r, t, k) = Count(q, t, k)
  <2>1. Places(r, t, k) = Places(q, t, k)
    BY <1>1, <1>2 DEF Places
  <2> QED BY <2>1 DEF Count
<1>4. Count(r, t, Len(q) + 1) = Count(r, t, Len(q)) + (IF m.type = t THEN 1 ELSE 0)
  <2>1. Len(q) + 1 \in 1..Len(r) /\ Len(q) + 1 - 1 = Len(q)
    BY <1>1
  <2>2. Count(r, t, Len(q) + 1)
          = Count(r, t, Len(q) + 1 - 1) + (IF r[Len(q) + 1].type = t THEN 1 ELSE 0)
    BY <1>1, <2>1, CountNext
  <2> QED BY <1>2, <2>1, <2>2
<1>5. Len(q) \in 0..Len(q)
  BY <1>1
<1>6. Count(r, t, Len(q)) = Count(q, t, Len(q))
  BY <1>3, <1>5
<1> QED BY <1>3, <1>4, <1>6 DEF r

(* Counts in a queue a message is taken from.                              *)
LEMMA CountTail ==
  \A q \in Seq(Message) : \A t : q # << >> =>
    \A k \in 1..Len(q) :
      Count(q, t, k) = Count(Tail(q), t, k - 1) + (IF q[1].type = t THEN 1 ELSE 0)
<1> SUFFICES ASSUME NEW q \in Seq(Message), NEW t, q # << >>,
                    NEW k \in 1..Len(q)
             PROVE  Count(q, t, k)
                      = Count(Tail(q), t, k - 1) + (IF q[1].type = t THEN 1 ELSE 0)
  OBVIOUS
<1> DEFINE r == Tail(q)
           S == Places(r, t, k - 1)
           T == Places(q, t, k) \ {1}
           f == [i \in S |-> i + 1]
<1>1. r \in Seq(Message) /\ Len(r) = Len(q) - 1 /\ Len(q) \in Nat
  OBVIOUS
<1>2. \A i \in 1..(Len(q) - 1) : r[i] = q[i + 1]
  OBVIOUS
<1>3. IsFiniteSet(S) /\ Cardinality(S) \in Nat /\ Cardinality(S) = Count(r, t, k - 1)
  <2>1. k - 1 \in 0..Len(r)
    BY <1>1
  <2> QED BY <1>1, <2>1, PlacesFinite DEF Count
<1>4. \A i : i \in S <=> i \in 1..(k - 1) /\ q[i + 1].type = t
  BY <1>1, <1>2 DEF Places
<1>5. \A i : i \in T <=> i \in 2..k /\ q[i].type = t
  BY DEF Places
<1>6. f \in Bijection(S, T)
  <2> HIDE DEF S, T
  <2>1. \A i \in S : i + 1 \in T /\ f[i] = i + 1
    BY <1>4, <1>5
  <2>2. \A i \in T : i - 1 \in S /\ f[i - 1] = i
    <3> TAKE i \in T
    <3>1. i \in 2..k /\ q[i].type = t
      BY <1>5
    <3>2. i - 1 \in 1..(k - 1) /\ (i - 1) + 1 = i
      BY <3>1
    <3>3. i - 1 \in S
      BY <1>4, <3>1, <3>2
    <3> QED BY <2>1, <3>2, <3>3
  <2>3. \A i, j \in S : f[i] = f[j] => i = j
    BY <1>4, <2>1
  <2>4. f \in [S -> T]
    BY <2>1
  <2> QED BY <2>2, <2>3, <2>4, Fun_IsBij
<1>7. Cardinality(T) = Cardinality(S) /\ IsFiniteSet(T)
  <2>1. ExistsBijection(S, T)
    BY <1>6 DEF ExistsBijection
  <2> QED BY <1>3, <2>1, FS_Bijection
<1> HIDE DEF S, T
<1>8. CASE q[1].type = t
  <2>1. Places(q, t, k) = T \cup {1} /\ 1 \notin T
    BY <1>8 DEF T, Places
  <2>2. Cardinality(T \cup {1}) = Cardinality(T) + 1
    BY <1>7, <2>1, FS_AddElement
  <2> QED BY <1>3, <1>7, <1>8, <2>1, <2>2 DEF Count
<1>9. CASE q[1].type # t
  <2>1. Places(q, t, k) = T
    BY <1>9 DEF T, Places
  <2> QED BY <1>3, <1>7, <1>9, <2>1 DEF Count
<1> QED BY <1>8, <1>9

Bit(m, t) == IF m.type = t THEN 1 ELSE 0

(* A message is put into a covered, balanced queue: it stays so if it ends *)
(* no request but an open one.                                             *)
LEMMA LedgerAppend ==
  \A q \in Seq(Message), m \in Message, n, o \in Nat, o2 \in Nat :
    /\ Covered(q, n) /\ Balanced(q, n, o)
    /\ o2 = o + Bit(m, "RequestWillBeSent") - Bit(m, "RequestFinished")
    => Covered(Append(q, m), n) /\ Balanced(Append(q, m), n, o2)
<1> SUFFICES ASSUME NEW q \in Seq(Message), NEW m \in Message, NEW n \in Nat,
                    NEW o \in Nat, NEW o2 \in Nat, Covered(q, n), Balanced(q, n, o),
                    o2 = o + Bit(m, "RequestWillBeSent") - Bit(m, "RequestFinished")
             PROVE  Covered(Append(q, m), n) /\ Balanced(Append(q, m), n, o2)
  OBVIOUS
<1> DEFINE r == Append(q, m)
           l == Len(q)
<1>1. r \in Seq(Message) /\ Len(r) = l + 1 /\ l \in Nat
  OBVIOUS
<1>2. /\ \A k \in 0..l : Sent(r, k) = Sent(q, k)
      /\ Sent(r, l + 1) = Sent(q, l) + Bit(m, "RequestWillBeSent")
  BY CountAppend DEF Sent, Bit
<1>3. /\ \A k \in 0..l : Ended(r, k) = Ended(q, k)
      /\ Ended(r, l + 1) = Ended(q, l) + Bit(m, "RequestFinished")
  BY CountAppend DEF Ended, Bit
<1>4. Sent(q, l) \in Nat /\ Ended(q, l) \in Nat
  BY <1>1, PlacesFinite DEF Sent, Ended
<1>5. n + Sent(q, l) = o + Ended(q, l) /\ \A k \in 0..l : Ended(q, k) <= n + Sent(q, k)
  BY DEF Covered, Balanced
<1>6. Bit(m, "RequestWillBeSent") \in 0..1 /\ Bit(m, "RequestFinished") \in 0..1
  BY DEF Bit
<1> HIDE DEF r, l
<1>7. n + Sent(r, l + 1) = o2 + Ended(r, l + 1)
  BY <1>2, <1>3, <1>4, <1>5, <1>6, SMTT(30)
<1>8. Ended(r, l + 1) <= n + Sent(r, l + 1)
  BY <1>2, <1>3, <1>4, <1>6, <1>7, SMTT(30)
<1>9. \A k \in 0..(l + 1) : Ended(r, k) <= n + Sent(r, k)
  <2> TAKE k \in 0..(l + 1)
  <2>1. k \in 0..l \/ k = l + 1
    BY <1>1
  <2> QED BY <1>2, <1>3, <1>5, <1>8, <2>1
<1> QED BY <1>1, <1>7, <1>9 DEF Covered, Balanced, r

(* A message is taken from a covered, balanced queue, and counted.         *)
LEMMA LedgerTail ==
  \A q \in Seq(Message), n, o \in Nat :
    q # << >> /\ Covered(q, n) /\ Balanced(q, n, o) =>
      LET n2 == n + Bit(q[1], "RequestWillBeSent") - Bit(q[1], "RequestFinished")
      IN  n2 >= 0 /\ Covered(Tail(q), n2) /\ Balanced(Tail(q), n2, o)
<1> SUFFICES ASSUME NEW q \in Seq(Message), NEW n \in Nat, NEW o \in Nat,
                    q # << >>, Covered(q, n), Balanced(q, n, o)
             PROVE  LET n2 == n + Bit(q[1], "RequestWillBeSent") - Bit(q[1], "RequestFinished")
                    IN  n2 >= 0 /\ Covered(Tail(q), n2) /\ Balanced(Tail(q), n2, o)
  OBVIOUS
<1> DEFINE r == Tail(q)
           l == Len(q)
           a == Bit(q[1], "RequestWillBeSent")
           b == Bit(q[1], "RequestFinished")
<1>1. r \in Seq(Message) /\ Len(r) = l - 1 /\ l \in Nat /\ l > 0
  OBVIOUS
<1>2. \A k \in 1..l : Sent(q, k) = Sent(r, k - 1) + a
  BY CountTail DEF Sent, Bit
<1>3. \A k \in 1..l : Ended(q, k) = Ended(r, k - 1) + b
  BY CountTail DEF Ended, Bit
<1>4. \A k \in 0..(l - 1) : Sent(r, k) \in Nat /\ Ended(r, k) \in Nat
  BY <1>1, PlacesFinite DEF Sent, Ended
<1>5. n + Sent(q, l) = o + Ended(q, l) /\ \A k \in 0..l : Ended(q, k) <= n + Sent(q, k)
  BY DEF Covered, Balanced
<1>6. a \in 0..1 /\ b \in 0..1
  BY DEF Bit
<1>7. Sent(r, 0) = 0 /\ Ended(r, 0) = 0
  BY <1>1, CountNone DEF Sent, Ended
<1> HIDE DEF r, l, a, b
<1>8. \A k \in 0..(l - 1) : Ended(r, k) + b <= n + Sent(r, k) + a
  <2> TAKE k \in 0..(l - 1)
  <2>1. k + 1 \in 1..l /\ k + 1 \in 0..l /\ k + 1 - 1 = k
    BY <1>1
  <2>2. Sent(q, k + 1) = Sent(r, k) + a /\ Ended(q, k + 1) = Ended(r, k) + b
    BY <1>2, <1>3, <2>1
  <2>3. Ended(q, k + 1) <= n + Sent(q, k + 1)
    BY <1>5, <2>1
  <2> QED BY <1>4, <1>6, <2>2, <2>3
<1>9. b <= n + a
  <2>1. 0 \in 0..(l - 1)
    BY <1>1
  <2> QED BY <1>6, <1>7, <1>8, <2>1
<1>10. \A k \in 0..(l - 1) : Ended(r, k) <= n + a - b + Sent(r, k)
  BY <1>4, <1>6, <1>8
<1>11. n + a - b + Sent(r, l - 1) = o + Ended(r, l - 1)
  <2>1. l \in 1..l /\ l - 1 \in 0..(l - 1)
    BY <1>1
  <2>2. Sent(q, l) = Sent(r, l - 1) + a /\ Ended(q, l) = Ended(r, l - 1) + b
    BY <1>2, <1>3, <2>1
  <2> DEFINE x == Sent(r, l - 1)
             y == Ended(r, l - 1)
  <2>3. x \in Nat /\ y \in Nat
    BY <1>4, <2>1
  <2>4. n + (x + a) = o + (y + b)
    BY <1>5, <2>2
  <2> HIDE DEF x, y
  <2>5. n + a - b + x = o + y
    BY <1>6, <2>3, <2>4
  <2> QED BY <2>5 DEF x, y
<1>12. n + a - b >= 0
  BY <1>6, <1>9
<1>13. Covered(r, n + a - b) /\ Balanced(r, n + a - b, o)
  BY <1>1, <1>10, <1>11 DEF Covered, Balanced
<1> QED BY <1>12, <1>13 DEF r, a, b

(* The count of requests announced goes up by one with an announcement     *)
(* that is put in and down by one with one that is taken out.              *)
LEMMA SentChanges ==
  \A q \in Seq(Message) :
    /\ Sent(q, Len(q)) \in Nat
    /\ \A m \in Message :
         Sent(Append(q, m), Len(Append(q, m))) = Sent(q, Len(q)) + Bit(m, "RequestWillBeSent")
    /\ q # << >> =>
         Sent(Tail(q), Len(Tail(q))) = Sent(q, Len(q)) - Bit(q[1], "RequestWillBeSent")
<1> TAKE q \in Seq(Message)
<1>1. Sent(q, Len(q)) \in Nat
  BY PlacesFinite DEF Sent
<1>2. ASSUME NEW m \in Message
      PROVE  Sent(Append(q, m), Len(Append(q, m)))
               = Sent(q, Len(q)) + Bit(m, "RequestWillBeSent")
  <2>1. Len(Append(q, m)) = Len(q) + 1
    OBVIOUS
  <2> QED BY <2>1, CountAppend DEF Sent, Bit
<1>3. ASSUME q # << >>
      PROVE  Sent(Tail(q), Len(Tail(q))) = Sent(q, Len(q)) - Bit(q[1], "RequestWillBeSent")
  <2>1. Len(Tail(q)) = Len(q) - 1 /\ Len(q) \in 1..Len(q) /\ Tail(q) \in Seq(Message)
    BY <1>3
  <2>2. Sent(q, Len(q)) = Sent(Tail(q), Len(q) - 1) + Bit(q[1], "RequestWillBeSent")
    BY <1>3, <2>1, CountTail DEF Sent, Bit
  <2>3. \A r \in Seq(Message) : Sent(r, Len(r)) \in Nat
    BY PlacesFinite DEF Sent
  <2>4. Sent(q, Len(q)) = Sent(Tail(q), Len(Tail(q))) + Bit(q[1], "RequestWillBeSent")
    BY <2>1, <2>2
  <2>5. \A x, y, z \in Nat : y = x + z => x = y - z
    OBVIOUS
  <2>6. Bit(q[1], "RequestWillBeSent") \in Nat
    BY DEF Bit
  <2>7. Sent(Tail(q), Len(Tail(q))) \in Nat
    BY <2>1, <2>3
  <2> QED BY <1>1, <2>4, <2>5, <2>6, <2>7, ZenonT(30)
<1> QED BY <1>1, <1>2, <1>3

-----------------------------------------------------------------------------
(* Which replies are in a queue.                                           *)

(* A message is put in.                                                    *)
LEMMA PutIn ==
  \A q \in Seq(Message), m \in Message :
    /\ Append(q, m) \in Seq(Message)
    /\ NoReply(q) /\ m.type \notin Replies => NoReply(Append(q, m))
    /\ NoReply(q) /\ m.type = "ResetResp" => EndsInReset(Append(q, m))
    /\ Answered(q) /\ m.type \notin Replies => Answered(Append(q, m))
    /\ \A l : Speaks(q, l) /\ (m.type # "ResetResp" => m.load = l) => Speaks(Append(q, m), l)
<1> TAKE q \in Seq(Message), m \in Message
<1> DEFINE r == Append(q, m)
<1>1. r \in Seq(Message) /\ Len(r) = Len(q) + 1 /\ Len(q) \in Nat
  OBVIOUS
<1>2. r[Len(q) + 1] = m /\ \A i \in 1..Len(q) : r[i] = q[i]
  OBVIOUS
<1> HIDE DEF r
<1>3. NoReply(q) /\ m.type \notin Replies => NoReply(r)
  BY <1>1, <1>2 DEF NoReply
<1>4. NoReply(q) /\ m.type = "ResetResp" => EndsInReset(r)
  BY <1>1, <1>2 DEF NoReply, EndsInReset
<1>5. Answered(q) /\ m.type \notin Replies => Answered(r)
  BY <1>1, <1>2 DEF Answered
<1>6. \A l : Speaks(q, l) /\ (m.type # "ResetResp" => m.load = l) => Speaks(r, l)
  BY <1>1, <1>2 DEF Speaks
<1> QED BY <1>1, <1>3, <1>4, <1>5, <1>6 DEF r

(* A message is taken out.                                                 *)
LEMMA TakenOut ==
  \A q \in Seq(Message) : q # << >> =>
    /\ Head(q) = q[1] /\ q[1] \in Message /\ Tail(q) \in Seq(Message)
    /\ NoReply(q) => q[1].type \notin Replies /\ NoReply(Tail(q))
    /\ EndsInReset(q) =>
         IF q[1].type = "ResetResp" THEN Tail(q) = << >>
         ELSE q[1].type # "LoadPageResp" /\ EndsInReset(Tail(q))
    /\ Answered(q) =>
         IF q[1].type = "LoadPageResp" THEN NoReply(Tail(q))
         ELSE q[1].type = "RequestWillBeSent" /\ Answered(Tail(q))
    /\ \A l : Speaks(q, l) =>
         (q[1].type # "ResetResp" => q[1].load = l) /\ Speaks(Tail(q), l)
<1> SUFFICES ASSUME NEW q \in Seq(Message), q # << >>
             PROVE
    /\ Head(q) = q[1] /\ q[1] \in Message /\ Tail(q) \in Seq(Message)
    /\ NoReply(q) => q[1].type \notin Replies /\ NoReply(Tail(q))
    /\ EndsInReset(q) =>
         IF q[1].type = "ResetResp" THEN Tail(q) = << >>
         ELSE q[1].type # "LoadPageResp" /\ EndsInReset(Tail(q))
    /\ Answered(q) =>
         IF q[1].type = "LoadPageResp" THEN NoReply(Tail(q))
         ELSE q[1].type = "RequestWillBeSent" /\ Answered(Tail(q))
    /\ \A l : Speaks(q, l) =>
         (q[1].type # "ResetResp" => q[1].load = l) /\ Speaks(Tail(q), l)
  OBVIOUS
<1> DEFINE r == Tail(q)
<1>1. r \in Seq(Message) /\ Len(r) = Len(q) - 1 /\ Len(q) \in Nat /\ Len(q) > 0
  OBVIOUS
<1>2. Head(q) = q[1] /\ q[1] \in Message /\ \A i \in 1..Len(r) : r[i] = q[i + 1]
  OBVIOUS
<1>3. \A x \in Seq(Message) : Len(x) = 0 => x = << >>
  OBVIOUS
<1> HIDE DEF r
<1>4. NoReply(q) => q[1].type \notin Replies /\ NoReply(r)
  BY <1>1, <1>2 DEF NoReply
<1>5. EndsInReset(q) =>
        IF q[1].type = "ResetResp" THEN r = << >>
        ELSE q[1].type # "LoadPageResp" /\ EndsInReset(r)
  BY <1>1, <1>2, <1>3 DEF EndsInReset, Replies
<1>6. Answered(q) =>
        IF q[1].type = "LoadPageResp" THEN NoReply(r)
        ELSE q[1].type = "RequestWillBeSent" /\ Answered(r)
  BY <1>1, <1>2 DEF Answered, NoReply
<1>7. \A l : Speaks(q, l) => (q[1].type # "ResetResp" => q[1].load = l) /\ Speaks(r, l)
  BY <1>1, <1>2 DEF Speaks
<1> QED BY <1>1, <1>2, <1>4, <1>5, <1>6, <1>7 DEF r

(* Nothing is in an empty queue.                                           *)
LEMMA EmptyQueue ==
  /\ << >> \in Seq(Message) /\ NoReply(<< >>) /\ Sent(<< >>, Len(<< >>)) = 0
  /\ Covered(<< >>, 0) /\ Balanced(<< >>, 0, 0)
  /\ \A l : Speaks(<< >>, l)
<1> DEFINE e == << >>
<1>1. e \in Seq(Message) /\ Len(e) = 0
  OBVIOUS
<1> HIDE DEF e
<1>2. Sent(e, 0) = 0 /\ Ended(e, 0) = 0
  BY <1>1, CountNone DEF Sent, Ended
<1>3. NoReply(e) /\ \A l : Speaks(e, l)
  BY <1>1 DEF NoReply, Speaks
<1>4. Covered(e, 0) /\ Balanced(e, 0, 0)
  BY <1>1, <1>2 DEF Covered, Balanced
<1> QED BY <1>1, <1>2, <1>3, <1>4 DEF e

-----------------------------------------------------------------------------
(* Every step preserves the invariant.                                     *)

(* The bounds are numbers, and a page may have a request.                  *)
LEMMA Bounds ==
  /\ MaxLoads \in Nat /\ MaxLoads > 0
  /\ MaxReqs \in Nat /\ MaxReqs > 0 /\ MaxOpen = MaxReqs
BY DriverAssumption

(* The fields of the driver.                                               *)
LEMMA Fields ==
  ASSUME NEW v \in Driver
  PROVE  /\ v.load \in Nat /\ v.load <= MaxLoads /\ v.reports \in Nat /\ v.stops \in Nat
         /\ v.state \in {"INITIAL", "RESET_RENDERER", "DONE_RESET_RENDERER", "THINKING",
                         "LOADING_PAGE", "WAIT_FOR_MORE_REQUESTS"}
         /\ v.wait \in BOOLEAN /\ v.timeout \in BOOLEAN /\ v.think \in BOOLEAN
         /\ v.info \in Info /\ v.info.pending \in Nat /\ v.info.pending <= MaxReqs
         /\ v.info.dom \in BOOLEAN /\ v.info.clamped \in BOOLEAN
<1>1. v.info \in Info /\ v.load \in 0..MaxLoads
  BY DEF Driver
<1>2. v.info.pending \in 0..MaxReqs /\ v.info.dom \in BOOLEAN /\ v.info.clamped \in BOOLEAN
  BY <1>1 DEF Info
<1>3. /\ v.reports \in Nat /\ v.stops \in Nat
      /\ v.state \in {"INITIAL", "RESET_RENDERER", "DONE_RESET_RENDERER", "THINKING",
                      "LOADING_PAGE", "WAIT_FOR_MORE_REQUESTS"}
      /\ v.wait \in BOOLEAN /\ v.timeout \in BOOLEAN /\ v.think \in BOOLEAN
  BY DEF Driver
<1> QED BY <1>1, <1>2, <1>3, Bounds

(* What is counted is a number.                                            *)
LEMMA Counts ==
  Types => /\ d.info.pending \in Nat /\ open \in Nat /\ reqs \in Nat
           /\ d.info.pending <= MaxReqs /\ reqs <= MaxReqs
           /\ d.load \in Nat /\ d.load <= MaxLoads /\ d.reports \in Nat
<1> SUFFICES ASSUME Types
             PROVE  /\ d.info.pending \in Nat /\ open \in Nat /\ reqs \in Nat
                    /\ d.info.pending <= MaxReqs /\ reqs <= MaxReqs
                    /\ d.load \in Nat /\ d.load <= MaxLoads /\ d.reports \in Nat
  OBVIOUS
<1>1. d \in Driver /\ open \in 0..MaxOpen /\ reqs \in 0..MaxReqs
  BY DEF Types
<1> QED BY <1>1, Bounds, Fields

(* The driver is in one of five states.                                    *)
LEMMA States ==
  IInv => d.state \in {"INITIAL", "RESET_RENDERER", "THINKING", "LOADING_PAGE",
                       "WAIT_FOR_MORE_REQUESTS"}
<1> SUFFICES ASSUME IInv
             PROVE  d.state \in {"INITIAL", "RESET_RENDERER", "THINKING", "LOADING_PAGE",
                                "WAIT_FOR_MORE_REQUESTS"}
  OBVIOUS
<1>1. d \in Driver /\ d.state # "DONE_RESET_RENDERER"
  BY DEF IInv, Types, Notes
<1> QED BY <1>1, Fields

(* At the start nothing is under way.                                      *)
LEMMA InitInv == Init => IInv
<1> SUFFICES ASSUME Init PROVE IInv
  OBVIOUS
<1>1. Types
  BY Bounds DEF Init, RInit, NewInfo, Types, Driver, Info
<1>2. Notes /\ Channels /\ Talk /\ OneReportPerLoad /\ WaitsWhenQuiet /\ ~Loading
  BY DEF Init, RInit, NewInfo, Notes, Channels, Talk, Silent, OneReportPerLoad,
         WaitsWhenQuiet, Loading
<1>3. SameLoad /\ Bounded
  BY EmptyQueue DEF Init, RInit, NewInfo, SameLoad, Bounded
<1> QED BY <1>1, <1>2, <1>3 DEF IInv, Ledger

(* The renderer says something of the page.                                *)
LEMMA SaysInv ==
  ASSUME IInv, Running,
         NEW t \in {"RequestWillBeSent", "RequestFinished", "PageLoaded", "PageLoadFailed"},
         Says(t),
         phase \in {"loading", "loaded"}, phase' \in {"loading", "loaded", "failed"},
         open' \in 0..MaxOpen, reqs' \in 0..MaxReqs,
         reqs' = reqs + (IF t = "RequestWillBeSent" THEN 1 ELSE 0),
         phase' # "failed" =>
           open' = open + (IF t = "RequestWillBeSent" THEN 1 ELSE 0)
                        - (IF t = "RequestFinished" THEN 1 ELSE 0)
  PROVE  IInv'
<1> DEFINE m == Msg(t, rload)
<1>1. m \in Message /\ m.type = t /\ m.load = d.load
  BY DEF Msg, Message, IInv, Types, SameLoad
<1>2. toD' = Append(toD, m)
  BY DEF Says
<1>3. UNCHANGED << conf, d, ready, toR, toP, rload, over >>
  BY DEF Says
<1> HIDE DEF m
<1>4. toD \in Seq(Message)
  BY DEF IInv, Types
<1>5. t \notin Replies
  BY DEF Replies
<1>6. /\ toD' \in Seq(Message)
      /\ NoReply(toD) => NoReply(toD')
      /\ Answered(toD) => Answered(toD')
      /\ Speaks(toD, d.load) => Speaks(toD', d.load)
  <2>1. /\ Append(toD, m) \in Seq(Message)
        /\ NoReply(toD) => NoReply(Append(toD, m))
        /\ Answered(toD) => Answered(Append(toD, m))
        /\ Speaks(toD, d.load) => Speaks(Append(toD, m), d.load)
    BY <1>1, <1>4, <1>5, PutIn, Zenon
  <2> QED BY <1>2, <2>1, Zenon
<1>7. Types'
  BY <1>3, <1>6 DEF IInv, Types
<1>8. Notes' /\ Channels' /\ OneReportPerLoad' /\ WaitsWhenQuiet'
  BY <1>3 DEF IInv, Notes, Channels, OneReportPerLoad, WaitsWhenQuiet, Loading, UseProxy
<1>9. Talk'
  BY <1>3, <1>6 DEF IInv, Talk, Silent, ResetTalk, LoadTalk, WaitTalk
<1>10. SameLoad'
  BY <1>3, <1>6 DEF IInv, SameLoad
<1>11. Bounded'
  <2>1. /\ Sent(toD, Len(toD)) \in Nat
        /\ Sent(toD', Len(toD')) = Sent(toD, Len(toD)) + Bit(m, "RequestWillBeSent")
    BY <1>1, <1>2, <1>4, SentChanges, Zenon
  <2>2. reqs' = reqs + Bit(m, "RequestWillBeSent")
    BY <1>1 DEF Bit
  <2>3. d.info.pending \in Nat /\ reqs \in Nat /\ Bit(m, "RequestWillBeSent") \in Nat
    BY <1>1, Counts DEF IInv, Bit
  <2>4. d.info.pending + Sent(toD, Len(toD)) <= reqs
    BY DEF IInv, Bounded
  <2>5. d.info.pending + Sent(toD', Len(toD')) <= reqs'
    BY <2>1, <2>2, <2>3, <2>4
  <2> QED BY <1>3, <2>5 DEF Bounded
<1>12. Ledger'
  <2> SUFFICES ASSUME Loading', phase' # "failed"
               PROVE  /\ Covered(toD', d.info.pending)
                      /\ Balanced(toD', d.info.pending, open')
                      /\ ~d.info.clamped
    BY <1>3 DEF Ledger
  <2>1. /\ Covered(toD, d.info.pending) /\ Balanced(toD, d.info.pending, open)
        /\ ~d.info.clamped
    BY <1>3 DEF IInv, Ledger, Loading
  <2>2. open' = open + Bit(m, "RequestWillBeSent") - Bit(m, "RequestFinished")
    BY <1>1 DEF Bit
  <2>3. d.info.pending \in Nat /\ open \in Nat /\ open' \in Nat
    BY Bounds, Counts DEF IInv
  <2>4. /\ Covered(Append(toD, m), d.info.pending)
        /\ Balanced(Append(toD, m), d.info.pending, open')
    BY <1>1, <1>4, <2>1, <2>2, <2>3, LedgerAppend, Zenon
  <2> QED BY <1>2, <2>1, <2>4
<1> QED BY <1>7, <1>8, <1>9, <1>10, <1>11, <1>12 DEF IInv

(* The renderer's events.                                                  *)
LEMMA RendererSaysInv ==
  ASSUME IInv, SendsRequest \/ EndsRequest \/ PageLoads \/ PageFails
  PROVE  IInv'
<1>1. open \in 0..MaxOpen /\ reqs \in 0..MaxReqs /\ MaxReqs \in Nat /\ MaxOpen \in Nat
  BY Bounds DEF IInv, Types
<1>2. CASE SendsRequest
  BY <1>1, <1>2, SaysInv DEF SendsRequest, Work
<1>3. CASE EndsRequest
  BY <1>1, <1>3, SaysInv DEF EndsRequest, Work
<1>4. CASE PageLoads
  BY <1>1, <1>4, SaysInv DEF PageLoads, Loaded
<1>5. CASE PageFails
  BY <1>1, <1>5, SaysInv DEF PageFails, Failed
<1> QED BY <1>2, <1>3, <1>4, <1>5

(* The channels come up.                                                   *)
LEMMA ProxyReadyInv == IInv /\ ProxyReady => IInv'
<1> SUFFICES ASSUME IInv, ProxyReady PROVE IInv'
  OBVIOUS
<1>1. UNCHANGED << conf, d, toR, toD, rload, reqs, phase, open, over >>
  BY DEF ProxyReady, renderer
<1>2. Channels'
  BY <1>1 DEF IInv, Channels, ProxyReady, UseProxy
<1>3. Types' /\ Notes' /\ OneReportPerLoad' /\ WaitsWhenQuiet'
  BY <1>1 DEF IInv, Types, Notes, OneReportPerLoad, WaitsWhenQuiet, Loading
<1>4. Talk' /\ SameLoad'
  BY <1>1 DEF IInv, Talk, Silent, ResetTalk, LoadTalk, WaitTalk, SameLoad
<1>5. Bounded' /\ Ledger'
  BY <1>1 DEF IInv, Bounded, Ledger, Loading
<1> QED BY <1>2, <1>3, <1>4, <1>5 DEF IInv

(* The proxy's calls are not the renderer's.                               *)
LEMMA ProxyHandlesInv == IInv /\ ProxyHandles => IInv'
<1> SUFFICES ASSUME IInv, ProxyHandles PROVE IInv'
  OBVIOUS
<1>1. UNCHANGED << conf, d, ready, toR, toD, rload, reqs, phase, open, over >>
  BY DEF ProxyHandles
<1>2. Types' /\ Notes' /\ OneReportPerLoad' /\ WaitsWhenQuiet' /\ Channels'
  BY <1>1 DEF IInv, Types, Notes, OneReportPerLoad, WaitsWhenQuiet, Loading, Channels,
              UseProxy
<1>3. Talk' /\ SameLoad'
  BY <1>1 DEF IInv, Talk, Silent, ResetTalk, LoadTalk, WaitTalk, SameLoad
<1>4. Bounded' /\ Ledger'
  BY <1>1 DEF IInv, Bounded, Ledger, Loading
<1> QED BY <1>2, <1>3, <1>4 DEF IInv

(* The process ends over a call without an answer.                         *)
LEMMA CallTimesOutInv == IInv /\ CallTimesOut => IInv'
<1> SUFFICES ASSUME IInv, CallTimesOut PROVE IInv'
  OBVIOUS
<1>1. UNCHANGED << conf, d, ready, toR, toD, rload, reqs, phase, open >>
      /\ over' = "call timed out"
  BY DEF CallTimesOut, renderer
<1>2. Types' /\ Notes' /\ OneReportPerLoad' /\ WaitsWhenQuiet' /\ Channels'
  BY <1>1 DEF IInv, Types, Notes, OneReportPerLoad, WaitsWhenQuiet, Loading, Channels,
              UseProxy
<1>3. Talk' /\ SameLoad'
  BY <1>1 DEF IInv, Talk, Silent, ResetTalk, LoadTalk, WaitTalk, SameLoad
<1>4. Bounded' /\ Ledger'
  BY <1>1 DEF IInv, Bounded, Ledger, Loading
<1> QED BY <1>2, <1>3, <1>4 DEF IInv

(* The driver's first call.                                                *)
LEMMA OneCall ==
  \A c \in Call : /\ Append(<< >>, c) \in Seq(Call)
                 /\ Len(Append(<< >>, c)) = 1 /\ Append(<< >>, c)[1] = c
OBVIOUS

(* The proxy is there when the driver makes its first call.                *)
LEMMA RendererReadyInv ==
  ASSUME \A c \in Confs : c.proxy => c.first, IInv, RendererReady
  PROVE  IInv'
<1> DEFINE c == [type |-> "Reset", load |-> 0]
<1>1. d.state = "INITIAL" /\ Silent /\ toR' = Append(<< >>, c)
  BY DEF IInv, Channels, Talk, Silent, RendererReady
<1>2. d' = [d EXCEPT !.state = "RESET_RENDERER"]
  BY DEF RendererReady
<1>3. UNCHANGED << conf, toD, rload, reqs, phase, open, over >>
  BY DEF RendererReady, renderer
<1>4. c \in Call /\ c.type = "Reset"
  BY DEF Call
<1>5. toR' \in Seq(Call) /\ Len(toR') = 1 /\ toR'[1].type = "Reset"
  <2> HIDE DEF c
  <2>1. Append(<< >>, c) \in Seq(Call) /\ Len(Append(<< >>, c)) = 1 /\ Append(<< >>, c)[1] = c
    BY <1>4, OneCall, Zenon
  <2> QED BY <1>1, <1>4, <2>1
<1>6. d \in Driver
  BY DEF IInv, Types
<1>7. d' \in Driver /\ d'.state = "RESET_RENDERER" /\ d'.info = d.info /\ d'.load = d.load
      /\ d'.wait = d.wait /\ d'.timeout = d.timeout /\ d'.think = d.think
      /\ d'.reports = d.reports
  BY <1>2, <1>6 DEF Driver
<1>8. Types'
  BY <1>3, <1>5, <1>7 DEF IInv, Types
<1>9. Notes' /\ OneReportPerLoad' /\ WaitsWhenQuiet'
  BY <1>1, <1>7 DEF IInv, Notes, OneReportPerLoad, WaitsWhenQuiet, Loading
<1>10. Channels'
  BY <1>1, <1>3, <1>7 DEF IInv, Types, Channels, RendererReady, UseProxy
<1>11. Talk'
  <2>1. toD' = << >>
    BY <1>1, <1>3 DEF Silent
  <2>2. NoReply(toD')
    BY <2>1, EmptyQueue
  <2> QED BY <1>5, <1>7, <2>2 DEF Talk, ResetTalk
<1>12. SameLoad' /\ Bounded' /\ Ledger'
  BY <1>1, <1>3, <1>7 DEF IInv, SameLoad, Bounded, Ledger, Loading
<1> QED BY <1>8, <1>9, <1>10, <1>11, <1>12 DEF IInv

(* A single call is taken out.                                             *)
LEMMA OneOnly ==
  \A q \in Seq(Call) : Len(q) = 1 => Head(q) = q[1] /\ Tail(q) = << >> /\ q[1] \in Call
<1> SUFFICES ASSUME NEW q \in Seq(Call), Len(q) = 1
             PROVE  Head(q) = q[1] /\ Tail(q) = << >> /\ q[1] \in Call
  OBVIOUS
<1>1. q # << >> /\ Tail(q) \in Seq(Call) /\ Len(Tail(q)) = 0
  OBVIOUS
<1>2. \A x \in Seq(Call) : Len(x) = 0 => x = << >>
  OBVIOUS
<1>3. Tail(q) = << >>
  BY <1>1, <1>2, Zenon
<1> QED BY <1>1, <1>3

(* The renderer is told to forget the page.                                *)
LEMMA HandleResetInv == IInv /\ HandleReset => IInv'
<1> SUFFICES ASSUME IInv, HandleReset PROVE IInv'
  OBVIOUS
<1> DEFINE m == Msg("ResetResp", 0)
<1>1. /\ toR # << >> /\ Head(toR).type = "Reset" /\ toR \in Seq(Call)
      /\ toR' = Tail(toR) /\ toD' = Append(toD, m)
      /\ phase' = "idle" /\ open' = 0 /\ rload' = 0
  BY DEF HandleReset, Forget, IInv, Types
<1>2. UNCHANGED << conf, d, ready, reqs, over >>
  BY DEF HandleReset
<1>3. m \in Message /\ m.type = "ResetResp"
  BY DEF Msg, Message, Replies
<1> HIDE DEF m
<1>4. d.state = "RESET_RENDERER" /\ Len(toR) = 1 /\ NoReply(toD)
  BY <1>1, States, OneOnly DEF IInv, Talk, Silent, ResetTalk, LoadTalk, WaitTalk
<1>5. toR' = << >>
  BY <1>1, <1>4, OneOnly
<1>6. toD \in Seq(Message)
  BY DEF IInv, Types
<1>7. /\ toD' \in Seq(Message) /\ EndsInReset(toD')
      /\ Speaks(toD, d.load) => Speaks(toD', d.load)
  <2>1. /\ Append(toD, m) \in Seq(Message) /\ EndsInReset(Append(toD, m))
        /\ Speaks(toD, d.load) => Speaks(Append(toD, m), d.load)
    BY <1>3, <1>4, <1>6, PutIn, Zenon
  <2> QED BY <1>1, <2>1, Zenon
<1>8. Types'
  <2>1. /\ conf \in Confs /\ d \in Driver /\ reqs \in 0..MaxReqs
        /\ over \in {"no", "exit", "untested", "call timed out"}
    BY DEF IInv, Types
  <2>2. toR' \in Seq(Call)
    BY <1>5
  <2>3. open' \in 0..MaxOpen
    BY <1>1, Bounds
  <2> QED BY <1>1, <1>2, <1>7, <2>1, <2>2, <2>3 DEF Types
<1>9. Notes' /\ Channels' /\ OneReportPerLoad' /\ WaitsWhenQuiet'
  BY <1>2 DEF IInv, Notes, Channels, OneReportPerLoad, WaitsWhenQuiet, Loading, UseProxy
<1>10. Talk'
  BY <1>1, <1>2, <1>4, <1>5, <1>7 DEF Talk, ResetTalk
<1>11. SameLoad'
  BY <1>1, <1>2, <1>7 DEF IInv, SameLoad
<1>12. Bounded'
  <2>1. Bit(m, "RequestWillBeSent") = 0
    BY <1>3 DEF Bit
  <2>2. Sent(Append(toD, m), Len(Append(toD, m))) = Sent(toD, Len(toD)) + 0
        /\ Sent(toD, Len(toD)) \in Nat
    BY <1>3, <1>6, <2>1, SentChanges, Zenon
  <2>3. Sent(toD', Len(toD')) = Sent(toD, Len(toD))
    BY <1>1, <2>2
  <2> QED BY <1>2, <2>3 DEF IInv, Bounded
<1>13. Ledger'
  BY <1>2, <1>4 DEF Ledger, Loading
<1> QED BY <1>8, <1>9, <1>10, <1>11, <1>12, <1>13 DEF IInv

(* A page's main resource is announced before the call is answered.        *)
LEMMA HandleLoadPageInv == IInv /\ HandleLoadPage => IInv'
<1> SUFFICES ASSUME IInv, HandleLoadPage PROVE IInv'
  OBVIOUS
<1> DEFINE a == Msg("RequestWillBeSent", d.load)
           b == Msg("LoadPageResp", d.load)
           r == Append(<< >>, a)
<1>1. /\ toR # << >> /\ Head(toR).type = "LoadPage" /\ toR \in Seq(Call)
      /\ toR' = Tail(toR) /\ rload' = Head(toR).load
      /\ phase' = "loading" /\ open' = 1 /\ reqs' = 1
  BY DEF HandleLoadPage, Begin, IInv, Types
<1>2. UNCHANGED << conf, d, ready, over >>
  BY DEF HandleLoadPage
<1>3. /\ d.state = "LOADING_PAGE" /\ Len(toR) = 1 /\ toR[1].load = d.load
      /\ toD = << >> /\ ~d.timeout /\ d.info.pending = 0 /\ phase = "idle"
  BY <1>1, States, OneOnly DEF IInv, Talk, Silent, ResetTalk, LoadTalk, WaitTalk
<1>4. toR' = << >> /\ Head(toR).load = d.load
  BY <1>1, <1>3, OneOnly
<1>5. /\ a \in Message /\ a.type = "RequestWillBeSent" /\ a.load = d.load
      /\ b \in Message /\ b.type = "LoadPageResp" /\ b.load = d.load
  <2>1. d.load \in Nat
    BY Counts DEF IInv
  <2> QED BY <2>1 DEF Msg, Message, Replies
<1>6. toD' = << a, b >>
  BY <1>3, <1>4 DEF HandleLoadPage
<1>7. r \in Seq(Message) /\ << a, b >> = Append(r, b)
  BY <1>5
<1>8. toD' \in Seq(Message) /\ Len(toD') = 2 /\ toD'[1] = a /\ toD'[2] = b
  BY <1>5, <1>6
<1>9. /\ << >> \in Seq(Message) /\ Sent(<< >>, Len(<< >>)) = 0
      /\ Covered(<< >>, 0) /\ Balanced(<< >>, 0, 0)
  BY EmptyQueue
<1> HIDE DEF a, b
<1>10. /\ Bit(a, "RequestWillBeSent") = 1 /\ Bit(a, "RequestFinished") = 0
       /\ Bit(b, "RequestWillBeSent") = 0 /\ Bit(b, "RequestFinished") = 0
  BY <1>5 DEF Bit
<1>11. Covered(r, 0) /\ Balanced(r, 0, 1) /\ Sent(r, Len(r)) = 0 + 1
  <2>1. 0 \in Nat /\ 1 \in Nat /\ 1 = 0 + 1 - 0
    OBVIOUS
  <2>2. Covered(r, 0) /\ Balanced(r, 0, 1)
    BY <1>5, <1>9, <1>10, <2>1, LedgerAppend, Zenon
  <2> QED BY <1>5, <1>9, <1>10, <2>2, SentChanges, Zenon
<1> HIDE DEF r
<1>12. Covered(toD', 0) /\ Balanced(toD', 0, 1) /\ Sent(toD', Len(toD')) = (0 + 1) + 0
  <2>1. 0 \in Nat /\ 1 \in Nat /\ 1 = 1 + 0 - 0
    OBVIOUS
  <2>2. Covered(Append(r, b), 0) /\ Balanced(Append(r, b), 0, 1)
    BY <1>5, <1>7, <1>10, <1>11, <2>1, LedgerAppend, Zenon
  <2>3. Sent(Append(r, b), Len(Append(r, b))) = (0 + 1) + 0
    BY <1>5, <1>7, <1>10, <1>11, SentChanges, Zenon
  <2> QED BY <1>6, <1>7, <2>2, <2>3, Zenon
<1>13. Types'
  <2>1. d.load \in Nat
    BY Counts DEF IInv
  <2>2. conf \in Confs /\ d \in Driver /\ over \in {"no", "exit", "untested", "call timed out"}
    BY DEF IInv, Types
  <2>3. toR' \in Seq(Call)
    BY <1>4
  <2>4. open' \in 0..MaxOpen /\ reqs' \in 0..MaxReqs
    BY <1>1, Bounds
  <2> QED BY <1>1, <1>2, <1>4, <1>8, <2>1, <2>2, <2>3, <2>4 DEF Types
<1>14. Notes' /\ Channels' /\ OneReportPerLoad' /\ WaitsWhenQuiet'
  BY <1>2 DEF IInv, Notes, Channels, OneReportPerLoad, WaitsWhenQuiet, Loading, UseProxy
<1>15. Talk'
  <2>1. Answered(toD')
    BY <1>5, <1>8 DEF Answered
  <2> QED BY <1>1, <1>2, <1>3, <1>4, <2>1 DEF Talk, LoadTalk
<1>16. SameLoad'
  <2>1. Speaks(toD', d.load)
    BY <1>5, <1>8 DEF Speaks
  <2> QED BY <1>1, <1>2, <1>4, <2>1 DEF SameLoad
<1>17. Bounded'
  BY <1>1, <1>2, <1>3, <1>12 DEF Bounded
<1>18. Ledger'
  <2>1. ~d.info.clamped
    BY <1>3 DEF IInv, Ledger, Loading
  <2> QED BY <1>1, <1>2, <1>3, <1>12, <2>1 DEF Ledger
<1> QED BY <1>13, <1>14, <1>15, <1>16, <1>17, <1>18 DEF IInv

-----------------------------------------------------------------------------
(* The driver's handlers.                                                  *)

(* What is left in the queue after the driver has taken a message of type  *)
(* t, and how it stands to the count of pending requests.                  *)
Afterwards(t) ==
  /\ toD' \in Seq(Message) /\ Speaks(toD', d.load)
  /\ d.state \notin {"INITIAL", "THINKING"}
  /\ d.state = "RESET_RENDERER" =>
       IF t = "ResetResp" THEN toR = << >> /\ phase = "idle" /\ toD' = << >>
       ELSE /\ t # "LoadPageResp"
            /\ \/ Len(toR) = 1 /\ toR[1].type = "Reset" /\ NoReply(toD')
               \/ toR = << >> /\ phase = "idle" /\ EndsInReset(toD')
  /\ d.state = "LOADING_PAGE" =>
       /\ toR = << >> /\ phase # "idle"
       /\ IF d.timeout THEN t \notin Replies /\ NoReply(toD')
          ELSE IF t = "LoadPageResp" THEN NoReply(toD')
          ELSE t = "RequestWillBeSent" /\ Answered(toD')
  /\ d.state = "WAIT_FOR_MORE_REQUESTS" =>
       t \notin Replies /\ toR = << >> /\ phase # "idle" /\ NoReply(toD')

Up(t) == IF t = "RequestWillBeSent" THEN 1 ELSE 0
Down(t) == IF t = "RequestFinished" THEN 1 ELSE 0

LedgerAfterwards(t) ==
  /\ Sent(toD', Len(toD')) \in Nat
  /\ d.info.pending + Up(t) + Sent(toD', Len(toD')) <= reqs
  /\ Loading /\ phase # "failed" =>
       /\ d.info.pending + Up(t) - Down(t) >= 0 /\ ~d.info.clamped
       /\ Covered(toD', d.info.pending + Up(t) - Down(t))
       /\ Balanced(toD', d.info.pending + Up(t) - Down(t), open)

(* A message is received.                                                  *)
LEMMA Received ==
  ASSUME IInv, NEW t, Receives(t)
  PROVE  /\ Afterwards(t)
         /\ t # "ResetResp" => Head(toD).load = d.load
         /\ UNCHANGED << conf, ready, rload, phase, open, reqs >>
         /\ Running
<1>1. toD # << >> /\ toD \in Seq(Message) /\ toD' = Tail(toD) /\ Head(toD).type = t
  BY DEF Receives, IInv, Types
<1>2. UNCHANGED << conf, ready, rload, phase, open, reqs >> /\ Running
  BY DEF Receives, renderer
<1>3. /\ Head(toD) = toD[1] /\ toD' \in Seq(Message)
      /\ NoReply(toD) => toD[1].type \notin Replies /\ NoReply(toD')
      /\ EndsInReset(toD) =>
           IF toD[1].type = "ResetResp" THEN toD' = << >>
           ELSE toD[1].type # "LoadPageResp" /\ EndsInReset(toD')
      /\ Answered(toD) =>
           IF toD[1].type = "LoadPageResp" THEN NoReply(toD')
           ELSE toD[1].type = "RequestWillBeSent" /\ Answered(toD')
      /\ Speaks(toD, d.load) =>
           (toD[1].type # "ResetResp" => toD[1].load = d.load) /\ Speaks(toD', d.load)
  BY <1>1, TakenOut
<1>4. toD[1].type = t
  BY <1>1, <1>3
<1>5. Speaks(toD, d.load)
  BY DEF IInv, SameLoad
<1>6. Afterwards(t)
  BY <1>1, <1>3, <1>4, <1>5
     DEF Afterwards, IInv, Talk, Silent, ResetTalk, LoadTalk, WaitTalk, Replies
<1> QED BY <1>2, <1>3, <1>4, <1>5, <1>6

(* A message that is received leaves the count coverable.                  *)
LEMMA ReceivedLedger ==
  ASSUME IInv, NEW t, Receives(t)
  PROVE  LedgerAfterwards(t)
<1>1. toD # << >> /\ toD \in Seq(Message) /\ toD' = Tail(toD) /\ Head(toD).type = t
  BY DEF Receives, IInv, Types
<1>2. toD[1].type = t
  BY <1>1
<1>3. Bit(toD[1], "RequestWillBeSent") = Up(t) /\ Bit(toD[1], "RequestFinished") = Down(t)
  BY <1>2 DEF Bit, Up, Down
<1>4. /\ Sent(Tail(toD), Len(Tail(toD)))
           = Sent(toD, Len(toD)) - Bit(toD[1], "RequestWillBeSent")
      /\ Sent(toD, Len(toD)) \in Nat
  BY <1>1, SentChanges, Zenon
<1>5. \A q \in Seq(Message) : Sent(q, Len(q)) \in Nat
  BY SentChanges, Zenon
<1>6. Tail(toD) \in Seq(Message)
  BY <1>1
<1>7. Sent(toD', Len(toD')) \in Nat
      /\ Sent(toD', Len(toD')) = Sent(toD, Len(toD)) - Up(t)
  BY <1>1, <1>3, <1>4, <1>5, <1>6
<1>8. d.info.pending \in Nat /\ open \in Nat /\ reqs \in Nat
  BY Counts DEF IInv
<1>9. d.info.pending + Up(t) + Sent(toD', Len(toD')) <= reqs
  <2>1. d.info.pending + Sent(toD, Len(toD)) <= reqs
    BY DEF IInv, Bounded
  <2>2. Up(t) \in Nat
    BY DEF Up
  <2> QED BY <1>4, <1>7, <1>8, <2>1, <2>2
<1>10. ASSUME Loading, phase # "failed"
       PROVE  /\ d.info.pending + Up(t) - Down(t) >= 0 /\ ~d.info.clamped
              /\ Covered(toD', d.info.pending + Up(t) - Down(t))
              /\ Balanced(toD', d.info.pending + Up(t) - Down(t), open)
  <2>1. /\ Covered(toD, d.info.pending) /\ Balanced(toD, d.info.pending, open)
        /\ ~d.info.clamped
    BY <1>10 DEF IInv, Ledger
  <2>2. LET n2 == d.info.pending + Bit(toD[1], "RequestWillBeSent")
                    - Bit(toD[1], "RequestFinished")
        IN  n2 >= 0 /\ Covered(Tail(toD), n2) /\ Balanced(Tail(toD), n2, open)
    BY <1>1, <1>8, <2>1, LedgerTail, Zenon
  <2> QED BY <1>1, <1>3, <2>1, <2>2
<1> QED BY <1>7, <1>9, <1>10 DEF LedgerAfterwards

(* The driver has not looked at its channels too early.                    *)
LEMMA ProxyThere == IInv /\ d.state # "INITIAL" => ~ProxyMissing
BY DEF IInv, Channels, ProxyMissing

(* A load ends.                                                            *)
LEMMA EndLoadInv ==
  ASSUME IInv, Loading, toR = << >>, phase # "idle",
         toD' \in Seq(Message), NoReply(toD'), Speaks(toD', d.load),
         Sent(toD', Len(toD')) \in Nat, Sent(toD', Len(toD')) <= reqs,
         UNCHANGED << conf, ready, rload, phase, open, reqs >>,
         NEW v \in Driver, NEW how \in {"exit", "untested"}, EndLoad(v, how),
         v.load = d.load, v.reports = d.reports, ~v.wait, ~v.timeout, ~v.think
  PROVE  IInv'
<1> DEFINE c == [type |-> "Reset", load |-> 0]
<1>1. d' = [v EXCEPT !.reports = @ + 1, !.info = NewInfo, !.state = "RESET_RENDERER"]
  BY DEF EndLoad
<1>2. toR' = Append(<< >>, c) /\ over' \in {"no", "exit", "untested"}
  BY DEF EndLoad
<1>3. c \in Call /\ c.type = "Reset"
  BY DEF Call
<1>4. toR' \in Seq(Call) /\ Len(toR') = 1 /\ toR'[1].type = "Reset"
  <2> HIDE DEF c
  <2>1. Append(<< >>, c) \in Seq(Call) /\ Len(Append(<< >>, c)) = 1 /\ Append(<< >>, c)[1] = c
    BY <1>3, OneCall, Zenon
  <2> QED BY <1>2, <1>3, <2>1
<1>5. NewInfo \in Info
  BY Bounds DEF NewInfo, Info
<1>6. /\ d' \in Driver /\ d'.state = "RESET_RENDERER" /\ d'.info = NewInfo
      /\ d'.load = d.load /\ d'.reports = d.reports + 1
      /\ ~d'.wait /\ ~d'.timeout /\ ~d'.think
  <2>1. v.reports + 1 \in Nat
    BY Fields
  <2> HIDE DEF c
  <2>2. d' \in Driver
    BY <1>1, <1>5, <2>1 DEF Driver
  <2>3. /\ d'.state = "RESET_RENDERER" /\ d'.info = NewInfo
        /\ d'.load = v.load /\ d'.reports = v.reports + 1
        /\ d'.wait = v.wait /\ d'.timeout = v.timeout /\ d'.think = v.think
    BY <1>1 DEF Driver
  <2> QED BY <2>2, <2>3
<1>7. NewInfo.pending = 0 /\ ~NewInfo.dom
  BY DEF NewInfo
<1>8. Types'
  BY <1>2, <1>4, <1>6 DEF IInv, Types
<1>9. Notes' /\ WaitsWhenQuiet'
  BY <1>6, <1>7 DEF Notes, WaitsWhenQuiet
<1>10. OneReportPerLoad'
  <2>1. d.load \in Nat /\ d.reports \in Nat /\ d.reports = d.load - 1
    BY Counts DEF IInv, OneReportPerLoad
  <2>2. d'.reports = d'.load - 0
    BY <1>6, <2>1
  <2> QED BY <1>6, <2>2 DEF OneReportPerLoad, Loading
<1>11. Channels'
  BY <1>6 DEF IInv, Channels, UseProxy, Loading
<1>12. Talk'
  BY <1>4, <1>6 DEF Talk, ResetTalk
<1>13. SameLoad'
  BY <1>6 DEF IInv, SameLoad
<1>14. Bounded'
  BY <1>6, <1>7 DEF Bounded
<1>15. Ledger'
  BY <1>6 DEF Ledger, Loading
<1> QED BY <1>8, <1>9, <1>10, <1>11, <1>12, <1>13, <1>14, <1>15 DEF IInv

(* A page is loaded, and no longer is.                                     *)
LEMMA LoadPageInv ==
  ASSUME IInv, d.state \in {"RESET_RENDERER", "THINKING"}, d.load < MaxLoads,
         toR = << >>, phase = "idle", toD' = << >>,
         UNCHANGED << conf, ready, rload, phase, open, reqs >>,
         NEW v \in Driver, LoadPage(v), v.state \in {"THINKING", "DONE_RESET_RENDERER"},
         v.load = d.load, v.reports = d.reports, ~v.timeout, ~v.think
  PROVE  IInv'
<1> DEFINE c == [type |-> "LoadPage", load |-> v.load + 1]
           i == [NewInfo EXCEPT !.status = "PENDING"]
<1>1. ~ProxyMissing
  BY ProxyThere
<1>2. /\ d' = [v EXCEPT !.state = "LOADING_PAGE", !.load = @ + 1, !.wait = FALSE,
                        !.info = i, !.stops = 0]
      /\ toR' = Append(<< >>, c) /\ over' = over
  BY <1>1 DEF LoadPage
<1>3. d.load \in Nat /\ d.reports \in Nat
  BY Counts DEF IInv
<1>4. c \in Call /\ c.type = "LoadPage" /\ c.load = d.load + 1
  BY <1>3 DEF Call
<1>5. /\ toR' \in Seq(Call) /\ Len(toR') = 1 /\ toR'[1].type = "LoadPage"
      /\ toR'[1].load = d.load + 1
  <2> HIDE DEF c
  <2>1. Append(<< >>, c) \in Seq(Call) /\ Len(Append(<< >>, c)) = 1 /\ Append(<< >>, c)[1] = c
    BY <1>4, OneCall, Zenon
  <2> QED BY <1>2, <1>4, <2>1
<1>6. i \in Info /\ i.status = "PENDING" /\ i.pending = 0 /\ ~i.dom /\ ~i.clamped
  <2>1. NewInfo \in Info /\ NewInfo.pending = 0 /\ ~NewInfo.dom /\ ~NewInfo.clamped
    BY Bounds DEF NewInfo, Info
  <2>2. i \in Info
    BY <2>1 DEF Info
  <2>3. /\ i.status = "PENDING" /\ i.pending = NewInfo.pending
        /\ i.dom = NewInfo.dom /\ i.clamped = NewInfo.clamped
    BY <2>1 DEF Info
  <2> QED BY <2>1, <2>2, <2>3
<1> HIDE DEF i, c
<1>7. v.load + 1 \in 0..MaxLoads
  BY <1>3, Bounds
<1>8. /\ d' \in Driver /\ d'.state = "LOADING_PAGE" /\ d'.info = i
      /\ d'.load = d.load + 1 /\ d'.reports = d.reports
      /\ ~d'.wait /\ ~d'.timeout /\ ~d'.think
  BY <1>2, <1>6, <1>7 DEF Driver
<1>9. Types'
  <2>1. toD' \in Seq(Message)
    BY EmptyQueue
  <2> QED BY <1>2, <1>5, <1>8, <2>1 DEF IInv, Types
<1>10. Notes' /\ WaitsWhenQuiet'
  BY <1>6, <1>8 DEF Notes, WaitsWhenQuiet, Loading
<1>11. OneReportPerLoad'
  <2>1. d.reports = d.load
    BY <1>3 DEF IInv, OneReportPerLoad, Loading
  <2>2. d'.reports = d'.load - 1
    BY <1>3, <1>8, <2>1
  <2> QED BY <1>8, <2>2 DEF OneReportPerLoad, Loading
<1>12. Channels'
  BY <1>8 DEF IInv, Channels, UseProxy
<1>13. Talk'
  BY <1>5, <1>6, <1>8 DEF Talk, LoadTalk
<1>14. SameLoad' /\ open = 0
  BY EmptyQueue DEF IInv, SameLoad
<1>15. Bounded'
  <2>1. Sent(toD', Len(toD')) = 0
    BY EmptyQueue
  <2>2. d'.info.pending + Sent(toD', Len(toD')) = 0 /\ reqs' \in Nat
    BY <1>6, <1>8, <2>1, Counts DEF IInv
  <2> QED BY <2>2 DEF Bounded
<1>16. Ledger'
  <2>1. Covered(toD', 0) /\ Balanced(toD', 0, 0)
    BY EmptyQueue
  <2> QED BY <1>6, <1>8, <1>14, <2>1 DEF Ledger
<1> QED BY <1>9, <1>10, <1>11, <1>12, <1>13, <1>14, <1>15, <1>16 DEF IInv

(* A handler of a message that is no reply changes neither the driver's    *)
(* state nor its calls.                                                    *)
LEMMA TalkGoesOn ==
  ASSUME IInv, NEW t, Afterwards(t), t \notin Replies,
         UNCHANGED << toR, phase >>, d'.state = d.state, d'.timeout = d.timeout,
         d'.load = d.load
  PROVE  Talk'
<1>1. d.state \in {"RESET_RENDERER", "LOADING_PAGE", "WAIT_FOR_MORE_REQUESTS"}
  BY States DEF Afterwards
<1>2. CASE d.state = "RESET_RENDERER"
  BY <1>2 DEF Afterwards, Talk, ResetTalk, Replies
<1>3. CASE d.state = "LOADING_PAGE"
  BY <1>3 DEF Afterwards, Talk, LoadTalk, Replies
<1>4. CASE d.state = "WAIT_FOR_MORE_REQUESTS"
  BY <1>4 DEF Afterwards, Talk, WaitTalk, Replies
<1> QED BY <1>1, <1>2, <1>3, <1>4

(* The renderer still speaks of the same load.                             *)
LEMMA SameLoadGoesOn ==
  ASSUME IInv, NEW t, Afterwards(t), UNCHANGED << phase, open, rload >>, d'.load = d.load
  PROVE  SameLoad'
BY DEF IInv, Afterwards, SameLoad

(* The channels are as they were.                                          *)
LEMMA ChannelsGoOn ==
  ASSUME IInv, UNCHANGED << conf, ready >>, d.state # "INITIAL", d'.state # "INITIAL"
  PROVE  Channels'
BY DEF IInv, Channels, UseProxy

(* A request is announced, of this load or of one that is over.            *)
LEMMA RequestWillBeSentInv == IInv /\ RequestWillBeSent => IInv'
<1> SUFFICES ASSUME IInv, RequestWillBeSent PROVE IInv'
  OBVIOUS
<1> DEFINE t == "RequestWillBeSent"
<1>1. Afterwards(t) /\ LedgerAfterwards(t)
      /\ UNCHANGED << conf, ready, rload, phase, open, reqs >>
  BY Received, ReceivedLedger DEF RequestWillBeSent
<1>2. d' = [d EXCEPT !.info.pending = @ + 1, !.wait = FALSE] /\ UNCHANGED << toR, over >>
  BY DEF RequestWillBeSent
<1>3. t \notin Replies /\ Up(t) = 1 /\ Down(t) = 0
  BY DEF Replies, Up, Down
<1> HIDE DEF t
<1>4. d \in Driver /\ d.info \in Info /\ d.info.pending \in Nat /\ reqs \in Nat
      /\ reqs <= MaxReqs /\ d.wait \in BOOLEAN
  BY Fields, Counts DEF IInv, Types
<1>5. d.info.pending + 1 \in 0..MaxReqs
      /\ d.info.pending + 1 + Sent(toD', Len(toD')) <= reqs
  BY <1>1, <1>3, <1>4, Bounds DEF LedgerAfterwards
<1>6. d' = [d EXCEPT !.info = [d.info EXCEPT !.pending = @ + 1], !.wait = FALSE]
  BY <1>2
<1> DEFINE i == [d.info EXCEPT !.pending = @ + 1]
<1>7. /\ i \in Info /\ i.pending = d.info.pending + 1 /\ i.dom = d.info.dom
      /\ i.clamped = d.info.clamped /\ i.status = d.info.status
  BY <1>4, <1>5 DEF Info
<1> HIDE DEF i
<1>8. /\ d' \in Driver /\ d'.info = i /\ ~d'.wait /\ d'.state = d.state /\ d'.load = d.load
      /\ d'.timeout = d.timeout /\ d'.think = d.think /\ d'.reports = d.reports
  BY <1>4, <1>6, <1>7 DEF Driver, i
<1>9. Types'
  BY <1>1, <1>2, <1>8 DEF IInv, Types, Afterwards
<1>10. Notes' /\ OneReportPerLoad' /\ WaitsWhenQuiet'
  BY <1>7, <1>8 DEF IInv, Notes, OneReportPerLoad, WaitsWhenQuiet, Loading
<1>11. Talk' /\ SameLoad' /\ Channels'
  BY <1>1, <1>2, <1>3, <1>8, TalkGoesOn, SameLoadGoesOn, ChannelsGoOn DEF Afterwards
<1>12. Bounded'
  BY <1>1, <1>5, <1>7, <1>8 DEF Bounded
<1>13. Ledger'
  <2>1. d.info.pending + Up(t) - Down(t) = i.pending
    BY <1>3, <1>4, <1>7
  <2> QED BY <1>1, <1>7, <1>8, <2>1 DEF LedgerAfterwards, Ledger, Loading
<1> QED BY <1>9, <1>10, <1>11, <1>12, <1>13 DEF IInv

(* A request ends: while the page loads one is pending.                    *)
LEMMA RequestFinishedInv == IInv /\ RequestFinished => IInv'
<1> SUFFICES ASSUME IInv, RequestFinished PROVE IInv'
  OBVIOUS
<1> DEFINE t == "RequestFinished"
           n == IF d.info.pending > 0 THEN d.info.pending - 1 ELSE 0
           c == d.info.clamped \/ d.info.pending = 0
           w == d.wait \/ (d.info.dom /\ n = 0)
           i == [d.info EXCEPT !.pending = n, !.clamped = c]
<1>1. Afterwards(t) /\ LedgerAfterwards(t)
      /\ UNCHANGED << conf, ready, rload, phase, open, reqs >>
  BY Received, ReceivedLedger DEF RequestFinished
<1>2. d' = [d EXCEPT !.info.pending = n, !.info.clamped = c, !.wait = w]
      /\ UNCHANGED << toR, over >>
  BY DEF RequestFinished
<1>3. t \notin Replies /\ Up(t) = 0 /\ Down(t) = 1
  BY DEF Replies, Up, Down
<1> HIDE DEF t
<1>4. d \in Driver /\ d.info \in Info /\ d.info.pending \in Nat /\ reqs \in Nat
      /\ d.info.pending <= MaxReqs /\ d.wait \in BOOLEAN /\ d.info.dom \in BOOLEAN
      /\ d.info.clamped \in BOOLEAN
  BY Fields, Counts DEF IInv, Types
<1>5. n \in 0..MaxReqs /\ n <= d.info.pending /\ c \in BOOLEAN /\ w \in BOOLEAN
  BY <1>4, Bounds
<1>6. d' = [d EXCEPT !.info = i, !.wait = w]
  BY <1>2
<1> HIDE DEF n, c, w
<1>7. /\ i \in Info /\ i.pending = n /\ i.dom = d.info.dom
      /\ i.clamped = c /\ i.status = d.info.status
  BY <1>4, <1>5 DEF Info
<1> HIDE DEF i
<1>8. /\ d' \in Driver /\ d'.info = i /\ d'.wait = w /\ d'.state = d.state
      /\ d'.load = d.load
      /\ d'.timeout = d.timeout /\ d'.think = d.think /\ d'.reports = d.reports
  BY <1>4, <1>5, <1>6, <1>7 DEF Driver
<1>9. Types'
  BY <1>1, <1>2, <1>8 DEF IInv, Types, Afterwards
<1>10. Notes' /\ OneReportPerLoad'
  BY <1>7, <1>8 DEF IInv, Notes, OneReportPerLoad, Loading
<1>11. WaitsWhenQuiet'
  <2>1. w => d.state = "WAIT_FOR_MORE_REQUESTS" /\ n = 0 /\ d.info.dom
    BY DEF IInv, Notes, WaitsWhenQuiet, w, n
  <2> QED BY <1>7, <1>8, <2>1 DEF WaitsWhenQuiet
<1>12. Talk' /\ SameLoad' /\ Channels'
  BY <1>1, <1>2, <1>3, <1>8, TalkGoesOn, SameLoadGoesOn, ChannelsGoOn DEF Afterwards
<1>13. Bounded'
  <2>1. n + Sent(toD', Len(toD')) <= reqs
    BY <1>1, <1>3, <1>4, <1>5 DEF LedgerAfterwards
  <2> QED BY <1>1, <1>7, <1>8, <2>1 DEF Bounded
<1>14. Ledger'
  <2> SUFFICES ASSUME Loading, phase # "failed"
               PROVE  Covered(toD', n) /\ Balanced(toD', n, open) /\ ~c
    BY <1>1, <1>7, <1>8 DEF Ledger, Loading
  <2>1. d.info.pending + 0 - 1 >= 0
    BY <1>1, <1>3 DEF LedgerAfterwards
  <2>2. d.info.pending + Up(t) - Down(t) = n /\ d.info.pending # 0
    BY <1>3, <1>4, <2>1 DEF n
  <2> QED BY <1>1, <2>2 DEF LedgerAfterwards, c
<1> QED BY <1>9, <1>10, <1>11, <1>12, <1>13, <1>14 DEF IInv

(* What a message that is neither a request nor its end leaves of the      *)
(* count.                                                                  *)
LEMMA LedgerStays ==
  ASSUME IInv, NEW t, LedgerAfterwards(t), t \notin {"RequestWillBeSent", "RequestFinished"}
  PROVE  /\ Sent(toD', Len(toD')) \in Nat
         /\ d.info.pending + Sent(toD', Len(toD')) <= reqs
         /\ Sent(toD', Len(toD')) <= reqs
         /\ Loading /\ phase # "failed" =>
              /\ ~d.info.clamped /\ Covered(toD', d.info.pending)
              /\ Balanced(toD', d.info.pending, open)
<1>1. d.info.pending \in Nat /\ reqs \in Nat
  BY Counts DEF IInv
<1>2. Up(t) = 0 /\ Down(t) = 0
  BY DEF Up, Down
<1>3. d.info.pending + Up(t) - Down(t) = d.info.pending /\ d.info.pending + Up(t) = d.info.pending
  BY <1>1, <1>2
<1> QED BY <1>1, <1>3 DEF LedgerAfterwards

(* A message the driver ignores.                                           *)
LEMMA IgnoredInv ==
  ASSUME IInv, NEW t, Receives(t), t \in {"PageLoaded", "PageLoadFailed"},
         UNCHANGED << d, toR, over >>
  PROVE  IInv'
<1>1. Afterwards(t) /\ LedgerAfterwards(t)
      /\ UNCHANGED << conf, ready, rload, phase, open, reqs >>
  BY Received, ReceivedLedger
<1>2. t \notin Replies /\ t \notin {"RequestWillBeSent", "RequestFinished"}
  BY DEF Replies
<1>3. Types'
  BY <1>1 DEF IInv, Types, Afterwards
<1>4. Notes' /\ OneReportPerLoad' /\ WaitsWhenQuiet'
  BY DEF IInv, Notes, OneReportPerLoad, WaitsWhenQuiet, Loading
<1>5. Talk' /\ SameLoad' /\ Channels'
  BY <1>1, <1>2, TalkGoesOn, SameLoadGoesOn, ChannelsGoOn DEF Afterwards
<1>6. Bounded' /\ Ledger'
  BY <1>1, <1>2, LedgerStays DEF Bounded, Ledger, Loading
<1> QED BY <1>3, <1>4, <1>5, <1>6 DEF IInv

(* The load event finds the page timer running and the wait timer not.     *)
LEMMA PageLoadedInv == IInv /\ PageLoaded => IInv'
<1> SUFFICES ASSUME IInv, PageLoaded PROVE IInv'
  OBVIOUS
<1> DEFINE t == "PageLoaded"
<1>1. Receives(t) /\ Afterwards(t) /\ LedgerAfterwards(t) /\ Head(toD).load = d.load
      /\ UNCHANGED << conf, ready, rload, phase, open, reqs >>
  BY Received, ReceivedLedger DEF PageLoaded
<1>2. t \notin Replies /\ t \notin {"RequestWillBeSent", "RequestFinished"}
      /\ t \in {"PageLoaded", "PageLoadFailed"}
  BY DEF Replies
<1>3. CASE d.state # "LOADING_PAGE"
  <2>1. UNCHANGED << d, toR, over >>
    BY <1>1, <1>3 DEF PageLoaded
  <2> QED BY <1>1, <1>2, <2>1, IgnoredInv
<1>4. CASE d.state = "LOADING_PAGE"
  <2> DEFINE w == d.wait \/ d.info.pending = 0
             i == [d.info EXCEPT !.dom = TRUE, !.status = "OK"]
             v == [d EXCEPT !.state = "WAIT_FOR_MORE_REQUESTS",
                    !.info.dom = TRUE, !.info.status = "OK", !.wait = w]
  <2>1. ~ProxyMissing /\ ~d.wait
    BY <1>4, ProxyThere DEF IInv, WaitsWhenQuiet
  <2>2. d' = CountStop(v) /\ UNCHANGED << toR, over >>
    BY <1>1, <1>4, <2>1 DEF PageLoaded
  <2>3. toR = << >> /\ phase # "idle" /\ d.timeout /\ NoReply(toD')
    BY <1>1, <1>4 DEF Afterwards
  <2>4. d \in Driver /\ d.info \in Info /\ d.info.pending \in Nat /\ w \in BOOLEAN
        /\ d.stops \in Nat
    BY Fields DEF IInv, Types
  <2>5. v = [d EXCEPT !.state = "WAIT_FOR_MORE_REQUESTS", !.info = i, !.wait = w]
    OBVIOUS
  <2> HIDE DEF v
  <2>6. /\ i \in Info /\ i.pending = d.info.pending /\ i.dom /\ i.status = "OK"
        /\ i.clamped = d.info.clamped
    BY <2>4 DEF Info
  <2> HIDE DEF w, i
  <2>7. /\ v \in Driver /\ v.state = "WAIT_FOR_MORE_REQUESTS" /\ v.info = i /\ v.wait = w
        /\ v.load = d.load /\ v.timeout = d.timeout /\ v.think = d.think
        /\ v.reports = d.reports /\ v.stops = d.stops
    BY <2>4, <2>5, <2>6 DEF Driver
  <2>8. /\ d' \in Driver /\ d'.state = v.state /\ d'.info = i /\ d'.wait = w
        /\ d'.load = d.load /\ d'.timeout = d.timeout /\ d'.think = d.think
        /\ d'.reports = d.reports
    <3>1. v.stops + 1 \in Nat
      BY <2>4, <2>7
    <3> QED BY <2>2, <2>7, <3>1 DEF CountStop, Driver
  <2>9. Types'
    BY <1>1, <2>2, <2>8 DEF IInv, Types, Afterwards
  <2>10. Notes' /\ OneReportPerLoad'
    BY <1>4, <2>3, <2>6, <2>7, <2>8 DEF IInv, Notes, OneReportPerLoad, Loading
  <2>11. WaitsWhenQuiet'
    BY <2>1, <2>6, <2>7, <2>8 DEF WaitsWhenQuiet, w
  <2>12. Talk'
    BY <1>1, <2>2, <2>3, <2>7, <2>8 DEF Talk, WaitTalk
  <2>13. SameLoad' /\ Channels'
    BY <1>1, <1>4, <2>7, <2>8, SameLoadGoesOn, ChannelsGoOn
  <2>14. Bounded' /\ Ledger'
    BY <1>1, <1>2, <1>4, <2>6, <2>7, <2>8, LedgerStays DEF Bounded, Ledger, Loading
  <2> QED BY <2>9, <2>10, <2>11, <2>12, <2>13, <2>14 DEF IInv
<1> QED BY <1>3, <1>4

(* A load that ends counts a stop and stops its timers.                    *)
LEMMA StoppedDriver ==
  ASSUME NEW v \in Driver
  PROVE  /\ CountStop(v) \in Driver
         /\ CountStop(v).load = v.load /\ CountStop(v).reports = v.reports
         /\ CountStop(v).wait = v.wait /\ CountStop(v).timeout = v.timeout
         /\ CountStop(v).think = v.think
<1>1. v.stops + 1 \in Nat
  BY Fields
<1> QED BY <1>1 DEF CountStop, Driver

(* A failure finds the call answered, and ends the load.                   *)
LEMMA PageLoadFailedInv == IInv /\ PageLoadFailed => IInv'
<1> SUFFICES ASSUME IInv, PageLoadFailed PROVE IInv'
  OBVIOUS
<1> DEFINE t == "PageLoadFailed"
<1>1. Receives(t) /\ Afterwards(t) /\ LedgerAfterwards(t) /\ Head(toD).load = d.load
      /\ UNCHANGED << conf, ready, rload, phase, open, reqs >>
  BY Received, ReceivedLedger DEF PageLoadFailed
<1>2. t \notin Replies /\ t \notin {"RequestWillBeSent", "RequestFinished"}
      /\ t \in {"PageLoaded", "PageLoadFailed"}
  BY DEF Replies
<1>3. CASE d.state # "LOADING_PAGE"
  <2>1. UNCHANGED << d, toR, over >>
    BY <1>1, <1>3 DEF PageLoadFailed
  <2> QED BY <1>1, <1>2, <2>1, IgnoredInv
<1>4. CASE d.state = "LOADING_PAGE"
  <2> DEFINE u == [d EXCEPT !.timeout = FALSE]
             v == CountStop(u)
  <2>1. ~ProxyMissing /\ d.info.status = "PENDING" /\ ~d.wait /\ ~d.think
    BY <1>4, ProxyThere DEF IInv, WaitsWhenQuiet, Notes
  <2>2. EndLoad(v, "untested")
    BY <1>1, <1>4, <2>1 DEF PageLoadFailed
  <2>3. toR = << >> /\ phase # "idle" /\ NoReply(toD') /\ toD' \in Seq(Message)
        /\ Speaks(toD', d.load)
    BY <1>1, <1>4 DEF Afterwards
  <2>4. u \in Driver /\ u.load = d.load /\ u.reports = d.reports /\ u.wait = d.wait
        /\ ~u.timeout /\ u.think = d.think
    BY DEF IInv, Types, Driver
  <2> HIDE DEF u
  <2>5. v \in Driver /\ v.load = d.load /\ v.reports = d.reports /\ ~v.wait /\ ~v.timeout
        /\ ~v.think
    BY <2>1, <2>4, StoppedDriver
  <2> HIDE DEF v
  <2>6. Sent(toD', Len(toD')) \in Nat /\ Sent(toD', Len(toD')) <= reqs
    BY <1>1, <1>2, LedgerStays
  <2> QED BY <1>1, <1>4, <2>2, <2>3, <2>5, <2>6, EndLoadInv DEF Loading
<1> QED BY <1>3, <1>4

(* The answer to a Reset is the last message of the page.                  *)
LEMMA ResetRespInv == IInv /\ ResetResp => IInv'
<1> SUFFICES ASSUME IInv, ResetResp PROVE IInv'
  OBVIOUS
<1> DEFINE t == "ResetResp"
<1>1. Afterwards(t) /\ LedgerAfterwards(t) /\ d.load < MaxLoads
      /\ UNCHANGED << conf, ready, rload, phase, open, reqs >>
  BY Received, ReceivedLedger DEF ResetResp
<1>2. d.state = "RESET_RENDERER" /\ toR = << >> /\ phase = "idle" /\ toD' = << >>
  BY <1>1, States DEF Afterwards, Replies
<1>3. ~d.timeout /\ ~d.think /\ ~d.wait /\ ~d.info.dom /\ d \in Driver
  BY <1>2 DEF IInv, Notes, WaitsWhenQuiet, Loading, Types
<1>4. CASE d.load = 0
  <2> DEFINE v == [d EXCEPT !.state = "DONE_RESET_RENDERER"]
  <2>1. LoadPage(v)
    BY <1>2, <1>4 DEF ResetResp
  <2>2. /\ v \in Driver /\ v.state = "DONE_RESET_RENDERER" /\ v.load = d.load
        /\ v.reports = d.reports /\ ~v.timeout /\ ~v.think
    BY <1>3 DEF Driver
  <2> HIDE DEF v
  <2> QED BY <1>1, <1>2, <2>1, <2>2, LoadPageInv
<1>5. CASE d.load # 0
  <2>1. d' = [d EXCEPT !.state = "THINKING", !.think = TRUE] /\ UNCHANGED << toR, toP, over >>
    BY <1>2, <1>5 DEF ResetResp
  <2>2. /\ d' \in Driver /\ d'.state = "THINKING" /\ d'.info = d.info /\ d'.wait = d.wait
        /\ d'.load = d.load /\ d'.timeout = d.timeout /\ d'.think
        /\ d'.reports = d.reports
    BY <1>3, <2>1 DEF Driver
  <2>3. Types'
    BY <1>1, <2>1, <2>2 DEF IInv, Types, Afterwards
  <2>4. Notes' /\ OneReportPerLoad' /\ WaitsWhenQuiet'
    BY <1>1, <1>2, <1>3, <2>2
       DEF IInv, Notes, OneReportPerLoad, WaitsWhenQuiet, Loading
  <2>5. Talk'
    BY <1>1, <1>2, <2>1, <2>2 DEF Talk, Silent
  <2>6. SameLoad' /\ Channels'
    BY <1>1, <1>2, <2>2, SameLoadGoesOn, ChannelsGoOn
  <2>7. Bounded' /\ Ledger'
    BY <1>1, <2>2, LedgerStays DEF Bounded, Ledger, Loading
  <2> QED BY <2>3, <2>4, <2>5, <2>6, <2>7 DEF IInv
<1> QED BY <1>4, <1>5

(* The answer to a LoadPage finds the driver loading.                      *)
LEMMA LoadPageRespInv == IInv /\ LoadPageResp => IInv'
<1> SUFFICES ASSUME IInv, LoadPageResp PROVE IInv'
  OBVIOUS
<1> DEFINE t == "LoadPageResp"
<1>1. Afterwards(t) /\ LedgerAfterwards(t)
      /\ UNCHANGED << conf, ready, rload, phase, open, reqs >>
  BY Received, ReceivedLedger DEF LoadPageResp
<1>2. d.state = "LOADING_PAGE" /\ ~d.timeout /\ toR = << >> /\ phase # "idle"
      /\ NoReply(toD')
  BY <1>1, States DEF Afterwards, Replies
<1>3. d' = [d EXCEPT !.timeout = TRUE] /\ UNCHANGED << toR, over >>
  BY <1>2 DEF LoadPageResp
<1>4. d \in Driver
  BY DEF IInv, Types
<1>5. /\ d' \in Driver /\ d'.state = d.state /\ d'.info = d.info /\ d'.wait = d.wait
      /\ d'.load = d.load /\ d'.timeout /\ d'.think = d.think /\ d'.reports = d.reports
  BY <1>3, <1>4 DEF Driver
<1>6. Types'
  BY <1>1, <1>3, <1>5 DEF IInv, Types, Afterwards
<1>7. Notes' /\ OneReportPerLoad' /\ WaitsWhenQuiet'
  BY <1>2, <1>5 DEF IInv, Notes, OneReportPerLoad, WaitsWhenQuiet, Loading
<1>8. Talk'
  BY <1>1, <1>2, <1>3, <1>5 DEF Talk, LoadTalk
<1>9. SameLoad' /\ Channels'
  BY <1>1, <1>2, <1>5, SameLoadGoesOn, ChannelsGoOn
<1>10. Bounded' /\ Ledger'
  BY <1>1, <1>5, LedgerStays DEF Bounded, Ledger, Loading
<1> QED BY <1>6, <1>7, <1>8, <1>9, <1>10 DEF IInv

-----------------------------------------------------------------------------
(* The driver's timers.                                                    *)

(* Nothing of the page is read while a timer is handled.                   *)
LEMMA SentNow ==
  IInv => Sent(toD, Len(toD)) \in Nat /\ Sent(toD, Len(toD)) <= reqs
<1> SUFFICES ASSUME IInv PROVE Sent(toD, Len(toD)) \in Nat /\ Sent(toD, Len(toD)) <= reqs
  OBVIOUS
<1>1. toD \in Seq(Message) /\ d.info.pending \in Nat /\ reqs \in Nat
  BY Counts DEF IInv, Types
<1>2. Sent(toD, Len(toD)) \in Nat
  BY <1>1, SentChanges, Zenon
<1> QED BY <1>1, <1>2 DEF IInv, Bounded

(* The wait is over: the page was loaded.                                  *)
LEMMA WaitFiresInv == IInv /\ WaitFires => IInv'
<1> SUFFICES ASSUME IInv, WaitFires PROVE IInv'
  OBVIOUS
<1> DEFINE v == [d EXCEPT !.wait = FALSE, !.timeout = FALSE]
<1>1. d.state = "WAIT_FOR_MORE_REQUESTS" /\ d.info.status = "OK" /\ ~d.think
  BY DEF WaitFires, IInv, WaitsWhenQuiet, Notes
<1>2. EndLoad(v, "exit") /\ UNCHANGED << ready, toD, renderer >>
  BY <1>1 DEF WaitFires
<1>3. v \in Driver /\ v.load = d.load /\ v.reports = d.reports /\ ~v.wait /\ ~v.timeout
      /\ ~v.think
  BY <1>1 DEF IInv, Types, Driver
<1> HIDE DEF v
<1>4. toR = << >> /\ phase # "idle" /\ NoReply(toD) /\ toD \in Seq(Message)
      /\ Speaks(toD, d.load)
  BY <1>1 DEF IInv, Talk, WaitTalk, SameLoad, Types
<1>5. UNCHANGED << conf, ready, rload, phase, open, reqs >> /\ toD' = toD
  BY <1>2 DEF renderer
<1> QED BY <1>1, <1>2, <1>3, <1>4, <1>5, SentNow, EndLoadInv DEF Loading

(* The page timer ends a load that has not ended.                          *)
LEMMA PageTimeoutInv == IInv /\ PageTimeout => IInv'
<1> SUFFICES ASSUME IInv, PageTimeout PROVE IInv'
  OBVIOUS
<1> DEFINE u == [d EXCEPT !.timeout = FALSE, !.wait = FALSE]
           v == CountStop(u)
<1>1. d.timeout /\ Loading /\ ~d.think
  BY DEF PageTimeout, IInv, Notes, Loading
<1>2. ~(\/ ~d.info.dom /\ (d.state # "LOADING_PAGE" \/ d.info.status # "PENDING")
        \/ ProxyMissing)
  BY <1>1, ProxyThere DEF IInv, Notes, Loading
<1>3. EndLoad(v, "untested") /\ UNCHANGED << ready, toD, renderer >>
  BY <1>2 DEF PageTimeout
<1>4. u \in Driver /\ u.load = d.load /\ u.reports = d.reports /\ ~u.wait /\ ~u.timeout
      /\ u.think = d.think
  BY DEF IInv, Types, Driver
<1> HIDE DEF u
<1>5. v \in Driver /\ v.load = d.load /\ v.reports = d.reports /\ ~v.wait /\ ~v.timeout
      /\ ~v.think
  BY <1>1, <1>4, StoppedDriver
<1> HIDE DEF v
<1>6. toR = << >> /\ phase # "idle" /\ NoReply(toD) /\ toD \in Seq(Message)
      /\ Speaks(toD, d.load)
  BY <1>1 DEF IInv, Talk, LoadTalk, WaitTalk, SameLoad, Types, Loading
<1>7. UNCHANGED << conf, ready, rload, phase, open, reqs >> /\ toD' = toD
  BY <1>3 DEF renderer
<1> QED BY <1>1, <1>3, <1>5, <1>6, <1>7, SentNow, EndLoadInv

(* The next page is loaded when nothing of the last is under way.          *)
LEMMA ThinkFiresInv == IInv /\ ThinkFires => IInv'
<1> SUFFICES ASSUME IInv, ThinkFires PROVE IInv'
  OBVIOUS
<1> DEFINE v == [d EXCEPT !.think = FALSE]
<1>1. d.state = "THINKING" /\ d.load < MaxLoads /\ ~d.timeout
  BY DEF ThinkFires, IInv, Notes, Loading
<1>2. LoadPage(v) /\ UNCHANGED << conf, ready, toD, phase, open, rload, reqs >>
  BY DEF ThinkFires
<1>3. v \in Driver /\ v.load = d.load /\ v.reports = d.reports /\ ~v.timeout /\ ~v.think
      /\ v.state = "THINKING"
  BY <1>1 DEF IInv, Types, Driver
<1> HIDE DEF v
<1>4. toR = << >> /\ toD = << >> /\ phase = "idle"
  BY <1>1 DEF IInv, Talk, Silent
<1> QED BY <1>1, <1>2, <1>3, <1>4, LoadPageInv

-----------------------------------------------------------------------------
(* The theorem.                                                            *)

(* A step that changes nothing.                                            *)
LEMMA StutterInv == IInv /\ UNCHANGED vars => IInv'
<1> SUFFICES ASSUME IInv, UNCHANGED vars PROVE IInv'
  OBVIOUS
<1>1. UNCHANGED << conf, d, ready, toR, toD, rload, reqs, phase, open, over >>
  BY DEF vars
<1>2. Types' /\ Notes' /\ OneReportPerLoad' /\ WaitsWhenQuiet' /\ Channels'
  BY <1>1 DEF IInv, Types, Notes, OneReportPerLoad, WaitsWhenQuiet, Loading, Channels,
              UseProxy
<1>3. Talk' /\ SameLoad'
  BY <1>1 DEF IInv, Talk, Silent, ResetTalk, LoadTalk, WaitTalk, SameLoad
<1>4. Bounded' /\ Ledger'
  BY <1>1 DEF IInv, Bounded, Ledger, Loading
<1> QED BY <1>2, <1>3, <1>4 DEF IInv

(* The proxy, if there is one, is connected before the renderer.           *)
ProxyFirst == \A c \in Confs : c.proxy => c.first

(* Every step preserves the invariant.                                     *)
LEMMA NextInv ==
  ASSUME ProxyFirst, IInv, [Next]_vars
  PROVE  IInv'
<1>1. CASE ProxyReady
  BY <1>1, ProxyReadyInv
<1>2. CASE RendererReady
  BY <1>2, RendererReadyInv DEF ProxyFirst
<1>3. CASE HandleLoadPage
  BY <1>3, HandleLoadPageInv
<1>4. CASE HandleReset
  BY <1>4, HandleResetInv
<1>5. CASE SendsRequest \/ EndsRequest \/ PageLoads \/ PageFails
  BY <1>5, RendererSaysInv
<1>6. CASE ProxyHandles
  BY <1>6, ProxyHandlesInv
<1>7. CASE RequestWillBeSent
  BY <1>7, RequestWillBeSentInv
<1>8. CASE RequestFinished
  BY <1>8, RequestFinishedInv
<1>9. CASE PageLoaded
  BY <1>9, PageLoadedInv
<1>10. CASE PageLoadFailed
  BY <1>10, PageLoadFailedInv
<1>11. CASE ResetResp
  BY <1>11, ResetRespInv
<1>12. CASE LoadPageResp
  BY <1>12, LoadPageRespInv
<1>13. CASE WaitFires
  BY <1>13, WaitFiresInv
<1>14. CASE PageTimeout
  BY <1>14, PageTimeoutInv
<1>15. CASE ThinkFires
  BY <1>15, ThinkFiresInv
<1>16. CASE CallTimesOut
  BY <1>16, CallTimesOutInv
<1>17. CASE UNCHANGED vars
  BY <1>17, StutterInv
<1> QED
  BY <1>1, <1>2, <1>3, <1>4, <1>5, <1>6, <1>7, <1>8, <1>9, <1>10, <1>11, <1>12, <1>13,
     <1>14, <1>15, <1>16, <1>17 DEF Next

(* While a page loads, what is on its way is about it, and the driver's    *)
(* count is the renderer's but for that.                                   *)
LEMMA PendingIsExact == IInv => PendingExact
<1> SUFFICES ASSUME IInv, Running, Loading, phase # "failed"
             PROVE  /\ \A i \in DOMAIN toD : toD[i].load = d.load
                    /\ d.info.pending + InFlight("RequestWillBeSent")
                         = open + InFlight("RequestFinished")
                    /\ ~d.info.clamped
  BY DEF PendingExact
<1>1. toD \in Seq(Message) /\ DOMAIN toD = 1..Len(toD)
  <2>1. toD \in Seq(Message)
    BY DEF IInv, Types
  <2> QED BY <2>1
<1>2. Balanced(toD, d.info.pending, open) /\ ~d.info.clamped
  BY DEF IInv, Ledger
<1>3. \A i \in 1..Len(toD) : toD[i].type # "ResetResp"
  <2>1. toD = << >> \/ NoReply(toD) \/ Answered(toD)
    BY DEF IInv, Talk, LoadTalk, WaitTalk, Loading
  <2>2. toD = << >> => Len(toD) = 0
    OBVIOUS
  <2>3. ASSUME NEW i \in 1..Len(toD), NoReply(toD)
        PROVE  toD[i].type # "ResetResp"
    BY <2>3 DEF NoReply, Replies
  <2>4. ASSUME NEW i \in 1..Len(toD), Answered(toD)
        PROVE  toD[i].type # "ResetResp"
    BY <1>1, <2>4 DEF Answered, Replies
  <2> QED BY <2>1, <2>2, <2>3, <2>4
<1>4. \A i \in 1..Len(toD) : toD[i].load = d.load
  BY <1>3 DEF IInv, SameLoad, Speaks
<1>5. /\ InFlight("RequestWillBeSent") = Sent(toD, Len(toD))
      /\ InFlight("RequestFinished") = Ended(toD, Len(toD))
  BY <1>1 DEF InFlight, Sent, Ended, Count, Places
<1> QED BY <1>1, <1>2, <1>4, <1>5 DEF Balanced

(* The invariant is what was to be shown, and more.                        *)
LEMMA InvImpliesSafe == IInv => DriverIsSafe
<1> SUFFICES ASSUME IInv PROVE DriverIsSafe
  OBVIOUS
<1>1. TypeOK
  <2>1. d \in Driver
    BY DEF IInv, Types
  <2>2. d.state \in {"INITIAL", "RESET_RENDERER", "DONE_RESET_RENDERER", "THINKING",
                    "LOADING_PAGE", "WAIT_FOR_MORE_REQUESTS"}
    BY <2>1, Fields
  <2>3. d.load \in 0..MaxLoads /\ d.info.pending \in 0..MaxReqs
    BY <2>1, Fields, Bounds
  <2> QED BY <2>2, <2>3 DEF IInv, Types, TypeOK
<1>2. ChecksHold
  BY DEF IInv, Types, ChecksHold
<1> QED BY <1>1, <1>2, PendingIsExact DEF IInv, DriverIsSafe

(* However the page behaves and whichever of the driver's timers races     *)
(* which message: no check of the driver fails, its count of pending       *)
(* requests is never wrong while the page loads, and every load is         *)
(* reported once.                                                          *)
THEOREM DriverStaysSafe ==
  ASSUME ProxyFirst
  PROVE  Spec => []DriverIsSafe
<1>1. IInv /\ [Next]_vars => IInv'
  BY NextInv
<1> QED BY <1>1, InitInv, InvImpliesSafe, PTL DEF Spec
===============================================================================
