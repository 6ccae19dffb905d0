------------------------------- MODULE HttpProofs -------------------------------
(***************************************************************************)
(* HTTP, proved.  The manager of the connections (HttpSession), for any    *)
(* requests, servers, connections and limit: the types; that no request    *)
(* waits for a server without a busy connection to it; that each is in one *)
(* place and no server has more connections than the limit; and that what  *)
(* the renderer is told of each follows RequestLife.                       *)
(*                                                                         *)
(* One connection and its server (HttpExchange), for any sizes of requests *)
(* and responses and any cut of the stream: no CHECK fails and the two     *)
(* never lose their place in the stream.                                   *)
(***************************************************************************)
EXTENDS HttpSession, HttpExchange, FiniteSetTheorems, SequenceTheorems,
        NaturalsInduction, WellFoundedInduction, TLAPS

-----------------------------------------------------------------------------
(* THE CONNECTION MANAGER                                                  *)
(* A connection is in the list of one server, exactly while it exists.     *)
OneOwner ==
  \A m, n \in Sites : \A c \in conns[m] \cap conns[n] : m = n

OwnerKnown ==
  \A c \in Conn : state[c] # "none" <=> \E n \in Sites : c \in conns[n]

(* What a connection that is being made, or read from, has to do.          *)
HasWork ==
  \A c \in Conn : /\ state[c] = "CONNECTING" => submitted[c] # << >>
                  /\ body[c] => active[c] # None

(* The inductive invariant.                                                *)
IInv == TypeOK /\ OneOwner /\ OwnerKnown /\ HasWork /\ WaitingMeansBusy

-----------------------------------------------------------------------------
LEMMA SeqFacts ==
  ASSUME NEW S, NEW q \in Seq(S), NEW e \in S
  PROVE  /\ Append(q, e) \in Seq(S) /\ Append(q, e) # << >>
         /\ Head(Append(q, e)) \in S /\ Tail(Append(q, e)) \in Seq(S)
         /\ q # << >> => Head(q) \in S /\ Tail(q) \in Seq(S)
         /\ q = << >> => Tail(Append(q, e)) = << >>
  OBVIOUS

LEMMA CountUp ==
  ASSUME NEW S, NEW f \in [S -> Nat], NEW x \in S, NEW k \in Nat
  PROVE  [f EXCEPT ![x] = @ + k] \in [S -> Nat]
  OBVIOUS

LEMMA OwnerFact ==
  ASSUME IInv, NEW c \in Conn, state[c] # "none"
  PROVE  Owner(c) \in Sites /\ c \in conns[Owner(c)]
  BY DEF IInv, OwnerKnown, Owner

(* The initial state.                                                      *)
LEMMA InitInv == Init => IInv
<1> SUFFICES ASSUME Init PROVE IInv
  OBVIOUS
<1>1. TypeOK
  BY SessionAssumption DEF Init, TypeOK
<1>2. OneOwner /\ OwnerKnown /\ HasWork /\ WaitingMeansBusy
  BY DEF Init, OneOwner, OwnerKnown, HasWork, WaitingMeansBusy
<1> QED
  BY <1>1, <1>2 DEF IInv

-----------------------------------------------------------------------------
(* A new request: types of what it changes, and the two parts it can       *)
(* disturb.                                                                *)
LEMMA RequestResourceInv ==
  ASSUME IInv, NEW r \in Req, RequestResource(r)
  PROVE  IInv'
<1> DEFINE n == Site[r]
           q == Append(waiting[n], r)
           idle == {c \in conns[n] : ~Busy(c)}
<1> USE DEF IInv
<1>0. n \in Sites /\ waiting[n] \in Seq(Req)
  BY DEF Sites, TypeOK
<1>1. q \in Seq(Req) /\ q # << >> /\ Head(q) \in Req /\ Tail(q) \in Seq(Req)
  BY <1>0, SeqFacts
<1> HIDE DEF q
<1>2. /\ pending' \subseteq Req /\ asked' \subseteq Req
      /\ UNCHANGED << reading, renderer, bad >>
  BY DEF RequestResource, TypeOK
<1>3. CASE \E c \in idle :
             LET e == Enqueue(state[c], submitted[c], active[c], Head(q)) IN
             /\ submitted' = [submitted EXCEPT ![c] = e[1]]
             /\ active' = [active EXCEPT ![c] = e[2]]
             /\ waiting' = [waiting EXCEPT ![n] = Tail(q)]
             /\ UNCHANGED << conns, state >>
  <2>1. PICK c \in idle :
             LET e == Enqueue(state[c], submitted[c], active[c], Head(q)) IN
             /\ submitted' = [submitted EXCEPT ![c] = e[1]]
             /\ active' = [active EXCEPT ![c] = e[2]]
             /\ waiting' = [waiting EXCEPT ![n] = Tail(q)]
             /\ UNCHANGED << conns, state >>
    BY <1>3
  <2>2. c \in Conn /\ c \in conns[n] /\ submitted[c] = << >> /\ active[c] = None
    BY <1>0 DEF TypeOK, Busy
  <2>3. waiting[n] = << >> /\ Tail(q) = << >>
    BY <1>0, <2>1, SeqFacts DEF WaitingMeansBusy, q
  <2>4. PICK s, a :
          /\ submitted' = [submitted EXCEPT ![c] = s]
          /\ active' = [active EXCEPT ![c] = a]
          /\ \/ s = << >> /\ a = Head(q) /\ state[c] = "CONNECTED"
             \/ s = << Head(q) >> /\ a = None
    <3> DEFINE h == Head(q)
    <3>1. h \in Req
      BY <1>1
    <3> HIDE DEF h
    <3>2. Append(<< >>, h) = << h >> /\ Tail(<< h >>) = << >> /\ Head(<< h >>) = h
      BY <3>1
    <3> DEFINE e == Enqueue(state[c], submitted[c], active[c], Head(q))
    <3>3. \/ e = << << >>, h >> /\ state[c] = "CONNECTED"
          \/ e = << << h >>, None >>
      BY <2>2, <3>2 DEF Enqueue, h
    <3>4. /\ submitted' = [submitted EXCEPT ![c] = e[1]]
          /\ active' = [active EXCEPT ![c] = e[2]]
      BY <2>1
    <3> HIDE DEF e
    <3>5. CASE e = << << >>, h >> /\ state[c] = "CONNECTED"
      BY <3>4, <3>5 DEF h
    <3>6. CASE e = << << h >>, None >>
      BY <3>4, <3>6 DEF h
    <3> QED
      BY <3>3, <3>5, <3>6
  <2>5. s \in Seq(Req) /\ a \in Req \cup {None}
    <3>1. << >> \in Seq(Req) /\ << Head(q) >> \in Seq(Req)
      BY <1>1
    <3> QED
      BY <1>1, <2>4, <3>1
  <2>6. TypeOK'
    <3>1. submitted' \in [Conn -> Seq(Req)] /\ active' \in [Conn -> Req \cup {None}]
      BY <2>2, <2>4, <2>5 DEF TypeOK
    <3>2. waiting' \in [Sites -> Seq(Req)] /\ UNCHANGED << conns, state >>
      BY <1>0, <1>1, <2>1 DEF TypeOK
    <3> QED
      BY <1>2, <3>1, <3>2 DEF TypeOK, reading, renderer
  <2>7. OneOwner' /\ OwnerKnown'
    BY <2>1 DEF OneOwner, OwnerKnown
  <2>8. HasWork'
    <3>1. s # << >> \/ state[c] = "CONNECTED"
      BY <1>1, <2>4
    <3>2. ~body[c]
      BY <2>2 DEF HasWork
    <3> QED
      BY <1>2, <2>1, <2>2, <2>4, <3>1, <3>2 DEF HasWork, TypeOK, reading
  <2>9. WaitingMeansBusy'
    <3> SUFFICES ASSUME NEW m \in Sites, waiting'[m] # << >>
                 PROVE  conns'[m] # {} /\ \A d \in conns'[m] : Busy(d)'
      BY DEF WaitingMeansBusy
    <3>1. m # n /\ waiting[m] # << >>
      BY <1>0, <2>1, <2>3 DEF TypeOK
    <3>2. ASSUME NEW d \in conns[m] PROVE d # c /\ d \in Conn
      <4>1. conns[m] \subseteq Conn
        BY DEF TypeOK
      <4>2. d \in conns[m] \cap conns[n] => m = n
        BY <1>0 DEF OneOwner
      <4> QED
        BY <2>2, <3>1, <4>1, <4>2
    <3>3. \A d \in conns[m] : Busy(d)' <=> Busy(d)
      BY <2>4, <3>2 DEF Busy, TypeOK
    <3> QED
      BY <2>1, <3>1, <3>3 DEF WaitingMeansBusy
  <2> QED
    BY <2>6, <2>7, <2>8, <2>9
<1>4. CASE /\ idle = {} /\ Cardinality(conns[n]) < MaxConns
           /\ \E c \in {d \in Conn : state[d] = "none"} :
              /\ conns' = [conns EXCEPT ![n] = @ \cup {c}]
              /\ state' = [state EXCEPT ![c] = "CONNECTING"]
              /\ submitted' = [submitted EXCEPT ![c] = << Head(q) >>]
              /\ waiting' = [waiting EXCEPT ![n] = Tail(q)]
              /\ UNCHANGED active
  <2>1. PICK c \in {d \in Conn : state[d] = "none"} :
              /\ conns' = [conns EXCEPT ![n] = @ \cup {c}]
              /\ state' = [state EXCEPT ![c] = "CONNECTING"]
              /\ submitted' = [submitted EXCEPT ![c] = << Head(q) >>]
              /\ waiting' = [waiting EXCEPT ![n] = Tail(q)]
              /\ UNCHANGED active
    BY <1>4
  <2>2. c \in Conn /\ \A m \in Sites : c \notin conns[m]
    BY <2>1 DEF OwnerKnown
  <2>3. << Head(q) >> \in Seq(Req) /\ << Head(q) >> # << >>
    BY <1>1
  <2>4. TypeOK'
    BY <1>0, <1>1, <1>2, <2>1, <2>2, <2>3 DEF TypeOK, reading, renderer
  <2>5. OneOwner'
    <3>1. \A m \in Sites : conns'[m] = IF m = n THEN conns[m] \cup {c} ELSE conns[m]
      BY <1>0, <2>1 DEF TypeOK
    <3>2. SUFFICES ASSUME NEW m1 \in Sites, NEW m2 \in Sites,
                          NEW d \in conns'[m1] \cap conns'[m2]
                   PROVE  m1 = m2
      BY DEF OneOwner
    <3>3. CASE d = c
      BY <2>2, <3>1, <3>3
    <3>4. CASE d # c
      <4>1. d \in conns[m1] /\ d \in conns[m2]
        BY <2>2, <3>1, <3>2, <3>4
      <4> QED
        BY <4>1 DEF OneOwner
    <3> QED
      BY <3>3, <3>4
  <2>6. OwnerKnown'
    BY <1>0, <2>1, <2>2 DEF OwnerKnown, TypeOK
  <2>7. HasWork'
    BY <1>2, <2>1, <2>2, <2>3 DEF HasWork, TypeOK, reading
  <2>8. WaitingMeansBusy'
    <3> SUFFICES ASSUME NEW m \in Sites, waiting'[m] # << >>
                 PROVE  conns'[m] # {} /\ \A d \in conns'[m] : Busy(d)'
      BY DEF WaitingMeansBusy
    <3>1. submitted'[c] # << >>
      BY <2>1, <2>2, <2>3 DEF TypeOK
    <3>2. \A d \in Conn \ {c} : Busy(d)' <=> Busy(d)
      BY <2>1, <2>2 DEF Busy, TypeOK
    <3>3. CASE m = n
      <4>0. \A d \in conns[n] : Busy(d)
        BY <1>4
      <4>1. \A d \in conns[n] : Busy(d) /\ d \in Conn \ {c}
        BY <1>0, <2>2, <4>0 DEF TypeOK
      <4>2. conns'[n] = conns[n] \cup {c}
        BY <1>0, <2>1 DEF TypeOK
      <4> QED
        BY <3>1, <3>2, <3>3, <4>1, <4>2 DEF Busy
    <3>4. CASE m # n
      BY <1>0, <2>1, <2>2, <3>2, <3>4 DEF WaitingMeansBusy, TypeOK
    <3> QED
      BY <3>3, <3>4
  <2> QED
    BY <2>4, <2>5, <2>6, <2>7, <2>8
<1>5. CASE /\ idle = {} /\ Cardinality(conns[n]) >= MaxConns
           /\ waiting' = [waiting EXCEPT ![n] = q]
           /\ UNCHANGED << conns, state, submitted, active >>
  <2>1. conns[n] # {}
    <3>1. Cardinality({}) = 0
      BY FS_EmptySet
    <3> QED
      BY <1>5, <3>1, SessionAssumption
  <2>2. TypeOK'
    BY <1>0, <1>1, <1>2, <1>5 DEF TypeOK, reading, renderer
  <2>3. OneOwner' /\ OwnerKnown' /\ HasWork'
    BY <1>2, <1>5 DEF OneOwner, OwnerKnown, HasWork, reading
  <2>4. WaitingMeansBusy'
    <3>1. \A d \in conns[n] : Busy(d)
      BY <1>5
    <3>2. \A m \in Sites \ {n} : waiting'[m] = waiting[m]
      BY <1>5 DEF TypeOK
    <3>3. \A d : Busy(d)' <=> Busy(d)
      BY <1>5 DEF Busy
    <3> QED
      BY <1>5, <2>1, <3>1, <3>2, <3>3 DEF WaitingMeansBusy
  <2> QED
    BY <2>2, <2>3, <2>4
<1> QED
  BY <1>3, <1>4, <1>5 DEF RequestResource, SubmitRequest, q
-----------------------------------------------------------------------------
(* A connection attempt succeeds.                                          *)
LEMMA ConnectedInv ==
  ASSUME IInv, NEW c \in Conn, Connected(c)
  PROVE  IInv'
<1> USE DEF IInv
<1>1. /\ submitted[c] \in Seq(Req) /\ submitted[c] # << >>
      /\ Head(submitted[c]) \in Req /\ Tail(submitted[c]) \in Seq(Req)
  BY DEF Connected, HasWork, TypeOK
<1>2. TypeOK'
  BY <1>1 DEF Connected, TypeOK, reading, renderer
<1>3. active'[c] \in Req /\ \A d \in Conn \ {c} : UNCHANGED << active[d], submitted[d], state[d] >>
  BY <1>1 DEF Connected, TypeOK
<1>4. state'[c] = "CONNECTED" /\ state[c] = "CONNECTING" /\ UNCHANGED << conns, waiting, body >>
  BY DEF Connected, TypeOK, reading
<1>5. OneOwner' /\ OwnerKnown'
  BY <1>3, <1>4 DEF OneOwner, OwnerKnown
<1>6. HasWork'
  BY <1>3, <1>4, NoneAssumption DEF HasWork
<1>7. WaitingMeansBusy'
  <2>1. \A d \in Conn : Busy(d) => Busy(d)'
    BY <1>3, NoneAssumption DEF Busy
  <2> QED
    BY <1>4, <2>1 DEF WaitingMeansBusy, TypeOK
<1> QED
  BY <1>2, <1>5, <1>6, <1>7

(* The end of a response: the connection takes the next waiting request,   *)
(* if there is one.                                                        *)
LEMMA DoneFacts ==
  ASSUME IInv, NEW c \in Conn, state[c] # "none", active[c] # None, DoneWithResp(c)
  PROVE  /\ pending' \subseteq Req /\ ends' \in [Req -> Seq(BOOLEAN)]
         /\ waiting' \in [Sites -> Seq(Req)]
         /\ submitted' \in [Conn -> Seq(Req)]
         /\ active' \in [Conn -> Req \cup {None}]
         /\ \A d \in Conn \ {c} : UNCHANGED << active[d], submitted[d] >>
         /\ \A n \in Sites : waiting'[n] # << >> => waiting[n] # << >>
         /\ waiting[Owner(c)] # << >> => active'[c] # None
<1> DEFINE r == active[c]
           n == Owner(c)
           more == waiting[n] # << >>
           q == IF more THEN Append(submitted[c], Head(waiting[n])) ELSE submitted[c]
<1> USE DEF IInv
<1>1. r \in Req /\ n \in Sites
  BY OwnerFact DEF TypeOK
<1>2. /\ waiting[n] \in Seq(Req) /\ submitted[c] \in Seq(Req)
      /\ more => Head(waiting[n]) \in Req /\ Tail(waiting[n]) \in Seq(Req)
  BY <1>1, SeqFacts DEF TypeOK
<1>3. q \in Seq(Req) /\ (more => q # << >>)
  BY <1>2, SeqFacts
<1> HIDE DEF q
<1>4. q # << >> => Head(q) \in Req /\ Tail(q) \in Seq(Req)
  BY <1>3, SeqFacts
<1>5. /\ pending' = pending \ {r}
      /\ ends' = [ends EXCEPT ![r] = Append(@, TRUE)]
      /\ waiting' = IF more THEN [waiting EXCEPT ![n] = Tail(@)] ELSE waiting
      /\ active' = [active EXCEPT ![c] = IF q = << >> THEN None ELSE Head(q)]
      /\ submitted' = [submitted EXCEPT ![c] = IF q = << >> THEN q ELSE Tail(q)]
  BY DEF DoneWithResp, q
<1>6. pending' \subseteq Req
  BY <1>5 DEF TypeOK
<1>7. ends' \in [Req -> Seq(BOOLEAN)]
  <2>1. ends[r] \in Seq(BOOLEAN)
    BY <1>1 DEF TypeOK
  <2>2. Append(ends[r], TRUE) \in Seq(BOOLEAN)
    BY <2>1, SeqFacts
  <2> QED
    BY <1>1, <1>5, <2>2 DEF TypeOK
<1>8. waiting' \in [Sites -> Seq(Req)] /\ \A m \in Sites : waiting'[m] # << >> => waiting[m] # << >>
  BY <1>1, <1>2, <1>5 DEF TypeOK
<1>9. submitted' \in [Conn -> Seq(Req)] /\ active' \in [Conn -> Req \cup {None}]
  BY <1>3, <1>4, <1>5 DEF TypeOK
<1>10. \A d \in Conn \ {c} : UNCHANGED << active[d], submitted[d] >>
  BY <1>5 DEF TypeOK
<1>11. more => active'[c] # None
  BY <1>3, <1>4, <1>5, NoneAssumption DEF TypeOK
<1> QED
  BY <1>6, <1>7, <1>8, <1>9, <1>10, <1>11

(* What DoneWithResp leaves of the invariant's last part.                  *)
LEMMA DoneKeepsBusy ==
  ASSUME IInv, NEW c \in Conn, state[c] # "none", active[c] # None, DoneWithResp(c),
         UNCHANGED conns
  PROVE  WaitingMeansBusy'
<1> SUFFICES ASSUME NEW m \in Sites, waiting'[m] # << >>
             PROVE  conns'[m] # {} /\ \A d \in conns'[m] : Busy(d)'
  BY DEF WaitingMeansBusy
<1>1. waiting[m] # << >>
  BY DoneFacts
<1>2. conns[m] # {} /\ \A d \in conns[m] : Busy(d) /\ d \in Conn
  BY <1>1 DEF IInv, WaitingMeansBusy, TypeOK
<1>3. ASSUME NEW d \in conns[m] PROVE Busy(d)'
  <2>1. CASE d # c
    <3>1. UNCHANGED << active[d], submitted[d] >>
      BY <1>2, <2>1, DoneFacts
    <3> QED
      BY <1>2, <3>1 DEF Busy
  <2>2. CASE d = c
    <3>1. m = Owner(c)
      BY <2>2, OwnerFact DEF IInv, OneOwner
    <3>2. active'[c] # None
      BY <1>1, <3>1, DoneFacts
    <3> QED
      BY <2>2, <3>2 DEF Busy
  <2> QED
    BY <2>1, <2>2
<1> QED
  BY <1>2, <1>3

LEMMA ReadMetaInv ==
  ASSUME IInv, NEW c \in Conn, ReadMeta(c)
  PROVE  IInv'
<1> USE DEF IInv
<1>1. /\ state[c] = "CONNECTED" /\ active[c] \in Req /\ active[c] # None
      /\ Size[active[c]] \in Nat /\ ~body[c]
  BY SessionAssumption DEF ReadMeta, TypeOK
<1>2. /\ heads' \in [Req -> Nat] /\ left' \in [Conn -> Nat]
      /\ bad' \in {"no", "unknown request", "wrong size"}
      /\ UNCHANGED << conns, state, recvd, asked, told >>
  <2>1. heads' = [heads EXCEPT ![active[c]] = @ + 1] /\ left' = [left EXCEPT ![c] = Size[active[c]]]
    BY DEF ReadMeta
  <2>2. heads' \in [Req -> Nat]
    <3>1. heads \in [Req -> Nat] /\ 1 \in Nat
      BY DEF TypeOK
    <3> HIDE DEF IInv
    <3> QED
      BY <1>1, <2>1, <3>1, CountUp
  <2>3. left' \in [Conn -> Nat]
    BY <1>1, <2>1 DEF TypeOK
  <2>4. /\ bad' \in {"no", "unknown request", "wrong size"}
        /\ UNCHANGED << conns, state, recvd, asked, told >>
    BY DEF ReadMeta
  <2> QED
    BY <2>2, <2>3, <2>4
<1>3. CASE Size[active[c]] > 0
  <2>1. body' = [body EXCEPT ![c] = TRUE] /\ UNCHANGED << pending, waiting, submitted, active, ends >>
    BY <1>3 DEF ReadMeta
  <2>2. TypeOK'
    BY <1>2, <2>1 DEF TypeOK
  <2>3. OneOwner' /\ OwnerKnown' /\ WaitingMeansBusy'
    BY <1>2, <2>1 DEF OneOwner, OwnerKnown, WaitingMeansBusy, Busy
  <2>4. HasWork'
    BY <1>1, <1>2, <2>1 DEF HasWork, TypeOK
  <2> QED
    BY <2>2, <2>3, <2>4
<1>4. CASE ~(Size[active[c]] > 0)
  <2>1. DoneWithResp(c) /\ UNCHANGED body
    BY <1>4 DEF ReadMeta
  <2>2. TypeOK'
    <3>1. /\ pending' \subseteq Req /\ ends' \in [Req -> Seq(BOOLEAN)]
          /\ waiting' \in [Sites -> Seq(Req)]
          /\ submitted' \in [Conn -> Seq(Req)]
          /\ active' \in [Conn -> Req \cup {None}]
      BY <1>1, <2>1, DoneFacts
    <3> QED
      BY <1>2, <2>1, <3>1 DEF TypeOK
  <2>3. OneOwner' /\ OwnerKnown'
    BY <1>2 DEF OneOwner, OwnerKnown
  <2>4. HasWork'
    <3>1. \A d \in Conn \ {c} : UNCHANGED << active[d], submitted[d] >>
      BY <1>1, <2>1, DoneFacts
    <3> QED
      BY <1>1, <1>2, <2>1, <3>1 DEF HasWork
  <2>5. WaitingMeansBusy'
    BY <1>1, <1>2, <2>1, DoneKeepsBusy
  <2> QED
    BY <2>2, <2>3, <2>4, <2>5
<1> QED
  BY <1>3, <1>4

LEMMA ReadBodyInv ==
  ASSUME IInv, NEW c \in Conn, ReadBody(c)
  PROVE  IInv'
<1> USE DEF IInv
<1>1. state[c] = "CONNECTED" /\ active[c] \in Req /\ active[c] # None /\ left[c] \in Nat
  BY DEF ReadBody, TypeOK, HasWork
<1>2. PICK k \in ChunkSizes(c) :
       /\ left' = [left EXCEPT ![c] = @ - k]
       /\ recvd' = [recvd EXCEPT ![active[c]] = @ + k]
       /\ told' = [told EXCEPT ![active[c]] = @ + k]
       /\ bad' = CASE active[c] \notin pending -> "unknown request"
                   [] active[c] \in pending /\ k = left[c]
                      /\ recvd[active[c]] + k # Size[active[c]] -> "wrong size"
                   [] OTHER -> "no"
       /\ IF k = left[c]
          THEN DoneWithResp(c) /\ body' = [body EXCEPT ![c] = FALSE]
          ELSE UNCHANGED << pending, waiting, submitted, active, ends, body >>
  BY DEF ReadBody
<1>3. k \in Nat /\ left[c] - k \in Nat
  BY <1>1 DEF ChunkSizes
<1>4. /\ left' \in [Conn -> Nat] /\ recvd' \in [Req -> Nat] /\ told' \in [Req -> Nat]
      /\ UNCHANGED << conns, state, asked, heads >>
  <2>1. left' \in [Conn -> Nat]
    BY <1>2, <1>3 DEF TypeOK
  <2>2. recvd' \in [Req -> Nat]
    <3>1. recvd \in [Req -> Nat] /\ recvd' = [recvd EXCEPT ![active[c]] = @ + k]
      BY <1>2 DEF TypeOK
    <3> HIDE DEF IInv
    <3> QED
      BY <1>1, <1>3, <3>1, CountUp
  <2>3. told' \in [Req -> Nat]
    <3>1. told \in [Req -> Nat] /\ told' = [told EXCEPT ![active[c]] = @ + k]
      BY <1>2 DEF TypeOK
    <3> HIDE DEF IInv
    <3> QED
      BY <1>1, <1>3, <3>1, CountUp
  <2>4. UNCHANGED << conns, state, asked, heads >>
    BY DEF ReadBody
  <2> QED
    BY <2>1, <2>2, <2>3, <2>4
<1>5. bad' \in {"no", "unknown request", "wrong size"}
  BY <1>2
<1>6. CASE k = left[c]
  <2>1. DoneWithResp(c) /\ body' = [body EXCEPT ![c] = FALSE]
    BY <1>2, <1>6
  <2>2. TypeOK'
    <3>1. /\ pending' \subseteq Req /\ ends' \in [Req -> Seq(BOOLEAN)]
          /\ waiting' \in [Sites -> Seq(Req)]
          /\ submitted' \in [Conn -> Seq(Req)]
          /\ active' \in [Conn -> Req \cup {None}]
      BY <1>1, <2>1, DoneFacts
    <3>2. body' \in [Conn -> BOOLEAN]
      BY <2>1 DEF TypeOK
    <3> QED
      BY <1>4, <1>5, <3>1, <3>2 DEF TypeOK
  <2>3. OneOwner' /\ OwnerKnown'
    BY <1>4 DEF OneOwner, OwnerKnown
  <2>4. HasWork'
    <3>1. \A d \in Conn \ {c} : UNCHANGED << active[d], submitted[d] >>
      BY <1>1, <2>1, DoneFacts
    <3>2. \A d \in Conn : body'[d] => d # c /\ body[d]
      BY <2>1 DEF TypeOK
    <3> QED
      BY <1>1, <1>4, <3>1, <3>2 DEF HasWork
  <2>5. WaitingMeansBusy'
    BY <1>1, <1>4, <2>1, DoneKeepsBusy
  <2> QED
    BY <2>2, <2>3, <2>4, <2>5
<1>7. CASE k # left[c]
  <2>1. UNCHANGED << pending, waiting, submitted, active, ends, body >>
    BY <1>2, <1>7
  <2>2. TypeOK'
    BY <1>4, <1>5, <2>1 DEF TypeOK
  <2>3. OneOwner' /\ OwnerKnown' /\ HasWork' /\ WaitingMeansBusy'
    BY <1>4, <2>1 DEF OneOwner, OwnerKnown, HasWork, WaitingMeansBusy, Busy
  <2> QED
    BY <2>2, <2>3
<1> QED
  BY <1>6, <1>7

-----------------------------------------------------------------------------
(* Connections that are destroyed.                                         *)
LEMMA DestroyFacts ==
  ASSUME TypeOK, HasWork, NEW D \in SUBSET Conn, Destroy(D)
  PROVE  /\ state' \in [Conn -> {"none", "CONNECTING", "CONNECTED"}]
         /\ submitted' \in [Conn -> Seq(Req)]
         /\ active' \in [Conn -> Req \cup {None}]
         /\ left' \in [Conn -> Nat] /\ body' \in [Conn -> BOOLEAN]
         /\ HasWork'
         /\ \A d \in D : state'[d] = "none"
         /\ \A d \in Conn \ D : UNCHANGED << state[d], submitted[d], active[d] >>
<1>1. << >> \in Seq(Req)
  OBVIOUS
<1>2. /\ state' \in [Conn -> {"none", "CONNECTING", "CONNECTED"}]
      /\ submitted' \in [Conn -> Seq(Req)]
      /\ active' \in [Conn -> Req \cup {None}]
  BY <1>1 DEF Destroy, TypeOK
<1>3. left' \in [Conn -> Nat] /\ body' \in [Conn -> BOOLEAN]
  BY DEF Destroy, TypeOK
<1>4. HasWork'
  BY DEF Destroy, HasWork
<1>5. /\ \A d \in D : state'[d] = "none"
      /\ \A d \in Conn \ D : UNCHANGED << state[d], submitted[d], active[d] >>
  BY DEF Destroy
<1> QED
  BY <1>2, <1>3, <1>4, <1>5

LEMMA ConnectionEndsInv ==
  ASSUME IInv, NEW c \in Conn, ConnectionEnds(c)
  PROVE  IInv'
<1> DEFINE n == Owner(c)
<1> USE DEF IInv
<1>1. state[c] # "none" /\ n \in Sites /\ c \in conns[n]
  BY OwnerFact DEF ConnectionEnds
<1>2. /\ conns' = [conns EXCEPT ![n] = @ \ {c}]
      /\ waiting' = IF conns[n] = {c} THEN [waiting EXCEPT ![n] = << >>] ELSE waiting
      /\ pending' = pending \ Lost(c, n)
      /\ ends' = [r \in Req |-> IF r \in Lost(c, n) THEN Append(ends[r], FALSE) ELSE ends[r]]
      /\ Destroy({c}) /\ bad' \in {"no", "unknown request"}
      /\ UNCHANGED << recvd, asked, heads, told >>
  BY DEF ConnectionEnds, HandleUnusable
<1>3. /\ state' \in [Conn -> {"none", "CONNECTING", "CONNECTED"}]
      /\ submitted' \in [Conn -> Seq(Req)]
      /\ active' \in [Conn -> Req \cup {None}]
      /\ left' \in [Conn -> Nat] /\ body' \in [Conn -> BOOLEAN]
      /\ HasWork' /\ state'[c] = "none"
      /\ \A d \in Conn \ {c} : UNCHANGED << state[d], submitted[d], active[d] >>
  <2>1. TypeOK /\ HasWork /\ {c} \in SUBSET Conn /\ Destroy({c})
    BY <1>2
  <2> HIDE DEF IInv
  <2> QED
    BY <2>1, DestroyFacts
<1>4. ends' \in [Req -> Seq(BOOLEAN)]
  <2>1. \A r \in Req : ends[r] \in Seq(BOOLEAN)
    BY DEF TypeOK
  <2>2. \A r \in Req : Append(ends[r], FALSE) \in Seq(BOOLEAN)
    BY <2>1, SeqFacts
  <2> HIDE DEF n
  <2> QED
    BY <1>2, <2>1, <2>2
<1>5. /\ waiting' \in [Sites -> Seq(Req)] /\ conns' \in [Sites -> SUBSET Conn]
      /\ pending' \subseteq Req
  <2>1. << >> \in Seq(Req)
    OBVIOUS
  <2> QED
    BY <1>1, <1>2, <2>1 DEF TypeOK
<1>6. TypeOK'
  BY <1>2, <1>3, <1>4, <1>5 DEF TypeOK
<1>7. \A m \in Sites : conns'[m] = conns[m] \ {c}
  BY <1>1, <1>2 DEF TypeOK, OneOwner
<1>8. OneOwner' /\ OwnerKnown'
  <2>1. OneOwner'
    BY <1>7 DEF OneOwner
  <2>2. ASSUME NEW d \in Conn
        PROVE  state'[d] # "none" <=> \E m \in Sites : d \in conns'[m]
    <3>1. CASE d = c
      BY <1>3, <1>7, <3>1
    <3>2. CASE d # c
      <4>1. \A m \in Sites : d \in conns'[m] <=> d \in conns[m]
        BY <1>7, <3>2
      <4> QED
        BY <1>3, <3>2, <4>1 DEF OwnerKnown
    <3> QED
      BY <3>1, <3>2
  <2> QED
    BY <2>1, <2>2 DEF OwnerKnown
<1>9. WaitingMeansBusy'
  <2> SUFFICES ASSUME NEW m \in Sites, waiting'[m] # << >>
               PROVE  conns'[m] # {} /\ \A d \in conns'[m] : Busy(d)'
    BY DEF WaitingMeansBusy
  <2>1. waiting[m] # << >> /\ conns[m] # {c}
    <3>1. CASE m = n
      BY <1>1, <1>2, <3>1 DEF TypeOK
    <3>2. CASE m # n
      BY <1>1, <1>2, <3>2 DEF TypeOK, OneOwner
    <3> QED
      BY <3>1, <3>2
  <2>2. conns[m] # {} /\ \A d \in conns[m] : Busy(d) /\ d \in Conn
    BY <2>1 DEF WaitingMeansBusy, TypeOK
  <2>3. \A d \in conns'[m] : Busy(d)'
    BY <1>3, <1>7, <2>2 DEF Busy
  <2> QED
    BY <1>7, <2>1, <2>2, <2>3
<1> QED
  BY <1>3, <1>6, <1>8, <1>9

LEMMA ResetSessionInv ==
  ASSUME IInv, ResetSession
  PROVE  IInv'
<1> USE DEF IInv
<1>1. /\ conns' = [n \in Sites |-> {}] /\ waiting' = [n \in Sites |-> << >>]
      /\ Destroy(Conn) /\ pending' = {} /\ UNCHANGED << recvd, asked, renderer, bad >>
  BY DEF ResetSession
<1>2. /\ state' \in [Conn -> {"none", "CONNECTING", "CONNECTED"}]
      /\ submitted' \in [Conn -> Seq(Req)]
      /\ active' \in [Conn -> Req \cup {None}]
      /\ left' \in [Conn -> Nat] /\ body' \in [Conn -> BOOLEAN]
      /\ HasWork' /\ \A d \in Conn : state'[d] = "none"
  BY <1>1, DestroyFacts
<1>3. waiting' \in [Sites -> Seq(Req)] /\ conns' \in [Sites -> SUBSET Conn]
  BY <1>1
<1>4. TypeOK'
  BY <1>1, <1>2, <1>3 DEF TypeOK, renderer
<1>5. OneOwner' /\ OwnerKnown' /\ WaitingMeansBusy'
  BY <1>1, <1>2 DEF OneOwner, OwnerKnown, WaitingMeansBusy
<1> QED
  BY <1>2, <1>4, <1>5

-----------------------------------------------------------------------------
(* Every step keeps the inductive invariant.                               *)
LEMMA NextInv == IInv /\ [Next]_vars => IInv'
<1> SUFFICES ASSUME IInv, [Next]_vars PROVE IInv'
  OBVIOUS
<1>1. CASE Next
  BY <1>1, RequestResourceInv, ConnectedInv, ReadMetaInv, ReadBodyInv,
     ConnectionEndsInv, ResetSessionInv DEF Next
<1>2. CASE UNCHANGED vars
  BY <1>2 DEF vars, manager, reading, renderer, IInv, TypeOK, OneOwner, OwnerKnown,
              HasWork, WaitingMeansBusy, Busy
<1> QED
  BY <1>1, <1>2

(* The types, for any requests, servers and limit of connections.          *)
THEOREM SessionTypes == Spec => []TypeOK
<1>1. IInv => TypeOK
  BY DEF IInv
<1> QED
  BY <1>1, InitInv, NextInv, PTL DEF Spec

(* For any requests, servers and limit of connections: what waits for a    *)
(* server waits behind connections that are all busy, of which there is at *)
(* least one, so that the end of a response or of a connection takes it.   *)
THEOREM NobodyStranded == Spec => []WaitingMeansBusy
<1>1. IInv => WaitingMeansBusy
  BY DEF IInv
<1> QED
  BY <1>1, InitInv, NextInv, PTL DEF Spec

-----------------------------------------------------------------------------
(* No element twice in a queue.                                            *)
Once(q) == \A i, j \in DOMAIN q : q[i] = q[j] => i = j

(* The requests a connection holds.                                        *)
Held(c) == Elems(submitted[c]) \cup ({active[c]} \ {None})

(* Only a connected connection has a request on the wire, and one that     *)
(* does not exist has none at all.                                         *)
NothingEarly ==
  \A c \in Conn : /\ state[c] # "CONNECTED" => active[c] = None
                  /\ state[c] = "none" => submitted[c] = << >>

(* No queue holds a request twice, nor one that is on the wire as well.    *)
QueuedOnce ==
  /\ \A n \in Sites : Once(waiting[n])
  /\ \A c \in Conn : Once(submitted[c]) /\ active[c] \notin Elems(submitted[c])

(* No two connections hold a request, none holds one that waits, and each  *)
(* waits for its own server.                                               *)
Apart ==
  /\ \A c, d \in Conn : c # d => Held(c) \cap Held(d) = {}
  /\ \A c \in Conn : \A n \in Sites : Held(c) \cap Elems(waiting[n]) = {}
  /\ \A n \in Sites : \A r \in Elems(waiting[n]) : Site[r] = n

(* The pending requests are those that are held or wait.                   *)
Books ==
  /\ pending \subseteq asked
  /\ \A r \in Req : r \in pending <=> \/ \E c \in Conn : r \in Held(c)
                                      \/ \E n \in Sites : r \in Elems(waiting[n])

BeingRead(r) == \E c \in Conn : body[c] /\ active[c] = r

(* What was received of a body and what is left make up its size.          *)
BytesAddUp ==
  /\ told = recvd
  /\ \A c \in Conn : body[c] => /\ left[c] > 0
                                /\ recvd[active[c]] + left[c] = Size[active[c]]

(* What the renderer has been told of each request.                        *)
ToldOf(r) ==
  /\ r \notin asked => told[r] = 0 /\ heads[r] = 0 /\ ends[r] = << >>
  /\ r \in pending => /\ ends[r] = << >>
                      /\ BeingRead(r) => heads[r] = 1
                      /\ ~BeingRead(r) => heads[r] = 0 /\ told[r] = 0
  /\ r \notin pending => ends[r] \in {<< >>, << TRUE >>, << FALSE >>}

ToldSoFar == \A r \in Req : ToldOf(r)

FewConns ==
  \A n \in Sites : IsFiniteSet(conns[n]) /\ Cardinality(conns[n]) <= MaxConns

(* The second inductive invariant, on top of the first.                    *)
JInv == /\ NothingEarly /\ QueuedOnce /\ Apart /\ Books
        /\ BytesAddUp /\ ToldSoFar /\ FewConns /\ ChecksHold

-----------------------------------------------------------------------------
LEMMA ShortElems ==
  /\ Elems(<< >>) = {} /\ Once(<< >>)
  /\ \A e : Elems(<< e >>) = {e} /\ Once(<< e >>)
  BY DEF Elems, Once

LEMMA AppendToEmpty ==
  ASSUME NEW e
  PROVE  Append(<< >>, e) = << e >>
  OBVIOUS

LEMMA SeqElems ==
  ASSUME NEW S, NEW q \in Seq(S)
  PROVE  Elems(q) \subseteq S
  BY DEF Elems

LEMMA AppendElems ==
  ASSUME NEW S, NEW q \in Seq(S), NEW e \in S
  PROVE  /\ Elems(Append(q, e)) = Elems(q) \cup {e}
         /\ Once(q) /\ e \notin Elems(q) => Once(Append(q, e))
<1>1. /\ DOMAIN q = 1..Len(q) /\ DOMAIN Append(q, e) = 1..(Len(q) + 1) /\ Len(q) \in Nat
      /\ \A i \in 1..Len(q) : Append(q, e)[i] = q[i]
      /\ Append(q, e)[Len(q) + 1] = e
  OBVIOUS
<1>2. Elems(Append(q, e)) = Elems(q) \cup {e}
  BY <1>1 DEF Elems
<1>3. ASSUME Once(q), e \notin Elems(q) PROVE Once(Append(q, e))
  <2>1. \A i \in 1..Len(q) : q[i] # e
    BY <1>1, <1>3 DEF Elems
  <2> QED
    BY <1>1, <1>3, <2>1 DEF Once
<1> QED
  BY <1>2, <1>3

LEMMA TailElems ==
  ASSUME NEW S, NEW q \in Seq(S), q # << >>, Once(q)
  PROVE  /\ Once(Tail(q)) /\ Elems(Tail(q)) = Elems(q) \ {Head(q)}
         /\ Head(q) \in Elems(q) /\ Head(q) \in S /\ Tail(q) \in Seq(S)
<1>1. /\ DOMAIN q = 1..Len(q) /\ DOMAIN Tail(q) = 1..(Len(q) - 1)
      /\ Len(q) \in Nat /\ Len(q) > 0 /\ Head(q) = q[1]
      /\ \A i \in 1..(Len(q) - 1) : Tail(q)[i] = q[i + 1]
  OBVIOUS
<1>2. Once(Tail(q))
  BY <1>1 DEF Once
<1>3. Head(q) \in Elems(q)
  BY <1>1 DEF Elems
<1>4. \A i \in 2..Len(q) : q[i] = Tail(q)[i - 1] /\ q[i] # q[1]
  BY <1>1 DEF Once
<1>5. ASSUME NEW i \in DOMAIN Tail(q) PROVE Tail(q)[i] \in Elems(q) \ {Head(q)}
  <2>1. i + 1 \in 2..Len(q) /\ Tail(q)[i] = q[i + 1]
    BY <1>1
  <2> QED
    BY <1>1, <1>4, <2>1 DEF Elems
<1>6. ASSUME NEW i \in DOMAIN q, q[i] # Head(q) PROVE q[i] \in Elems(Tail(q))
  <2>1. i \in 2..Len(q) /\ i - 1 \in DOMAIN Tail(q)
    BY <1>1, <1>6
  <2> QED
    BY <1>4, <2>1 DEF Elems
<1> QED
  BY <1>2, <1>3, <1>5, <1>6 DEF Elems

(* What is in the queues is a request, and is pending.                     *)
LEMMA HeldFacts ==
  ASSUME IInv, JInv
  PROVE  /\ \A c \in Conn : Held(c) \subseteq pending /\ Elems(submitted[c]) \subseteq Held(c)
         /\ \A n \in Sites : Elems(waiting[n]) \subseteq pending
         /\ \A c \in Conn : active[c] # None => active[c] \in Held(c)
<1>1. \A c \in Conn : Held(c) \subseteq Req
  <2>1. \A c \in Conn : submitted[c] \in Seq(Req) /\ active[c] \in Req \cup {None}
    BY DEF IInv, TypeOK
  <2> QED
    BY <2>1, SeqElems DEF Held
<1>2. \A n \in Sites : Elems(waiting[n]) \subseteq Req
  <2>1. \A n \in Sites : waiting[n] \in Seq(Req)
    BY DEF IInv, TypeOK
  <2> QED
    BY <2>1, SeqElems
<1> QED
  BY <1>1, <1>2 DEF JInv, Books, Held

(* Only the place c and what waits for n change: X and Y are what is in    *)
(* them after the step, New what is new there.                             *)
LEMMA MoveBooks ==
  ASSUME IInv, JInv, NEW c \in Conn, NEW n \in Sites, NEW X, NEW Y, NEW New,
         \A d \in Conn : Held(d)' = IF d = c THEN X ELSE Held(d),
         \A m \in Sites : Elems(waiting'[m]) = IF m = n THEN Y ELSE Elems(waiting[m]),
         X \cap Y = {}, New \cap pending = {},
         X \cup Y \subseteq Held(c) \cup Elems(waiting[n]) \cup New,
         \A x \in Y : Site[x] = n,
         pending' = (pending \ (Held(c) \cup Elems(waiting[n]))) \cup X \cup Y,
         pending' \subseteq asked'
  PROVE  Apart' /\ Books'
<1>1. /\ \A d \in Conn : Held(d) \subseteq pending
      /\ \A m \in Sites : Elems(waiting[m]) \subseteq pending
  BY HeldFacts
<1>2. Apart
  BY DEF JInv
<1>3. Apart'
  <2>1. ASSUME NEW d1 \in Conn, NEW d2 \in Conn, d1 # d2 PROVE Held(d1)' \cap Held(d2)' = {}
    BY <1>1, <1>2, <2>1 DEF Apart
  <2>2. ASSUME NEW d \in Conn, NEW m \in Sites PROVE Held(d)' \cap Elems(waiting'[m]) = {}
    <3>1. CASE d = c /\ m = n
      BY <3>1
    <3>2. CASE d = c /\ m # n
      BY <1>1, <1>2, <3>2 DEF Apart
    <3>3. CASE d # c /\ m = n
      BY <1>1, <1>2, <3>3 DEF Apart
    <3>4. CASE d # c /\ m # n
      BY <1>2, <3>4 DEF Apart
    <3> QED
      BY <3>1, <3>2, <3>3, <3>4
  <2>3. \A m \in Sites : \A x \in Elems(waiting'[m]) : Site[x] = m
    BY <1>2 DEF Apart
  <2> QED
    BY <2>1, <2>2, <2>3 DEF Apart
<1>4. Books'
  <2>1. ASSUME NEW x \in Req
        PROVE  x \in pending' <=> \/ \E d \in Conn : x \in Held(d)'
                                  \/ \E m \in Sites : x \in Elems(waiting'[m])
    <3>1. CASE x \in X \cup Y
      BY <3>1
    <3>2. CASE x \notin X \cup Y /\ x \in Held(c) \cup Elems(waiting[n])
      BY <1>2, <3>2 DEF Apart
    <3>3. CASE x \notin X \cup Y /\ x \notin Held(c) \cup Elems(waiting[n])
      BY <3>3 DEF JInv, Books
    <3> QED
      BY <3>1, <3>2, <3>3
  <2> QED
    BY <2>1 DEF Books
<1> QED
  BY <1>3, <1>4

-----------------------------------------------------------------------------
LEMMA InitBooks == Init => JInv
<1> SUFFICES ASSUME Init PROVE JInv
  OBVIOUS
<1>1. /\ \A n \in Sites : waiting[n] = << >> /\ conns[n] = {}
      /\ \A c \in Conn : submitted[c] = << >> /\ active[c] = None /\ ~body[c]
      /\ \A r \in Req : ends[r] = << >> /\ heads[r] = 0 /\ told[r] = 0
      /\ told = recvd /\ pending = {} /\ bad = "no"
  BY DEF Init
<1>2. NothingEarly /\ BytesAddUp /\ ToldSoFar /\ ChecksHold
  BY <1>1 DEF NothingEarly, BytesAddUp, ToldSoFar, ToldOf, ChecksHold
<1>3. QueuedOnce /\ Apart /\ Books
  BY <1>1, ShortElems DEF QueuedOnce, Apart, Books, Held
<1>4. FewConns
  <2>1. IsFiniteSet({}) /\ Cardinality({}) = 0 /\ 0 <= MaxConns
    BY FS_EmptySet, SessionAssumption
  <2> QED
    BY <1>1, <2>1 DEF FewConns
<1> QED
  BY <1>2, <1>3, <1>4 DEF JInv

(* A step that leaves alone what the renderer is told and what is read:    *)
(* the request it may add has not been heard of.                           *)
LEMMA QuietStep ==
  ASSUME IInv, JInv, UNCHANGED << reading, renderer, bad >>,
         \A x \in Req : BeingRead(x)' <=> BeingRead(x),
         \A c \in Conn : body[c] => UNCHANGED active[c],
         NEW New, New \cap asked = {},
         pending' = pending \cup New, asked' = asked \cup New
  PROVE  BytesAddUp' /\ ToldSoFar' /\ ChecksHold'
<1>1. UNCHANGED << left, body, recvd, heads, told, ends, bad >>
  BY DEF reading, renderer
<1>2. \A x \in Req \ pending : ~BeingRead(x)
  <2>1. \A c \in Conn : body[c] => active[c] \in pending
    BY HeldFacts DEF IInv, HasWork
  <2> QED
    BY <2>1 DEF BeingRead
<1>3. BytesAddUp'
  BY <1>1 DEF JInv, BytesAddUp
<1>4. ToldSoFar'
  <2> SUFFICES ASSUME NEW x \in Req
               PROVE  /\ x \notin asked' => told[x] = 0 /\ heads[x] = 0 /\ ends[x] = << >>
                      /\ x \in pending' => /\ ends[x] = << >>
                                           /\ BeingRead(x)' => heads[x] = 1
                                           /\ ~BeingRead(x)' => heads[x] = 0 /\ told[x] = 0
                      /\ x \notin pending' => ends[x] \in {<< >>, << TRUE >>, << FALSE >>}
    BY <1>1 DEF ToldSoFar, ToldOf
  <2>1. CASE x \in New
    BY <1>2, <2>1 DEF JInv, ToldSoFar, ToldOf, Books
  <2>2. CASE x \notin New
    BY <2>2 DEF JInv, ToldSoFar, ToldOf
  <2> QED
    BY <2>1, <2>2
<1> QED
  BY <1>1, <1>3, <1>4 DEF JInv, ChecksHold

LEMMA RequestResourceBooks ==
  ASSUME IInv, JInv, NEW r \in Req, RequestResource(r)
  PROVE  JInv'
<1> DEFINE n == Site[r]
           q == Append(waiting[n], r)
           idle == {c \in conns[n] : ~Busy(c)}
           W == Elems(waiting[n])
<1>0. n \in Sites /\ waiting[n] \in Seq(Req) /\ Once(waiting[n]) /\ conns[n] \subseteq Conn
  BY DEF Sites, IInv, TypeOK, JInv, QueuedOnce
<1>1. /\ r \notin pending /\ r \notin W /\ W \subseteq pending
      /\ \A c \in Conn : r \notin Held(c) /\ Held(c) \subseteq pending
      /\ r \notin asked /\ pending \subseteq asked
  BY <1>0, HeldFacts DEF JInv, Books, RequestResource
<1>2. /\ q \in Seq(Req) /\ q # << >> /\ Once(q) /\ Elems(q) = W \cup {r}
  BY <1>0, <1>1, AppendElems, SeqFacts
<1>3. /\ Once(Tail(q)) /\ Elems(Tail(q)) = (W \cup {r}) \ {Head(q)}
      /\ Head(q) \in W \cup {r} /\ Head(q) \in Req
  BY <1>2, TailElems
<1>4. /\ pending' = pending \cup {r} /\ asked' = asked \cup {r}
      /\ UNCHANGED << reading, renderer, bad >>
  BY DEF RequestResource
<1>5. \A x \in W : Site[x] = n
  BY <1>0 DEF JInv, Apart
<1>6. \A c \in Conn : ~body[c] \/ active[c] # None
  BY DEF IInv, HasWork
<1>7. waiting[n] = << >> => Head(q) = r /\ Tail(q) = << >>
  BY <1>0
<1> HIDE DEF q
(* A connection that holds nothing is given the request h, in its queue or *)
(* on the wire.                                                            *)
<1>8. ASSUME NEW c \in Conn, Held(c) = {}, ~body[c],
             NEW h \in W \cup {r}, NEW a \in {h, None},
             active' = [active EXCEPT ![c] = a],
             submitted' = [submitted EXCEPT ![c] = IF a = h THEN << >> ELSE << h >>],
             NEW w, waiting' = [waiting EXCEPT ![n] = w],
             Once(w), Elems(w) = (W \cup {r}) \ {h}
      PROVE  QueuedOnce' /\ Apart' /\ Books' /\ BytesAddUp' /\ ToldSoFar' /\ ChecksHold'
  <2>0. h \in Req /\ h # None
    BY <1>0, SeqElems, NoneAssumption
  <2>1. /\ \A d \in Conn \ {c} : UNCHANGED << active[d], submitted[d] >>
        /\ active'[c] = a /\ submitted'[c] = IF a = h THEN << >> ELSE << h >>
    BY <1>8 DEF IInv, TypeOK
  <2>2. \A m \in Sites : waiting'[m] = IF m = n THEN w ELSE waiting[m]
    BY <1>0, <1>8 DEF IInv, TypeOK
  <2>3. QueuedOnce'
    <3>1. Once(submitted'[c]) /\ active'[c] \notin Elems(submitted'[c])
      BY <2>0, <2>1, ShortElems
    <3> QED
      BY <1>8, <2>1, <2>2, <3>1 DEF JInv, QueuedOnce
  <2>4. Held(c)' = {h} /\ \A d \in Conn \ {c} : Held(d)' = Held(d)
    BY <2>0, <2>1, ShortElems DEF Held
  <2>5. Apart' /\ Books'
    <3>1. \A d \in Conn : Held(d)' = IF d = c THEN {h} ELSE Held(d)
      BY <2>4
    <3>2. \A m \in Sites : Elems(waiting'[m]) = IF m = n THEN Elems(w) ELSE Elems(waiting[m])
      BY <2>2
    <3>3. /\ {h} \cap Elems(w) = {} /\ {r} \cap pending = {}
          /\ {h} \cup Elems(w) \subseteq Held(c) \cup Elems(waiting[n]) \cup {r}
          /\ \A x \in Elems(w) : Site[x] = n
          /\ pending' = (pending \ (Held(c) \cup Elems(waiting[n]))) \cup {h} \cup Elems(w)
          /\ pending' \subseteq asked'
      BY <1>1, <1>4, <1>5, <1>8
    <3> QED
      BY <1>0, <3>1, <3>2, <3>3, MoveBooks
  <2>6. UNCHANGED body
    BY <1>4 DEF reading
  <2>7. /\ \A x \in Req : BeingRead(x)' <=> BeingRead(x)
        /\ \A d \in Conn : body[d] => UNCHANGED active[d]
    BY <1>8, <2>1, <2>6 DEF BeingRead
  <2>8. BytesAddUp' /\ ToldSoFar' /\ ChecksHold'
    <3>1. {r} \cap asked = {}
      BY <1>1
    <3> QED
      BY <1>4, <2>7, <3>1, QuietStep
  <2> QED
    BY <2>3, <2>5, <2>8
<1>9. CASE \E c \in idle :
             LET e == Enqueue(state[c], submitted[c], active[c], Head(q)) IN
             /\ submitted' = [submitted EXCEPT ![c] = e[1]]
             /\ active' = [active EXCEPT ![c] = e[2]]
             /\ waiting' = [waiting EXCEPT ![n] = Tail(q)]
             /\ UNCHANGED << conns, state >>
  <2>1. PICK c \in idle :
             LET e == Enqueue(state[c], submitted[c], active[c], Head(q)) IN
             /\ submitted' = [submitted EXCEPT ![c] = e[1]]
             /\ active' = [active EXCEPT ![c] = e[2]]
             /\ waiting' = [waiting EXCEPT ![n] = Tail(q)]
             /\ UNCHANGED << conns, state >>
    BY <1>9
  <2>2. c \in Conn /\ submitted[c] = << >> /\ active[c] = None
    BY <1>0 DEF Busy
  <2> DEFINE h == Head(q)
             e == Enqueue(state[c], submitted[c], active[c], h)
             a == IF state[c] = "CONNECTED" THEN h ELSE None
  <2>3. h \in W \cup {r} /\ h \in Req /\ h # None
    BY <1>3, NoneAssumption
  <2>4. e[1] = (IF a = h THEN << >> ELSE << h >>) /\ e[2] = a
    <3> HIDE DEF h
    <3>1. Append(<< >>, h) = << h >> /\ Tail(<< h >>) = << >> /\ Head(<< h >>) = h
      BY <2>3
    <3> QED
      BY <2>2, <2>3, <3>1 DEF Enqueue
  <2>5. /\ active' = [active EXCEPT ![c] = a]
        /\ submitted' = [submitted EXCEPT ![c] = IF a = h THEN << >> ELSE << h >>]
        /\ waiting' = [waiting EXCEPT ![n] = Tail(q)]
    BY <2>1, <2>4
  <2>6. Held(c) = {} /\ ~body[c]
    BY <1>6, <2>2, ShortElems DEF Held
  <2>7. QueuedOnce' /\ Apart' /\ Books' /\ BytesAddUp' /\ ToldSoFar' /\ ChecksHold'
    <3>1. a \in {h, None}
      OBVIOUS
    <3> HIDE DEF a, h
    <3> QED
      BY <1>3, <1>8, <2>2, <2>3, <2>5, <2>6, <3>1 DEF h
  <2>8. NothingEarly'
    <3>1. state[c] # "none"
      BY <1>0 DEF IInv, OwnerKnown
    <3>2. \A d \in Conn \ {c} : UNCHANGED << active[d], submitted[d], state[d] >>
      BY <2>1, <2>5 DEF IInv, TypeOK
    <3>3. active'[c] = a /\ state'[c] = state[c]
      BY <2>1, <2>2, <2>5 DEF IInv, TypeOK
    <3> QED
      BY <3>1, <3>2, <3>3 DEF JInv, NothingEarly
  <2>9. FewConns'
    BY <2>1 DEF JInv, FewConns
  <2> QED
    BY <2>7, <2>8, <2>9 DEF JInv
<1>10. CASE /\ idle = {} /\ Cardinality(conns[n]) < MaxConns
            /\ \E c \in {d \in Conn : state[d] = "none"} :
              /\ conns' = [conns EXCEPT ![n] = @ \cup {c}]
              /\ state' = [state EXCEPT ![c] = "CONNECTING"]
              /\ submitted' = [submitted EXCEPT ![c] = << Head(q) >>]
              /\ waiting' = [waiting EXCEPT ![n] = Tail(q)]
              /\ UNCHANGED active
  <2>1. PICK c \in {d \in Conn : state[d] = "none"} :
              /\ conns' = [conns EXCEPT ![n] = @ \cup {c}]
              /\ state' = [state EXCEPT ![c] = "CONNECTING"]
              /\ submitted' = [submitted EXCEPT ![c] = << Head(q) >>]
              /\ waiting' = [waiting EXCEPT ![n] = Tail(q)]
              /\ UNCHANGED active
    BY <1>10
  <2>2. c \in Conn /\ submitted[c] = << >> /\ active[c] = None /\ state[c] = "none"
    BY <2>1 DEF JInv, NothingEarly
  <2>3. Held(c) = {} /\ ~body[c]
    BY <1>6, <2>2, ShortElems DEF Held
  <2> DEFINE h == Head(q)
  <2>4. h \in W \cup {r} /\ h # None
    BY <1>3, NoneAssumption
  <2>5. /\ active' = [active EXCEPT ![c] = None]
        /\ submitted' = [submitted EXCEPT ![c] = IF None = h THEN << >> ELSE << h >>]
    BY <2>1, <2>2, <2>4 DEF IInv, TypeOK
  <2>6. QueuedOnce' /\ Apart' /\ Books' /\ BytesAddUp' /\ ToldSoFar' /\ ChecksHold'
    <3>1. waiting' = [waiting EXCEPT ![n] = Tail(q)] /\ None \in {h, None}
      BY <2>1
    <3>2. Once(Tail(q)) /\ Elems(Tail(q)) = (W \cup {r}) \ {h}
      BY <1>3
    <3> HIDE DEF h
    <3> QED
      BY <1>8, <2>2, <2>3, <2>4, <2>5, <3>1, <3>2
  <2>7. NothingEarly'
    <3>1. \A d \in Conn \ {c} : UNCHANGED << submitted[d], state[d] >>
      BY <2>1 DEF IInv, TypeOK
    <3> QED
      BY <2>1, <2>2, <3>1 DEF JInv, NothingEarly, IInv, TypeOK
  <2>8. FewConns'
    <3>1. IsFiniteSet(conns[n]) /\ c \notin conns[n]
      BY <1>0, <2>2 DEF JInv, FewConns, IInv, OwnerKnown
    <3>2. IsFiniteSet(conns[n] \cup {c}) /\ Cardinality(conns[n] \cup {c}) = Cardinality(conns[n]) + 1
      BY <3>1, FS_AddElement
    <3>3. Cardinality(conns[n]) \in Nat /\ MaxConns \in Nat
      BY <3>1, FS_CardinalityType, SessionAssumption
    <3>4. \A m \in Sites : conns'[m] = IF m = n THEN conns[n] \cup {c} ELSE conns[m]
      BY <1>0, <2>1 DEF IInv, TypeOK
    <3>5. Cardinality(conns[n] \cup {c}) <= MaxConns
      BY <1>10, <3>2, <3>3
    <3> HIDE DEF n
    <3> QED
      BY <3>2, <3>4, <3>5 DEF JInv, FewConns
  <2> QED
    BY <2>6, <2>7, <2>8 DEF JInv
<1>11. CASE /\ idle = {} /\ Cardinality(conns[n]) >= MaxConns
            /\ waiting' = [waiting EXCEPT ![n] = q]
            /\ UNCHANGED << conns, state, submitted, active >>
  <2>1. PICK c \in conns[n] : c \in Conn
    <3>1. conns[n] # {}
      BY <1>11, FS_EmptySet, SessionAssumption
    <3> QED
      BY <1>0, <3>1
  <2>2. \A m \in Sites : waiting'[m] = IF m = n THEN q ELSE waiting[m]
    BY <1>0, <1>11 DEF IInv, TypeOK
  <2>3. NothingEarly' /\ FewConns'
    BY <1>11 DEF JInv, NothingEarly, FewConns
  <2>4. QueuedOnce'
    BY <1>2, <1>11, <2>2 DEF JInv, QueuedOnce
  <2>5. Apart' /\ Books'
    <3> DEFINE X == Held(c)
               Y == W \cup {r}
    <3>1. \A d \in Conn : Held(d)' = IF d = c THEN X ELSE Held(d)
      BY <1>11 DEF Held
    <3>2. \A m \in Sites : Elems(waiting'[m]) = IF m = n THEN Y ELSE Elems(waiting[m])
      BY <1>2, <2>2
    <3>3. /\ X \cap Y = {} /\ {r} \cap pending = {}
          /\ X \cup Y \subseteq Held(c) \cup Elems(waiting[n]) \cup {r}
          /\ \A x \in Y : Site[x] = n
          /\ pending' = (pending \ (Held(c) \cup Elems(waiting[n]))) \cup X \cup Y
          /\ pending' \subseteq asked'
      BY <1>0, <1>1, <1>4, <1>5, <2>1 DEF JInv, Apart
    <3> HIDE DEF n, W, X, Y
    <3> QED
      BY <1>0, <2>1, <3>1, <3>2, <3>3, MoveBooks
  <2>6. /\ \A x \in Req : BeingRead(x)' <=> BeingRead(x)
        /\ \A d \in Conn : body[d] => UNCHANGED active[d]
    BY <1>4, <1>11 DEF BeingRead, reading
  <2>7. BytesAddUp' /\ ToldSoFar' /\ ChecksHold'
    <3>1. {r} \cap asked = {}
      BY <1>1
    <3> QED
      BY <1>4, <2>6, <3>1, QuietStep
  <2> QED
    BY <2>3, <2>4, <2>5, <2>7 DEF JInv
<1> QED
  BY <1>9, <1>10, <1>11 DEF RequestResource, SubmitRequest, q

LEMMA ConnectedBooks ==
  ASSUME IInv, JInv, NEW c \in Conn, Connected(c)
  PROVE  JInv'
<1> DEFINE h == Head(submitted[c])
<1>1. /\ submitted[c] \in Seq(Req) /\ submitted[c] # << >> /\ Once(submitted[c])
      /\ active[c] = None /\ ~body[c] /\ Owner(c) \in Sites
  BY OwnerFact DEF Connected, IInv, HasWork, TypeOK, JInv, NothingEarly, QueuedOnce
<1>2. /\ Once(Tail(submitted[c])) /\ Elems(Tail(submitted[c])) = Elems(submitted[c]) \ {h}
      /\ h \in Elems(submitted[c]) /\ h \in Req
  BY <1>1, TailElems
<1>3. /\ \A d \in Conn \ {c} : UNCHANGED << active[d], submitted[d], state[d] >>
      /\ active'[c] = h /\ submitted'[c] = Tail(submitted[c]) /\ state'[c] = "CONNECTED"
      /\ UNCHANGED << pending, waiting, conns, reading, asked, renderer, bad >>
  BY DEF Connected, IInv, TypeOK
<1>4. NothingEarly' /\ FewConns'
  BY <1>3 DEF JInv, NothingEarly, FewConns
<1> HIDE DEF h
<1>5. QueuedOnce'
  BY <1>2, <1>3 DEF JInv, QueuedOnce
<1>6. Held(c)' = Held(c)
  BY <1>1, <1>2, <1>3, NoneAssumption DEF Held
<1>7. \A d \in Conn : Held(d)' = Held(d)
  BY <1>3, <1>6 DEF Held
<1>8. Apart' /\ Books'
  BY <1>3, <1>7 DEF JInv, Apart, Books
<1>9. /\ \A x \in Req : BeingRead(x)' <=> BeingRead(x)
      /\ \A d \in Conn : body[d] => UNCHANGED active[d]
  BY <1>1, <1>3 DEF BeingRead, reading
<1>10. BytesAddUp' /\ ToldSoFar' /\ ChecksHold'
  <2>1. {} \cap asked = {} /\ pending' = pending \cup {} /\ asked' = asked \cup {}
    BY <1>3
  <2> QED
    BY <1>3, <1>9, <2>1, QuietStep
<1> QED
  BY <1>4, <1>5, <1>8, <1>10 DEF JInv

-----------------------------------------------------------------------------
(* A request on the wire is on one connection, and pending.                *)
LEMMA OnOneConnection ==
  ASSUME IInv, JInv, NEW c \in Conn, active[c] # None
  PROVE  /\ active[c] \in Req /\ active[c] \in pending /\ active[c] \in asked
         /\ \A d \in Conn \ {c} : active[d] # active[c]
<1>1. active[c] \in Held(c) /\ active[c] \in pending
  BY HeldFacts
<1>2. \A d \in Conn : active[d] # None => active[d] \in Held(d)
  BY HeldFacts
<1> QED
  BY <1>1, <1>2 DEF JInv, Apart, Books, IInv, TypeOK

Ended(r) ==
  /\ pending' = pending \ {r}
  /\ \A x \in Req : ends'[x] = IF x = r THEN << TRUE >> ELSE ends[x]

(* The end of a response moves at most one request, from those that wait   *)
(* to the connection.                                                      *)
LEMMA DoneBooks ==
  ASSUME IInv, JInv, NEW c \in Conn, state[c] = "CONNECTED", active[c] # None,
         DoneWithResp(c), UNCHANGED << conns, state, asked >>
  PROVE  /\ NothingEarly' /\ QueuedOnce' /\ Apart' /\ Books' /\ FewConns'
         /\ Ended(active[c])
         /\ \A d \in Conn \ {c} : UNCHANGED active[d]
<1> DEFINE r == active[c]
           n == Owner(c)
           more == waiting[n] # << >>
           h == Head(waiting[n])
           q == IF more THEN Append(submitted[c], h) ELSE submitted[c]
           w == IF more THEN Tail(waiting[n]) ELSE waiting[n]
           W == Elems(waiting[n])
           S == Elems(submitted[c])
<1>1. /\ n \in Sites /\ waiting[n] \in Seq(Req) /\ Once(waiting[n])
      /\ submitted[c] \in Seq(Req) /\ Once(submitted[c]) /\ r \notin S
      /\ r \in Req /\ r # None /\ r \in pending
      /\ Held(c) = S \cup {r} /\ Held(c) \cap W = {}
  BY OwnerFact, OnOneConnection DEF IInv, TypeOK, JInv, QueuedOnce, Apart, Held
<1>2. /\ pending' = pending \ {r}
      /\ ends' = [ends EXCEPT ![r] = Append(@, TRUE)]
      /\ waiting' = IF more THEN [waiting EXCEPT ![n] = Tail(@)] ELSE waiting
      /\ active' = [active EXCEPT ![c] = IF q = << >> THEN None ELSE Head(q)]
      /\ submitted' = [submitted EXCEPT ![c] = IF q = << >> THEN q ELSE Tail(q)]
  BY DEF DoneWithResp
<1>3. \A x \in Req : ends'[x] = IF x = r THEN << TRUE >> ELSE ends[x]
  <2>1. ends[r] = << >> /\ ends \in [Req -> Seq(BOOLEAN)]
    BY <1>1 DEF JInv, ToldSoFar, ToldOf, IInv, TypeOK
  <2> HIDE DEF r
  <2>2. ends' = [ends EXCEPT ![r] = << TRUE >>]
    BY <1>1, <1>2, <2>1
  <2> QED
    BY <1>1, <2>1, <2>2
<1>4. more => /\ h \in W /\ h \in Req /\ Once(Tail(waiting[n])) /\ Elems(Tail(waiting[n])) = W \ {h}
              /\ h \notin S
  BY <1>1, TailElems
<1>5. q \in Seq(Req) /\ Once(q) /\ Elems(q) = IF more THEN S \cup {h} ELSE S
  <2> HIDE DEF h, more
  <2>1. CASE more
    <3>1. q = Append(submitted[c], h)
      BY <2>1
    <3> QED
      BY <1>1, <1>4, <2>1, <3>1, AppendElems, SeqFacts
  <2>2. CASE ~more
    BY <1>1, <2>2
  <2> QED
    BY <2>1, <2>2
<1>6. Once(w) /\ Elems(w) = IF more THEN W \ {h} ELSE W
  BY <1>1, <1>4
<1>7. \A m \in Sites : waiting'[m] = IF m = n THEN w ELSE waiting[m]
  BY <1>1, <1>2 DEF IInv, TypeOK
<1> HIDE DEF q, w, h
<1>8. /\ active'[c] = IF q = << >> THEN None ELSE Head(q)
      /\ submitted'[c] = IF q = << >> THEN q ELSE Tail(q)
      /\ \A d \in Conn \ {c} : UNCHANGED << active[d], submitted[d] >>
  BY <1>2 DEF IInv, TypeOK
<1>9. /\ Once(submitted'[c]) /\ active'[c] \notin Elems(submitted'[c])
      /\ Held(c)' = Elems(q)
  <2>1. CASE q = << >>
    BY <1>8, <2>1, ShortElems DEF Held
  <2>2. CASE q # << >>
    <3>1. /\ Once(Tail(q)) /\ Elems(Tail(q)) = Elems(q) \ {Head(q)}
          /\ Head(q) \in Elems(q) /\ Head(q) # None
      BY <1>5, <2>2, TailElems, NoneAssumption
    <3>2. active'[c] = Head(q) /\ submitted'[c] = Tail(q)
      BY <1>8, <2>2
    <3> QED
      BY <3>1, <3>2 DEF Held
  <2> QED
    BY <2>1, <2>2
<1>10. QueuedOnce'
  BY <1>6, <1>7, <1>8, <1>9 DEF JInv, QueuedOnce
<1>11. NothingEarly' /\ FewConns'
  BY <1>8 DEF JInv, NothingEarly, FewConns
<1>12. Apart' /\ Books'
  <2> DEFINE X == Elems(q)
             Y == Elems(w)
  <2>1. \A d \in Conn : Held(d)' = IF d = c THEN X ELSE Held(d)
    BY <1>8, <1>9 DEF Held
  <2>2. \A m \in Sites : Elems(waiting'[m]) = IF m = n THEN Y ELSE Elems(waiting[m])
    BY <1>7
  <2>3. W \subseteq pending /\ S \subseteq pending /\ \A x \in W : Site[x] = n
    BY <1>1, HeldFacts DEF JInv, Apart
  <2>4. X \cup Y = S \cup W /\ X \cap Y = {} /\ Y \subseteq W
    BY <1>1, <1>4, <1>5, <1>6
  <2>5. /\ X \cup Y \subseteq Held(c) \cup Elems(waiting[n]) \cup {} /\ {} \cap pending = {}
        /\ \A x \in Y : Site[x] = n
    BY <1>1, <2>3, <2>4
  <2>6. pending' = (pending \ (Held(c) \cup Elems(waiting[n]))) \cup X \cup Y
    BY <1>1, <1>2, <2>3, <2>4
  <2>7. pending' \subseteq asked'
    BY <1>2 DEF JInv, Books
  <2>8. n \in Sites /\ X \cap Y = {}
    BY <1>1, <2>4
  <2> HIDE DEF X, Y, n, W
  <2> QED
    BY <2>1, <2>2, <2>5, <2>6, <2>7, <2>8, MoveBooks
<1> QED
  BY <1>2, <1>3, <1>8, <1>10, <1>11, <1>12 DEF Ended

(* What the renderer is told of r at the end of its header, ...            *)
MetaEffect(r) ==
  /\ r \in pending /\ r \in asked /\ r \in Req /\ heads[r] = 0
  /\ \A x \in Req : heads'[x] = IF x = r THEN 1 ELSE heads[x]
  /\ UNCHANGED << asked, told >>
  /\ IF Size[r] > 0 THEN UNCHANGED << pending, ends >> ELSE Ended(r)

(* ... and of its body, of which k bytes are read.                         *)
BodyEffect(r, k) ==
  /\ r \in pending /\ r \in asked /\ r \in Req /\ heads[r] = 1
  /\ k \in 1..(Size[r] - told[r])
  /\ told' = [told EXCEPT ![r] = @ + k]
  /\ UNCHANGED << asked, heads >>
  /\ IF told[r] + k # Size[r] THEN UNCHANGED << pending, ends >> ELSE Ended(r)

LEMMA ReadMetaBooks ==
  ASSUME IInv, JInv, NEW c \in Conn, ReadMeta(c)
  PROVE  /\ JInv' /\ MetaEffect(active[c])
<1> DEFINE r == active[c]
<1>1. /\ state[c] = "CONNECTED" /\ r # None /\ ~body[c] /\ r \in Req /\ r \in pending
      /\ r \in asked /\ \A d \in Conn \ {c} : active[d] # r
      /\ Size[r] \in Nat
  BY OnOneConnection, SessionAssumption DEF ReadMeta
<1>2. ~BeingRead(r) /\ heads[r] = 0 /\ recvd[r] = 0 /\ told = recvd
  BY <1>1 DEF BeingRead, JInv, ToldSoFar, ToldOf, BytesAddUp
<1>3. /\ heads' = [heads EXCEPT ![r] = @ + 1] /\ left' = [left EXCEPT ![c] = Size[r]]
      /\ bad' = "no" /\ UNCHANGED << conns, state, recvd, asked, told >>
  BY <1>1 DEF ReadMeta
<1>4. /\ \A x \in Req : heads'[x] = IF x = r THEN 1 ELSE heads[x]
      /\ \A d \in Conn : left'[d] = IF d = c THEN Size[r] ELSE left[d]
  <2>1. heads \in [Req -> Nat] /\ left \in [Conn -> Nat]
    BY DEF IInv, TypeOK
  <2> HIDE DEF r
  <2> QED
    BY <1>1, <1>2, <1>3, <2>1
<1>5. CASE Size[r] > 0
  <2>1. body' = [body EXCEPT ![c] = TRUE] /\ UNCHANGED << pending, waiting, submitted, active, ends >>
    BY <1>5 DEF ReadMeta
  <2>2. \A d \in Conn : body'[d] = IF d = c THEN TRUE ELSE body[d]
    BY <2>1 DEF IInv, TypeOK
  <2>3. NothingEarly' /\ QueuedOnce' /\ Apart' /\ Books' /\ FewConns' /\ ChecksHold'
    BY <1>3, <2>1 DEF JInv, NothingEarly, QueuedOnce, Apart, Books, FewConns, ChecksHold, Held
  <2>4. BytesAddUp'
    BY <1>1, <1>2, <1>3, <1>4, <1>5, <2>1, <2>2 DEF JInv, BytesAddUp
  <2>5. \A x \in Req : BeingRead(x)' <=> x = r \/ BeingRead(x)
    BY <2>1, <2>2 DEF BeingRead
  <2>6. ToldSoFar'
    <3> SUFFICES ASSUME NEW x \in Req PROVE ToldOf(x)'
      BY DEF ToldSoFar
    <3>1. ToldOf(x)
      BY DEF JInv, ToldSoFar
    <3>2. CASE x = r
      BY <1>1, <1>2, <1>3, <1>4, <2>1, <2>5, <3>1, <3>2 DEF ToldOf
    <3>3. CASE x # r
      <4>1. /\ BeingRead(x)' <=> BeingRead(x)
            /\ x \in pending' <=> x \in pending
            /\ ends'[x] = ends[x]
            /\ heads'[x] = heads[x] /\ UNCHANGED << told, asked >>
        BY <1>1, <1>3, <1>4, <2>1, <2>5, <3>3 DEF BeingRead
      <4> QED
        BY <3>1, <4>1 DEF ToldOf
    <3> QED
      BY <3>2, <3>3
  <2>7. MetaEffect(r)
    BY <1>1, <1>2, <1>3, <1>4, <1>5, <2>1 DEF MetaEffect
  <2> QED
    BY <2>3, <2>4, <2>6, <2>7 DEF JInv
<1>6. CASE ~(Size[r] > 0)
  <2>1. DoneWithResp(c) /\ UNCHANGED body
    BY <1>6 DEF ReadMeta
  <2>2. /\ NothingEarly' /\ QueuedOnce' /\ Apart' /\ Books' /\ FewConns'
        /\ pending' = pending \ {r}
        /\ \A d \in Conn \ {c} : UNCHANGED active[d]
        /\ \A x \in Req : ends'[x] = IF x = r THEN << TRUE >> ELSE ends[x]
    BY <1>1, <1>3, <2>1, DoneBooks DEF Ended
  <2>3. BytesAddUp' /\ ChecksHold'
    BY <1>1, <1>3, <1>4, <2>1, <2>2 DEF JInv, BytesAddUp, ChecksHold
  <2>4. \A x \in Req : BeingRead(x)' <=> BeingRead(x)
    BY <1>1, <2>1, <2>2 DEF BeingRead
  <2>5. ToldSoFar'
    <3> SUFFICES ASSUME NEW x \in Req PROVE ToldOf(x)'
      BY DEF ToldSoFar
    <3>1. ToldOf(x)
      BY DEF JInv, ToldSoFar
    <3>2. CASE x = r
      BY <1>1, <1>2, <1>3, <1>4, <2>2, <2>4, <3>1, <3>2 DEF ToldOf
    <3>3. CASE x # r
      <4>1. /\ BeingRead(x)' <=> BeingRead(x)
            /\ x \in pending' <=> x \in pending
            /\ ends'[x] = ends[x]
            /\ heads'[x] = heads[x] /\ UNCHANGED << told, asked >>
        BY <1>1, <1>3, <1>4, <2>2, <2>4, <3>3 DEF BeingRead
      <4> QED
        BY <3>1, <4>1 DEF ToldOf
    <3> QED
      BY <3>2, <3>3
  <2>6. MetaEffect(r)
    BY <1>1, <1>2, <1>3, <1>4, <1>6, <2>2 DEF MetaEffect, Ended
  <2> QED
    BY <2>2, <2>3, <2>5, <2>6 DEF JInv
<1> QED
  BY <1>5, <1>6

LEMMA ReadBodyBooks ==
  ASSUME IInv, JInv, NEW c \in Conn, ReadBody(c)
  PROVE  JInv' /\ \E k : BodyEffect(active[c], k)
<1> DEFINE r == active[c]
<1>1. /\ state[c] = "CONNECTED" /\ r # None /\ body[c] /\ r \in Req /\ r \in pending
      /\ r \in asked /\ \A d \in Conn \ {c} : active[d] # r
      /\ left[c] \in Nat /\ recvd[r] \in Nat
  BY OnOneConnection DEF ReadBody, IInv, HasWork, TypeOK
<1>2. BeingRead(r) /\ heads[r] = 1 /\ recvd[r] + left[c] = Size[r] /\ told = recvd
  BY <1>1 DEF BeingRead, JInv, ToldSoFar, ToldOf, BytesAddUp
<1>3. PICK k \in ChunkSizes(c) :
       /\ left' = [left EXCEPT ![c] = @ - k]
       /\ recvd' = [recvd EXCEPT ![r] = @ + k]
       /\ told' = [told EXCEPT ![r] = @ + k]
       /\ bad' = CASE r \notin pending -> "unknown request"
                   [] r \in pending /\ k = left[c] /\ recvd[r] + k # Size[r] -> "wrong size"
                   [] OTHER -> "no"
       /\ IF k = left[c]
          THEN DoneWithResp(c) /\ body' = [body EXCEPT ![c] = FALSE]
          ELSE UNCHANGED << pending, waiting, submitted, active, ends, body >>
  BY DEF ReadBody
<1>4. k \in Nat /\ k > 0 /\ k <= left[c]
  <2>1. k \in 1..left[c] /\ left[c] \in Nat
    BY <1>1 DEF ChunkSizes
  <2> QED
    BY <2>1
<1>5. bad' = "no" /\ told' = recvd' /\ UNCHANGED << conns, state, asked, heads >>
  BY <1>1, <1>2, <1>3, <1>4 DEF ReadBody
<1>6. /\ \A x \in Req : recvd'[x] = IF x = r THEN recvd[r] + k ELSE recvd[x]
      /\ \A d \in Conn : left'[d] = IF d = c THEN left[c] - k ELSE left[d]
  BY <1>1, <1>3 DEF IInv, TypeOK
<1>7. CASE k = left[c]
  <2>1. DoneWithResp(c) /\ body' = [body EXCEPT ![c] = FALSE]
    BY <1>3, <1>7
  <2>2. /\ NothingEarly' /\ QueuedOnce' /\ Apart' /\ Books' /\ FewConns'
        /\ pending' = pending \ {r}
        /\ \A d \in Conn \ {c} : UNCHANGED active[d]
        /\ \A x \in Req : ends'[x] = IF x = r THEN << TRUE >> ELSE ends[x]
    BY <1>1, <1>5, <2>1, DoneBooks DEF Ended
  <2>3. \A d \in Conn : body'[d] = (d # c /\ body[d])
    BY <2>1 DEF IInv, TypeOK
  <2>4. \A d \in Conn : d # c /\ body[d] => active[d] \in Req
    BY DEF IInv, HasWork, TypeOK
  <2>5. BytesAddUp' /\ ChecksHold'
    <3>1. \A d \in Conn : body'[d] => /\ left'[d] = left[d] /\ active'[d] = active[d]
                                      /\ recvd'[active[d]] = recvd[active[d]] /\ body[d]
      BY <1>1, <1>6, <2>2, <2>3, <2>4
    <3> QED
      BY <1>5, <3>1 DEF JInv, BytesAddUp, ChecksHold
  <2>6. \A x \in Req \ {r} : BeingRead(x)' <=> BeingRead(x)
    BY <1>1, <2>2, <2>3 DEF BeingRead
  <2>7. ToldSoFar'
    <3> SUFFICES ASSUME NEW x \in Req PROVE ToldOf(x)'
      BY DEF ToldSoFar
    <3>1. ToldOf(x)
      BY DEF JInv, ToldSoFar
    <3>2. CASE x = r
      BY <1>1, <1>2, <1>5, <1>6, <2>2, <3>1, <3>2 DEF ToldOf
    <3>3. CASE x # r
      BY <1>1, <1>2, <1>5, <1>6, <2>2, <2>6, <3>1, <3>3 DEF ToldOf
    <3> QED
      BY <3>2, <3>3
  <2>8. BodyEffect(r, k)
    <3>1. told[r] + k = Size[r] /\ k \in 1..(Size[r] - told[r])
      BY <1>1, <1>2, <1>4, <1>7
    <3>2. Ended(r)
      BY <2>2 DEF Ended
    <3> QED
      BY <1>1, <1>2, <1>3, <1>5, <3>1, <3>2 DEF BodyEffect
  <2> QED
    BY <2>2, <2>5, <2>7, <2>8 DEF JInv
<1>8. CASE k # left[c]
  <2>1. UNCHANGED << pending, waiting, submitted, active, ends, body >>
    BY <1>3, <1>8
  <2>2. NothingEarly' /\ QueuedOnce' /\ Apart' /\ Books' /\ FewConns' /\ ChecksHold'
    BY <1>5, <2>1 DEF JInv, NothingEarly, QueuedOnce, Apart, Books, FewConns, ChecksHold, Held
  <2>3. \A d \in Conn : d # c /\ body[d] => active[d] \in Req
    BY DEF IInv, HasWork, TypeOK
  <2>4. BytesAddUp'
    <3>1. left'[c] > 0 /\ recvd'[r] + left'[c] = Size[r]
      BY <1>1, <1>2, <1>4, <1>6, <1>8
    <3> QED
      BY <1>1, <1>5, <1>6, <2>1, <2>3, <3>1 DEF JInv, BytesAddUp
  <2>5. \A x \in Req : BeingRead(x)' <=> BeingRead(x)
    BY <2>1 DEF BeingRead
  <2>6. ToldSoFar'
    BY <1>1, <1>2, <1>5, <1>6, <2>1, <2>5 DEF JInv, ToldSoFar, ToldOf
  <2>7. BodyEffect(r, k)
    <3>1. told[r] + k # Size[r] /\ k \in 1..(Size[r] - told[r])
      BY <1>1, <1>2, <1>4, <1>8
    <3> QED
      BY <1>1, <1>2, <1>3, <1>5, <2>1, <3>1 DEF BodyEffect
  <2> QED
    BY <2>2, <2>4, <2>6, <2>7 DEF JInv
<1> QED
  BY <1>7, <1>8

(* The requests in L fail.                                                 *)
LostEffect(L) ==
  /\ L \subseteq pending /\ L \subseteq asked /\ pending' = pending \ L
  /\ \A x \in Req : ends'[x] = IF x \in L THEN << FALSE >> ELSE ends[x]
  /\ UNCHANGED << asked, heads, told >>

LEMMA ConnectionEndsBooks ==
  ASSUME IInv, JInv, NEW c \in Conn, ConnectionEnds(c)
  PROVE  JInv' /\ \E L : LostEffect(L)
<1> DEFINE n == Owner(c)
           L == Lost(c, n)
           last == conns[n] = {c}
           W == Elems(waiting[n])
<1>1. state[c] # "none" /\ n \in Sites /\ c \in conns[n]
  BY OwnerFact DEF ConnectionEnds
<1>2. L = Held(c) \cup (IF last THEN W ELSE {}) /\ L \subseteq pending
  BY <1>1, HeldFacts DEF Lost, Held
<1>3. /\ conns' = [conns EXCEPT ![n] = @ \ {c}]
      /\ waiting' = IF last THEN [waiting EXCEPT ![n] = << >>] ELSE waiting
      /\ pending' = pending \ L
      /\ ends' = [r \in Req |-> IF r \in L THEN Append(ends[r], FALSE) ELSE ends[r]]
      /\ Destroy({c}) /\ bad' = "no"
      /\ UNCHANGED << recvd, asked, heads, told >>
  BY <1>2 DEF ConnectionEnds, HandleUnusable
<1>4. \A x \in Req : ends'[x] = IF x \in L THEN << FALSE >> ELSE ends[x]
  <2>0. Append(<< >>, FALSE) = << FALSE >> /\ L \subseteq Req
    <3>1. L \subseteq Req
      BY <1>2 DEF IInv, TypeOK
    <3> QED
      BY <3>1, AppendToEmpty
  <2>1. \A x \in L : ends[x] = << >> /\ Append(<< >>, FALSE) = << FALSE >>
    BY <1>2, <2>0 DEF JInv, ToldSoFar, ToldOf
  <2> HIDE DEF L
  <2> QED
    BY <1>3, <2>1
<1>5. /\ state'[c] = "none" /\ submitted'[c] = << >> /\ active'[c] = None
      /\ left'[c] = 0 /\ body'[c] = FALSE
      /\ \A d \in Conn \ {c} : UNCHANGED << state[d], submitted[d], active[d], left[d], body[d] >>
  BY <1>3 DEF Destroy
<1> HIDE DEF L
<1>6. \A m \in Sites : waiting'[m] = IF m = n /\ last THEN << >> ELSE waiting[m]
  BY <1>1, <1>3 DEF IInv, TypeOK
<1>7. \A m \in Sites : conns'[m] = IF m = n THEN conns[n] \ {c} ELSE conns[m]
  BY <1>1, <1>3 DEF IInv, TypeOK
<1> HIDE DEF n
<1>8. NothingEarly' /\ ChecksHold'
  BY <1>3, <1>5 DEF JInv, NothingEarly, ChecksHold
<1>9. QueuedOnce'
  BY <1>5, <1>6, ShortElems DEF JInv, QueuedOnce
<1>10. Apart' /\ Books'
  <2> DEFINE Y == IF last THEN {} ELSE W
  <2>1. \A d \in Conn : Held(d)' = IF d = c THEN {} ELSE Held(d)
    BY <1>5, ShortElems DEF Held
  <2>2. \A m \in Sites : Elems(waiting'[m]) = IF m = n THEN Y ELSE Elems(waiting[m])
    BY <1>6, ShortElems
  <2>3. W \subseteq pending /\ Held(c) \cap W = {} /\ \A x \in W : Site[x] = n
    BY <1>1, HeldFacts DEF JInv, Apart
  <2>4. /\ {} \cap Y = {} /\ {} \cup Y \subseteq Held(c) \cup Elems(waiting[n]) \cup {}
        /\ {} \cap pending = {} /\ \A x \in Y : Site[x] = n
    BY <2>3
  <2>5. pending' = (pending \ (Held(c) \cup Elems(waiting[n]))) \cup {} \cup Y
    BY <1>2, <1>3, <2>3
  <2>6. pending' \subseteq asked'
    BY <1>3 DEF JInv, Books
  <2> HIDE DEF Y, W
  <2> QED
    BY <1>1, <2>1, <2>2, <2>4, <2>5, <2>6, MoveBooks
<1>11. BytesAddUp'
  BY <1>3, <1>5 DEF JInv, BytesAddUp
<1>12. ToldSoFar'
  <2>1. \A x \in pending' : BeingRead(x)' <=> BeingRead(x)
    <3>1. \A x \in pending' : active[c] # x
      <4>1. active[c] \in L \/ active[c] = None
        BY <1>2, HeldFacts
      <4>2. None \notin pending
        BY NoneAssumption DEF IInv, TypeOK
      <4> QED
        BY <1>3, <4>1, <4>2
    <3> QED
      BY <1>5, <3>1 DEF BeingRead
  <2>2. pending' \subseteq pending /\ \A x \in Req : x \notin pending' => x \in L \/ x \notin pending
    BY <1>3
  <2>3. \A x \in L : x \in asked
    BY <1>2 DEF JInv, Books
  <2>4. \A x \in pending' : x \notin L
    BY <1>3
  <2> QED
    BY <1>3, <1>4, <2>1, <2>2, <2>3, <2>4 DEF JInv, ToldSoFar, ToldOf
<1>13. FewConns'
  <2>1. IsFiniteSet(conns[n]) /\ Cardinality(conns[n]) <= MaxConns
    BY <1>1 DEF JInv, FewConns
  <2>2. IsFiniteSet(conns[n] \ {c}) /\ Cardinality(conns[n] \ {c}) = Cardinality(conns[n]) - 1
    BY <1>1, <2>1, FS_RemoveElement
  <2>3. Cardinality(conns[n]) \in Nat /\ MaxConns \in Nat
    BY <2>1, FS_CardinalityType, SessionAssumption
  <2>4. Cardinality(conns[n] \ {c}) <= MaxConns
    BY <2>1, <2>2, <2>3
  <2> QED
    BY <1>7, <2>2, <2>4 DEF JInv, FewConns
<1>14. LostEffect(L)
  BY <1>2, <1>3, <1>4 DEF LostEffect, JInv, Books
<1> QED
  BY <1>8, <1>9, <1>10, <1>11, <1>12, <1>13, <1>14 DEF JInv

LEMMA ResetSessionBooks ==
  ASSUME IInv, JInv, ResetSession
  PROVE  JInv'
<1>1. /\ conns' = [n \in Sites |-> {}] /\ waiting' = [n \in Sites |-> << >>]
      /\ Destroy(Conn) /\ pending' = {} /\ UNCHANGED << recvd, asked, renderer, bad >>
  BY DEF ResetSession
<1>2. \A d \in Conn : /\ state'[d] = "none" /\ submitted'[d] = << >> /\ active'[d] = None
                      /\ body'[d] = FALSE
  BY <1>1 DEF Destroy
<1>3. NothingEarly' /\ ChecksHold' /\ BytesAddUp' /\ ToldSoFar'
  BY <1>1, <1>2 DEF JInv, NothingEarly, ChecksHold, BytesAddUp, ToldSoFar, ToldOf, renderer
<1>4. QueuedOnce' /\ Apart' /\ Books'
  BY <1>1, <1>2, ShortElems DEF JInv, QueuedOnce, Apart, Books, Held
<1>5. FewConns'
  <2>1. IsFiniteSet({}) /\ Cardinality({}) = 0 /\ 0 <= MaxConns
    BY FS_EmptySet, SessionAssumption
  <2> QED
    BY <1>1, <2>1 DEF FewConns
<1> QED
  BY <1>3, <1>4, <1>5 DEF JInv

LEMMA NextBooks == IInv /\ JInv /\ [Next]_vars => JInv'
<1> SUFFICES ASSUME IInv, JInv, [Next]_vars PROVE JInv'
  OBVIOUS
<1>1. CASE Next
  BY <1>1, RequestResourceBooks, ConnectedBooks, ReadMetaBooks, ReadBodyBooks,
     ConnectionEndsBooks, ResetSessionBooks DEF Next
<1>2. CASE UNCHANGED vars
  <2>1. UNCHANGED << conns, waiting, state, submitted, active, body, left, recvd, asked,
                     pending, told, heads, ends, bad >>
    BY <1>2 DEF vars, manager, reading, renderer
  <2>2. NothingEarly' /\ QueuedOnce' /\ Apart'
    BY <2>1 DEF JInv, NothingEarly, QueuedOnce, Apart, Held
  <2>3. Books' /\ BytesAddUp' /\ FewConns' /\ ChecksHold'
    BY <2>1 DEF JInv, Books, BytesAddUp, FewConns, ChecksHold, Held
  <2>4. ToldSoFar'
    <3>1. \A x \in Req : BeingRead(x)' <=> BeingRead(x)
      BY <2>1 DEF BeingRead
    <3> QED
      BY <2>1, <3>1 DEF JInv, ToldSoFar, ToldOf
  <2> QED
    BY <2>2, <2>3, <2>4 DEF JInv
<1> QED
  BY <1>1, <1>2

-----------------------------------------------------------------------------
(* A request is in the one place where it is held or waits.                *)
LEMMA SlotsOnce ==
  ASSUME NEW q, NEW r, Once(q)
  PROVE  /\ r \in Elems(q) => \E i : Slots(q, r) = {i}
         /\ r \notin Elems(q) => Slots(q, r) = {}
  BY DEF Once, Elems, Slots

LEMMA CountedOnce == IInv /\ JInv => InOnePlace
<1> SUFFICES ASSUME IInv, JInv, NEW r \in Req
             PROVE  Cardinality(Places(r)) = IF r \in pending THEN 1 ELSE 0
  BY DEF InOnePlace
<1>1. /\ \A n \in Sites : r \notin Elems(waiting[n]) => Slots(waiting[n], r) = {}
      /\ \A n \in Sites : r \in Elems(waiting[n]) => \E i : Slots(waiting[n], r) = {i}
      /\ \A c \in Conn : r \notin Elems(submitted[c]) => Slots(submitted[c], r) = {}
      /\ \A c \in Conn : r \in Elems(submitted[c]) => \E i : Slots(submitted[c], r) = {i}
  BY SlotsOnce DEF JInv, QueuedOnce
<1>2. \A c \in Conn : r \in Held(c) <=> r \in Elems(submitted[c]) \/ r = active[c]
  BY NoneAssumption DEF Held
<1>3. \A S : (\E p : S = {p}) => Cardinality(S) = 1
  BY FS_Singleton
<1> DEFINE PW == UNION {{<< "waiting", n, i >> : i \in Slots(waiting[n], r)} : n \in Sites}
           PS == UNION {{<< "submitted", c, i >> : i \in Slots(submitted[c], r)} : c \in Conn}
           PA == {<< "active", c, 1 >> : c \in {d \in Conn : active[d] = r}}
<1>3a. Places(r) = PW \cup PS \cup PA
  BY DEF Places
<1>3b. (\A n \in Sites : r \notin Elems(waiting[n])) => PW = {}
  BY <1>1
<1>3c. (\A c \in Conn : r \notin Held(c)) => PS = {} /\ PA = {}
  BY <1>1, <1>2
<1>4. CASE \E n \in Sites : r \in Elems(waiting[n])
  <2>1. PICK n \in Sites : r \in Elems(waiting[n])
    BY <1>4
  <2>2. /\ r \in pending /\ \A c \in Conn : r \notin Held(c)
        /\ \A m \in Sites \ {n} : r \notin Elems(waiting[m])
    BY <2>1, HeldFacts DEF JInv, Apart
  <2>3. PICK i : Slots(waiting[n], r) = {i}
    BY <1>1, <2>1
  <2>4. PW = {<< "waiting", n, i >>}
    <3>1. \A m \in Sites : m # n => Slots(waiting[m], r) = {}
      BY <1>1, <2>2
    <3>2. \A p \in PW : p = << "waiting", n, i >>
      BY <2>3, <3>1
    <3>3. << "waiting", n, i >> \in {<< "waiting", n, j >> : j \in Slots(waiting[n], r)}
      BY <2>3
    <3>4. << "waiting", n, i >> \in PW
      BY <3>3
    <3> HIDE DEF PW
    <3> QED
      BY <3>2, <3>4
  <2>5. Places(r) = {<< "waiting", n, i >>}
    BY <1>3a, <1>3c, <2>2, <2>4
  <2> QED
    BY <1>3, <2>2, <2>5
<1>5. CASE \E c \in Conn : r \in Held(c)
  <2>1. PICK c \in Conn : r \in Held(c)
    BY <1>5
  <2>2. /\ r \in pending /\ \A d \in Conn \ {c} : r \notin Held(d)
        /\ \A m \in Sites : r \notin Elems(waiting[m])
    BY <2>1, HeldFacts DEF JInv, Apart
  <2>3. CASE r = active[c]
    <3>1. r \notin Elems(submitted[c])
      BY <2>3 DEF JInv, QueuedOnce
    <3>2. PA = {<< "active", c, 1 >>}
      BY <1>2, <2>2, <2>3
    <3>3. PS = {}
      BY <1>1, <1>2, <2>2, <3>1
    <3>4. Places(r) = {<< "active", c, 1 >>}
      BY <1>3a, <1>3b, <2>2, <3>2, <3>3
    <3> QED
      BY <1>3, <2>2, <3>4
  <2>4. CASE r # active[c]
    <3>1. r \in Elems(submitted[c])
      BY <1>2, <2>1, <2>4
    <3>2. PICK i : Slots(submitted[c], r) = {i}
      BY <1>1, <3>1
    <3>3. \A d \in Conn : d # c => Slots(submitted[d], r) = {}
      BY <1>1, <1>2, <2>2
    <3>4. \A p \in PS : p = << "submitted", c, i >>
      BY <3>2, <3>3
    <3>5. << "submitted", c, i >> \in {<< "submitted", c, j >> : j \in Slots(submitted[c], r)}
      BY <3>2
    <3>6. << "submitted", c, i >> \in PS
      BY <3>5
    <3>7. PA = {}
      BY <1>2, <2>2, <2>4
    <3> HIDE DEF PW, PS, PA
    <3>8. Places(r) = {<< "submitted", c, i >>}
      BY <1>3a, <1>3b, <2>2, <3>4, <3>6, <3>7
    <3> QED
      BY <1>3, <2>2, <3>8
  <2> QED
    BY <2>3, <2>4
<1>6. CASE /\ \A c \in Conn : r \notin Held(c)
           /\ \A n \in Sites : r \notin Elems(waiting[n])
  <2>1. r \notin pending
    BY <1>6 DEF JInv, Books
  <2>2. Places(r) = {}
    BY <1>1, <1>2, <1>6 DEF Places
  <2> QED
    BY <2>1, <2>2, FS_EmptySet
<1> QED
  BY <1>4, <1>5, <1>6

(* For any requests, servers, connections and limit: each pending request  *)
(* is in exactly one queue and each queued one is pending, so no report is *)
(* about a request the session does not know; every body that ends has the *)
(* size announced; and no server has more connections than allowed.        *)
THEOREM SessionStaysSafe == Spec => []SessionIsSafe
<1>1. IInv /\ JInv => SessionIsSafe
  BY CountedOnce DEF IInv, JInv, FewConns, SessionIsSafe, WithinLimit
<1> QED
  BY <1>1, InitInv, InitBooks, NextInv, NextBooks, PTL DEF Spec

-----------------------------------------------------------------------------
(* What the renderer can tell of each request.                             *)
LifeOk ==
  \A r \in Req :
    /\ r \notin asked => Life(r) = "new" /\ told[r] = 0
    /\ r \in pending => /\ r \in asked
                        /\ heads[r] = 0 => Life(r) = "asked"
                        /\ heads[r] # 0 => Life(r) = "answered"
    /\ r \in asked \ pending => /\ ends[r] = << TRUE >> => Life(r) = "ok"
                                /\ ends[r] = << FALSE >> => Life(r) = "failed"
                                /\ ends[r] = << >> => Life(r) = "dropped"
                                /\ Life(r) \in {"ok", "failed", "dropped"}

LEMMA LifeFacts == IInv /\ JInv => LifeOk
<1> SUFFICES ASSUME IInv, JInv, NEW r \in Req
             PROVE  /\ r \notin asked => Life(r) = "new" /\ told[r] = 0
                    /\ r \in pending => /\ r \in asked
                                        /\ heads[r] = 0 => Life(r) = "asked"
                                        /\ heads[r] # 0 => Life(r) = "answered"
                    /\ r \in asked \ pending =>
                         /\ ends[r] = << TRUE >> => Life(r) = "ok"
                         /\ ends[r] = << FALSE >> => Life(r) = "failed"
                         /\ ends[r] = << >> => Life(r) = "dropped"
                         /\ Life(r) \in {"ok", "failed", "dropped"}
  BY DEF LifeOk
<1>1. << TRUE >> # << >> /\ << FALSE >> # << >> /\ << TRUE >> # << FALSE >>
  OBVIOUS
<1>2. CASE r \notin asked
  <2>1. r \notin pending /\ ends[r] = << >> /\ told[r] = 0
    BY <1>2 DEF JInv, ToldSoFar, ToldOf, Books
  <2> QED
    BY <1>1, <1>2, <2>1 DEF Life
<1>3. CASE r \in pending
  <2>1. r \in asked /\ ends[r] = << >> /\ (heads[r] = 0 \/ heads[r] = 1)
    BY <1>3 DEF JInv, ToldSoFar, ToldOf, Books
  <2> QED
    BY <1>1, <1>3, <2>1 DEF Life
<1>4. CASE r \in asked \ pending
  <2>1. ends[r] = << >> \/ ends[r] = << TRUE >> \/ ends[r] = << FALSE >>
    BY <1>4 DEF JInv, ToldSoFar, ToldOf
  <2> QED
    BY <1>1, <1>4, <2>1 DEF Life
<1> QED
  BY <1>2, <1>3, <1>4

LifeNow == [r \in Req |-> Life(r)]

(* A step changes the life of one request, or of none.                     *)
LEMMA OneLife ==
  ASSUME NEW r \in Req, NEW v, Life(r)' = v, \A x \in Req \ {r} : Life(x)' = Life(x)
  PROVE  LifeNow' = [LifeNow EXCEPT ![r] = v]
  BY DEF LifeNow

LEMMA StepSeen ==
  IInv /\ JInv /\ LifeOk /\ LifeOk' /\ [Next]_vars => [R!LNext]_<< LifeNow, told >>
<1> SUFFICES ASSUME IInv, JInv, LifeOk, LifeOk', [Next]_vars
             PROVE  R!LNext \/ UNCHANGED << LifeNow, told >>
  OBVIOUS
<1>1. ASSUME NEW r \in Req, RequestResource(r) PROVE R!LNext
  <2>1. /\ r \notin asked /\ pending' = pending \cup {r} /\ asked' = asked \cup {r}
        /\ UNCHANGED << heads, told, ends >>
    BY <1>1 DEF RequestResource, renderer
  <2>2. heads[r] = 0
    BY <2>1 DEF JInv, ToldSoFar, ToldOf
  <2>3. Life(r) = "new" /\ Life(r)' = "asked"
    BY <2>1, <2>2 DEF LifeOk
  <2>4. \A x \in Req \ {r} : Life(x)' = Life(x)
    BY <2>1 DEF Life
  <2>5. LifeNow' = [LifeNow EXCEPT ![r] = "asked"] /\ LifeNow[r] = "new"
    BY <2>3, <2>4, OneLife DEF LifeNow
  <2>6. R!Ask(r)
    BY <2>1, <2>5 DEF R!Ask, LifeNow
  <2> QED
    BY <2>6 DEF R!LNext
<1>2. ASSUME NEW c \in Conn, Connected(c) PROVE UNCHANGED << LifeNow, told >>
  BY <1>2 DEF Connected, renderer, LifeNow, Life
<1>3. ASSUME NEW c \in Conn, ReadMeta(c) PROVE R!LNext
  <2>1. PICK r : MetaEffect(r)
    BY <1>3, ReadMetaBooks
  <2>2. Size[r] \in Nat /\ r \in Req /\ r \in asked /\ r \in pending /\ Life(r) = "asked"
    BY <2>1, SessionAssumption DEF MetaEffect, LifeOk
  <2>3. \A x \in Req \ {r} : Life(x)' = Life(x)
    BY <2>1 DEF Life, MetaEffect, Ended
  <2>4. Life(r)' = IF Size[r] = 0 THEN "ok" ELSE "answered"
    <3>1. CASE Size[r] = 0
      <4>1. r \in asked' \ pending' /\ ends'[r] = << TRUE >>
        <5>1. Ended(r) /\ asked' = asked
          BY <2>1, <2>2, <3>1 DEF MetaEffect
        <5> QED
          BY <2>2, <5>1 DEF Ended
      <4> QED
        BY <2>2, <3>1, <4>1 DEF LifeOk
    <3>2. CASE Size[r] # 0
      <4>1. r \in pending' /\ heads'[r] # 0
        BY <2>1, <2>2, <3>2 DEF MetaEffect
      <4> QED
        BY <2>2, <3>2, <4>1 DEF LifeOk
    <3> QED
      BY <3>1, <3>2
  <2>5. LifeNow' = [LifeNow EXCEPT ![r] = IF Size[r] = 0 THEN "ok" ELSE "answered"]
    BY <2>2, <2>3, <2>4, OneLife
  <2>6. R!Answer(r)
    BY <2>1, <2>2, <2>5 DEF R!Answer, LifeNow, MetaEffect
  <2> QED
    BY <2>2, <2>6 DEF R!LNext
<1>4. ASSUME NEW c \in Conn, ReadBody(c) PROVE R!LNext
  <2>1. PICK r, k : BodyEffect(r, k)
    BY <1>4, ReadBodyBooks
  <2>2. r \in Req /\ r \in asked /\ r \in pending /\ Life(r) = "answered"
    <3>1. r \in Req /\ r \in asked /\ r \in pending /\ heads[r] = 1
      BY <2>1 DEF BodyEffect
    <3>2. heads[r] # 0
      BY <3>1
    <3>3. Life(r) = "answered"
      BY <3>1, <3>2, Zenon DEF LifeOk
    <3> QED
      BY <3>1, <3>3
  <2>3. \A x \in Req \ {r} : Life(x)' = Life(x)
    BY <2>1 DEF Life, BodyEffect, Ended
  <2>4. Life(r)' = IF told[r] + k = Size[r] THEN "ok" ELSE "answered"
    <3>1. CASE told[r] + k = Size[r]
      <4>1. r \in asked' \ pending' /\ ends'[r] = << TRUE >>
        BY <2>1, <2>2, <3>1 DEF BodyEffect, Ended
      <4> QED
        BY <2>2, <3>1, <4>1 DEF LifeOk
    <3>2. CASE told[r] + k # Size[r]
      <4>1. r \in pending' /\ heads'[r] # 0
        BY <2>1, <2>2, <3>2 DEF BodyEffect
      <4> QED
        BY <2>2, <3>2, <4>1 DEF LifeOk
    <3> QED
      BY <3>1, <3>2
  <2>5. LifeNow' = [LifeNow EXCEPT ![r] = IF told[r] + k = Size[r] THEN "ok" ELSE "answered"]
    BY <2>2, <2>3, <2>4, OneLife
  <2>6. R!Body(r)
    <3>1. k \in 1..(Size[r] - told[r]) /\ told' = [told EXCEPT ![r] = @ + k]
      BY <2>1 DEF BodyEffect
    <3> QED
      BY <2>2, <2>5, <3>1 DEF R!Body, LifeNow
  <2> QED
    BY <2>2, <2>6 DEF R!LNext
<1>5. ASSUME NEW c \in Conn, ConnectionEnds(c) PROVE R!LNext
  <2>1. PICK L : LostEffect(L)
    BY <1>5, ConnectionEndsBooks
  <2>2. L \subseteq R!Open
    BY <2>1 DEF LostEffect, LifeOk, R!Open, IInv, TypeOK
  <2>3. \A x \in Req \ L : Life(x)' = Life(x)
    BY <2>1 DEF LostEffect, Life
  <2>4. \A x \in L : x \in Req => Life(x)' = "failed"
    BY <2>1 DEF LostEffect, LifeOk
  <2>5. LifeNow' = [x \in Req |-> IF x \in L THEN "failed" ELSE LifeNow[x]]
    BY <2>3, <2>4 DEF LifeNow
  <2>6. R!Fail
    BY <2>1, <2>2, <2>5 DEF R!Fail, LifeNow, LostEffect
  <2> QED
    BY <2>6 DEF R!LNext
<1>6. ASSUME ResetSession PROVE R!LNext
  <2>1. pending' = {} /\ UNCHANGED << asked, heads, told, ends >>
    BY <1>6 DEF ResetSession, renderer
  <2>2. \A x \in Req : Life(x)' = IF x \in pending THEN "dropped" ELSE Life(x)
    <3>1. ASSUME NEW x \in pending PROVE x \in Req /\ Life(x)' = "dropped"
      <4>1. x \in Req /\ x \in asked' \ pending' /\ ends'[x] = << >>
        BY <2>1 DEF JInv, ToldSoFar, ToldOf, Books, IInv, TypeOK
      <4> QED
        BY <4>1 DEF LifeOk
    <3>2. ASSUME NEW x \in Req \ pending PROVE Life(x)' = Life(x)
      BY <2>1 DEF Life
    <3> QED
      BY <3>1, <3>2
  <2>3. \A x \in Req : Life(x) \in {"asked", "answered"} <=> x \in pending
    BY DEF LifeOk
  <2>4. LifeNow' = [x \in Req |-> IF x \in R!Open THEN "dropped" ELSE LifeNow[x]]
    BY <2>2, <2>3 DEF LifeNow, R!Open
  <2>5. R!Drop
    BY <2>1, <2>4 DEF R!Drop, LifeNow
  <2> QED
    BY <2>5 DEF R!LNext
<1>7. ASSUME UNCHANGED vars PROVE UNCHANGED << LifeNow, told >>
  BY <1>7 DEF vars, renderer, LifeNow, Life
<1> QED
  BY <1>1, <1>2, <1>3, <1>4, <1>5, <1>6, <1>7 DEF Next

LEMMA InitSeen == Init => R!LInit
<1> SUFFICES ASSUME Init PROVE R!LInit
  OBVIOUS
<1>1. \A r \in Req : Life(r) = "new"
  <2>1. << TRUE >> # << >> /\ << FALSE >> # << >>
    OBVIOUS
  <2>2. asked = {} /\ pending = {} /\ \A r \in Req : ends[r] = << >>
    BY DEF Init
  <2> QED
    BY <2>1, <2>2 DEF Life
<1> QED
  BY <1>1 DEF Init, R!LInit

(* For any requests, servers and limit, the session keeps what the         *)
(* renderer may expect of each request: the response is announced once,    *)
(* its bytes follow and end with exactly the size announced, it is ended   *)
(* once, and nothing is heard of it after a reset.                         *)
THEOREM RendererSeesLife == Spec => RendererSees
<1>1. Spec => [](IInv /\ JInv)
  BY InitInv, InitBooks, NextInv, NextBooks, PTL DEF Spec
<1>2. [](IInv /\ JInv) => [](IInv /\ JInv /\ LifeOk)
  BY LifeFacts, PTL
<1>3. Spec => R!LInit /\ [][R!LNext]_<< LifeNow, told >>
  BY <1>1, <1>2, InitSeen, StepSeen, PTL DEF Spec
<1> QED
  BY <1>3, PTL DEF RendererSees, R!LSpec, LifeNow

-----------------------------------------------------------------------------
(* ONE EXCHANGE                                                            *)

(* A set of numbers has a least one.                                       *)
LEMMA HasLeast ==
  ASSUME NEW T, T \subseteq Nat, T # {}
  PROVE  \E x \in T : \A y \in T : x <= y
<1> DEFINE Less == OpToRel(<, Nat)
<1>1. IsWellFoundedOn(Less, Nat)
  BY NatLessThanWellFounded
<1>2. \A x, y \in Nat : x < y => <<x, y>> \in Less
  BY DEF OpToRel
<1> HIDE DEF Less
<1>3. PICK x \in T : \A y \in T : ~(<<y, x>> \in Less)
  BY <1>1, WFMin
<1>4. \A y \in T : y \in Nat /\ x \in Nat /\ ~(y < x)
  BY <1>2, <1>3
<1> QED BY <1>3, <1>4

(* A set of numbers that holds 0, and what comes after each, holds all.    *)
LEMMA HoldsAll ==
  ASSUME NEW m \in Nat, NEW G, 0 \in G, \A n \in 0..m : n < m /\ n \in G => n + 1 \in G
  PROVE  \A n \in 0..m : n \in G
<1> SUFFICES ASSUME \E n \in 0..m : n \notin G
             PROVE  FALSE
  OBVIOUS
<1> DEFINE T == {n \in 0..m : n \notin G}
<1>1. T \subseteq Nat /\ T # {}
  OBVIOUS
<1>2. PICK x \in T : \A y \in T : x <= y
  BY <1>1, HasLeast
<1>3. x \in 0..m /\ x \notin G /\ x # 0
  BY <1>2
<1>4. x - 1 \in 0..m /\ x - 1 < m /\ x - 1 \notin T
  BY <1>2, <1>3
<1>5. x - 1 \in G
  BY <1>4
<1>6. (x - 1) + 1 \in G
  BY <1>4, <1>5
<1> QED BY <1>3, <1>6

(* The turns of the client's loop, and of the server's.                    *)
ClientTurns(c) ==
  CHOOSE after : after = [n \in 0..Len(c.in) |-> IF n = 0 THEN c ELSE ReadRspLine(after[n - 1])]

(* The loop of _maybe_http_consume_input, one turn after another.          *)
LEMMA ClientTurned ==
  ASSUME NEW c, Len(c.in) \in Nat
  PROVE  LET t == ClientTurns(c)
         IN  /\ t[0] = c
             /\ \A n \in 0..Len(c.in) : n < Len(c.in) => t[n + 1] = ReadRspLine(t[n])
             /\ ClientConsume(c) = IF t[Len(c.in)].reading = "BODY"
                                   THEN ReadRspBody(t[Len(c.in)]) ELSE t[Len(c.in)]
<1> DEFINE t == ClientTurns(c)
           m == Len(c.in)
           Up(g, k) == g = [n \in 0..k |-> IF n = 0 THEN c ELSE ReadRspLine(g[n - 1])]
           G == {k \in Nat : \E g : Up(g, k)}
<1>1. 0 \in G
  <2> DEFINE g == [n \in 0..0 |-> c]
  <2>1. g = [n \in 0..0 |-> IF n = 0 THEN c ELSE ReadRspLine(g[n - 1])]
    OBVIOUS
  <2> QED BY <2>1
<1>2. \A k \in 0..m : k < m /\ k \in G => k + 1 \in G
  <2> SUFFICES ASSUME NEW k \in 0..m, k \in G
               PROVE  k + 1 \in G
    OBVIOUS
  <2>1. PICK g : Up(g, k)
    OBVIOUS
  <2> DEFINE h == [n \in 0..(k + 1) |-> IF n = k + 1 THEN ReadRspLine(g[k]) ELSE g[n]]
  <2>2. ASSUME NEW n \in 0..(k + 1)
        PROVE  h[n] = IF n = 0 THEN c ELSE ReadRspLine(h[n - 1])
    <3>1. CASE n = k + 1
      <4>1. h[n] = ReadRspLine(g[k]) /\ n - 1 = k /\ n # 0
        BY <3>1
      <4>2. h[k] = g[k]
        OBVIOUS
      <4> QED BY <4>1, <4>2
    <3>2. CASE n # k + 1
      <4>1. n \in 0..k /\ h[n] = g[n]
        BY <3>2
      <4>2. g[n] = IF n = 0 THEN c ELSE ReadRspLine(g[n - 1])
        BY <2>1, <4>1
      <4>3. n # 0 => h[n - 1] = g[n - 1]
        BY <4>1
      <4> HIDE DEF h
      <4> QED BY <4>1, <4>2, <4>3
    <3> QED BY <3>1, <3>2
  <2>3. Up(h, k + 1)
    <3>1. h = [n \in 0..(k + 1) |-> h[n]]
      OBVIOUS
    <3> HIDE DEF h
    <3> QED BY <2>2, <3>1
  <2> HIDE DEF h
  <2>4. \E f : Up(f, k + 1)
    BY <2>3
  <2> HIDE DEF Up
  <2> QED BY <2>4
<1> HIDE DEF G
<1>3. m \in G
  <2>1. m \in Nat /\ m \in 0..m
    OBVIOUS
  <2> HIDE DEF m
  <2>2. \A n \in 0..m : n \in G
    BY <1>1, <1>2, <2>1, HoldsAll
  <2> QED BY <2>1, <2>2
<1>4. \E g : Up(g, m)
  BY <1>3 DEF G
<1>5. t = [n \in 0..m |-> IF n = 0 THEN c ELSE ReadRspLine(t[n - 1])]
  BY <1>4 DEF ClientTurns
<1>6. ClientConsume(c) = IF t[m].reading = "BODY" THEN ReadRspBody(t[m]) ELSE t[m]
  BY DEF ClientConsume, ClientTurns
<1> HIDE DEF t
<1>7. t[0] = c
  BY <1>5
<1>8. ASSUME NEW n \in 0..m, n < m
      PROVE  t[n + 1] = ReadRspLine(t[n])
  <2>1. n + 1 \in 0..m /\ n + 1 # 0 /\ (n + 1) - 1 = n
    BY <1>8
  <2> QED BY <1>5, <2>1
<1> QED BY <1>6, <1>7, <1>8 DEF t

ServerTurns(s) ==
  CHOOSE after : after = [n \in 0..Len(s.in) |-> IF n = 0 THEN s ELSE ReadRequest(after[n - 1])]

(* The loop of _maybe_consume_input, one turn after another.               *)
LEMMA ServerTurned ==
  ASSUME NEW s, Len(s.in) \in Nat
  PROVE  LET t == ServerTurns(s)
         IN  /\ t[0] = s
             /\ \A n \in 0..Len(s.in) : n < Len(s.in) => t[n + 1] = ReadRequest(t[n])
             /\ ServerConsume(s) = t[Len(s.in)]
<1> DEFINE t == ServerTurns(s)
           m == Len(s.in)
           Up(g, k) == g = [n \in 0..k |-> IF n = 0 THEN s ELSE ReadRequest(g[n - 1])]
           G == {k \in Nat : \E g : Up(g, k)}
<1>1. 0 \in G
  <2> DEFINE g == [n \in 0..0 |-> s]
  <2>1. g = [n \in 0..0 |-> IF n = 0 THEN s ELSE ReadRequest(g[n - 1])]
    OBVIOUS
  <2> QED BY <2>1
<1>2. \A k \in 0..m : k < m /\ k \in G => k + 1 \in G
  <2> SUFFICES ASSUME NEW k \in 0..m, k \in G
               PROVE  k + 1 \in G
    OBVIOUS
  <2>1. PICK g : Up(g, k)
    OBVIOUS
  <2> DEFINE h == [n \in 0..(k + 1) |-> IF n = k + 1 THEN ReadRequest(g[k]) ELSE g[n]]
  <2>2. ASSUME NEW n \in 0..(k + 1)
        PROVE  h[n] = IF n = 0 THEN s ELSE ReadRequest(h[n - 1])
    <3>1. CASE n = k + 1
      <4>1. h[n] = ReadRequest(g[k]) /\ n - 1 = k /\ n # 0
        BY <3>1
      <4>2. h[k] = g[k]
        OBVIOUS
      <4> QED BY <4>1, <4>2
    <3>2. CASE n # k + 1
      <4>1. n \in 0..k /\ h[n] = g[n]
        BY <3>2
      <4>2. g[n] = IF n = 0 THEN s ELSE ReadRequest(g[n - 1])
        BY <2>1, <4>1
      <4>3. n # 0 => h[n - 1] = g[n - 1]
        BY <4>1
      <4> HIDE DEF h
      <4> QED BY <4>1, <4>2, <4>3
    <3> QED BY <3>1, <3>2
  <2>3. Up(h, k + 1)
    <3>1. h = [n \in 0..(k + 1) |-> h[n]]
      OBVIOUS
    <3> HIDE DEF h
    <3> QED BY <2>2, <3>1
  <2> HIDE DEF h
  <2>4. \E f : Up(f, k + 1)
    BY <2>3
  <2> HIDE DEF Up
  <2> QED BY <2>4
<1> HIDE DEF G
<1>3. m \in G
  <2>1. m \in Nat /\ m \in 0..m
    OBVIOUS
  <2> HIDE DEF m
  <2>2. \A n \in 0..m : n \in G
    BY <1>1, <1>2, <2>1, HoldsAll
  <2> QED BY <2>1, <2>2
<1>4. \E g : Up(g, m)
  BY <1>3 DEF G
<1>5. t = [n \in 0..m |-> IF n = 0 THEN s ELSE ReadRequest(t[n - 1])]
  BY <1>4 DEF ServerTurns
<1>6. ServerConsume(s) = t[m]
  BY DEF ServerConsume, ServerTurns
<1> HIDE DEF t
<1>7. t[0] = s
  BY <1>5
<1>8. ASSUME NEW n \in 0..m, n < m
      PROVE  t[n + 1] = ReadRequest(t[n])
  <2>1. n + 1 \in 0..m /\ n + 1 # 0 /\ (n + 1) - 1 = n
    BY <1>8
  <2> QED BY <1>5, <2>1
<1> QED BY <1>6, <1>7, <1>8 DEF t

(* Lines and bodies, taken one after another.                              *)
LEMMA LineUnit ==
  /\ \A k \in {"request", "resp_body_size", "length", "end", "status", "dummy", "byte"}, v \in Nat :
       Line(k, v) \in Unit /\ Line(k, v).kind = k /\ Line(k, v).value = v
BY DEF Line, Unit

(* A body of n bytes: a sequence of that length.                           *)
LEMMA BodySeq ==
  ASSUME NEW n \in Nat
  PROVE  Body(n) \in Seq(Unit) /\ Len(Body(n)) = n /\ DOMAIN Body(n) = 1..n
<1> DEFINE u == Line("byte", 0)
           b == [i \in 1..n |-> u]
<1>1. u \in Unit
  BY LineUnit
<1>2. Body(n) = b
  BY DEF Body
<1> HIDE DEF u
<1>3. b \in Seq(Unit) /\ Len(b) = n /\ DOMAIN b = 1..n
  BY <1>1
<1> QED BY <1>2, <1>3

(* An empty body is nothing at all.                                        *)
LEMMA NoBody == Body(0) = << >>
BY DEF Body

(* Reading one unit of what has come, in, leaves the rest of it before     *)
(* what is still to come, w.                                               *)
LEMMA TakeUnit ==
  ASSUME NEW in \in Seq(Unit), NEW w \in Seq(Unit), in # << >>, NEW u \in Unit,
         NEW t \in Seq(Unit), in \o w = << u >> \o t
  PROVE  Head(in) = u /\ Tail(in) \in Seq(Unit) /\ Tail(in) \o w = t /\ Len(Tail(in)) = Len(in) - 1
<1>1. Len(in) \in Nat /\ Len(in) >= 1 /\ Len(w) \in Nat /\ Len(t) \in Nat
  OBVIOUS
<1>2. Len(in) + Len(w) = 1 + Len(t)
  <2>1. Len(in \o w) = Len(in) + Len(w)
    OBVIOUS
  <2>2. Len(<< u >> \o t) = 1 + Len(t)
    OBVIOUS
  <2> QED BY <2>1, <2>2
<1>3. /\ Head(in) = in[1] /\ Tail(in) \in Seq(Unit) /\ Len(Tail(in)) = Len(in) - 1
      /\ \A i \in 1..(Len(in) - 1) : Tail(in)[i] = in[i + 1]
  BY <1>1
<1>4. (in \o w)[1] = in[1] /\ (<< u >> \o t)[1] = u
  BY <1>1
<1> DEFINE a == Tail(in) \o w
<1>5. a \in Seq(Unit) /\ Len(a) = Len(t)
  BY <1>1, <1>2, <1>3
<1>6. ASSUME NEW i \in 1..Len(t)
      PROVE  a[i] = t[i]
  <2>1. (<< u >> \o t)[i + 1] = t[i]
    BY <1>1
  <2>2. (in \o w)[i + 1] = IF i + 1 <= Len(in) THEN in[i + 1] ELSE w[i + 1 - Len(in)]
    BY <1>1, <1>2
  <2>3. a[i] = IF i <= Len(in) - 1 THEN Tail(in)[i] ELSE w[i - (Len(in) - 1)]
    BY <1>1, <1>2, <1>3
  <2>4. i - (Len(in) - 1) = i + 1 - Len(in)
    BY <1>1
  <2> QED BY <1>1, <1>3, <2>1, <2>2, <2>3, <2>4
<1>7. a = t
  <2> HIDE DEF a
  <2> QED BY <1>5, <1>6, SeqEqual
<1> QED BY <1>3, <1>4, <1>7

(* However much of a body has come, and however much of that is taken,     *)
(* the bytes left are as many as are missing.                              *)
LEMMA TakeBytes ==
  ASSUME NEW in \in Seq(Unit), NEW w \in Seq(Unit), NEW n \in Nat, in \o w = Body(n)
  PROVE  /\ Len(in) <= n
         /\ \A k \in 0..Len(in) : SubSeq(in, k + 1, Len(in)) \o w = Body(n - k)
<1>1. Len(in) \in Nat /\ Len(w) \in Nat
  OBVIOUS
<1>2. Len(in) + Len(w) = n
  <2>1. Len(in \o w) = Len(in) + Len(w)
    OBVIOUS
  <2> QED BY <2>1, BodySeq
<1>3. ASSUME NEW k \in 0..Len(in)
      PROVE  SubSeq(in, k + 1, Len(in)) \o w = Body(n - k)
  <2> DEFINE r == SubSeq(in, k + 1, Len(in))
             a == r \o w
             u == Line("byte", 0)
  <2>1. /\ r \in Seq(Unit) /\ Len(r) = Len(in) - k
        /\ \A i \in 1..(Len(in) - k) : r[i] = in[k + i]
    BY <1>1
  <2>2. \A i \in 1..n : Body(n)[i] = u
    BY DEF Body
  <2>3. n - k \in Nat /\ \A i \in 1..(n - k) : Body(n - k)[i] = u
    BY <1>1, <1>2 DEF Body
  <2>4. /\ \A i \in 1..Len(in) : in[i] = u
        /\ \A i \in 1..Len(w) : w[i] = u
    <3>1. \A i \in 1..Len(in) : (in \o w)[i] = in[i]
      OBVIOUS
    <3>2. \A i \in 1..Len(w) : (in \o w)[Len(in) + i] = w[i]
      OBVIOUS
    <3> HIDE DEF u
    <3> QED BY <1>1, <1>2, <2>2, <3>1, <3>2
  <2> HIDE DEF r, u
  <2>5. a \in Seq(Unit) /\ Len(a) = n - k
    <3>1. a \in Seq(Unit) /\ Len(a) = Len(r) + Len(w)
      BY <2>1, ConcatProperties
    <3> HIDE DEF a
    <3> QED BY <1>1, <1>2, <2>1, <3>1
  <2>6. ASSUME NEW i \in 1..(n - k)
        PROVE  a[i] = u
    <3>1. a[i] = IF i <= Len(r) THEN r[i] ELSE w[i - Len(r)]
      BY <1>1, <1>2, <2>1
    <3>2. i > Len(r) => i - Len(r) \in 1..Len(w)
      BY <1>1, <1>2, <2>1
    <3>3. i <= Len(r) => k + i \in 1..Len(in)
      BY <1>1, <1>2, <2>1
    <3> HIDE DEF a
    <3> QED BY <2>1, <2>4, <3>1, <3>2, <3>3
  <2>7. a = Body(n - k)
    <3> HIDE DEF a
    <3>1. Body(n - k) \in Seq(Unit) /\ Len(Body(n - k)) = n - k
      BY <2>3, BodySeq
    <3> QED BY <2>3, <2>5, <2>6, <3>1, SeqEqual
  <2> QED BY <2>7 DEF r
<1> QED BY <1>1, <1>2, <1>3

(* Putting sequences one after another: the grouping does not matter.      *)
LEMMA Joined ==
  ASSUME NEW a \in Seq(Unit), NEW b \in Seq(Unit), NEW c \in Seq(Unit)
  PROVE  (a \o b) \o c = a \o (b \o c)
OBVIOUS

(* What a socket takes of the output comes after what is on the wire, and  *)
(* the whole stays the same.                                               *)
LEMMA WritePiece ==
  ASSUME NEW w \in Seq(Unit), NEW o \in Seq(Unit), NEW k \in 1..Len(o)
  PROVE  LET piece == SubSeq(o, 1, k)
             rest == SubSeq(o, k + 1, Len(o))
         IN  /\ rest \in Seq(Unit) /\ w \o piece \in Seq(Unit)
             /\ rest # << >> <=> Len(o) > k
             /\ (w \o piece) \o rest = w \o o
<1> DEFINE a == SubSeq(o, 1, k)
           b == SubSeq(o, k + 1, Len(o))
<1>1. /\ Len(o) \in Nat /\ 1 \in 1..(Len(o) + 1) /\ k \in Nat
      /\ k \in (1 - 1)..Len(o) /\ Len(o) \in k..Len(o) /\ 1 \in Int
      /\ k + 1 \in Int /\ Len(o) \in Int /\ k \in Int /\ \A i \in 1..Len(o) : o[i] \in Unit
  OBVIOUS
<1>2. a \o b = SubSeq(o, 1, Len(o))
  BY <1>1, ConcatAdjacentSubSeq
<1>3. a \o b = o
  BY <1>2, SubSeqFull
<1>4. a \in Seq(Unit)
  <2>1. \A i \in 1..k : o[i] \in Unit
    BY <1>1
  <2> QED BY <1>1, <2>1, SubSeqProperties
<1>5. b \in Seq(Unit) /\ Len(b) = IF k + 1 <= Len(o) THEN Len(o) - (k + 1) + 1 ELSE 0
  <2>1. \A i \in (k + 1)..Len(o) : o[i] \in Unit
    BY <1>1
  <2> QED BY <1>1, <2>1, SubSeqProperties
<1> HIDE DEF a, b
<1>6. (w \o a) \o b = w \o (a \o b)
  <2>1. a \in Seq(Unit) /\ b \in Seq(Unit)
    BY <1>4, <1>5
  <2> QED BY <2>1, Joined
<1>7. b # << >> <=> Len(o) > k
  BY <1>1, <1>5
<1>8. w \o a \in Seq(Unit)
  BY <1>4
<1>9. (w \o a) \o b = w \o o
  BY <1>3, <1>6
<1> QED BY <1>5, <1>7, <1>8, <1>9 DEF a, b

-----------------------------------------------------------------------------
(* A request and a response, from each of their lines on.                  *)
Cat(a, b) == a \o b

(* One unit, then the rest.                                                *)
Then(u, q) == << u >> \o q

(* A request from its empty line on, and from each line before it.         *)
ReqFromEnd(r) == Then(Line("end", 0), Body(ReqBody[r]))
ReqFromLength(r) == Then(Line("length", ReqBody[r]), ReqFromEnd(r))
ReqFromSize(r) == Then(Line("resp_body_size", RspBody[r]), ReqFromLength(r))
WholeRequest(r) == Then(Line("request", 0), ReqFromSize(r))

(* A response from its empty line on, and from each line before it.        *)
RspFromEnd(n) == Then(Line("end", 0), Body(n))
RspFromDummy(n) == Then(Line("dummy", 0), RspFromEnd(n))
RspFromLength(n) == Then(Line("length", n), RspFromDummy(n))
WholeResponse(n) == Then(Line("status", 0), RspFromLength(n))

(* A unit and the rest are a sequence, which is not empty.                 *)
LEMMA ThenSeq ==
  ASSUME NEW u \in Unit, NEW q \in Seq(Unit)
  PROVE  Then(u, q) \in Seq(Unit) /\ Then(u, q) # << >>
<1>1. Then(u, q) \in Seq(Unit)
  BY DEF Then
<1>2. Len(Then(u, q)) = 1 + Len(q) /\ Len(q) \in Nat
  BY DEF Then
<1> QED BY <1>1, <1>2

(* Reading a line (evbuffer_readln) of what has come takes just that       *)
(* line.                                                                   *)
LEMMA TakeLine ==
  ASSUME NEW in \in Seq(Unit), NEW w \in Seq(Unit), in # << >>, NEW u \in Unit,
         NEW q \in Seq(Unit), Cat(in, w) = Then(u, q)
  PROVE  /\ Head(in) = u /\ Tail(in) \in Seq(Unit) /\ Cat(Tail(in), w) = q
         /\ Len(Tail(in)) = Len(in) - 1
<1>1. in \o w = << u >> \o q
  BY DEF Cat, Then
<1>2. /\ Head(in) = u /\ Tail(in) \in Seq(Unit) /\ Tail(in) \o w = q
      /\ Len(Tail(in)) = Len(in) - 1
  BY <1>1, TakeUnit
<1> QED BY <1>2 DEF Cat

(* The elements of a sequence that begins with a unit.                     *)
LEMMA ThenAt ==
  ASSUME NEW u \in Unit, NEW q \in Seq(Unit)
  PROVE  /\ Then(u, q) \in Seq(Unit) /\ Len(Then(u, q)) = Len(q) + 1
         /\ Then(u, q)[1] = u /\ \A i \in 1..Len(q) : Then(u, q)[i + 1] = q[i]
<1>1. << u >> \in Seq(Unit) /\ Len(<< u >>) = 1 /\ << u >>[1] = u
  OBVIOUS
<1> QED BY <1>1 DEF Then

(* The elements of two sequences put together.                             *)
LEMMA Appended ==
  ASSUME NEW p \in Seq(Unit), NEW q \in Seq(Unit)
  PROVE  /\ p \o q \in Seq(Unit) /\ Len(p \o q) = Len(p) + Len(q)
         /\ \A i \in 1..Len(p) : (p \o q)[i] = p[i]
         /\ \A i \in 1..Len(q) : (p \o q)[i + Len(p)] = q[i]
OBVIOUS

(* Sequences of the same length and elements are the same.                 *)
LEMMA SameSeq ==
  ASSUME NEW p \in Seq(Unit), NEW q \in Seq(Unit), Len(p) = Len(q),
         \A i \in 1..Len(p) : p[i] = q[i]
  PROVE  p = q
OBVIOUS

(* A header of four lines before the rest, one line at a time.             *)
LEMMA FourLines ==
  ASSUME NEW a \in Unit, NEW b \in Unit, NEW c \in Unit, NEW d \in Unit, NEW t \in Seq(Unit)
  PROVE  << a, b, c, d >> \o t = Then(a, Then(b, Then(c, Then(d, t))))
<1>1. PICK n \in Nat : n = Len(t)
  OBVIOUS
<1>2. PICK t1 \in Seq(Unit) : /\ t1 = Then(d, t) /\ Len(t1) = n + 1
                             /\ t1[1] = d /\ \A i \in 1..n : t1[i + 1] = t[i]
  BY <1>1, ThenAt, SMTT(30)
<1>3. PICK t2 \in Seq(Unit) : /\ t2 = Then(c, t1) /\ Len(t2) = n + 2
                             /\ t2[1] = c /\ \A i \in 1..(n + 1) : t2[i + 1] = t1[i]
  <2>1. (n + 1) + 1 = n + 2
    OBVIOUS
  <2>2. /\ Then(c, t1) \in Seq(Unit) /\ Len(Then(c, t1)) = Len(t1) + 1
        /\ Then(c, t1)[1] = c /\ \A i \in 1..Len(t1) : Then(c, t1)[i + 1] = t1[i]
    BY ThenAt
  <2>3. /\ Then(c, t1) \in Seq(Unit) /\ Len(Then(c, t1)) = n + 2
        /\ Then(c, t1)[1] = c /\ \A i \in 1..(n + 1) : Then(c, t1)[i + 1] = t1[i]
    BY <1>2, <2>1, <2>2
  <2> QED BY <2>3
<1>4. PICK t3 \in Seq(Unit) : /\ t3 = Then(b, t2) /\ Len(t3) = n + 3
                             /\ t3[1] = b /\ \A i \in 1..(n + 2) : t3[i + 1] = t2[i]
  <2>1. (n + 2) + 1 = n + 3
    OBVIOUS
  <2>2. /\ Then(b, t2) \in Seq(Unit) /\ Len(Then(b, t2)) = Len(t2) + 1
        /\ Then(b, t2)[1] = b /\ \A i \in 1..Len(t2) : Then(b, t2)[i + 1] = t2[i]
    BY ThenAt
  <2>3. /\ Then(b, t2) \in Seq(Unit) /\ Len(Then(b, t2)) = n + 3
        /\ Then(b, t2)[1] = b /\ \A i \in 1..(n + 2) : Then(b, t2)[i + 1] = t2[i]
    BY <1>3, <2>1, <2>2
  <2> QED BY <2>3
<1>5. PICK t4 \in Seq(Unit) : /\ t4 = Then(a, t3) /\ Len(t4) = n + 4
                             /\ t4[1] = a /\ \A i \in 1..(n + 3) : t4[i + 1] = t3[i]
  <2>1. (n + 3) + 1 = n + 4
    OBVIOUS
  <2>2. /\ Then(a, t3) \in Seq(Unit) /\ Len(Then(a, t3)) = Len(t3) + 1
        /\ Then(a, t3)[1] = a /\ \A i \in 1..Len(t3) : Then(a, t3)[i + 1] = t3[i]
    BY ThenAt
  <2>3. /\ Then(a, t3) \in Seq(Unit) /\ Len(Then(a, t3)) = n + 4
        /\ Then(a, t3)[1] = a /\ \A i \in 1..(n + 3) : Then(a, t3)[i + 1] = t3[i]
    BY <1>4, <2>1, <2>2
  <2> QED BY <2>3
<1>6. PICK f \in Seq(Unit) :
        /\ f = << a, b, c, d >> \o t /\ Len(f) = n + 4
        /\ f[1] = a /\ f[2] = b /\ f[3] = c /\ f[4] = d
        /\ \A i \in 1..n : f[i + 4] = t[i]
  <2>1. PICK e \in Seq(Unit) : /\ e = << a, b, c, d >> /\ Len(e) = 4
                              /\ e[1] = a /\ e[2] = b /\ e[3] = c /\ e[4] = d
    <3>1. << a, b, c, d >> \in Seq(Unit) /\ Len(<< a, b, c, d >>) = 4
      OBVIOUS
    <3>2. /\ << a, b, c, d >>[1] = a /\ << a, b, c, d >>[2] = b
          /\ << a, b, c, d >>[3] = c /\ << a, b, c, d >>[4] = d
      OBVIOUS
    <3> QED BY <3>1, <3>2, Zenon
  <2>2. PICK f \in Seq(Unit) :
          /\ f = e \o t /\ Len(f) = Len(e) + Len(t)
          /\ \A i \in 1..Len(e) : f[i] = e[i]
          /\ \A i \in 1..Len(t) : f[i + Len(e)] = t[i]
    BY Appended
  <2>3. Len(f) = n + 4 /\ \A i \in 1..n : f[i + 4] = t[i]
    BY <1>1, <2>1, <2>2
  <2>4. f[1] = a /\ f[2] = b /\ f[3] = c /\ f[4] = d
    BY <2>1, <2>2
  <2>5. f = << a, b, c, d >> \o t
    BY <2>1, <2>2
  <2> QED BY <2>3, <2>4, <2>5
<1>7. \A i \in 1..(n + 4) : f[i] = t4[i]
  <2> SUFFICES ASSUME NEW i \in 1..(n + 4)
               PROVE  f[i] = t4[i]
    OBVIOUS
  <2>1. CASE i > 4
    <3>1. i - 4 \in 1..n /\ i - 3 \in 1..(n + 1) /\ i - 2 \in 1..(n + 2) /\ i - 1 \in 1..(n + 3)
      BY <1>1, <2>1
    <3>2. t4[i] = t3[i - 1]
      <4>1. (i - 1) + 1 = i
        OBVIOUS
      <4> QED BY <1>5, <3>1, <4>1
    <3>3. t3[i - 1] = t2[i - 2]
      <4>1. (i - 2) + 1 = i - 1
        OBVIOUS
      <4> QED BY <1>4, <3>1, <4>1
    <3>4. t2[i - 2] = t1[i - 3]
      <4>1. (i - 3) + 1 = i - 2
        OBVIOUS
      <4> QED BY <1>3, <3>1, <4>1
    <3>5. t1[i - 3] = t[i - 4]
      <4>1. (i - 4) + 1 = i - 3
        OBVIOUS
      <4> QED BY <1>2, <3>1, <4>1
    <3>6. f[i] = t[i - 4]
      <4>1. (i - 4) + 4 = i
        OBVIOUS
      <4> QED BY <1>6, <3>1, <4>1
    <3> QED BY <3>2, <3>3, <3>4, <3>5, <3>6
  <2>2. CASE i \in 1..4
    <3>1. t4[2] = b /\ t4[3] = c /\ t4[4] = d
      <4>1. t4[2] = t3[1] /\ t4[3] = t3[2] /\ t4[4] = t3[3]
        <5>1. 1 \in 1..(n + 3) /\ 2 \in 1..(n + 3) /\ 3 \in 1..(n + 3)
          OBVIOUS
        <5>2. t4[1 + 1] = t3[1] /\ t4[2 + 1] = t3[2] /\ t4[3 + 1] = t3[3]
          BY <1>5, <5>1
        <5> QED BY <5>2
      <4>2. t3[2] = t2[1] /\ t3[3] = t2[2]
        <5>1. 1 \in 1..(n + 2) /\ 2 \in 1..(n + 2)
          OBVIOUS
        <5>2. t3[1 + 1] = t2[1] /\ t3[2 + 1] = t2[2]
          BY <1>4, <5>1
        <5> QED BY <5>2
      <4>3. t2[2] = t1[1]
        <5>1. 1 \in 1..(n + 1)
          OBVIOUS
        <5>2. t2[1 + 1] = t1[1]
          BY <1>3, <5>1
        <5> QED BY <5>2
      <4> QED BY <1>2, <1>3, <1>4, <4>1, <4>2, <4>3
    <3> QED BY <1>5, <1>6, <2>2, <3>1
  <2>3. i \in Nat /\ i >= 1
    OBVIOUS
  <2>4. i > 4 \/ i \in 1..4
    BY <2>3
  <2> QED BY <2>1, <2>2, <2>4
<1>8. f = t4
  BY <1>5, <1>6, <1>7, SameSeq
<1> QED BY <1>2, <1>3, <1>4, <1>5, <1>6, <1>8, ZenonT(40)

(* What _serve_response writes is a whole response.                        *)
LEMMA RspForms ==
  ASSUME NEW n \in Nat
  PROVE  /\ ResponseHead(n) \in Seq(Unit) /\ ResponseHead(n) \o Body(n) = WholeResponse(n)
         /\ RspFromEnd(n) \in Seq(Unit) /\ RspFromDummy(n) \in Seq(Unit)
         /\ RspFromLength(n) \in Seq(Unit) /\ WholeResponse(n) \in Seq(Unit)
         /\ WholeResponse(n) # << >>
<1>1. /\ Line("status", 0) \in Unit /\ Line("length", n) \in Unit
      /\ Line("dummy", 0) \in Unit /\ Line("end", 0) \in Unit
  BY LineUnit
<1>2. Body(n) \in Seq(Unit)
  BY BodySeq
<1>3. RspFromEnd(n) \in Seq(Unit)
  BY <1>1, <1>2, ThenSeq DEF RspFromEnd
<1>4. RspFromDummy(n) \in Seq(Unit)
  BY <1>1, <1>3, ThenSeq DEF RspFromDummy
<1>5. RspFromLength(n) \in Seq(Unit)
  BY <1>1, <1>4, ThenSeq DEF RspFromLength
<1>6. WholeResponse(n) \in Seq(Unit) /\ WholeResponse(n) # << >>
  BY <1>1, <1>5, ThenSeq DEF WholeResponse
<1>7. ResponseHead(n) \in Seq(Unit)
  BY <1>1 DEF ResponseHead
<1>8. ResponseHead(n) \o Body(n) = WholeResponse(n)
  <2>1. PICK a \in Unit, b \in Unit, c \in Unit, d \in Unit, t \in Seq(Unit) :
          /\ a = Line("status", 0) /\ b = Line("length", n) /\ c = Line("dummy", 0)
          /\ d = Line("end", 0) /\ t = Body(n)
    BY <1>1, <1>2
  <2>2. ResponseHead(n) = << a, b, c, d >>
    BY <2>1 DEF ResponseHead
  <2>3. WholeResponse(n) = Then(a, Then(b, Then(c, Then(d, t))))
    BY <2>1 DEF WholeResponse, RspFromLength, RspFromDummy, RspFromEnd
  <2>4. << a, b, c, d >> \o t = Then(a, Then(b, Then(c, Then(d, t))))
    BY FourLines
  <2> QED BY <2>1, <2>2, <2>3, <2>4
<1> QED BY <1>3, <1>4, <1>5, <1>6, <1>7, <1>8

(* What _maybe_http_write_to_transport writes is a whole request.          *)
LEMMA ReqForms ==
  ASSUME NEW r \in 1..N
  PROVE  /\ ReqBody[r] \in Nat /\ ReqBody[r] > 0 /\ RspBody[r] \in Nat
         /\ RequestHead(r) \in Seq(Unit) /\ RequestHead(r) \o Body(ReqBody[r]) = WholeRequest(r)
         /\ ReqFromEnd(r) \in Seq(Unit) /\ ReqFromLength(r) \in Seq(Unit)
         /\ ReqFromSize(r) \in Seq(Unit) /\ WholeRequest(r) \in Seq(Unit)
         /\ WholeRequest(r) # << >>
<1>0. ReqBody[r] \in Nat /\ ReqBody[r] > 0 /\ RspBody[r] \in Nat
  BY ExchangeAssumption
<1>1. /\ Line("request", 0) \in Unit /\ Line("length", ReqBody[r]) \in Unit
      /\ Line("resp_body_size", RspBody[r]) \in Unit /\ Line("end", 0) \in Unit
  BY <1>0, LineUnit
<1>2. Body(ReqBody[r]) \in Seq(Unit)
  BY <1>0, BodySeq
<1>3. ReqFromEnd(r) \in Seq(Unit)
  BY <1>1, <1>2, ThenSeq DEF ReqFromEnd
<1>4. ReqFromLength(r) \in Seq(Unit)
  BY <1>1, <1>3, ThenSeq DEF ReqFromLength
<1>5. ReqFromSize(r) \in Seq(Unit)
  BY <1>1, <1>4, ThenSeq DEF ReqFromSize
<1>6. WholeRequest(r) \in Seq(Unit) /\ WholeRequest(r) # << >>
  BY <1>1, <1>5, ThenSeq DEF WholeRequest
<1>7. RequestHead(r) \in Seq(Unit)
  BY <1>1 DEF RequestHead
<1>8. RequestHead(r) \o Body(ReqBody[r]) = WholeRequest(r)
  <2>1. PICK a \in Unit, b \in Unit, c \in Unit, d \in Unit, t \in Seq(Unit) :
          /\ a = Line("request", 0) /\ b = Line("resp_body_size", RspBody[r])
          /\ c = Line("length", ReqBody[r]) /\ d = Line("end", 0) /\ t = Body(ReqBody[r])
    BY <1>1, <1>2
  <2>2. RequestHead(r) = << a, b, c, d >>
    BY <2>1 DEF RequestHead
  <2>3. WholeRequest(r) = Then(a, Then(b, Then(c, Then(d, t))))
    BY <2>1 DEF WholeRequest, ReqFromSize, ReqFromLength, ReqFromEnd
  <2>4. << a, b, c, d >> \o t = Then(a, Then(b, Then(c, Then(d, t))))
    BY FourLines
  <2> QED BY <2>1, <2>2, <2>3, <2>4
<1> QED BY <1>0, <1>3, <1>4, <1>5, <1>6, <1>7, <1>8

-----------------------------------------------------------------------------
(* Where the server is in request r, of which q is still to be read.       *)
AtServer(s, r, q) ==
  \/ /\ s.reading = "REQ_LINE" /\ ~s.active /\ s.size = 0 /\ s.left = 0
     /\ q = WholeRequest(r)
  \/ /\ s.reading = "HEADERS" /\ s.active /\ s.size = 0 /\ s.left = 0
     /\ q = ReqFromSize(r)
  \/ /\ s.reading = "HEADERS" /\ s.active /\ s.size = RspBody[r] /\ s.left = 0
     /\ q = ReqFromLength(r)
  \/ /\ s.reading = "HEADERS" /\ s.active /\ s.size = RspBody[r] /\ s.left = ReqBody[r]
     /\ q = ReqFromEnd(r)
  \/ /\ s.reading = "BODY" /\ s.active /\ s.size = RspBody[r] /\ s.left > 0
     /\ q = Body(IF s.requested > 0 THEN s.remaining ELSE s.left)

(* The handler has no request.                                             *)
ServerIdle(s) == s.reading = "REQ_LINE" /\ ~s.active /\ s.size = 0 /\ s.left = 0

(* The channel drops for the handler only while it waits for a body.       *)
ServerDrops(s) ==
  /\ s.requested = 0 <=> s.remaining = 0
  /\ s.requested > 0 => s.reading = "BODY" /\ s.requested = s.left /\ s.in = << >>

(* What it is while it reads the request, or once it has: w is still to be  *)
(* read of what is not in its buffer.                                      *)
ServerDid(r, w, alive, t) ==
  /\ t \in Server /\ t.bad = "no" /\ t.alive = alive /\ ServerDrops(t)
  /\ \/ AtServer(t, r, Cat(t.in, w)) /\ t.out = << >> /\ ~t.armed
     \/ /\ t.in = << >> /\ w = << >> /\ ServerIdle(t)
        /\ t.out = WholeResponse(RspBody[r]) /\ t.armed

(* A CHECK that holds changes nothing.                                     *)
LEMMA PassesCheck ==
  ASSUME NEW x, NEW ok, NEW what, ok
  PROVE  Check(x, ok, what) = x
BY DEF Check

(* A handler that has read its request writes the whole response and is    *)
(* idle again.                                                             *)
LEMMA Responds ==
  ASSUME NEW s \in Server, s.bad = "no", s.left = 0, s.active, s.out = << >>
  PROVE  LET t == ServeResponse(s)
         IN  /\ t \in Server /\ t.bad = "no" /\ t.alive = s.alive /\ t.in = s.in
             /\ t.requested = s.requested /\ t.remaining = s.remaining
             /\ ServerIdle(t) /\ t.out = WholeResponse(s.size) /\ t.armed
<1> DEFINE n == s.size
           a == [s EXCEPT !.out = @ \o ResponseHead(n), !.armed = TRUE]
           b == [a EXCEPT !.out = @ \o Body(n)]
           t == [b EXCEPT !.active = FALSE, !.size = 0, !.reading = "REQ_LINE"]
<1>1. n \in Nat /\ s.in \in Seq(Unit)
  BY DEF Server
<1>2. ServeResponse(s) = t
  <2>1. Check(s, s.left = 0 /\ s.active, "serve") = s
    BY DEF Check
  <2> QED BY <2>1, Zenon DEF ServeResponse, WriteDummy, WriteBuffer
<1>3. s.out \o ResponseHead(n) = ResponseHead(n) /\ ResponseHead(n) \in Seq(Unit)
  <2>1. n \in Nat /\ s.out = << >>
    BY <1>1
  <2> HIDE DEF n
  <2>2. ResponseHead(n) \in Seq(Unit)
    BY <2>1, RspForms
  <2>3. << >> \o ResponseHead(n) = ResponseHead(n)
    BY <2>2
  <2> QED BY <2>1, <2>2, <2>3
<1> HIDE DEF n
<1>4. /\ a \in Server /\ a.bad = "no" /\ a.alive = s.alive /\ a.in = s.in /\ a.left = 0
      /\ a.requested = s.requested /\ a.remaining = s.remaining
      /\ a.out = ResponseHead(n) /\ a.armed
  BY <1>3 DEF Server
<1> HIDE DEF a
<1>5. a.out \o Body(n) = WholeResponse(n) /\ WholeResponse(n) \in Seq(Unit)
  BY <1>1, <1>4, RspForms
<1>6. /\ b \in Server /\ b.bad = "no" /\ b.alive = s.alive /\ b.in = s.in /\ b.left = 0
      /\ b.requested = s.requested /\ b.remaining = s.remaining
      /\ b.out = WholeResponse(n) /\ b.armed
  BY <1>4, <1>5 DEF Server
<1> HIDE DEF b
<1>7. /\ t \in Server /\ t.bad = "no" /\ t.alive = s.alive /\ t.in = s.in
      /\ t.requested = s.requested /\ t.remaining = s.remaining
      /\ ServerIdle(t) /\ t.out = WholeResponse(n) /\ t.armed
  BY <1>6 DEF Server, ServerIdle
<1> QED BY <1>2, <1>7 DEF n

(* A line of the request is read.                                          *)
LEMMA ServerReadsLine ==
  ASSUME NEW r \in 1..N, NEW w \in Seq(Unit), NEW s, ServerDid(r, w, s.alive, s),
         s.in # << >>, s.reading # "BODY"
  PROVE  LET t == ReadReqLine(s)
         IN  ServerDid(r, w, s.alive, t) /\ Len(t.in) = Len(s.in) - 1
<1> DEFINE u == Head(s.in)
           d == [s EXCEPT !.in = Tail(@)]
           t == ReadReqLine(s)
<1>1. /\ s \in Server /\ s.bad = "no" /\ AtServer(s, r, Cat(s.in, w)) /\ s.out = << >> /\ ~s.armed
      /\ s.requested = 0 /\ s.remaining = 0
  BY DEF ServerDid, ServerDrops, Server
<1>2. s.in \in Seq(Unit)
  BY <1>1 DEF Server
<1>3. /\ ReqBody[r] \in Nat /\ ReqBody[r] > 0 /\ RspBody[r] \in Nat
      /\ ReqFromEnd(r) \in Seq(Unit) /\ ReqFromLength(r) \in Seq(Unit)
      /\ ReqFromSize(r) \in Seq(Unit)
  BY ReqForms
<1>4. Tail(s.in) \in Seq(Unit)
  BY <1>2
<1>5. /\ d \in Server /\ d.bad = "no" /\ d.alive = s.alive /\ d.out = << >> /\ ~d.armed
      /\ d.requested = 0 /\ d.remaining = 0 /\ d.in = Tail(s.in) /\ d.left = s.left
      /\ d.active = s.active /\ d.size = s.size /\ d.reading = s.reading
  BY <1>1, <1>4 DEF Server
<1> HIDE DEF d
<1>6. CASE s.reading = "REQ_LINE"
  <2>1. Cat(s.in, w) = Then(Line("request", 0), ReqFromSize(r)) /\ ~s.active /\ s.size = 0 /\ s.left = 0
    BY <1>1, <1>6 DEF AtServer, WholeRequest
  <2>2. Line("request", 0) \in Unit /\ Line("request", 0).kind = "request"
    BY LineUnit
  <2>3. u = Line("request", 0) /\ Cat(Tail(s.in), w) = ReqFromSize(r) /\ Len(Tail(s.in)) = Len(s.in) - 1
    BY <1>2, <1>3, <2>1, <2>2, TakeLine
  <2>4. t = [d EXCEPT !.active = TRUE, !.reading = "HEADERS"]
    BY <1>6, <2>1, <2>2, <2>3, PassesCheck DEF ReadReqLine, d
  <2> HIDE DEF t, u
  <2>5. /\ t \in Server /\ t.bad = "no" /\ t.alive = s.alive /\ t.out = << >> /\ ~t.armed
        /\ t.requested = 0 /\ t.remaining = 0 /\ t.in = Tail(s.in) /\ t.left = 0
        /\ t.active /\ t.size = 0 /\ t.reading = "HEADERS"
    BY <1>5, <2>1, <2>4 DEF Server
  <2>6. AtServer(t, r, Cat(t.in, w))
    BY <2>3, <2>5 DEF AtServer
  <2> QED BY <2>3, <2>5, <2>6 DEF ServerDid, ServerDrops, t
<1>7. CASE s.reading = "HEADERS" /\ Cat(s.in, w) = ReqFromSize(r) /\ s.active /\ s.size = 0 /\ s.left = 0
  <2>1. Cat(s.in, w) = Then(Line("resp_body_size", RspBody[r]), ReqFromLength(r))
    BY <1>7 DEF ReqFromSize
  <2>2. /\ Line("resp_body_size", RspBody[r]) \in Unit
        /\ Line("resp_body_size", RspBody[r]).kind = "resp_body_size"
        /\ Line("resp_body_size", RspBody[r]).value = RspBody[r]
    BY <1>3, LineUnit
  <2>3. u = Line("resp_body_size", RspBody[r]) /\ Cat(Tail(s.in), w) = ReqFromLength(r) /\ Len(Tail(s.in)) = Len(s.in) - 1
    BY <1>2, <1>3, <2>1, <2>2, TakeLine
  <2>4. t = [d EXCEPT !.size = RspBody[r]]
    BY <1>7, <2>2, <2>3 DEF ReadReqLine, d
  <2> HIDE DEF t, u
  <2>5. /\ t \in Server /\ t.bad = "no" /\ t.alive = s.alive /\ t.out = << >> /\ ~t.armed
        /\ t.requested = 0 /\ t.remaining = 0 /\ t.in = Tail(s.in) /\ t.left = 0
        /\ t.active /\ t.size = RspBody[r] /\ t.reading = "HEADERS"
    BY <1>3, <1>5, <1>7, <2>4 DEF Server
  <2>6. AtServer(t, r, Cat(t.in, w))
    BY <2>3, <2>5 DEF AtServer
  <2> QED BY <2>3, <2>5, <2>6 DEF ServerDid, ServerDrops, t
<1>8. CASE s.reading = "HEADERS" /\ Cat(s.in, w) = ReqFromLength(r) /\ s.active /\ s.size = RspBody[r] /\ s.left = 0
  <2>1. Cat(s.in, w) = Then(Line("length", ReqBody[r]), ReqFromEnd(r))
    BY <1>8 DEF ReqFromLength
  <2>2. /\ Line("length", ReqBody[r]) \in Unit
        /\ Line("length", ReqBody[r]).kind = "length"
        /\ Line("length", ReqBody[r]).value = ReqBody[r]
    BY <1>3, LineUnit
  <2>3. u = Line("length", ReqBody[r]) /\ Cat(Tail(s.in), w) = ReqFromEnd(r) /\ Len(Tail(s.in)) = Len(s.in) - 1
    BY <1>2, <1>3, <2>1, <2>2, TakeLine
  <2>4. t = [d EXCEPT !.left = ReqBody[r]]
    BY <1>8, <2>2, <2>3 DEF ReadReqLine, d
  <2> HIDE DEF t, u
  <2>5. /\ t \in Server /\ t.bad = "no" /\ t.alive = s.alive /\ t.out = << >> /\ ~t.armed
        /\ t.requested = 0 /\ t.remaining = 0 /\ t.in = Tail(s.in) /\ t.left = ReqBody[r]
        /\ t.active /\ t.size = RspBody[r] /\ t.reading = "HEADERS"
    BY <1>3, <1>5, <1>8, <2>4 DEF Server
  <2>6. AtServer(t, r, Cat(t.in, w))
    BY <2>3, <2>5 DEF AtServer
  <2> QED BY <2>3, <2>5, <2>6 DEF ServerDid, ServerDrops, t
<1>9. CASE s.reading = "HEADERS" /\ Cat(s.in, w) = ReqFromEnd(r) /\ s.active /\ s.size = RspBody[r] /\ s.left = ReqBody[r]
  <2>1. Cat(s.in, w) = Then(Line("end", 0), Body(ReqBody[r]))
    BY <1>9 DEF ReqFromEnd
  <2>2. /\ Line("end", 0) \in Unit /\ Line("end", 0).kind = "end" /\ Body(ReqBody[r]) \in Seq(Unit)
    BY <1>3, LineUnit, BodySeq
  <2>3. u = Line("end", 0) /\ Cat(Tail(s.in), w) = Body(ReqBody[r]) /\ Len(Tail(s.in)) = Len(s.in) - 1
    BY <1>2, <1>3, <2>1, <2>2, TakeLine
  <2>4. t = [d EXCEPT !.reading = "BODY"]
    BY <1>3, <1>5, <1>9, <2>2, <2>3 DEF ReadReqLine, d
  <2> HIDE DEF t, u
  <2>5. /\ t \in Server /\ t.bad = "no" /\ t.alive = s.alive /\ t.out = << >> /\ ~t.armed
        /\ t.requested = 0 /\ t.remaining = 0 /\ t.in = Tail(s.in) /\ t.left = ReqBody[r]
        /\ t.active /\ t.size = RspBody[r] /\ t.reading = "BODY"
    BY <1>3, <1>5, <1>9, <2>4 DEF Server
  <2>6. AtServer(t, r, Cat(t.in, w))
    BY <1>3, <2>3, <2>5 DEF AtServer
  <2> QED BY <2>3, <2>5, <2>6 DEF ServerDid, ServerDrops, t
<1> QED BY <1>1, <1>6, <1>7, <1>8, <1>9 DEF AtServer

(* Some bytes of a body that is to be read.                                *)
LEMMA TakeSome ==
  ASSUME NEW in \in Seq(Unit), NEW w \in Seq(Unit), NEW n \in Nat, Cat(in, w) = Body(n),
         NEW k \in 0..Len(in)
  PROVE  /\ Len(in) \in Nat /\ Len(in) <= n /\ SubSeq(in, k + 1, Len(in)) \in Seq(Unit)
         /\ Cat(SubSeq(in, k + 1, Len(in)), w) = Body(n - k)
         /\ k = Len(in) => SubSeq(in, k + 1, Len(in)) = << >> /\ w = Body(n - k)
<1>1. in \o w = Body(n)
  BY DEF Cat
<1>2. Len(in) <= n /\ \A j \in 0..Len(in) : SubSeq(in, j + 1, Len(in)) \o w = Body(n - j)
  BY <1>1, TakeBytes
<1>3. Len(in) \in Nat /\ SubSeq(in, k + 1, Len(in)) \in Seq(Unit)
  OBVIOUS
<1>4. Cat(SubSeq(in, k + 1, Len(in)), w) = Body(n - k)
  BY <1>2 DEF Cat
<1>5. ASSUME k = Len(in)
      PROVE  SubSeq(in, k + 1, Len(in)) = << >> /\ w = Body(n - k)
  <2>1. SubSeq(in, k + 1, Len(in)) = << >>
    BY <1>3, <1>5
  <2>2. Cat(<< >>, w) = w
    BY DEF Cat
  <2> QED BY <1>4, <2>1, <2>2
<1> QED BY <1>2, <1>3, <1>4, <1>5

(* What there is of the body is read; the channel is to drop the rest.     *)
LEMMA ServerReadsBody ==
  ASSUME NEW r \in 1..N, NEW w \in Seq(Unit), NEW s, ServerDid(r, w, s.alive, s),
         s.in # << >>, s.reading = "BODY"
  PROVE  LET t == ReadReqBody(s)
         IN  ServerDid(r, w, s.alive, t) /\ t.in = << >>
<1> DEFINE n == IF Len(s.in) < s.left THEN Len(s.in) ELSE s.left
           m == Len(s.in)
           d == [s EXCEPT !.in = SubSeq(@, m + 1, Len(@)), !.left = @ - m]
           t == ReadReqBody(s)
<1>1. /\ s \in Server /\ s.bad = "no" /\ s.out = << >> /\ ~s.armed
      /\ s.requested = 0 /\ s.remaining = 0 /\ s.active /\ s.size = RspBody[r] /\ s.left > 0
      /\ Cat(s.in, w) = Body(s.left)
  BY DEF ServerDid, ServerDrops, AtServer, ServerIdle, Server
<1>2. s.in \in Seq(Unit) /\ s.left \in Nat /\ m \in Nat /\ m \in 0..Len(s.in)
  BY <1>1 DEF Server
<1>3. /\ m <= s.left /\ SubSeq(s.in, m + 1, Len(s.in)) = << >> /\ w = Body(s.left - m)
  BY <1>1, <1>2, TakeSome
<1>4. n = m /\ s.left - m \in Nat
  BY <1>2, <1>3
<1>5. ReadReqBody(s) = IF d.left > 0 THEN DropFutureInput(d, d.left) ELSE ServeResponse(d)
  <2> DEFINE e(c) == [c EXCEPT !.in = SubSeq(@, n + 1, Len(@)), !.left = @ - n]
             F(c) == IF e(c).left > 0 THEN DropFutureInput(e(c), e(c).left)
                                      ELSE ServeResponse(e(c))
  <2>1. Check(s, s.left > 0, "empty_body") = s
    BY <1>1 DEF Check
  <2>2. ReadReqBody(s) = F(Check(s, s.left > 0, "empty_body"))
    BY Zenon DEF ReadReqBody
  <2>3. e(s) = d
    <3> HIDE DEF m, n
    <3>1. n = m
      BY <1>4
    <3> QED BY <3>1
  <2> HIDE DEF d, n
  <2>4. F(s) = IF d.left > 0 THEN DropFutureInput(d, d.left) ELSE ServeResponse(d)
    <3> HIDE DEF e
    <3> QED BY <2>3, Zenon
  <2> HIDE DEF F
  <2>5. F(s) = ReadReqBody(s)
    BY <2>1, <2>2
  <2> QED BY <2>4, <2>5, Zenon
<1>6. /\ d \in Server /\ d.bad = "no" /\ d.out = << >> /\ ~d.armed /\ d.alive = s.alive
      /\ d.requested = 0 /\ d.remaining = 0 /\ d.active /\ d.size = RspBody[r]
      /\ d.left = s.left - m /\ d.in = << >> /\ d.reading = "BODY"
  <2>1. << >> \in Seq(Unit)
    OBVIOUS
  <2>2. d = [s EXCEPT !.in = << >>, !.left = s.left - m]
    BY <1>3
  <2> HIDE DEF d, m
  <2> QED BY <1>1, <1>4, <2>1, <2>2 DEF Server
<1> HIDE DEF d, m, n
<1>7. CASE d.left > 0
  <2>1. t = [d EXCEPT !.requested = d.left, !.remaining = d.left]
    BY <1>5, <1>6, <1>7 DEF DropFutureInput, Check
  <2> HIDE DEF t
  <2>2. /\ t \in Server /\ t.bad = "no" /\ t.out = << >> /\ ~t.armed /\ t.alive = s.alive
        /\ t.requested = d.left /\ t.remaining = d.left /\ t.active /\ t.size = RspBody[r]
        /\ t.left = d.left /\ t.in = << >> /\ t.reading = "BODY"
    BY <1>4, <1>6, <2>1 DEF Server
  <2>3. Cat(t.in, w) = w
    BY <2>2 DEF Cat
  <2>4. AtServer(t, r, Cat(t.in, w))
    BY <1>3, <1>6, <1>7, <2>2, <2>3 DEF AtServer
  <2>5. ServerDrops(t)
    BY <1>7, <2>2 DEF ServerDrops
  <2> QED BY <2>2, <2>4, <2>5 DEF ServerDid, t
<1>8. CASE ~(d.left > 0)
  <2>1. d.left = 0 /\ w = << >>
    BY <1>3, <1>4, <1>6, <1>8, NoBody
  <2>2. t = ServeResponse(d)
    BY <1>5, <1>8
  <2> HIDE DEF t
  <2>3. /\ t \in Server /\ t.bad = "no" /\ t.alive = d.alive /\ t.in = d.in
        /\ t.requested = d.requested /\ t.remaining = d.remaining
        /\ ServerIdle(t) /\ t.out = WholeResponse(d.size) /\ t.armed
    BY <1>6, <2>1, <2>2, Responds
  <2> QED BY <1>6, <2>1, <2>3 DEF ServerDid, ServerDrops, t
<1> QED BY <1>7, <1>8

(* The loop reads all that has come.                                       *)
LEMMA ServerConsumed ==
  ASSUME NEW r \in 1..N, NEW w \in Seq(Unit), NEW s, ServerDid(r, w, s.alive, s)
  PROVE  LET t == ServerConsume(s)
         IN  ServerDid(r, w, s.alive, t) /\ t.in = << >>
<1> DEFINE f == ServerTurns(s)
           m == Len(s.in)
           alive == s.alive
           G == {n \in Nat : /\ ServerDid(r, w, alive, f[n])
                             /\ Len(f[n].in) + n <= m}
<1>0. s.in \in Seq(Unit) /\ m \in Nat
  BY DEF ServerDid, Server
<1>1. /\ f[0] = s
      /\ \A n \in 0..m : n < m => f[n + 1] = ReadRequest(f[n])
      /\ ServerConsume(s) = f[m]
  BY <1>0, ServerTurned
<1> HIDE DEF f
<1>2. 0 \in G
  BY <1>0, <1>1
<1>3. ASSUME NEW n \in 0..m, n < m, n \in G
      PROVE  n + 1 \in G
  <2>1. PICK x : x = f[n]
    OBVIOUS
  <2>2. PICK y : y = f[n + 1]
    OBVIOUS
  <2>3. /\ ServerDid(r, w, alive, x) /\ Len(x.in) + n <= m
        /\ y = ReadRequest(x)
    BY <1>1, <1>3, <2>1, <2>2
  <2>4. x.alive = alive /\ x.in \in Seq(Unit) /\ x.bad = "no"
    BY <2>3 DEF ServerDid, Server
  <2> HIDE DEF alive, m
  <2>5. ServerDid(r, w, alive, y) /\ Len(y.in) + (n + 1) <= m
    <3>1. CASE x.in = << >>
      <4>1. y = x
        BY <2>3, <3>1 DEF ReadRequest
      <4>2. Len(x.in) = 0
        BY <3>1
      <4> QED BY <1>0, <1>3, <2>3, <4>1, <4>2
    <3>2. CASE x.in # << >> /\ x.reading = "BODY"
      <4>1. y = ReadReqBody(x)
        BY <2>3, <2>4, <3>2 DEF ReadRequest
      <4>2. ServerDid(r, w, x.alive, y) /\ y.in = << >>
        BY <2>3, <2>4, <3>2, <4>1, ServerReadsBody
      <4>3. Len(y.in) = 0
        BY <4>2
      <4> QED BY <1>0, <1>3, <2>4, <4>2, <4>3
    <3>3. CASE x.in # << >> /\ x.reading # "BODY"
      <4>1. y = ReadReqLine(x)
        BY <2>3, <2>4, <3>3 DEF ReadRequest
      <4>2. ServerDid(r, w, x.alive, y) /\ Len(y.in) = Len(x.in) - 1
        BY <2>3, <2>4, <3>3, <4>1, ServerReadsLine
      <4>3. Len(x.in) \in Nat
        BY <2>4
      <4>4. Len(y.in) + (n + 1) <= m
        <5>1. PICK i \in Nat : i = Len(x.in)
          BY <4>3
        <5>2. i + n <= m /\ Len(y.in) = i - 1 /\ n \in Nat /\ m \in Nat
          BY <1>0, <2>3, <4>2, <5>1
        <5>3. (i - 1) + (n + 1) <= m
          BY <5>2
        <5> QED BY <5>2, <5>3
      <4> QED BY <2>4, <4>2, <4>4
    <3> QED BY <3>1, <3>2, <3>3
  <2>6. n + 1 \in Nat
    OBVIOUS
  <2> QED BY <2>2, <2>5, <2>6 DEF m, alive
<1> HIDE DEF G
<1>4. \A n \in 0..m : n < m /\ n \in G => n + 1 \in G
  BY <1>3
<1> HIDE DEF m
<1>5. m \in G
  <2>1. \A n \in 0..m : n \in G
    BY <1>0, <1>2, <1>4, HoldsAll
  <2> QED BY <1>0, <2>1
<1>6. ServerDid(r, w, alive, f[m]) /\ Len(f[m].in) + m <= m
  BY <1>5 DEF G
<1>7. f[m].in \in Seq(Unit)
  BY <1>6 DEF ServerDid, Server
<1>8. Len(f[m].in) \in Nat
  BY <1>7
<1>9. Len(f[m].in) = 0
  BY <1>0, <1>6, <1>8
<1>10. f[m].in = << >>
  BY <1>7, <1>9
<1>11. ServerConsume(s) = f[m]
  BY <1>1 DEF m
<1> QED BY <1>6, <1>10, <1>11 DEF alive

(* The channel drops some of the request's body, or the last of it.        *)
LEMMA ServerDroppedSome ==
  ASSUME NEW r \in 1..N, NEW w \in Seq(Unit), NEW s, ServerDid(r, w, s.alive, s),
         NEW k \in Nat, k > 0, k <= s.remaining
  PROVE  LET t == ServerDropped(s, k)
             v == Body(s.remaining - k)
         IN  ServerDid(r, v, s.alive, t) /\ t.in = << >>
<1> DEFINE v == Body(s.remaining - k)
           s1 == [s EXCEPT !.remaining = @ - k]
           s2 == [s1 EXCEPT !.left = 0]
           t == ServerDropped(s, k)
<1>1. /\ s \in Server /\ s.bad = "no" /\ s.out = << >> /\ ~s.armed
      /\ s.requested > 0 /\ s.requested = s.left /\ s.in = << >> /\ s.reading = "BODY"
      /\ s.active /\ s.size = RspBody[r] /\ s.left > 0 /\ s.remaining \in Nat /\ s.left \in Nat
  <2>1. s \in Server /\ s.bad = "no" /\ s.remaining \in Nat /\ s.left \in Nat /\ s.requested \in Nat
    BY DEF ServerDid, Server
  <2>2. s.requested > 0 /\ s.reading = "BODY" /\ s.requested = s.left /\ s.in = << >>
    BY <2>1 DEF ServerDid, ServerDrops
  <2> QED BY <2>1, <2>2 DEF ServerDid, AtServer, ServerIdle
<1>2. s.remaining - k \in Nat
  BY <1>1
<1>3. v \in Seq(Unit) /\ Cat(<< >>, v) = v /\ << >> \in Seq(Unit)
  BY <1>2, BodySeq DEF Cat
<1>4. /\ s1 \in Server /\ s1.bad = "no" /\ s1.out = << >> /\ ~s1.armed /\ s1.alive = s.alive
      /\ s1.requested = s.requested /\ s1.left = s.left /\ s1.in = << >> /\ s1.reading = "BODY"
      /\ s1.active /\ s1.size = RspBody[r] /\ s1.remaining = s.remaining - k
  BY <1>1, <1>2 DEF Server
<1> HIDE DEF s1
<1>5. CASE s1.remaining > 0
  <2>1. t = s1
    BY <1>5 DEF ServerDropped, s1
  <2> HIDE DEF t
  <2>2. AtServer(s1, r, Cat(s1.in, v))
    BY <1>1, <1>3, <1>4 DEF AtServer
  <2>3. ServerDrops(s1)
    BY <1>1, <1>2, <1>4, <1>5 DEF ServerDrops
  <2> QED BY <1>4, <2>1, <2>2, <2>3 DEF ServerDid, t
<1>6. CASE ~(s1.remaining > 0)
  <2>1. s1.remaining = 0 /\ v = << >>
    BY <1>2, <1>4, <1>6, NoBody
  <2>2. t = ResetDrop(ServeResponse(s2))
    BY <1>1, <1>6 DEF ServerDropped, s1, Check
  <2> HIDE DEF t
  <2>3. /\ s2 \in Server /\ s2.bad = "no" /\ s2.out = << >> /\ s2.alive = s.alive
        /\ s2.left = 0 /\ s2.in = << >> /\ s2.active /\ s2.size = RspBody[r]
        /\ s2.remaining = 0
    BY <1>4, <2>1 DEF Server
  <2> HIDE DEF s2
  <2>4. PICK u : u = ServeResponse(s2)
    OBVIOUS
  <2>5. /\ u \in Server /\ u.bad = "no" /\ u.alive = s2.alive /\ u.in = s2.in
        /\ u.remaining = s2.remaining
        /\ ServerIdle(u) /\ u.out = WholeResponse(s2.size) /\ u.armed
    BY <2>3, <2>4, Responds
  <2>6. t = [u EXCEPT !.requested = 0]
    BY <2>2, <2>3, <2>4, <2>5 DEF ResetDrop
  <2>7. /\ t \in Server /\ t.bad = "no" /\ t.alive = s.alive /\ t.in = << >>
        /\ t.requested = 0 /\ t.remaining = 0 /\ ServerIdle(t)
        /\ t.out = WholeResponse(RspBody[r]) /\ t.armed
    BY <2>3, <2>5, <2>6 DEF Server, ServerIdle
  <2> QED BY <2>1, <2>7 DEF ServerDid, ServerDrops, t, v
<1> QED BY <1>5, <1>6

(* Where the client is in its answer to request r, of which a is to come.  *)
AtClient(c, r, a) ==
  \/ /\ c.reading = "STATUS_LINE" /\ c.left = 0 /\ c.metas[r] = 0 /\ c.got[r] = 0
     /\ a = WholeResponse(RspBody[r])
  \/ /\ c.reading = "HEADERS" /\ c.left = 0 /\ c.metas[r] = 0 /\ c.got[r] = 0
     /\ a = RspFromLength(RspBody[r])
  \/ /\ c.reading = "HEADERS" /\ c.left = RspBody[r] /\ c.metas[r] = 0 /\ c.got[r] = 0
     /\ a \in {RspFromDummy(RspBody[r]), RspFromEnd(RspBody[r])}
  \/ /\ c.reading = "BODY" /\ c.left > 0 /\ c.metas[r] = 1 /\ c.got[r] + c.left = RspBody[r]
     /\ a = Body(c.left)

(* The connection has read no part of a response.                          *)
ClientIdle(c) == c.reading = "STATUS_LINE" /\ c.left = 0

(* The channel drops for the connection all that is left of a body.        *)
ClientDrops(c) ==
  IF c.reading = "BODY" THEN c.requested > 0 /\ c.remaining = c.left
  ELSE c.requested = 0 /\ c.remaining = 0

(* How many requests have been written.                                    *)
Begun(c) == IF c.active = 0 THEN Len(c.done) ELSE Len(c.done) + 1

(* The first n requests, in order: those answered in full, the active      *)
(* one, those that wait.                                                   *)
Tally(c, n) ==
  /\ c.active # 0 => c.active = Len(c.done) + 1
  /\ \A i \in 1..Len(c.done) : c.done[i] = i /\ c.metas[i] = 1 /\ c.got[i] = RspBody[i]
  /\ \A i \in 1..N : i > Begun(c) => c.metas[i] = 0 /\ c.got[i] = 0
  /\ n = Begun(c) + Len(c.submitted)
  /\ \A i \in 1..Len(c.submitted) : c.submitted[i] = Begun(c) + i

(* No CHECK has failed, and the requests are accounted for.                *)
Healthy(c, n) == c \in Client /\ c.bad = "no" /\ Tally(c, n)

(* What the connection goes on with: nothing, or its next request.         *)
SentNext(c) ==
  \/ c.active = 0 /\ c.out = << >> /\ ~c.armed
  \/ /\ c.active # 0 /\ c.out = WholeRequest(c.active) /\ c.armed
     /\ c.metas[c.active] = 0 /\ c.got[c.active] = 0

(* Its side of the channel, but for the output, is as it was.              *)
Kept(c, d) ==
  /\ d.in = c.in /\ d.requested = c.requested /\ d.remaining = c.remaining
  /\ d.state = c.state

(* _maybe_http_write_to_transport with no active request writes the next   *)
(* one, if any, whole.                                                     *)
LEMMA Sends ==
  ASSUME NEW n \in Nat, NEW c, Healthy(c, n), c.active = 0, c.out = << >>, ~c.armed
  PROVE  LET d == MaybeSend(c)
         IN  /\ Healthy(d, n) /\ Kept(c, d) /\ SentNext(d)
             /\ d.reading = c.reading /\ d.left = c.left
<1> DEFINE d == MaybeSend(c)
<1>1. c \in Client /\ c.bad = "no" /\ Tally(c, n)
  BY DEF Healthy
<1>2. CASE c.submitted = << >>
  <2>1. d = c
    BY <1>2 DEF MaybeSend
  <2> QED BY <1>1, <2>1 DEF Healthy, Kept, SentNext
<1>3. CASE c.submitted # << >>
  <2> DEFINE r == Head(c.submitted)
             rest == Tail(c.submitted)
             a == [c EXCEPT !.out = @ \o RequestHead(r), !.armed = TRUE]
             b == [a EXCEPT !.out = @ \o Body(ReqBody[r])]
             e == [b EXCEPT !.submitted = Tail(@), !.active = r]
  <2>1. c.submitted \in Seq(1..N) /\ c.done \in Seq(1..N) /\ c.metas \in [1..N -> Nat]
        /\ c.got \in [1..N -> Nat]
    BY <1>1 DEF Client
  <2>2. /\ r \in 1..N /\ rest \in Seq(1..N) /\ Len(c.submitted) \in Nat /\ Len(c.done) \in Nat
        /\ r = c.submitted[1] /\ Len(rest) = Len(c.submitted) - 1 /\ Len(c.submitted) >= 1
        /\ \A i \in 1..Len(rest) : rest[i] = c.submitted[i + 1]
    <3>1. PICK q \in Seq(1..N) : q = c.submitted /\ q # << >>
      BY <1>3, <2>1
    <3>2. Len(q) \in Nat /\ Len(q) >= 1 /\ Head(q) = q[1]
      BY <3>1
    <3>3. Head(q) \in 1..N /\ Tail(q) \in Seq(1..N)
      BY <3>1, HeadTailProperties
    <3>4. Len(Tail(q)) = Len(q) - 1 /\ \A i \in 1..Len(Tail(q)) : Tail(q)[i] = q[i + 1]
      BY <3>1, HeadTailProperties
    <3>5. Len(c.done) \in Nat
      BY <2>1
    <3> QED BY <3>1, <3>2, <3>3, <3>4, <3>5
  <2>3. d = e
    BY <1>3, Zenon DEF MaybeSend, WriteDummy, WriteBuffer
  <2>4. /\ RequestHead(r) \in Seq(Unit) /\ RequestHead(r) \o Body(ReqBody[r]) = WholeRequest(r)
        /\ WholeRequest(r) \in Seq(Unit)
    BY <2>2, ReqForms
  <2>5. c.out \o RequestHead(r) = RequestHead(r)
    <3> HIDE DEF r
    <3> QED BY <2>4
  <2> HIDE DEF d, r, rest
  <2>6. /\ a \in Client /\ a.bad = "no" /\ Kept(c, a) /\ a.out = RequestHead(r) /\ a.armed
        /\ a.submitted = c.submitted /\ a.done = c.done /\ a.metas = c.metas /\ a.got = c.got
        /\ a.reading = c.reading /\ a.left = c.left /\ a.active = 0
    <3>1. a = [c EXCEPT !.out = RequestHead(r), !.armed = TRUE]
      BY <2>5
    <3> HIDE DEF a
    <3>2. a \in Client
      BY <1>1, <2>4, <3>1 DEF Client
    <3>3. /\ a.bad = "no" /\ Kept(c, a) /\ a.out = RequestHead(r) /\ a.armed
          /\ a.submitted = c.submitted /\ a.done = c.done /\ a.metas = c.metas /\ a.got = c.got
          /\ a.reading = c.reading /\ a.left = c.left /\ a.active = 0
      BY <1>1, <3>1 DEF Client, Kept
    <3> QED BY <3>2, <3>3
  <2> HIDE DEF a
  <2>7. /\ b \in Client /\ b.bad = "no" /\ Kept(c, b) /\ b.out = WholeRequest(r) /\ b.armed
        /\ b.submitted = c.submitted /\ b.done = c.done /\ b.metas = c.metas /\ b.got = c.got
        /\ b.reading = c.reading /\ b.left = c.left /\ b.active = 0
    <3>1. b = [a EXCEPT !.out = WholeRequest(r)]
      BY <2>4, <2>6
    <3> HIDE DEF b
    <3>2. b \in Client
      BY <2>4, <2>6, <3>1 DEF Client
    <3>3. /\ b.bad = "no" /\ Kept(c, b) /\ b.out = WholeRequest(r) /\ b.armed
          /\ b.submitted = c.submitted /\ b.done = c.done /\ b.metas = c.metas /\ b.got = c.got
          /\ b.reading = c.reading /\ b.left = c.left /\ b.active = 0
      BY <2>6, <3>1 DEF Client, Kept
    <3> QED BY <3>2, <3>3
  <2> HIDE DEF b
  <2>8. /\ e \in Client /\ e.bad = "no" /\ Kept(c, e) /\ e.out = WholeRequest(r) /\ e.armed
        /\ e.submitted = rest /\ e.done = c.done /\ e.metas = c.metas /\ e.got = c.got
        /\ e.reading = c.reading /\ e.left = c.left /\ e.active = r
    <3>1. e = [b EXCEPT !.submitted = rest, !.active = r]
      BY <2>7 DEF rest
    <3> HIDE DEF e
    <3>2. r \in 0..N
      BY <2>2, ExchangeAssumption
    <3>3. e \in Client
      BY <2>2, <2>7, <3>1, <3>2 DEF Client
    <3>4. /\ e.bad = "no" /\ Kept(c, e) /\ e.out = WholeRequest(r) /\ e.armed
          /\ e.submitted = rest /\ e.done = c.done /\ e.metas = c.metas /\ e.got = c.got
          /\ e.reading = c.reading /\ e.left = c.left /\ e.active = r
      BY <2>7, <3>1 DEF Client, Kept
    <3> QED BY <3>3, <3>4
  <2> HIDE DEF e
  <2>9. Begun(c) = Len(c.done) /\ Begun(e) = Len(c.done) + 1 /\ r = Len(c.done) + 1
    <3>1. Begun(c) = Len(c.done) /\ Begun(e) = Len(c.done) + 1
      BY <2>2, <2>8 DEF Begun
    <3>2. 1 \in 1..Len(c.submitted)
      BY <2>2
    <3>3. c.submitted[1] = Begun(c) + 1
      BY <1>1, <3>2 DEF Tally
    <3> QED BY <2>2, <3>1, <3>3
  <2>10. e.metas[r] = 0 /\ e.got[r] = 0
    <3>1. r > Begun(c)
      BY <2>2, <2>9
    <3> QED BY <1>1, <2>2, <2>8, <3>1 DEF Tally
  <2>11. Tally(e, n)
    <3>1. e.active = Len(e.done) + 1
      BY <2>8, <2>9
    <3>2. \A i \in 1..Len(e.done) : e.done[i] = i /\ e.metas[i] = 1 /\ e.got[i] = RspBody[i]
      BY <1>1, <2>8 DEF Tally
    <3>3. \A i \in 1..N : i > Begun(e) => e.metas[i] = 0 /\ e.got[i] = 0
      <4>1. \A i \in 1..N : i > Begun(e) => i > Begun(c)
        BY <2>2, <2>9
      <4> QED BY <1>1, <2>8, <4>1 DEF Tally
    <3>4. n = Begun(e) + Len(e.submitted)
      <4>1. n = Begun(c) + Len(c.submitted)
        BY <1>1 DEF Tally
      <4>2. PICK l \in Nat, m \in Nat : l = Len(c.done) /\ m = Len(c.submitted)
        BY <2>2
      <4>3. n = l + m /\ Begun(e) = l + 1 /\ Len(e.submitted) = m - 1
        BY <2>2, <2>8, <2>9, <4>1, <4>2
      <4> QED BY <4>3
    <3>5. \A i \in 1..Len(e.submitted) : e.submitted[i] = Begun(e) + i
      <4> SUFFICES ASSUME NEW i \in 1..Len(rest)
                   PROVE  rest[i] = Begun(e) + i
        BY <2>8
      <4>1. i + 1 \in 1..Len(c.submitted)
        BY <2>2
      <4>2. c.submitted[i + 1] = Begun(c) + (i + 1)
        BY <1>1, <4>1 DEF Tally
      <4>3. rest[i] = c.submitted[i + 1]
        BY <2>2
      <4>4. PICK l \in Nat : l = Len(c.done)
        BY <2>2
      <4>5. Begun(c) + (i + 1) = Begun(e) + i
        <5>1. i \in Nat
          BY <2>2
        <5>2. Begun(c) = l /\ Begun(e) = l + 1
          BY <2>9, <4>4
        <5>3. l + (i + 1) = (l + 1) + i
          BY <5>1
        <5> QED BY <5>2, <5>3, Zenon
      <4> QED BY <4>2, <4>3, <4>5
    <3> HIDE DEF e
    <3> QED BY <3>1, <3>2, <3>3, <3>4, <3>5, Zenon DEF Tally
  <2>12. SentNext(e) /\ Healthy(e, n)
    BY <2>2, <2>8, <2>10, <2>11 DEF SentNext, Healthy
  <2> QED BY <2>3, <2>8, <2>12 DEF d
<1> QED BY <1>2, <1>3

(* It is reading the body of its answer.                                   *)
InBody(c, n) ==
  /\ Healthy(c, n) /\ c.active # 0 /\ c.reading = "BODY" /\ c.left > 0
  /\ c.metas[c.active] = 1 /\ c.got[c.active] + c.left = RspBody[c.active]
  /\ c.out = << >> /\ ~c.armed

(* It has read its answer, and gone on.                                    *)
WentOn(c, n) == Healthy(c, n) /\ ClientIdle(c) /\ SentNext(c)

(* The active request is one of those submitted.                           *)
LEMMA ActiveOne ==
  ASSUME NEW c \in Client, c.active # 0
  PROVE  c.active \in 1..N /\ RspBody[c.active] \in Nat
BY ExchangeAssumption DEF Client

(* _done_with_resp after the last byte: the response is complete, the      *)
(* next request goes out.                                                  *)
LEMMA Finishes ==
  ASSUME NEW n \in Nat, NEW c, Healthy(c, n), c.active # 0, c.left = 0, c.metas[c.active] = 1,
         c.got[c.active] = RspBody[c.active], c.out = << >>, ~c.armed
  PROVE  LET d == DoneWithResponse(c)
         IN  WentOn(d, n) /\ Kept(c, d)
<1> DEFINE r == c.active
           e == [c EXCEPT !.active = 0, !.done = Append(@, c.active), !.reading = "STATUS_LINE"]
           d == DoneWithResponse(c)
<1>1. c \in Client /\ c.bad = "no" /\ Tally(c, n)
  BY DEF Healthy
<1>2. r \in 1..N /\ c.done \in Seq(1..N) /\ 0 \in 0..N
  BY <1>1, ActiveOne, ExchangeAssumption DEF Client
<1>3. PICK p \in Seq(1..N) : p = Append(c.done, r)
  <2> HIDE DEF r
  <2>1. Append(c.done, r) \in Seq(1..N)
    BY <1>2, AppendProperties
  <2> QED BY <2>1
<1>4. /\ Len(c.done) \in Nat /\ Len(p) = Len(c.done) + 1 /\ p[Len(c.done) + 1] = r
      /\ \A i \in 1..Len(c.done) : p[i] = c.done[i]
  BY <1>2, <1>3
<1>5. r = Len(c.done) + 1
  BY <1>1 DEF Tally
<1>6. d = MaybeSend(e)
  <2> DEFINE F(x) == MaybeSend([x EXCEPT !.active = 0, !.done = Append(@, c.active),
                                         !.reading = "STATUS_LINE"])
  <2>1. Check(c, c.left = 0 /\ c.got[c.active] = RspBody[c.active], "size") = c
    BY DEF Check
  <2>2. d = F(Check(c, c.left = 0 /\ c.got[c.active] = RspBody[c.active], "size"))
    BY Zenon DEF DoneWithResponse
  <2>3. F(c) = MaybeSend(e)
    BY Zenon
  <2> HIDE DEF F, e, d
  <2> QED BY <2>1, <2>2, <2>3
<1>7. e = [c EXCEPT !.active = 0, !.done = p, !.reading = "STATUS_LINE"]
  BY <1>3
<1> HIDE DEF d, e, r
<1>8. /\ e \in Client /\ e.bad = "no" /\ e.active = 0 /\ e.done = p /\ e.reading = "STATUS_LINE"
      /\ e.out = << >> /\ ~e.armed /\ e.left = 0 /\ e.metas = c.metas /\ e.got = c.got
      /\ e.submitted = c.submitted /\ Kept(c, e)
  <2>1. e \in Client
    BY <1>1, <1>2, <1>7 DEF Client
  <2> QED BY <1>1, <1>7, <2>1, SMTT(30) DEF Client, Kept
<1>9. Begun(e) = Len(c.done) + 1 /\ Begun(c) = Len(c.done) + 1
  BY <1>4, <1>8 DEF Begun
<1>10. Tally(e, n)
  <2>1. e.active # 0 => e.active = Len(e.done) + 1
    BY <1>8
  <2>2. ASSUME NEW i \in 1..Len(e.done)
        PROVE  e.done[i] = i /\ e.metas[i] = 1 /\ e.got[i] = RspBody[i]
    <3>1. CASE i \in 1..Len(c.done)
      BY <1>1, <1>4, <1>8, <3>1 DEF Tally
    <3>2. CASE i = r
      BY <1>4, <1>5, <1>8, <3>2 DEF r
    <3>3. i \in 1..Len(c.done) \/ i = r
      BY <1>4, <1>5, <1>8
    <3> QED BY <3>1, <3>2, <3>3
  <2>3. \A i \in 1..N : i > Begun(e) => e.metas[i] = 0 /\ e.got[i] = 0
    BY <1>1, <1>8, <1>9 DEF Tally
  <2>4. n = Begun(e) + Len(e.submitted)
    BY <1>1, <1>8, <1>9 DEF Tally
  <2>5. \A i \in 1..Len(e.submitted) : e.submitted[i] = Begun(e) + i
    BY <1>1, <1>8, <1>9 DEF Tally
  <2> QED BY <2>1, <2>2, <2>3, <2>4, <2>5, Zenon DEF Tally
<1>11. Healthy(e, n)
  BY <1>8, <1>10 DEF Healthy
<1>12. /\ Healthy(d, n) /\ Kept(e, d) /\ SentNext(d)
       /\ d.reading = e.reading /\ d.left = e.left
  BY <1>6, <1>8, <1>11, Sends
<1> QED BY <1>8, <1>12 DEF WentOn, ClientIdle, Kept, d

(* A piece of the body: more is to come, or the answer is done.            *)
LEMMA Chunk ==
  ASSUME NEW n \in Nat, NEW c, InBody(c, n), NEW k \in Nat, k > 0, k <= c.left
  PROVE  LET d == GotAChunk(c, k)
         IN  /\ Kept(c, d)
             /\ IF k < c.left THEN InBody(d, n) /\ d.left = c.left - k ELSE WentOn(d, n)
<1> DEFINE r == c.active
           g == [c.got EXCEPT ![r] = @ + k]
           e == [c EXCEPT !.left = @ - k, !.got = g]
           d == GotAChunk(c, k)
<1>1. /\ c \in Client /\ c.bad = "no" /\ Tally(c, n) /\ r # 0 /\ c.reading = "BODY" /\ c.left > 0
      /\ c.metas[r] = 1 /\ c.got[r] + c.left = RspBody[r] /\ c.out = << >> /\ ~c.armed
  BY DEF InBody, Healthy
<1>2. r \in 1..N /\ c.left \in Nat /\ c.got \in [1..N -> Nat] /\ RspBody[r] \in Nat
  BY <1>1, ActiveOne DEF Client
<1>3. g \in [1..N -> Nat] /\ g[r] = c.got[r] + k /\ \A i \in 1..N : i # r => g[i] = c.got[i]
  <2>1. PICK f \in [1..N -> Nat], i \in 1..N : f = c.got /\ i = r
    BY <1>2
  <2>2. PICK v \in Nat : v = f[i] + k
    OBVIOUS
  <2>3. PICK h \in [1..N -> Nat] :
          h = [f EXCEPT ![i] = v] /\ h[i] = v /\ \A j \in 1..N : j # i => h[j] = f[j]
    <3>1. [f EXCEPT ![i] = v] \in [1..N -> Nat] /\ [f EXCEPT ![i] = v][i] = v
      OBVIOUS
    <3>2. \A j \in 1..N : j # i => [f EXCEPT ![i] = v][j] = f[j]
      OBVIOUS
    <3> QED BY <3>1, <3>2, Zenon
  <2>4. g = h
    BY <2>1, <2>2, <2>3
  <2> HIDE DEF g, r
  <2> QED BY <2>1, <2>2, <2>3, <2>4
<1>4. d = IF e.left = 0 THEN DoneWithResponse(e) ELSE e
  <2> DEFINE h(x) == [x EXCEPT !.left = @ - k, !.got[c.active] = @ + k]
             F(x) == IF h(x).left = 0 THEN DoneWithResponse(h(x)) ELSE h(x)
  <2>1. Check(c, c.left >= k, "chunk") = c
    BY DEF Check
  <2>2. d = F(Check(c, c.left >= k, "chunk"))
    BY Zenon DEF GotAChunk
  <2>3. h(c) = e
    BY <1>1 DEF Client
  <2> HIDE DEF e, d
  <2>4. F(c) = IF e.left = 0 THEN DoneWithResponse(e) ELSE e
    <3> HIDE DEF h
    <3> QED BY <2>3, Zenon
  <2> HIDE DEF F
  <2>5. F(c) = d
    BY <2>1, <2>2
  <2> QED BY <2>4, <2>5, Zenon
<1>5. c.left - k \in Nat
  BY <1>2
<1> HIDE DEF d, g, r
<1>6. /\ e \in Client /\ e.bad = "no" /\ e.active = r /\ e.done = c.done /\ e.reading = "BODY"
      /\ e.out = << >> /\ ~e.armed /\ e.left = c.left - k /\ e.metas = c.metas /\ e.got = g
      /\ e.submitted = c.submitted /\ Kept(c, e)
  <2> HIDE DEF e
  <2>1. e \in Client
    BY <1>1, <1>3, <1>5 DEF Client, e
  <2> QED BY <1>1, <2>1 DEF Client, Kept, e, r
<1> HIDE DEF e
<1>7. r = Len(c.done) + 1 /\ Begun(c) = Len(c.done) + 1 /\ Begun(e) = Len(c.done) + 1
  BY <1>1, <1>6 DEF Tally, Begun, r
<1>8. Len(c.done) \in Nat
  BY <1>1 DEF Client
<1>9. Tally(e, n)
  <2>1. e.active = Len(e.done) + 1
    BY <1>6, <1>7
  <2>2. ASSUME NEW i \in 1..Len(e.done)
        PROVE  e.done[i] = i /\ e.metas[i] = 1 /\ e.got[i] = RspBody[i]
    <3>1. i \in 1..Len(c.done) /\ i # r /\ i \in 1..N
      <4>1. PICK l \in Nat : l = Len(c.done)
        BY <1>8
      <4>2. i \in 1..l /\ r = l + 1 /\ l + 1 \in 1..N
        BY <1>2, <1>6, <1>7, <4>1
      <4>3. i # r /\ i \in 1..N
        BY <4>2, ExchangeAssumption
      <4> QED BY <4>1, <4>2, <4>3
    <3>2. c.done[i] = i /\ c.metas[i] = 1 /\ c.got[i] = RspBody[i]
      BY <1>1, <3>1 DEF Tally
    <3> QED BY <1>3, <1>6, <3>1, <3>2
  <2>3. ASSUME NEW i \in 1..N, i > Begun(e)
        PROVE  e.metas[i] = 0 /\ e.got[i] = 0
    <3>1. i > Begun(c) /\ i # r
      BY <1>7, <1>8, <2>3
    <3>2. c.metas[i] = 0 /\ c.got[i] = 0
      BY <1>1, <3>1 DEF Tally
    <3> QED BY <1>3, <1>6, <3>1, <3>2
  <2>4. n = Begun(e) + Len(e.submitted)
    BY <1>1, <1>6, <1>7 DEF Tally
  <2>5. \A i \in 1..Len(e.submitted) : e.submitted[i] = Begun(e) + i
    BY <1>1, <1>6, <1>7 DEF Tally
  <2> QED BY <2>1, <2>2, <2>3, <2>4, <2>5, Zenon DEF Tally
<1>10. Healthy(e, n) /\ e.metas[r] = 1 /\ e.got[r] + e.left = RspBody[r]
  <2>1. PICK x \in Nat, y \in Nat : x = c.got[r] /\ y = c.left
    BY <1>2
  <2>2. (x + k) + (y - k) = x + y
    BY <2>1
  <2>3. e.got[r] = x + k /\ e.left = y - k
    BY <1>3, <1>6, <2>1
  <2>4. e.got[r] + e.left = RspBody[r]
    BY <1>1, <2>1, <2>2, <2>3
  <2> QED BY <1>1, <1>6, <1>9, <2>4 DEF Healthy
<1>11. CASE k < c.left
  <2>1. e.left > 0 /\ d = e
    BY <1>2, <1>4, <1>6, <1>11
  <2>2. InBody(e, n)
    BY <1>1, <1>6, <1>10, <2>1 DEF InBody
  <2> QED BY <1>6, <1>11, <2>1, <2>2 DEF d
<1>12. CASE ~(k < c.left)
  <2>1. e.left = 0 /\ d = DoneWithResponse(e)
    BY <1>2, <1>4, <1>6, <1>12
  <2>2. e.active # 0 /\ e.metas[e.active] = 1 /\ e.got[e.active] = RspBody[e.active]
    <3>1. e.got[r] \in Nat
      BY <1>2, <1>3, <1>6
    <3> QED BY <1>1, <1>6, <1>10, <2>1, <3>1
  <2>3. WentOn(d, n) /\ Kept(e, d)
    BY <1>6, <1>10, <2>1, <2>2, Finishes
  <2> QED BY <1>6, <1>12, <2>3 DEF d, Kept
<1> QED BY <1>11, <1>12

(* What the connection is while it reads what has come, w being still to   *)
(* come.                                                                   *)
ClientDid(n, w, c) ==
  /\ Healthy(c, n) /\ c.requested = 0 /\ c.remaining = 0
  /\ \/ /\ c.active # 0 /\ AtClient(c, c.active, Cat(c.in, w))
        /\ c.out = << >> /\ ~c.armed
     \/ /\ c.in = << >> /\ w = << >> /\ ClientIdle(c) /\ SentNext(c)

(* The requests are as they were.                                          *)
SameBooks(c, d) ==
  /\ d.active = c.active /\ d.done = c.done /\ d.submitted = c.submitted
  /\ d.metas = c.metas /\ d.got = c.got

(* What does not touch the requests keeps them accounted for.              *)
LEMMA BooksKept ==
  ASSUME NEW c, NEW d, NEW n, SameBooks(c, d), Tally(c, n)
  PROVE  Tally(d, n)
BY DEF SameBooks, Tally, Begun

(* The last line before a body is read.                                    *)
LEMMA ClientReadsEnd ==
  ASSUME NEW n \in Nat, NEW w \in Seq(Unit), NEW c, Healthy(c, n), c.active # 0,
         c.requested = 0, c.remaining = 0, c.out = << >>, ~c.armed,
         c.reading = "HEADERS", c.left = RspBody[c.active],
         c.metas[c.active] = 0, c.got[c.active] = 0,
         Cat(c.in, w) = Body(RspBody[c.active])
  PROVE  LET e == [c EXCEPT !.metas[c.active] = @ + 1]
             d == IF e.left > 0 THEN [e EXCEPT !.reading = "BODY"] ELSE DoneWithResponse(e)
         IN  ClientDid(n, w, d) /\ d.state = c.state /\ d.in = c.in
<1> DEFINE r == c.active
           g == [c.metas EXCEPT ![r] = @ + 1]
           e == [c EXCEPT !.metas[c.active] = @ + 1]
           d == IF e.left > 0 THEN [e EXCEPT !.reading = "BODY"] ELSE DoneWithResponse(e)
<1>1. c \in Client /\ c.bad = "no" /\ Tally(c, n)
  BY DEF Healthy
<1>2. /\ r \in 1..N /\ c.metas \in [1..N -> Nat] /\ RspBody[r] \in Nat /\ c.in \in Seq(Unit)
      /\ Len(c.done) \in Nat
  BY <1>1, ActiveOne DEF Client
<1>3. g \in [1..N -> Nat] /\ g[r] = 1 /\ \A i \in 1..N : i # r => g[i] = c.metas[i]
  <2>1. PICK f \in [1..N -> Nat], i \in 1..N : f = c.metas /\ i = r
    BY <1>2
  <2>2. f[i] = 0
    BY <2>1
  <2>3. PICK h \in [1..N -> Nat] :
          h = [f EXCEPT ![i] = 1] /\ h[i] = 1 /\ \A j \in 1..N : j # i => h[j] = f[j]
    <3>1. [f EXCEPT ![i] = 1] \in [1..N -> Nat] /\ [f EXCEPT ![i] = 1][i] = 1
      OBVIOUS
    <3>2. \A j \in 1..N : j # i => [f EXCEPT ![i] = 1][j] = f[j]
      OBVIOUS
    <3> QED BY <3>1, <3>2, Zenon
  <2>4. g = h
    BY <2>1, <2>2, <2>3
  <2> HIDE DEF g, r
  <2> QED BY <2>1, <2>3, <2>4
<1>4. e = [c EXCEPT !.metas = g]
  BY <1>1 DEF Client
<1> HIDE DEF e, g, r, d
<1>5. /\ e \in Client /\ e.bad = "no" /\ e.active = r /\ e.done = c.done /\ e.reading = "HEADERS"
      /\ e.out = << >> /\ ~e.armed /\ e.left = RspBody[r] /\ e.metas = g /\ e.got = c.got
      /\ e.submitted = c.submitted /\ Kept(c, e)
  <2>1. e \in Client
    BY <1>1, <1>3, <1>4 DEF Client
  <2> QED BY <1>1, <1>4, <2>1 DEF Client, Kept, r
<1>6. r = Len(c.done) + 1 /\ Begun(c) = Len(c.done) + 1 /\ Begun(e) = Len(c.done) + 1
  BY <1>1, <1>5 DEF Tally, Begun, r
<1>7. Tally(e, n)
  <2>1. e.active = Len(e.done) + 1
    BY <1>5, <1>6
  <2>2. ASSUME NEW i \in 1..Len(e.done)
        PROVE  e.done[i] = i /\ e.metas[i] = 1 /\ e.got[i] = RspBody[i]
    <3>1. i \in 1..Len(c.done) /\ i # r /\ i \in 1..N
      <4>1. PICK l \in Nat : l = Len(c.done)
        BY <1>2
      <4>2. i \in 1..l /\ r = l + 1 /\ l + 1 \in 1..N
        BY <1>2, <1>5, <1>6, <4>1
      <4>3. i # r /\ i \in 1..N
        BY <4>2, ExchangeAssumption
      <4> QED BY <4>1, <4>2, <4>3
    <3>2. c.done[i] = i /\ c.metas[i] = 1 /\ c.got[i] = RspBody[i]
      BY <1>1, <3>1 DEF Tally
    <3> QED BY <1>3, <1>5, <3>1, <3>2
  <2>3. ASSUME NEW i \in 1..N, i > Begun(e)
        PROVE  e.metas[i] = 0 /\ e.got[i] = 0
    <3>1. i > Begun(c) /\ i # r
      BY <1>2, <1>6, <2>3
    <3>2. c.metas[i] = 0 /\ c.got[i] = 0
      BY <1>1, <3>1 DEF Tally
    <3> QED BY <1>3, <1>5, <3>1, <3>2
  <2>4. n = Begun(e) + Len(e.submitted)
    BY <1>1, <1>5, <1>6 DEF Tally
  <2>5. \A i \in 1..Len(e.submitted) : e.submitted[i] = Begun(e) + i
    BY <1>1, <1>5, <1>6 DEF Tally
  <2> QED BY <2>1, <2>2, <2>3, <2>4, <2>5, Zenon DEF Tally
<1>8. Healthy(e, n) /\ e.metas[r] = 1 /\ e.got[r] = 0
  BY <1>3, <1>5, <1>7 DEF Healthy, r
<1>9. CASE RspBody[r] > 0
  <2>1. d = [e EXCEPT !.reading = "BODY"]
    BY <1>5, <1>9 DEF d, e
  <2>2. /\ d \in Client /\ d.bad = "no" /\ d.active = r /\ d.reading = "BODY" /\ SameBooks(e, d)
        /\ d.out = << >> /\ ~d.armed /\ d.left = RspBody[r] /\ Kept(e, d)
    <3>1. d \in Client
      BY <1>5, <2>1 DEF Client
    <3> QED BY <1>5, <2>1, <3>1 DEF Client, Kept, SameBooks
  <2>3. Healthy(d, n)
    BY <1>7, <2>2, BooksKept DEF Healthy
  <2>4. d.metas[r] = 1 /\ d.got[r] + d.left = RspBody[r] /\ d.left > 0
    <3>1. PICK b \in Nat : b = RspBody[r] /\ b > 0
      BY <1>2, <1>9
    <3>2. d.metas[r] = 1 /\ d.got[r] = 0 /\ d.left = b
      BY <1>8, <2>2, <3>1 DEF SameBooks
    <3>3. 0 + b = b
      OBVIOUS
    <3> QED BY <3>1, <3>2, <3>3
  <2>5. d.in = c.in /\ d.state = c.state /\ d.requested = 0 /\ d.remaining = 0
    BY <1>5, <2>2 DEF Kept
  <2>6. Cat(d.in, w) = Body(d.left)
    BY <2>2, <2>5 DEF r
  <2>7. AtClient(d, d.active, Cat(d.in, w))
    BY <2>2, <2>4, <2>6 DEF AtClient
  <2>8. d.active # 0
    BY <2>2 DEF r
  <2> QED BY <2>2, <2>3, <2>5, <2>7, <2>8 DEF ClientDid, d, e
<1>10. CASE ~(RspBody[r] > 0)
  <2>1. RspBody[r] = 0
    BY <1>2, <1>10
  <2>2. d = DoneWithResponse(e)
    BY <1>5, <2>1 DEF d, e
  <2>3. WentOn(d, n) /\ Kept(e, d)
    <3>1. /\ e.active # 0 /\ e.left = 0 /\ e.metas[e.active] = 1
          /\ e.got[e.active] = RspBody[e.active]
      BY <1>5, <1>8, <2>1 DEF r
    <3> QED BY <1>5, <1>8, <2>2, <3>1, Finishes
  <2>4. c.in = << >> /\ w = << >>
    <3>1. Cat(c.in, w) = Body(0) /\ 0 \in 0..Len(c.in) /\ Len(c.in) \in Nat /\ 0 \in Nat
      BY <1>2, <2>1 DEF r
    <3>2. Len(c.in) <= 0 /\ (0 = Len(c.in) => w = Body(0 - 0))
      BY <1>2, <3>1, TakeSome
    <3>3. Len(c.in) = 0 /\ w = Body(0)
      BY <3>1, <3>2
    <3> QED BY <1>2, <3>3, NoBody
  <2>5. d.in = c.in /\ d.state = c.state /\ d.requested = 0 /\ d.remaining = 0
    BY <1>5, <2>3 DEF Kept
  <2> QED BY <2>3, <2>4, <2>5 DEF ClientDid, WentOn, d, e
<1> QED BY <1>9, <1>10 DEF d, e

(* A line of the answer is read.                                           *)
LEMMA ClientReadsLine ==
  ASSUME NEW n \in Nat, NEW w \in Seq(Unit), NEW c, ClientDid(n, w, c),
         c.in # << >>, c.reading # "BODY"
  PROVE  LET d == ReadRspLine(c)
         IN  ClientDid(n, w, d) /\ d.state = c.state /\ Len(d.in) = Len(c.in) - 1
<1> DEFINE r == c.active
           b == RspBody[r]
           u == Head(c.in)
           e == [c EXCEPT !.in = Tail(@)]
           d == ReadRspLine(c)
<1>1. /\ c \in Client /\ c.bad = "no" /\ Tally(c, n) /\ c.requested = 0 /\ c.remaining = 0
      /\ r # 0 /\ AtClient(c, r, Cat(c.in, w)) /\ c.out = << >> /\ ~c.armed
  BY DEF ClientDid, Healthy
<1>2. c.in \in Seq(Unit) /\ r \in 1..N /\ b \in Nat
  BY <1>1, ActiveOne DEF Client
<1>3. /\ RspFromEnd(b) \in Seq(Unit) /\ RspFromDummy(b) \in Seq(Unit)
      /\ RspFromLength(b) \in Seq(Unit) /\ WholeResponse(b) \in Seq(Unit)
  BY <1>2, RspForms
<1>4. Tail(c.in) \in Seq(Unit)
  BY <1>2
<1>5. /\ e \in Client /\ e.bad = "no" /\ SameBooks(c, e) /\ e.requested = 0 /\ e.remaining = 0
      /\ e.out = << >> /\ ~e.armed /\ e.in = Tail(c.in) /\ e.left = c.left
      /\ e.reading = c.reading /\ e.state = c.state
  <2>1. e \in Client
    BY <1>1, <1>4 DEF Client
  <2> QED BY <1>1, <2>1 DEF Client, SameBooks
<1>6. Tally(e, n) /\ Healthy(e, n)
  BY <1>1, <1>5, BooksKept DEF Healthy
<1> HIDE DEF e
<1>7. CASE c.reading = "STATUS_LINE"
  <2>1. /\ Cat(c.in, w) = Then(Line("status", 0), RspFromLength(b))
        /\ c.left = 0 /\ c.metas[r] = 0 /\ c.got[r] = 0
    BY <1>1, <1>7 DEF AtClient, WholeResponse
  <2>2. Line("status", 0) \in Unit /\ Line("status", 0).kind = "status"
    BY LineUnit
  <2>3. /\ u = Line("status", 0) /\ Cat(Tail(c.in), w) = RspFromLength(b)
        /\ Len(Tail(c.in)) = Len(c.in) - 1
    BY <1>2, <1>3, <2>1, <2>2, TakeLine
  <2>4. d = [e EXCEPT !.reading = "HEADERS"]
    BY <1>1, <1>7, <2>2, <2>3 DEF ReadRspLine, e, Check
  <2> HIDE DEF d, u, b, r
  <2>5. /\ d \in Client /\ d.bad = "no" /\ SameBooks(e, d) /\ d.requested = 0
        /\ d.remaining = 0 /\ d.out = << >> /\ ~d.armed /\ d.in = Tail(c.in) /\ d.left = 0
        /\ d.reading = "HEADERS" /\ d.state = c.state
    <3>1. d \in Client
      BY <1>5, <2>4 DEF Client
    <3> QED BY <1>5, <2>1, <2>4, <3>1 DEF Client, SameBooks
  <2>6. Healthy(d, n) /\ d.active = r /\ d.metas = c.metas /\ d.got = c.got
    BY <1>5, <1>6, <2>5, BooksKept DEF Healthy, SameBooks, r
  <2>7. AtClient(d, r, Cat(d.in, w))
    BY <2>1, <2>3, <2>5, <2>6 DEF AtClient, b
  <2> QED BY <1>1, <2>3, <2>5, <2>6, <2>7 DEF ClientDid, d, r
<1>8. CASE /\ c.reading = "HEADERS" /\ Cat(c.in, w) = RspFromLength(b)
           /\ c.metas[r] = 0 /\ c.got[r] = 0
  <2>1. Cat(c.in, w) = Then(Line("length", b), RspFromDummy(b))
    BY <1>8 DEF RspFromLength
  <2>2. /\ Line("length", b) \in Unit /\ Line("length", b).kind = "length"
        /\ Line("length", b).value = b
    BY <1>2, LineUnit
  <2>3. /\ u = Line("length", b) /\ Cat(Tail(c.in), w) = RspFromDummy(b)
        /\ Len(Tail(c.in)) = Len(c.in) - 1
    BY <1>2, <1>3, <2>1, <2>2, TakeLine
  <2>4. d = [e EXCEPT !.left = b]
    BY <1>1, <1>8, <2>2, <2>3 DEF ReadRspLine, e
  <2> HIDE DEF d, u, b, r
  <2>5. /\ d \in Client /\ d.bad = "no" /\ SameBooks(e, d) /\ d.requested = 0
        /\ d.remaining = 0 /\ d.out = << >> /\ ~d.armed /\ d.in = Tail(c.in) /\ d.left = b
        /\ d.reading = "HEADERS" /\ d.state = c.state
    <3>1. d \in Client
      BY <1>2, <1>5, <2>4 DEF Client
    <3> QED BY <1>5, <1>8, <2>4, <3>1 DEF Client, SameBooks
  <2>6. Healthy(d, n) /\ d.active = r /\ d.metas = c.metas /\ d.got = c.got
    BY <1>5, <1>6, <2>5, BooksKept DEF Healthy, SameBooks, r
  <2>7. AtClient(d, r, Cat(d.in, w))
    BY <1>8, <2>3, <2>5, <2>6 DEF AtClient, b
  <2> QED BY <1>1, <2>3, <2>5, <2>6, <2>7 DEF ClientDid, d, r
<1>9. CASE /\ c.reading = "HEADERS" /\ Cat(c.in, w) = RspFromDummy(b) /\ c.left = b
           /\ c.metas[r] = 0 /\ c.got[r] = 0
  <2>1. Cat(c.in, w) = Then(Line("dummy", 0), RspFromEnd(b))
    BY <1>9 DEF RspFromDummy
  <2>2. Line("dummy", 0) \in Unit /\ Line("dummy", 0).kind = "dummy"
    BY LineUnit
  <2>3. /\ u = Line("dummy", 0) /\ Cat(Tail(c.in), w) = RspFromEnd(b)
        /\ Len(Tail(c.in)) = Len(c.in) - 1
    BY <1>2, <1>3, <2>1, <2>2, TakeLine
  <2>4. d = e
    BY <1>1, <1>9, <2>2, <2>3 DEF ReadRspLine, e
  <2> HIDE DEF d, u, b, r
  <2>6. e.active = r /\ e.metas = c.metas /\ e.got = c.got
    BY <1>5 DEF SameBooks, r
  <2>7. AtClient(e, r, Cat(e.in, w))
    BY <1>5, <1>9, <2>3, <2>6 DEF AtClient, b
  <2> QED BY <1>1, <1>5, <1>6, <2>3, <2>4, <2>6, <2>7 DEF ClientDid, d, r
<1>10. CASE /\ c.reading = "HEADERS" /\ Cat(c.in, w) = RspFromEnd(b) /\ c.left = b
            /\ c.metas[r] = 0 /\ c.got[r] = 0
  <2>1. Cat(c.in, w) = Then(Line("end", 0), Body(b))
    BY <1>10 DEF RspFromEnd
  <2>2. /\ Line("end", 0) \in Unit /\ Line("end", 0).kind = "end" /\ Body(b) \in Seq(Unit)
    BY <1>2, LineUnit, BodySeq
  <2>3. /\ u = Line("end", 0) /\ Cat(Tail(c.in), w) = Body(b)
        /\ Len(Tail(c.in)) = Len(c.in) - 1
    BY <1>2, <1>3, <2>1, <2>2, TakeLine
  <2> DEFINE f == [e EXCEPT !.metas[e.active] = @ + 1]
  <2>4. e.active = r /\ e.metas = c.metas /\ e.got = c.got
    BY <1>5 DEF SameBooks
  <2>5. d = IF f.left > 0 THEN [f EXCEPT !.reading = "BODY"] ELSE DoneWithResponse(f)
    <3>1. ReadRspLine(c) = LET g == [e EXCEPT !.metas[c.active] = @ + 1]
                           IN  IF g.left > 0 THEN [g EXCEPT !.reading = "BODY"]
                                             ELSE DoneWithResponse(g)
      BY <1>1, <1>10, <2>2, <2>3 DEF ReadRspLine, e
    <3> QED BY <2>4, <3>1
  <2> HIDE DEF d, u, b, f
  <2>6. /\ e.active # 0 /\ e.reading = "HEADERS" /\ e.left = RspBody[e.active]
        /\ e.metas[e.active] = 0 /\ e.got[e.active] = 0
        /\ Cat(e.in, w) = Body(RspBody[e.active])
    BY <1>1, <1>5, <1>10, <2>3, <2>4 DEF b
  <2>7. ClientDid(n, w, d) /\ d.state = e.state /\ d.in = e.in
    BY <1>5, <1>6, <2>5, <2>6, ClientReadsEnd DEF f
  <2> QED BY <1>5, <2>3, <2>7 DEF d
<1> QED BY <1>1, <1>7, <1>8, <1>9, <1>10 DEF AtClient

(* Where the client is once it has read what came, w being still to come.  *)
ClientAfter(n, w, c) ==
  /\ Healthy(c, n) /\ ClientDrops(c) /\ c.in = << >>
  /\ \/ c.active # 0 /\ AtClient(c, c.active, w) /\ c.out = << >> /\ ~c.armed
     \/ w = << >> /\ ClientIdle(c) /\ SentNext(c)

(* All that came is read, and the channel is to drop the rest of the       *)
(* body.                                                                   *)
LEMMA BodyAfter ==
  ASSUME NEW n, NEW w, NEW c, InBody(c, n), c.in = << >>, w = Body(c.left),
         c.requested > 0, c.remaining = c.left
  PROVE  ClientAfter(n, w, c)
<1>1. AtClient(c, c.active, w)
  BY DEF InBody, AtClient
<1>2. ClientDrops(c)
  BY DEF InBody, ClientDrops
<1> QED BY <1>1, <1>2 DEF InBody, ClientAfter

(* All that came is read, and the response is complete.                    *)
LEMMA DoneAfter ==
  ASSUME NEW n, NEW w, NEW c, WentOn(c, n), c.in = << >>, w = << >>,
         c.requested = 0, c.remaining = 0
  PROVE  ClientAfter(n, w, c)
<1>1. ClientDrops(c)
  BY DEF WentOn, ClientIdle, ClientDrops
<1> QED BY <1>1 DEF WentOn, ClientAfter

(* The connection reads what there is of the body and has the channel      *)
(* drop the rest.                                                          *)
LEMMA ClientReadsBody ==
  ASSUME NEW n \in Nat, NEW w \in Seq(Unit), NEW c, InBody(c, n),
         c.requested = 0, c.remaining = 0, Cat(c.in, w) = Body(c.left)
  PROVE  LET d == ReadRspBody(c)
         IN  ClientAfter(n, w, d) /\ d.state = c.state
<1> DEFINE m == IF Len(c.in) < c.left THEN Len(c.in) ELSE c.left
           k == Len(c.in)
           c1 == [c EXCEPT !.in = SubSeq(@, k + 1, Len(@))]
           c2 == IF k > 0 THEN GotAChunk(c1, k) ELSE c1
           d == ReadRspBody(c)
<1>1. c \in Client /\ c.left \in Nat /\ c.left > 0 /\ c.in \in Seq(Unit) /\ k \in Nat /\ k \in 0..Len(c.in)
  BY DEF InBody, Healthy, Client
<1>2. k <= c.left /\ SubSeq(c.in, k + 1, Len(c.in)) = << >> /\ w = Body(c.left - k)
  BY <1>1, TakeSome
<1>3. m = k
  BY <1>1, <1>2
<1>4. d = LET c3 == Check(c2, c2.in = << >>, "input_after_body")
          IN  IF k < c.left THEN DropFutureInput(c3, c.left - k) ELSE c3
  <2> DEFINE F(x) == LET y1 == [c EXCEPT !.in = SubSeq(@, x + 1, Len(@))]
                         y2 == IF x > 0 THEN GotAChunk(y1, x) ELSE y1
                         y3 == Check(y2, y2.in = << >>, "input_after_body")
                     IN  IF x < c.left THEN DropFutureInput(y3, c.left - x) ELSE y3
  <2>1. d = F(m)
    BY Zenon DEF ReadRspBody
  <2>2. F(k) = LET c3 == Check(c2, c2.in = << >>, "input_after_body")
               IN  IF k < c.left THEN DropFutureInput(c3, c.left - k) ELSE c3
    BY Zenon
  <2> HIDE DEF F, m, k, d, c2
  <2> QED BY <1>3, <2>1, <2>2
<1>5. c1 = [c EXCEPT !.in = << >>]
  BY <1>2
<1> HIDE DEF c1, m, k, d
<1>6. /\ c1 \in Client /\ c1.bad = "no" /\ SameBooks(c, c1) /\ c1.requested = 0
      /\ c1.remaining = 0 /\ c1.out = << >> /\ ~c1.armed /\ c1.in = << >> /\ c1.left = c.left
      /\ c1.reading = "BODY" /\ c1.state = c.state
  <2>1. << >> \in Seq(Unit)
    OBVIOUS
  <2>2. c1 \in Client
    BY <1>1, <1>5, <2>1 DEF Client
  <2>3. c.bad = "no" /\ c.reading = "BODY" /\ c.out = << >> /\ ~c.armed
    BY DEF InBody, Healthy
  <2> QED BY <1>1, <1>5, <2>2, <2>3 DEF Client, SameBooks
<1>7. InBody(c1, n)
  <2>1. Tally(c1, n)
    BY <1>6, BooksKept DEF InBody, Healthy
  <2> QED BY <1>6, <2>1 DEF InBody, Healthy, SameBooks
<1>8. /\ c2.in = << >> /\ c2.requested = 0 /\ c2.remaining = 0 /\ c2.state = c.state
      /\ IF k < c.left THEN InBody(c2, n) /\ c2.left = c.left - k ELSE WentOn(c2, n)
  <2>1. CASE k > 0
    <3>1. /\ Kept(c1, c2)
          /\ IF k < c1.left THEN InBody(c2, n) /\ c2.left = c1.left - k ELSE WentOn(c2, n)
      BY <1>1, <1>2, <1>6, <1>7, <2>1, Chunk
    <3> HIDE DEF c2
    <3> QED BY <1>6, <3>1 DEF Kept
  <2>2. CASE ~(k > 0)
    <3>1. k = 0 /\ c2 = c1 /\ c.left - k = c.left /\ k < c.left
      BY <1>1, <2>2
    <3> HIDE DEF c2
    <3> QED BY <1>6, <1>7, <3>1
  <2> QED BY <2>1, <2>2
<1> HIDE DEF c2
<1>9. Check(c2, c2.in = << >>, "input_after_body") = c2
  BY <1>8 DEF Check
<1>10. d = IF k < c.left THEN DropFutureInput(c2, c.left - k) ELSE c2
  BY <1>4, <1>9
<1>11. CASE k < c.left
  <2>1. InBody(c2, n) /\ c2.left = c.left - k /\ c.left - k > 0 /\ c.left - k \in Nat
    BY <1>1, <1>8, <1>11
  <2>2. d = [c2 EXCEPT !.requested = c2.left, !.remaining = c2.left]
    BY <1>8, <1>10, <1>11, <2>1 DEF DropFutureInput, Check
  <2>3. /\ d \in Client /\ d.bad = "no" /\ SameBooks(c2, d) /\ d.requested = c2.left
        /\ d.remaining = c2.left /\ d.out = << >> /\ ~d.armed /\ d.in = << >> /\ d.left = c2.left
        /\ d.reading = "BODY" /\ d.state = c.state
    <3>1. c2 \in Client
      BY <2>1 DEF InBody, Healthy
    <3>2. d \in Client
      BY <2>1, <2>2, <3>1 DEF Client
    <3>3. c2.bad = "no" /\ c2.reading = "BODY" /\ c2.out = << >> /\ ~c2.armed
      BY <2>1 DEF InBody, Healthy
    <3> QED BY <1>8, <2>2, <3>1, <3>2, <3>3 DEF Client, SameBooks
  <2>4. Tally(d, n)
    BY <2>1, <2>3, BooksKept DEF InBody, Healthy
  <2>5. InBody(d, n)
    BY <2>1, <2>3, <2>4 DEF InBody, Healthy, SameBooks
  <2>6. ClientAfter(n, w, d)
    BY <1>2, <2>1, <2>3, <2>5, BodyAfter
  <2> QED BY <2>3, <2>6 DEF d
<1>12. CASE ~(k < c.left)
  <2>1. d = c2 /\ WentOn(c2, n) /\ c.left - k = 0
    BY <1>1, <1>2, <1>8, <1>10, <1>12
  <2>2. w = << >>
    BY <1>2, <2>1, NoBody
  <2> QED BY <1>8, <2>1, <2>2, DoneAfter DEF d
<1> QED BY <1>11, <1>12

(* The loop reads all that has come.                                       *)
LEMMA ClientConsumed ==
  ASSUME NEW n \in Nat, NEW w \in Seq(Unit), NEW c, ClientDid(n, w, c)
  PROVE  LET d == ClientConsume(c)
         IN  ClientAfter(n, w, d) /\ d.state = c.state
<1> DEFINE f == ClientTurns(c)
           m == Len(c.in)
           G == {j \in Nat : /\ ClientDid(n, w, f[j]) /\ f[j].state = c.state
                             /\ f[j].reading = "BODY" \/ Len(f[j].in) + j <= m}
<1>0. c.in \in Seq(Unit) /\ m \in Nat
  BY DEF ClientDid, Healthy, Client
<1>1. /\ f[0] = c
      /\ \A j \in 0..m : j < m => f[j + 1] = ReadRspLine(f[j])
      /\ ClientConsume(c) = IF f[m].reading = "BODY" THEN ReadRspBody(f[m]) ELSE f[m]
  BY <1>0, ClientTurned
<1> HIDE DEF f
<1>2. 0 \in G
  BY <1>0, <1>1
<1>3. ASSUME NEW j \in 0..m, j < m, j \in G
      PROVE  j + 1 \in G
  <2>1. PICK x : x = f[j]
    OBVIOUS
  <2>2. PICK y : y = f[j + 1]
    OBVIOUS
  <2>3. /\ ClientDid(n, w, x) /\ x.state = c.state /\ (x.reading = "BODY" \/ Len(x.in) + j <= m)
        /\ y = ReadRspLine(x)
    BY <1>1, <1>3, <2>1, <2>2
  <2>4. x.in \in Seq(Unit) /\ x.bad = "no" /\ Len(x.in) \in Nat
    BY <2>3 DEF ClientDid, Healthy, Client
  <2> HIDE DEF m
  <2>5. /\ ClientDid(n, w, y) /\ y.state = c.state
        /\ y.reading = "BODY" \/ Len(y.in) + (j + 1) <= m
    <3>1. CASE x.reading = "BODY"
      <4>1. y = x
        BY <2>3, <3>1 DEF ReadRspLine
      <4> QED BY <2>3, <3>1, <4>1
    <3>2. CASE x.in = << >>
      <4>1. y = x
        BY <2>3, <3>2 DEF ReadRspLine
      <4>2. Len(x.in) = 0
        BY <3>2
      <4>3. 0 + (j + 1) <= m
        BY <1>0, <1>3
      <4> QED BY <2>3, <4>1, <4>2, <4>3
    <3>3. CASE x.in # << >> /\ x.reading # "BODY"
      <4>1. ClientDid(n, w, y) /\ y.state = x.state /\ Len(y.in) = Len(x.in) - 1
        BY <2>3, <3>3, ClientReadsLine
      <4>2. PICK i \in Nat : i = Len(x.in)
        BY <2>4
      <4>3. i + j <= m /\ Len(y.in) = i - 1 /\ j \in Nat /\ m \in Nat
        BY <1>0, <2>3, <3>3, <4>1, <4>2
      <4>4. (i - 1) + (j + 1) <= m
        BY <4>3
      <4> QED BY <2>3, <4>1, <4>3, <4>4
    <3> QED BY <3>1, <3>2, <3>3
  <2>6. j + 1 \in Nat
    OBVIOUS
  <2> QED BY <2>2, <2>5, <2>6 DEF m
<1> HIDE DEF G
<1>4. \A j \in 0..m : j < m /\ j \in G => j + 1 \in G
  BY <1>3
<1> HIDE DEF m
<1>5. m \in G
  <2>1. \A j \in 0..m : j \in G
    BY <1>0, <1>2, <1>4, HoldsAll
  <2> QED BY <1>0, <2>1
<1>6. PICK x : x = f[m]
  OBVIOUS
<1>7. ClientDid(n, w, x) /\ x.state = c.state /\ (x.reading = "BODY" \/ Len(x.in) + m <= m)
  BY <1>5, <1>6 DEF G
<1>8. PICK d : d = ClientConsume(c)
  OBVIOUS
<1>9. d = IF x.reading = "BODY" THEN ReadRspBody(x) ELSE x
  BY <1>1, <1>6, <1>8 DEF m
<1>10. x.in \in Seq(Unit)
  BY <1>7 DEF ClientDid, Healthy, Client
<1>11. CASE x.reading = "BODY"
  <2>1. InBody(x, n) /\ x.requested = 0 /\ x.remaining = 0 /\ Cat(x.in, w) = Body(x.left)
    BY <1>7, <1>11 DEF ClientDid, InBody, AtClient, ClientIdle
  <2>2. d = ReadRspBody(x)
    BY <1>9, <1>11
  <2>3. ClientAfter(n, w, d) /\ d.state = x.state
    BY <2>1, <2>2, ClientReadsBody
  <2> QED BY <1>7, <1>8, <2>3
<1>12. CASE x.reading # "BODY"
  <2>1. x.in = << >> /\ d = x
    <3>1. Len(x.in) \in Nat /\ Len(x.in) + m <= m
      BY <1>7, <1>10, <1>12
    <3>2. Len(x.in) = 0
      BY <1>0, <3>1
    <3> QED BY <1>9, <1>10, <1>12, <3>2
  <2>2. Cat(x.in, w) = w
    BY <2>1 DEF Cat
  <2>3. ClientDrops(x)
    BY <1>7, <1>12 DEF ClientDid, ClientDrops
  <2>4. ClientAfter(n, w, x)
    BY <1>7, <2>1, <2>2, <2>3 DEF ClientDid, ClientAfter
  <2> QED BY <1>7, <1>8, <2>1, <2>4
<1> QED BY <1>11, <1>12

(* The channel drops some of the answer's body, or the last of it.         *)
LEMMA ClientDroppedSome ==
  ASSUME NEW n \in Nat, NEW w \in Seq(Unit), NEW c, ClientAfter(n, w, c),
         NEW k \in Nat, k > 0, k <= c.remaining
  PROVE  LET d == ClientDropped(c, k)
             v == Body(c.remaining - k)
         IN  /\ ClientAfter(n, v, d) /\ d.state = c.state /\ w = Body(c.remaining)
             /\ k = c.remaining => v = << >>
<1> DEFINE v == Body(c.remaining - k)
           e == [c EXCEPT !.remaining = @ - k]
           g == GotAChunk(e, k)
           d == ClientDropped(c, k)
<1>1. c \in Client /\ c.remaining \in Nat /\ c.left \in Nat /\ c.bad = "no" /\ Tally(c, n)
  BY DEF ClientAfter, Healthy, Client
<1>2. /\ c.reading = "BODY" /\ c.requested > 0 /\ c.remaining = c.left /\ c.in = << >>
      /\ c.active # 0 /\ c.left > 0 /\ c.out = << >> /\ ~c.armed /\ w = Body(c.left)
      /\ c.metas[c.active] = 1 /\ c.got[c.active] + c.left = RspBody[c.active]
  <2>1. c.reading = "BODY" /\ c.requested > 0 /\ c.remaining = c.left
    BY <1>1 DEF ClientAfter, ClientDrops
  <2> QED BY <2>1 DEF ClientAfter, ClientIdle, AtClient
<1>3. c.remaining - k \in Nat
  BY <1>1
<1>4. /\ e \in Client /\ e.bad = "no" /\ SameBooks(c, e) /\ e.requested = c.requested
      /\ e.remaining = c.left - k /\ e.out = << >> /\ ~e.armed /\ e.in = << >>
      /\ e.left = c.left /\ e.reading = "BODY" /\ e.state = c.state
  <2>1. e \in Client
    BY <1>1, <1>3 DEF Client
  <2> QED BY <1>1, <1>2, <2>1 DEF Client, SameBooks
<1>5. d = ResetDrop(g)
  BY Zenon DEF ClientDropped
<1> HIDE DEF e
<1>6. InBody(e, n)
  <2>1. Tally(e, n)
    BY <1>1, <1>4, BooksKept
  <2> QED BY <1>2, <1>4, <2>1 DEF InBody, Healthy, SameBooks
<1>7. /\ Kept(e, g)
      /\ IF k < e.left THEN InBody(g, n) /\ g.left = e.left - k ELSE WentOn(g, n)
  BY <1>2, <1>4, <1>6, Chunk
<1> HIDE DEF g, d
<1>8. /\ g.in = << >> /\ g.requested = c.requested /\ g.remaining = c.left - k
      /\ g.state = c.state
  BY <1>4, <1>7 DEF Kept
<1>9. CASE k < c.left
  <2>1. g.remaining # 0 /\ d = g
    BY <1>1, <1>5, <1>8, <1>9 DEF ResetDrop
  <2>2. InBody(g, n) /\ g.left = c.left - k
    BY <1>4, <1>7, <1>9
  <2>3. ClientAfter(n, v, g)
    BY <1>2, <1>8, <2>2, BodyAfter
  <2> QED BY <1>2, <1>8, <1>9, <2>1, <2>3 DEF d
<1>10. CASE ~(k < c.left)
  <2>1. k = c.left /\ c.left - k = 0 /\ g.remaining = 0
    BY <1>1, <1>2, <1>8, <1>10
  <2>2. v = << >>
    BY <1>2, <2>1, NoBody
  <2>3. WentOn(g, n)
    BY <1>4, <1>7, <1>10
  <2>4. d = [g EXCEPT !.requested = 0]
    BY <1>5, <2>1 DEF ResetDrop
  <2>5. /\ d \in Client /\ d.bad = "no" /\ SameBooks(g, d) /\ d.requested = 0
        /\ d.remaining = 0 /\ d.out = g.out /\ d.armed = g.armed /\ d.in = << >>
        /\ d.left = g.left /\ d.reading = g.reading /\ d.state = c.state
    <3>1. g \in Client /\ g.bad = "no"
      BY <2>3 DEF WentOn, Healthy
    <3>2. d \in Client
      BY <2>4, <3>1 DEF Client
    <3> QED BY <1>8, <2>1, <2>4, <3>1, <3>2 DEF Client, SameBooks
  <2>6. Tally(d, n)
    BY <2>3, <2>5, BooksKept DEF WentOn, Healthy
  <2>7. WentOn(d, n)
    BY <2>3, <2>5, <2>6 DEF WentOn, Healthy, ClientIdle, SentNext, SameBooks
  <2>8. ClientAfter(n, v, d)
    BY <2>2, <2>5, <2>7, DoneAfter
  <2> QED BY <1>2, <2>2, <2>5, <2>8 DEF d, v
<1> QED BY <1>9, <1>10

(* Sequences put together: type, length, and what is empty.                *)
LEMMA CatSeq ==
  ASSUME NEW a \in Seq(Unit), NEW b \in Seq(Unit)
  PROVE  /\ Cat(a, b) \in Seq(Unit) /\ Len(Cat(a, b)) = Len(a) + Len(b)
         /\ Len(a) \in Nat /\ Len(b) \in Nat
         /\ Cat(<< >>, b) = b /\ Cat(a, << >>) = a
         /\ Cat(a, b) = << >> => a = << >> /\ b = << >>
<1>1. Cat(a, b) \in Seq(Unit) /\ Len(Cat(a, b)) = Len(a) + Len(b)
  BY DEF Cat
<1>2. Len(a) \in Nat /\ Len(b) \in Nat
  OBVIOUS
<1>3. Cat(<< >>, b) = b /\ Cat(a, << >>) = a
  BY DEF Cat
<1>4. ASSUME Cat(a, b) = << >>
      PROVE  a = << >> /\ b = << >>
  <2>1. Len(a) + Len(b) = 0
    BY <1>1, <1>4
  <2>2. Len(a) = 0 /\ Len(b) = 0
    BY <1>2, <2>1
  <2> QED BY <2>2
<1> QED BY <1>1, <1>2, <1>3, <1>4

(* The first k units, and the rest.                                        *)
First(w, k) == SubSeq(w, 1, k)
Rest(w, k) == SubSeq(w, k + 1, Len(w))

(* The first units and the rest make up the whole.                         *)
LEMMA FirstRest ==
  ASSUME NEW w \in Seq(Unit), NEW o \in Seq(Unit), NEW k \in Nat, k <= Len(w)
  PROVE  /\ First(w, k) \in Seq(Unit) /\ Rest(w, k) \in Seq(Unit)
         /\ Cat(First(w, k), Cat(Rest(w, k), o)) = Cat(w, o)
<1>1. /\ Len(w) \in Nat /\ 1 \in 1..(Len(w) + 1) /\ k \in (1 - 1)..Len(w)
      /\ Len(w) \in k..Len(w) /\ 1 \in Int /\ k \in Int /\ Len(w) \in Int /\ k + 1 \in Int
      /\ \A i \in 1..Len(w) : w[i] \in Unit
  OBVIOUS
<1>2. SubSeq(w, 1, k) \in Seq(Unit) /\ SubSeq(w, k + 1, Len(w)) \in Seq(Unit)
  BY <1>1
<1>3. SubSeq(w, 1, k) \o SubSeq(w, k + 1, Len(w)) = SubSeq(w, 1, Len(w))
  BY <1>1, ConcatAdjacentSubSeq
<1>4. SubSeq(w, 1, Len(w)) = w
  OBVIOUS
<1>5. (SubSeq(w, 1, k) \o SubSeq(w, k + 1, Len(w))) \o o
        = SubSeq(w, 1, k) \o (SubSeq(w, k + 1, Len(w)) \o o)
  BY <1>2, Joined
<1> QED BY <1>2, <1>3, <1>4, <1>5, ZenonT(40) DEF Cat, First, Rest

(* What one read of a socket takes: bytes that are dropped, or all that    *)
(* is to be read.                                                          *)
LEMMA Arrives ==
  ASSUME NEW x, x.remaining \in Nat, NEW w \in Seq(Unit), NEW o \in Seq(Unit),
         NEW p \in Reads(x, w), x.remaining > 0 => Cat(w, o) = Body(x.remaining)
  PROVE  LET rest == SubSeq(w, p[1] + p[2] + 1, Len(w))
             piece == SubSeq(w, p[1] + 1, p[1] + p[2])
         IN  /\ rest \in Seq(Unit)
             /\ \/ /\ p[1] \in Nat /\ p[1] > 0 /\ p[1] <= x.remaining /\ ~(p[2] > 0)
                   /\ Cat(rest, o) = Body(x.remaining - p[1])
                \/ /\ ~(p[1] > 0) /\ p[2] > 0 /\ x.remaining = 0
                   /\ piece \in Seq(Unit) /\ Cat(piece, Cat(rest, o)) = Cat(w, o)
                   /\ Cat(w, o) # << >>
<1>1. PICK l \in Nat : l = Len(w)
  OBVIOUS
<1>2. PICK d \in 0..l, k \in 0..l : d = p[1] /\ k = p[2]
  BY <1>1 DEF Reads
<1>3. d <= x.remaining /\ d + k >= 1 /\ d + k <= l /\ (k > 0 => d = x.remaining)
  BY <1>1, <1>2 DEF Reads
<1> DEFINE rest == SubSeq(w, d + k + 1, l)
           piece == SubSeq(w, d + 1, d + k)
<1>4. rest \in Seq(Unit)
  BY <1>1, <1>2, <1>3
<1>5. CASE x.remaining > 0
  <2>1. Cat(w, o) = Body(x.remaining)
    BY <1>5
  <2>2. d \in 0..Len(w)
    BY <1>1
  <2>3. Len(w) <= x.remaining /\ Cat(SubSeq(w, d + 1, Len(w)), o) = Body(x.remaining - d)
    BY <2>1, <2>2, TakeSome
  <2>4. k = 0 /\ d > 0
    BY <1>1, <1>3, <2>3
  <2>5. Cat(rest, o) = Body(x.remaining - d)
    <3>1. d + k + 1 = d + 1
      BY <2>4
    <3> QED BY <1>1, <2>3, <3>1
  <2>6. d \in Nat /\ ~(k > 0)
    BY <2>4
  <2> HIDE DEF rest
  <2>7. /\ rest \in Seq(Unit) /\ d \in Nat /\ d > 0 /\ d <= x.remaining /\ ~(k > 0)
        /\ Cat(rest, o) = Body(x.remaining - d)
    BY <1>3, <1>4, <2>4, <2>5, <2>6
  <2> QED BY <1>1, <1>2, <2>7 DEF rest
<1>6. CASE ~(x.remaining > 0)
  <2>1. x.remaining = 0 /\ d = 0 /\ k > 0
    BY <1>3, <1>6
  <2>2. k \in Nat /\ k <= Len(w)
    BY <1>1, <1>3, <2>1
  <2>3. /\ First(w, k) \in Seq(Unit)
        /\ Cat(First(w, k), Cat(Rest(w, k), o)) = Cat(w, o)
    BY <2>2, FirstRest
  <2>4. piece = First(w, k) /\ rest = Rest(w, k)
    <3>1. d + 1 = 1 /\ d + k = k /\ d + k + 1 = k + 1
      BY <2>1
    <3> QED BY <1>1, <3>1 DEF First, Rest
  <2>5. piece \in Seq(Unit) /\ Cat(piece, Cat(rest, o)) = Cat(w, o)
    <3> HIDE DEF piece, rest
    <3> QED BY <2>3, <2>4
  <2>6. Cat(w, o) # << >>
    <3>1. w # << >>
      BY <1>1, <1>3, <2>1
    <3> QED BY <3>1, CatSeq
  <2> HIDE DEF rest, piece
  <2>7. /\ rest \in Seq(Unit) /\ ~(d > 0) /\ k > 0 /\ x.remaining = 0
        /\ piece \in Seq(Unit) /\ Cat(piece, Cat(rest, o)) = Cat(w, o) /\ Cat(w, o) # << >>
    BY <1>4, <2>1, <2>5, <2>6
  <2> QED BY <1>1, <1>2, <2>7 DEF rest, piece
<1> QED BY <1>5, <1>6

(* What one write puts on the wire.                                        *)
LEMMA Leaves ==
  ASSUME NEW w \in Seq(Unit), NEW o \in Seq(Unit), NEW k \in 1..Len(o)
  PROVE  LET rest == SubSeq(o, k + 1, Len(o))
             v == w \o SubSeq(o, 1, k)
         IN  /\ rest \in Seq(Unit) /\ v \in Seq(Unit) /\ Cat(v, rest) = Cat(w, o)
             /\ rest # << >> <=> Len(o) > k
BY WritePiece, Zenon DEF Cat

-----------------------------------------------------------------------------
(* Who has the word: nobody; the client, whose request the server reads;   *)
(* or the server, whose answer the client reads.                           *)
Talks(c, s, q, a) ==
  \/ c.active = 0 /\ q = << >> /\ a = << >> /\ ClientIdle(c) /\ ServerIdle(s)
  \/ /\ c.active # 0 /\ a = << >> /\ ClientIdle(c)
     /\ c.metas[c.active] = 0 /\ c.got[c.active] = 0 /\ AtServer(s, c.active, q)
  \/ c.active # 0 /\ q = << >> /\ ServerIdle(s) /\ AtClient(c, c.active, a)

(* While it is connected the write event is armed exactly when there is    *)
(* output.                                                                 *)
Output(c) ==
  /\ c.state = "CONNECTING" => c.out = << >> /\ ~c.armed /\ c.active = 0
  /\ c.state = "CONNECTED" => (c.armed <=> c.out # << >>)

(* The connection between two steps.                                       *)
ClientPart(c, n) == Healthy(c, n) /\ c.in = << >> /\ ClientDrops(c) /\ Output(c)

(* The handler between two steps.                                          *)
ServerPart(s) ==
  /\ s \in Server /\ s.bad = "no" /\ s.in = << >> /\ ServerDrops(s)
  /\ s.armed <=> s.out # << >>

(* The inductive invariant: each side on its own, and what is under way    *)
(* in both directions, on the wire or in an output buffer, is just what    *)
(* the side that has the word has not read yet.                            *)
ExchangeInv ==
  /\ wire \in [client : Seq(Unit), server : Seq(Unit)] /\ made \in 0..N
  /\ ClientPart(client, made) /\ ServerPart(server)
  /\ Talks(client, server, Cat(wire.server, client.out), Cat(wire.client, server.out))

(* The client goes on from its answer, or from what it has read of it.     *)
LEMMA ClientGoesOn ==
  ASSUME NEW n, NEW w, NEW c, NEW s, ClientAfter(n, w, c), c.state = "CONNECTED",
         ServerIdle(s), \A b \in Seq(Unit) : Cat(<< >>, b) = b
  PROVE  ClientPart(c, n) /\ Talks(c, s, Cat(<< >>, c.out), w)
<1>1. /\ c \in Client /\ Healthy(c, n) /\ ClientDrops(c) /\ c.in = << >>
  BY DEF ClientAfter, Healthy
<1>2. c.out \in Seq(Unit)
  BY <1>1 DEF Client
<1>3. Cat(<< >>, c.out) = c.out
  BY <1>2
<1>4. CASE c.active # 0 /\ AtClient(c, c.active, w) /\ c.out = << >> /\ ~c.armed
  <2>1. Output(c)
    BY <1>4 DEF Output
  <2>2. Talks(c, s, Cat(<< >>, c.out), w)
    BY <1>3, <1>4 DEF Talks
  <2> QED BY <1>1, <2>1, <2>2 DEF ClientPart
<1>5. CASE w = << >> /\ ClientIdle(c) /\ c.active = 0 /\ c.out = << >> /\ ~c.armed
  <2>1. Output(c)
    BY <1>5 DEF Output
  <2>2. Talks(c, s, Cat(<< >>, c.out), w)
    BY <1>3, <1>5 DEF Talks
  <2> QED BY <1>1, <2>1, <2>2 DEF ClientPart
<1>6. CASE /\ w = << >> /\ ClientIdle(c)
           /\ c.active # 0 /\ c.out = WholeRequest(c.active) /\ c.armed
           /\ c.metas[c.active] = 0 /\ c.got[c.active] = 0
  <2>1. c.active \in 1..N
    BY <1>1, <1>6, ActiveOne
  <2>2. WholeRequest(c.active) # << >>
    BY <2>1, ReqForms
  <2>3. Output(c)
    BY <1>6, <2>2 DEF Output
  <2>4. AtServer(s, c.active, Cat(<< >>, c.out))
    BY <1>3, <1>6 DEF AtServer, ServerIdle
  <2>5. Talks(c, s, Cat(<< >>, c.out), w)
    BY <1>6, <2>4 DEF Talks
  <2> QED BY <1>1, <2>3, <2>5 DEF ClientPart
<1> QED BY <1>4, <1>5, <1>6 DEF ClientAfter, SentNext

-----------------------------------------------------------------------------
(* The parts of the invariant, one by one.                                 *)
LEMMA InvFacts ==
  ASSUME ExchangeInv
  PROVE  /\ wire \in [client : Seq(Unit), server : Seq(Unit)] /\ wire.client \in Seq(Unit)
         /\ wire.server \in Seq(Unit) /\ made \in Nat /\ made \in 0..N
         /\ client \in Client /\ Healthy(client, made) /\ client.in = << >>
         /\ client.out \in Seq(Unit) /\ client.remaining \in Nat
         /\ ClientDrops(client) /\ Output(client)
         /\ server \in Server /\ server.bad = "no" /\ server.in = << >> /\ ServerDrops(server)
         /\ server.out \in Seq(Unit) /\ server.remaining \in Nat
         /\ server.armed <=> server.out # << >>
         /\ Talks(client, server, Cat(wire.server, client.out), Cat(wire.client, server.out))
<1>1. /\ wire \in [client : Seq(Unit), server : Seq(Unit)] /\ made \in 0..N
      /\ ClientPart(client, made) /\ ServerPart(server)
      /\ Talks(client, server, Cat(wire.server, client.out), Cat(wire.client, server.out))
  BY DEF ExchangeInv
<1>2. client \in Client /\ server \in Server
  BY <1>1 DEF ClientPart, ServerPart, Healthy
<1>3. /\ client.out \in Seq(Unit) /\ client.remaining \in Nat
      /\ server.out \in Seq(Unit) /\ server.remaining \in Nat
  BY <1>2 DEF Client, Server
<1>4. wire.client \in Seq(Unit) /\ wire.server \in Seq(Unit) /\ made \in Nat
  BY <1>1
<1> QED BY <1>1, <1>2, <1>3, <1>4 DEF ClientPart, ServerPart

(* The same client again, but for its output and state.                    *)
SameClient(c, d) ==
  /\ SameBooks(c, d) /\ d.requested = c.requested /\ d.remaining = c.remaining
  /\ d.reading = c.reading /\ d.left = c.left /\ d.in = c.in

(* The word does not change hands while only output and state of the       *)
(* client change.                                                          *)
LEMMA ClientStays ==
  ASSUME NEW c, NEW d, NEW n, NEW s, NEW q, NEW a,
         d \in Client, d.bad = "no", SameClient(c, d), Output(d),
         ClientPart(c, n), Talks(c, s, q, a)
  PROVE  ClientPart(d, n) /\ Talks(d, s, q, a)
<1>1. Tally(d, n)
  BY BooksKept DEF SameClient, ClientPart, Healthy
<1>2. ClientDrops(d)
  BY DEF SameClient, ClientPart, ClientDrops
<1>3. ClientPart(d, n)
  BY <1>1, <1>2 DEF SameClient, ClientPart, Healthy
<1>4. \A r, b : AtClient(c, r, b) => AtClient(d, r, b)
  BY DEF SameClient, SameBooks, AtClient
<1>5. ClientIdle(c) => ClientIdle(d)
  BY DEF SameClient, ClientIdle
<1>6. Talks(d, s, q, a)
  BY <1>4, <1>5 DEF SameClient, SameBooks, Talks
<1> QED BY <1>3, <1>6

(* Nor while only output and life of the server change.                    *)
LEMMA ServerStays ==
  ASSUME NEW c, NEW s, NEW t, NEW q, NEW a,
         t.reading = s.reading, t.active = s.active, t.size = s.size, t.left = s.left,
         t.requested = s.requested, t.remaining = s.remaining, Talks(c, s, q, a)
  PROVE  Talks(c, t, q, a)
<1>1. \A r, b : AtServer(s, r, b) => AtServer(t, r, b)
  BY DEF AtServer
<1>2. ServerIdle(s) => ServerIdle(t)
  BY DEF ServerIdle
<1> QED BY <1>1, <1>2 DEF Talks

(* A client that may write has nothing to write while it has no request.   *)
LEMMA Quiet ==
  ASSUME ExchangeInv, client.active = 0, client.state # "closed"
  PROVE  /\ client.out = << >> /\ ~client.armed /\ wire.server = << >>
         /\ Cat(wire.client, server.out) = << >> /\ ClientIdle(client) /\ ServerIdle(server)
<1>1. /\ Cat(wire.server, client.out) = << >> /\ Cat(wire.client, server.out) = << >>
      /\ ClientIdle(client) /\ ServerIdle(server)
  BY InvFacts DEF Talks
<1>2. wire.server = << >> /\ client.out = << >>
  BY <1>1, InvFacts, CatSeq
<1>3. client.state \in {"CONNECTING", "CONNECTED"}
  BY InvFacts DEF Client
<1>4. ~client.armed
  BY <1>2, <1>3, InvFacts DEF Output
<1> QED BY <1>1, <1>2, <1>4

(* submit_request writes the request, if the connection has none active.   *)
LEMMA SubmitStep ==
  ASSUME ExchangeInv, Submit
  PROVE  ExchangeInv'
<1> DEFINE c == [client EXCEPT !.submitted = Append(@, made + 1)]
<1>1. /\ client.state # "closed" /\ made < N /\ made' = made + 1
      /\ client' = IF c.state = "CONNECTED" THEN MaybeSend(c) ELSE c
      /\ server' = server /\ wire' = wire
  BY DEF Submit
<1>2. PICK n \in Nat : n = made + 1
  BY InvFacts
<1>3. n \in 1..N /\ made' = n /\ n \in 0..N
  <2>1. made \in Nat /\ N \in Nat
    BY InvFacts, ExchangeAssumption
  <2> QED BY <1>1, <1>2, <2>1
<1>4. client \in Client /\ client.bad = "no" /\ Tally(client, made)
  BY InvFacts DEF Healthy
<1>5. client.submitted \in Seq(1..N)
  BY <1>4 DEF Client
<1>6. PICK p \in Seq(1..N) :
        /\ p = Append(client.submitted, made + 1) /\ Len(p) = Len(client.submitted) + 1
        /\ p[Len(client.submitted) + 1] = n
        /\ \A i \in 1..Len(client.submitted) : p[i] = client.submitted[i]
  <2>1. PICK q \in Seq(1..N) : q = client.submitted
    BY <1>5
  <2>2. /\ Append(q, n) \in Seq(1..N) /\ Len(Append(q, n)) = Len(q) + 1
        /\ Append(q, n)[Len(q) + 1] = n
        /\ \A i \in 1..Len(q) : Append(q, n)[i] = q[i]
    BY <1>3, AppendProperties
  <2> QED BY <1>2, <2>1, <2>2
<1>7. c = [client EXCEPT !.submitted = p]
  BY <1>6
<1> HIDE DEF c
<1>8. /\ c \in Client /\ c.bad = "no" /\ c.submitted = p /\ c.active = client.active
      /\ c.done = client.done /\ c.metas = client.metas /\ c.got = client.got
      /\ c.out = client.out /\ c.armed = client.armed /\ c.state = client.state
      /\ c.in = client.in /\ c.requested = client.requested /\ c.remaining = client.remaining
      /\ c.reading = client.reading /\ c.left = client.left
  <2>1. c \in Client
    BY <1>4, <1>7 DEF Client
  <2> QED BY <1>4, <1>7, <2>1 DEF Client
<1>9. Tally(c, n)
  <2>0. Begun(c) = Begun(client)
    BY <1>8 DEF Begun
  <2>1. Begun(client) \in Nat /\ Len(client.submitted) \in Nat
    <3>1. Len(client.done) \in Nat
      BY <1>4 DEF Client
    <3>2. Len(client.submitted) \in Nat
      BY <1>5
    <3> QED BY <3>1, <3>2 DEF Begun
  <2>2. made = Begun(client) + Len(client.submitted)
    BY <1>4 DEF Tally
  <2>3. n = Begun(c) + Len(p)
    BY <1>2, <1>6, <2>0, <2>1, <2>2
  <2>4. \A i \in 1..Len(p) : p[i] = Begun(c) + i
    <3> SUFFICES ASSUME NEW i \in 1..Len(p)
                 PROVE  p[i] = Begun(c) + i
      OBVIOUS
    <3>1. CASE i = Len(client.submitted) + 1
      BY <1>6, <2>1, <2>3, <3>1
    <3>2. CASE i \in 1..Len(client.submitted)
      <4>1. client.submitted[i] = Begun(client) + i
        BY <1>4, <3>2 DEF Tally
      <4> QED BY <1>6, <2>0, <3>2, <4>1
    <3>3. i = Len(client.submitted) + 1 \/ i \in 1..Len(client.submitted)
      BY <1>6, <2>1
    <3> QED BY <3>1, <3>2, <3>3
  <2>5. c.active # 0 => c.active = Len(c.done) + 1
    BY <1>4, <1>8 DEF Tally
  <2>6. \A i \in 1..Len(c.done) : c.done[i] = i /\ c.metas[i] = 1 /\ c.got[i] = RspBody[i]
    BY <1>4, <1>8 DEF Tally
  <2>7. \A i \in 1..N : i > Begun(c) => c.metas[i] = 0 /\ c.got[i] = 0
    BY <1>4, <1>8, <2>0 DEF Tally
  <2> QED BY <1>8, <2>3, <2>4, <2>5, <2>6, <2>7 DEF Tally
<1>10. Healthy(c, n)
  BY <1>8, <1>9 DEF Healthy
<1>11. CASE c.state = "CONNECTED" /\ client.active = 0
  <2>1. /\ client.out = << >> /\ ~client.armed /\ wire.server = << >>
        /\ Cat(wire.client, server.out) = << >> /\ ClientIdle(client) /\ ServerIdle(server)
    BY <1>1, <1>11, Quiet
  <2>2. PICK d : d = client'
    OBVIOUS
  <2>3. d = MaybeSend(c)
    BY <1>1, <1>11, <2>2
  <2>4. /\ Healthy(d, n) /\ Kept(c, d) /\ SentNext(d)
        /\ d.reading = c.reading /\ d.left = c.left
    BY <1>8, <1>10, <1>11, <2>1, <2>3, Sends
  <2>5. /\ ClientIdle(d) /\ d.in = << >> /\ d.state = "CONNECTED" /\ ClientDrops(d)
    BY <1>8, <1>11, <2>1, <2>4, InvFacts DEF ClientIdle, Kept, ClientDrops
  <2>6. ClientAfter(n, << >>, d)
    BY <2>4, <2>5 DEF ClientAfter
  <2>7. ClientPart(d, n) /\ Talks(d, server, Cat(<< >>, d.out), << >>)
    BY <2>1, <2>5, <2>6, CatSeq, ClientGoesOn
  <2> QED BY <1>1, <1>3, <2>1, <2>2, <2>7 DEF ExchangeInv
<1>12. CASE ~(c.state = "CONNECTED" /\ client.active = 0)
  <2>1. client' = c
    BY <1>1, <1>8, <1>12 DEF MaybeSend
  <2>2. Output(c) /\ ClientDrops(c) /\ c.in = << >>
    BY <1>8, InvFacts DEF Output, ClientDrops
  <2>3. \A r, b : AtClient(client, r, b) => AtClient(c, r, b)
    BY <1>8 DEF AtClient
  <2>4. ClientIdle(client) => ClientIdle(c)
    BY <1>8 DEF ClientIdle
  <2>5. Talks(c, server, Cat(wire.server, c.out), Cat(wire.client, server.out))
    BY <1>8, <2>3, <2>4, InvFacts DEF Talks
  <2>6. ClientPart(c, n)
    BY <1>10, <2>2 DEF ClientPart
  <2> QED BY <1>1, <1>3, <2>1, <2>5, <2>6 DEF ExchangeInv
<1> QED BY <1>11, <1>12

(* Once connected the connection writes the first request that waits.      *)
LEMMA ConnectStep ==
  ASSUME ExchangeInv, Connect
  PROVE  ExchangeInv'
<1> DEFINE c == [client EXCEPT !.state = "CONNECTED"]
<1>1. /\ client.state = "CONNECTING" /\ client' = MaybeSend(c)
      /\ server' = server /\ wire' = wire /\ made' = made
  BY DEF Connect
<1>2. client.active = 0
  BY <1>1, InvFacts DEF Output
<1>3. /\ client.out = << >> /\ ~client.armed /\ wire.server = << >>
      /\ Cat(wire.client, server.out) = << >> /\ ClientIdle(client) /\ ServerIdle(server)
  BY <1>1, <1>2, Quiet
<1>4. client \in Client /\ client.bad = "no" /\ Tally(client, made)
  BY InvFacts DEF Healthy
<1>5. /\ c \in Client /\ c.bad = "no" /\ SameClient(client, c) /\ c.state = "CONNECTED"
      /\ c.out = << >> /\ ~c.armed
  <2>1. c \in Client
    BY <1>4 DEF Client
  <2> QED BY <1>3, <1>4, <2>1 DEF Client, SameClient, SameBooks
<1> HIDE DEF c
<1>6. Healthy(c, made) /\ c.active = 0
  BY <1>2, <1>4, <1>5, BooksKept DEF Healthy, SameClient, SameBooks
<1>7. PICK d : d = client'
  OBVIOUS
<1>8. /\ Healthy(d, made) /\ Kept(c, d) /\ SentNext(d)
      /\ d.reading = c.reading /\ d.left = c.left
  BY <1>1, <1>5, <1>6, <1>7, InvFacts, Sends
<1>9. /\ ClientIdle(d) /\ d.in = << >> /\ d.state = "CONNECTED" /\ ClientDrops(d)
  BY <1>3, <1>5, <1>8, InvFacts DEF ClientIdle, Kept, ClientDrops, SameClient
<1>10. ClientAfter(made, << >>, d)
  BY <1>8, <1>9 DEF ClientAfter
<1>11. ClientPart(d, made) /\ Talks(d, server, Cat(<< >>, d.out), << >>)
  BY <1>3, <1>9, <1>10, CatSeq, ClientGoesOn
<1> QED BY <1>1, <1>3, <1>7, <1>11, InvFacts DEF ExchangeInv

(* The client may go away at any point of the exchange.                    *)
LEMMA CloseStep ==
  ASSUME ExchangeInv, Close
  PROVE  ExchangeInv'
<1> DEFINE d == [client EXCEPT !.state = "closed"]
<1>1. client' = d /\ server' = server /\ wire' = wire /\ made' = made
  BY DEF Close
<1>2. client \in Client /\ client.bad = "no"
  BY InvFacts DEF Healthy
<1>3. /\ d \in Client /\ d.bad = "no" /\ SameClient(client, d) /\ d.state = "closed"
      /\ d.out = client.out
  <2>1. d \in Client
    BY <1>2 DEF Client
  <2> QED BY <1>2, <2>1 DEF Client, SameClient, SameBooks
<1> HIDE DEF d
<1>4. Output(d)
  BY <1>3 DEF Output
<1>5. /\ ClientPart(d, made)
      /\ Talks(d, server, Cat(wire.server, client.out), Cat(wire.client, server.out))
  BY <1>3, <1>4, ClientStays DEF ExchangeInv
<1> QED BY <1>1, <1>3, <1>5 DEF ExchangeInv

(* The handler ends when the client has gone, at whatever point it is.     *)
LEMMA ServerEndStep ==
  ASSUME ExchangeInv, ServerEnd
  PROVE  ExchangeInv'
<1> DEFINE t == [server EXCEPT !.alive = FALSE]
<1>1. server' = t /\ client' = client /\ wire' = wire /\ made' = made
  BY DEF ServerEnd
<1>2. server \in Server
  BY InvFacts
<1>3. /\ t \in Server /\ t.bad = server.bad /\ t.in = server.in /\ t.out = server.out
      /\ t.armed = server.armed /\ t.reading = server.reading /\ t.active = server.active
      /\ t.size = server.size /\ t.left = server.left /\ t.requested = server.requested
      /\ t.remaining = server.remaining
  <2>1. t \in Server
    BY <1>2 DEF Server
  <2> QED BY <1>2, <2>1 DEF Server
<1> HIDE DEF t
<1>4. Talks(client, t, Cat(wire.server, client.out), Cat(wire.client, server.out))
  BY <1>3, InvFacts, ServerStays
<1>5. ServerPart(t)
  BY <1>3 DEF ExchangeInv, ServerPart, ServerDrops
<1> QED BY <1>1, <1>3, <1>4, <1>5 DEF ExchangeInv

(* What the client has not read, it finds as it left it.                   *)
LEMMA ClientWas ==
  ASSUME ExchangeInv, client.state = "CONNECTED", Cat(wire.client, server.out) # << >>
  PROVE  /\ ClientAfter(made, Cat(wire.client, server.out), client)
         /\ client.active # 0 /\ AtClient(client, client.active, Cat(wire.client, server.out))
         /\ client.out = << >> /\ ~client.armed /\ wire.server = << >> /\ ServerIdle(server)
<1>1. /\ client.active # 0 /\ Cat(wire.server, client.out) = << >> /\ ServerIdle(server)
      /\ AtClient(client, client.active, Cat(wire.client, server.out))
  BY InvFacts DEF Talks
<1>2. client.out = << >> /\ wire.server = << >>
  BY <1>1, InvFacts, CatSeq
<1>3. ~client.armed
  BY <1>2, InvFacts DEF Output
<1> QED BY <1>1, <1>2, <1>3, InvFacts DEF ClientAfter

(* One read of the client's socket: bytes are dropped, or read and         *)
(* handled.                                                                *)
LEMMA ClientReadStep ==
  ASSUME ExchangeInv, ClientRead
  PROVE  ExchangeInv'
<1>1. client.state = "CONNECTED" /\ server' = server /\ made' = made
  BY DEF ClientRead
<1>2. PICK p \in Reads(client, wire.client) :
        LET c == IF p[1] > 0 THEN ClientDropped(client, p[1]) ELSE client
        IN  /\ client' = IF p[2] > 0 THEN ClientInput(Fill(c, wire.client, p)) ELSE c
            /\ wire' = [wire EXCEPT !.client = SubSeq(@, p[1] + p[2] + 1, Len(@))]
  BY DEF ClientRead
<1>3. PICK w \in Seq(Unit), o \in Seq(Unit) : w = wire.client /\ o = server.out
  BY InvFacts
<1>4. PICK rest : rest = SubSeq(w, p[1] + p[2] + 1, Len(w))
  OBVIOUS
<1>5. PICK piece : piece = SubSeq(w, p[1] + 1, p[1] + p[2])
  OBVIOUS
<1>6. wire' = [wire EXCEPT !.client = rest]
  BY <1>2, <1>3, <1>4
<1>7. made \in Nat /\ client.remaining \in Nat /\ client.in = << >> /\ client \in Client
  BY InvFacts
<1>8. client.remaining > 0 => Cat(w, o) = Body(client.remaining) /\ Cat(w, o) # << >>
  <2> SUFFICES ASSUME client.remaining > 0
               PROVE  Cat(w, o) = Body(client.remaining) /\ Cat(w, o) # << >>
    OBVIOUS
  <2>1. client.reading = "BODY" /\ client.remaining = client.left
    BY <1>7, InvFacts DEF ClientDrops
  <2>2. Cat(w, o) = Body(client.remaining)
    BY <1>3, <2>1, InvFacts DEF Talks, ClientIdle, AtClient
  <2>3. Len(Body(client.remaining)) = client.remaining
    BY <1>7, BodySeq
  <2>4. Body(client.remaining) # << >>
    BY <1>7, <2>3
  <2> QED BY <2>2, <2>4
<1>9. /\ rest \in Seq(Unit)
      /\ \/ /\ p[1] \in Nat /\ p[1] > 0 /\ p[1] <= client.remaining /\ ~(p[2] > 0)
            /\ Cat(rest, o) = Body(client.remaining - p[1])
         \/ /\ ~(p[1] > 0) /\ p[2] > 0 /\ client.remaining = 0
            /\ piece \in Seq(Unit) /\ Cat(piece, Cat(rest, o)) = Cat(w, o)
            /\ Cat(w, o) # << >>
  BY <1>2, <1>3, <1>4, <1>5, <1>7, <1>8, Arrives, SMTT(30)
<1>10. Cat(w, o) # << >>
  BY <1>7, <1>8, <1>9
<1>11. /\ ClientAfter(made, Cat(w, o), client)
       /\ client.active # 0 /\ AtClient(client, client.active, Cat(w, o))
       /\ client.out = << >> /\ ~client.armed /\ wire.server = << >> /\ ServerIdle(server)
  BY <1>1, <1>3, <1>10, ClientWas
<1>12. Cat(rest, o) \in Seq(Unit) /\ Cat(w, o) \in Seq(Unit)
  BY <1>3, <1>9, CatSeq
<1>13. PICK d : d = client'
  OBVIOUS
<1>14. ClientAfter(made, Cat(rest, o), d) /\ d.state = "CONNECTED"
  <2>1. CASE /\ p[1] \in Nat /\ p[1] > 0 /\ p[1] <= client.remaining /\ ~(p[2] > 0)
             /\ Cat(rest, o) = Body(client.remaining - p[1])
    <3>1. d = ClientDropped(client, p[1])
      BY <1>2, <1>13, <2>1
    <3>2. PICK k \in Nat : k = p[1] /\ k > 0 /\ k <= client.remaining
      BY <2>1
    <3>3. ClientAfter(made, Body(client.remaining - k), d) /\ d.state = client.state
      BY <1>7, <1>11, <1>12, <3>1, <3>2, ClientDroppedSome
    <3> QED BY <1>1, <2>1, <3>2, <3>3
  <2>2. CASE /\ ~(p[1] > 0) /\ p[2] > 0 /\ client.remaining = 0
             /\ piece \in Seq(Unit) /\ Cat(piece, Cat(rest, o)) = Cat(w, o)
             /\ Cat(w, o) # << >>
    <3> DEFINE c == Fill(client, wire.client, p)
    <3>1. d = ClientInput(c)
      BY <1>2, <1>13, <2>2
    <3>2. c = [client EXCEPT !.in = piece]
      <4>1. << >> \o piece = piece
        BY <2>2
      <4>2. c = [client EXCEPT !.in = << >> \o piece]
        BY <1>3, <1>5, <1>7 DEF Fill
      <4> QED BY <4>1, <4>2
    <3> HIDE DEF c
    <3>3. client.bad = "no" /\ Tally(client, made) /\ ClientDrops(client)
      BY InvFacts DEF Healthy
    <3>4. /\ c \in Client /\ c.bad = "no" /\ SameBooks(client, c) /\ c.in = piece
          /\ c.out = << >> /\ ~c.armed /\ c.requested = client.requested
          /\ c.remaining = client.remaining /\ c.reading = client.reading
          /\ c.left = client.left /\ c.state = client.state
      <4>1. c \in Client
        BY <1>7, <2>2, <3>2 DEF Client
      <4> QED BY <1>7, <1>11, <3>2, <3>3, <4>1 DEF Client, SameBooks
    <3>5. Tally(c, made)
      BY <3>3, <3>4, BooksKept
    <3>6. client.requested = 0 /\ client.reading # "BODY"
      <4>1. client.reading = "BODY" => client.left > 0 /\ client.remaining = client.left
        BY <1>11, <3>3 DEF AtClient, ClientDrops
      <4>2. client.reading # "BODY"
        BY <2>2, <4>1
      <4> QED BY <3>3, <4>2 DEF ClientDrops
    <3>7. c.active = client.active /\ AtClient(c, c.active, Cat(c.in, Cat(rest, o)))
      BY <1>11, <2>2, <3>4 DEF AtClient, SameBooks
    <3>8. ClientDid(made, Cat(rest, o), c)
      BY <1>11, <2>2, <3>4, <3>5, <3>6, <3>7 DEF ClientDid, Healthy
    <3>9. d = ClientConsume(c)
      BY <1>11, <3>1, <3>7 DEF ClientInput, Check
    <3>10. ClientAfter(made, Cat(rest, o), d) /\ d.state = c.state
      BY <1>7, <1>12, <3>8, <3>9, ClientConsumed
    <3> QED BY <1>1, <3>4, <3>10
  <2> QED BY <1>9, <2>1, <2>2
<1>15. ClientPart(d, made) /\ Talks(d, server, Cat(<< >>, d.out), Cat(rest, o))
  BY <1>11, <1>14, CatSeq, ClientGoesOn
<1>16. /\ wire' \in [client : Seq(Unit), server : Seq(Unit)]
       /\ wire'.client = rest /\ wire'.server = << >>
  BY <1>6, <1>9, <1>11, InvFacts
<1>17. Talks(client', server', Cat(wire'.server, client'.out), Cat(wire'.client, server'.out))
  BY <1>1, <1>3, <1>13, <1>15, <1>16
<1>18. ClientPart(client', made') /\ ServerPart(server') /\ made' \in 0..N
  BY <1>1, <1>13, <1>15 DEF ExchangeInv
<1> QED BY <1>16, <1>17, <1>18 DEF ExchangeInv

(* One read of the server's socket: bytes are dropped, or read and         *)
(* handled.                                                                *)
LEMMA ServerReadStep ==
  ASSUME ExchangeInv, ServerRead
  PROVE  ExchangeInv'
<1>1. client' = client /\ made' = made
  BY DEF ServerRead
<1>2. PICK p \in Reads(server, wire.server) :
        LET s == IF p[1] > 0 THEN ServerDropped(server, p[1]) ELSE server
        IN  /\ server' = IF p[2] > 0 THEN ServerConsume(Fill(s, wire.server, p)) ELSE s
            /\ wire' = [wire EXCEPT !.server = SubSeq(@, p[1] + p[2] + 1, Len(@))]
  BY DEF ServerRead
<1>3. PICK w \in Seq(Unit), o \in Seq(Unit) : w = wire.server /\ o = client.out
  BY InvFacts
<1>4. PICK rest : rest = SubSeq(w, p[1] + p[2] + 1, Len(w))
  OBVIOUS
<1>5. PICK piece : piece = SubSeq(w, p[1] + 1, p[1] + p[2])
  OBVIOUS
<1>6. wire' = [wire EXCEPT !.server = rest]
  BY <1>2, <1>3, <1>4
<1>7. /\ server.remaining \in Nat /\ server.requested \in Nat /\ server.left \in Nat
      /\ server.in = << >> /\ server \in Server /\ server.bad = "no" /\ ServerDrops(server)
      /\ server.armed <=> server.out # << >>
  BY InvFacts DEF Server
<1>8. server.remaining > 0 => Cat(w, o) = Body(server.remaining) /\ Cat(w, o) # << >>
  <2> SUFFICES ASSUME server.remaining > 0
               PROVE  Cat(w, o) = Body(server.remaining) /\ Cat(w, o) # << >>
    OBVIOUS
  <2>1. server.reading = "BODY" /\ server.requested > 0
    BY <1>7 DEF ServerDrops
  <2>2. Cat(w, o) = Body(server.remaining)
    BY <1>3, <2>1, InvFacts DEF Talks, ServerIdle, AtServer
  <2>3. Len(Body(server.remaining)) = server.remaining
    BY <1>7, BodySeq
  <2>4. Body(server.remaining) # << >>
    BY <1>7, <2>3
  <2> QED BY <2>2, <2>4
<1>9. /\ rest \in Seq(Unit)
      /\ \/ /\ p[1] \in Nat /\ p[1] > 0 /\ p[1] <= server.remaining /\ ~(p[2] > 0)
            /\ Cat(rest, o) = Body(server.remaining - p[1])
         \/ /\ ~(p[1] > 0) /\ p[2] > 0 /\ server.remaining = 0
            /\ piece \in Seq(Unit) /\ Cat(piece, Cat(rest, o)) = Cat(w, o)
            /\ Cat(w, o) # << >>
  <2>1. server.remaining \in Nat
    BY <1>7
  <2>2. server.remaining > 0 => Cat(w, o) = Body(server.remaining)
    BY <1>8
  <2>3. p \in Reads(server, w)
    BY <1>3
  <2> QED BY <1>4, <1>5, <2>1, <2>2, <2>3, Arrives
<1>10. Cat(w, o) # << >>
  BY <1>7, <1>8, <1>9
<1>11. PICK r : r = client.active
  OBVIOUS
<1>12. /\ r # 0 /\ Cat(wire.client, server.out) = << >> /\ ClientIdle(client)
       /\ client.metas[r] = 0 /\ client.got[r] = 0 /\ AtServer(server, r, Cat(w, o))
  BY <1>3, <1>10, <1>11, InvFacts DEF Talks
<1>13. /\ r \in 1..N /\ wire.client = << >> /\ server.out = << >> /\ ~server.armed
  <2>1. r \in 1..N
    BY <1>11, <1>12, InvFacts, ActiveOne
  <2>2. wire.client = << >> /\ server.out = << >>
    BY <1>12, InvFacts, CatSeq
  <2> QED BY <1>7, <2>1, <2>2
<1>14. Cat(rest, o) \in Seq(Unit) /\ Cat(w, o) \in Seq(Unit)
  BY <1>3, <1>9, CatSeq
<1>15. PICK t : t = server'
  OBVIOUS
<1>16. ServerDid(r, Cat(rest, o), server.alive, t) /\ t.in = << >>
  <2>1. CASE /\ p[1] \in Nat /\ p[1] > 0 /\ p[1] <= server.remaining /\ ~(p[2] > 0)
             /\ Cat(rest, o) = Body(server.remaining - p[1])
    <3>1. t = ServerDropped(server, p[1])
      BY <1>2, <1>15, <2>1
    <3>2. PICK k \in Nat : k = p[1] /\ k > 0 /\ k <= server.remaining
      BY <2>1
    <3>3. Cat(server.in, Cat(w, o)) = Cat(w, o)
      BY <1>7, <1>14, CatSeq
    <3>4. ServerDid(r, Cat(w, o), server.alive, server)
      BY <1>7, <1>12, <1>13, <3>3 DEF ServerDid
    <3>5. ServerDid(r, Body(server.remaining - k), server.alive, t) /\ t.in = << >>
      BY <1>13, <1>14, <3>1, <3>2, <3>4, ServerDroppedSome
    <3> QED BY <2>1, <3>2, <3>5
  <2>2. CASE /\ ~(p[1] > 0) /\ p[2] > 0 /\ server.remaining = 0
             /\ piece \in Seq(Unit) /\ Cat(piece, Cat(rest, o)) = Cat(w, o)
             /\ Cat(w, o) # << >>
    <3> DEFINE s == Fill(server, wire.server, p)
    <3>1. t = ServerConsume(s)
      BY <1>2, <1>15, <2>2
    <3>2. s = [server EXCEPT !.in = piece]
      <4>1. << >> \o piece = piece
        BY <2>2
      <4>2. s = [server EXCEPT !.in = << >> \o piece]
        BY <1>3, <1>5, <1>7 DEF Fill
      <4> QED BY <4>1, <4>2
    <3> HIDE DEF s
    <3>3. /\ s \in Server /\ s.bad = "no" /\ s.in = piece /\ s.out = << >> /\ ~s.armed
          /\ s.alive = server.alive /\ s.reading = server.reading /\ s.left = server.left
          /\ s.active = server.active /\ s.size = server.size /\ s.requested = 0
          /\ s.remaining = 0
      <4>1. s \in Server
        BY <1>7, <2>2, <3>2 DEF Server
      <4>2. server.requested = 0
        BY <1>7, <2>2 DEF ServerDrops
      <4> QED BY <1>7, <1>13, <2>2, <3>2, <4>1, <4>2 DEF Server
    <3>4. ServerDrops(s)
      BY <3>3 DEF ServerDrops
    <3>5. server.requested = 0
      BY <1>7, <2>2 DEF ServerDrops
    <3>6. AtServer(s, r, Cat(s.in, Cat(rest, o)))
      BY <1>12, <2>2, <3>3, <3>5 DEF AtServer
    <3>7. ServerDid(r, Cat(rest, o), s.alive, s)
      BY <3>3, <3>4, <3>6 DEF ServerDid
    <3>8. ServerDid(r, Cat(rest, o), s.alive, t) /\ t.in = << >>
      BY <1>13, <1>14, <3>1, <3>7, ServerConsumed
    <3> QED BY <3>3, <3>8
  <2> QED BY <1>9, <2>1, <2>2
<1>17. /\ wire' \in [client : Seq(Unit), server : Seq(Unit)]
       /\ wire'.server = rest /\ wire'.client = << >>
  BY <1>6, <1>9, <1>13, InvFacts
<1>18. t \in Server /\ t.bad = "no" /\ ServerDrops(t)
  BY <1>16 DEF ServerDid
<1>19. t.out \in Seq(Unit) /\ Cat(<< >>, t.out) = t.out
  <2>1. t.out \in Seq(Unit)
    BY <1>18 DEF Server
  <2> QED BY <2>1, CatSeq
<1>20. Cat(t.in, Cat(rest, o)) = Cat(rest, o)
  BY <1>14, <1>16, CatSeq
<1>21. RspBody[r] \in Nat
  BY <1>13, ReqForms
<1>22. ServerPart(t) /\ Talks(client, t, Cat(rest, o), Cat(<< >>, t.out))
  <2>1. CASE AtServer(t, r, Cat(t.in, Cat(rest, o))) /\ t.out = << >> /\ ~t.armed
    <3>1. Talks(client, t, Cat(rest, o), Cat(<< >>, t.out))
      BY <1>11, <1>12, <1>19, <1>20, <2>1 DEF Talks
    <3> QED BY <1>16, <1>18, <2>1, <3>1 DEF ServerPart
  <2>2. CASE /\ Cat(rest, o) = << >> /\ ServerIdle(t)
             /\ t.out = WholeResponse(RspBody[r]) /\ t.armed
    <3>1. AtClient(client, r, Cat(<< >>, t.out))
      BY <1>12, <1>19, <2>2 DEF AtClient, ClientIdle
    <3>2. Talks(client, t, Cat(rest, o), Cat(<< >>, t.out))
      BY <1>11, <1>12, <2>2, <3>1 DEF Talks
    <3>3. t.out # << >>
      BY <1>21, <2>2, RspForms
    <3> QED BY <1>16, <1>18, <2>2, <3>2, <3>3 DEF ServerPart
  <2> QED BY <1>16, <2>1, <2>2 DEF ServerDid
<1>23. Talks(client', server', Cat(wire'.server, client'.out), Cat(wire'.client, server'.out))
  BY <1>1, <1>3, <1>15, <1>17, <1>22
<1>24. ClientPart(client', made') /\ ServerPart(server') /\ made' \in 0..N
  BY <1>1, <1>15, <1>22 DEF ExchangeInv
<1> QED BY <1>17, <1>23, <1>24 DEF ExchangeInv

(* The client's socket takes some of the request.                          *)
LEMMA ClientWriteStep ==
  ASSUME ExchangeInv, ClientWrite
  PROVE  ExchangeInv'
<1>1. /\ client.state = "CONNECTED" /\ client.armed
      /\ server' = server /\ made' = made
  BY DEF ClientWrite
<1>2. /\ client.out # << >> /\ client.out \in Seq(Unit) /\ client \in Client
      /\ client.bad = "no" /\ wire.server \in Seq(Unit)
  BY <1>1, InvFacts DEF Output, Healthy
<1>3. PICK k \in 1..Len(client.out) :
        LET c == Written(client, k)
        IN  /\ client' = IF c.out = << >> THEN MaybeSend(c) ELSE c
            /\ wire' = [wire EXCEPT !.server = @ \o SubSeq(client.out, 1, k)]
  BY <1>2 DEF ClientWrite
<1>4. PICK rest, v : /\ rest = SubSeq(client.out, k + 1, Len(client.out))
                     /\ v = wire.server \o SubSeq(client.out, 1, k)
  OBVIOUS
<1>5. /\ rest \in Seq(Unit) /\ v \in Seq(Unit)
      /\ Cat(v, rest) = Cat(wire.server, client.out)
      /\ rest # << >> <=> Len(client.out) > k
  BY <1>2, <1>4, Leaves
<1>6. PICK c : c = Written(client, k)
  OBVIOUS
<1>7. c = [client EXCEPT !.out = rest, !.armed = Len(client.out) > k]
  BY <1>4, <1>6 DEF Written
<1>8. /\ c \in Client /\ c.bad = "no" /\ SameClient(client, c) /\ c.state = "CONNECTED"
      /\ c.out = rest /\ (c.armed <=> Len(client.out) > k)
  <2>1. PICK b \in BOOLEAN : b = (Len(client.out) > k)
    <3>1. PICK l \in Nat, m \in Nat : l = Len(client.out) /\ m = k
      BY <1>2
    <3>2. (l > m) \in BOOLEAN
      OBVIOUS
    <3> QED BY <3>1, <3>2
  <2>2. c = [client EXCEPT !.out = rest, !.armed = b]
    BY <1>7, <2>1, Zenon
  <2>3. c \in Client
    BY <1>2, <1>5, <2>2 DEF Client
  <2>4. /\ c.bad = "no" /\ SameClient(client, c) /\ c.state = "CONNECTED"
        /\ c.out = rest /\ c.armed = b
    BY <1>1, <1>2, <2>2 DEF Client, SameClient, SameBooks
  <2> QED BY <2>1, <2>3, <2>4
<1>9. Output(c)
  BY <1>5, <1>8 DEF Output
<1>10. client.active # 0
  <2>1. Cat(wire.server, client.out) # << >>
    BY <1>2, CatSeq
  <2> QED BY <2>1, InvFacts DEF Talks
<1>11. client' = c
  <2>1. c.active # 0
    BY <1>8, <1>10 DEF SameClient, SameBooks
  <2> QED BY <1>3, <1>6, <2>1 DEF MaybeSend
<1>12. /\ ClientPart(c, made)
       /\ Talks(c, server, Cat(wire.server, client.out), Cat(wire.client, server.out))
  BY <1>8, <1>9, ClientStays DEF ExchangeInv
<1>13. /\ wire' \in [client : Seq(Unit), server : Seq(Unit)]
       /\ wire'.client = wire.client /\ wire'.server = v
  BY <1>3, <1>4, <1>5, InvFacts
<1>14. Talks(client', server', Cat(wire'.server, client'.out), Cat(wire'.client, server'.out))
  BY <1>1, <1>5, <1>8, <1>11, <1>12, <1>13
<1>15. ClientPart(client', made') /\ ServerPart(server') /\ made' \in 0..N
  BY <1>1, <1>11, <1>12 DEF ExchangeInv
<1> QED BY <1>13, <1>14, <1>15 DEF ExchangeInv

(* The server's socket takes some of the response.                         *)
LEMMA ServerWriteStep ==
  ASSUME ExchangeInv, ServerWrite
  PROVE  ExchangeInv'
<1>1. server.armed /\ client' = client /\ made' = made
  BY DEF ServerWrite
<1>2. /\ server.out # << >> /\ server.out \in Seq(Unit) /\ server \in Server
      /\ wire.client \in Seq(Unit)
  BY <1>1, InvFacts
<1>3. PICK k \in 1..Len(server.out) :
        /\ server' = Written(server, k)
        /\ wire' = [wire EXCEPT !.client = @ \o SubSeq(server.out, 1, k)]
  BY <1>2 DEF ServerWrite
<1>4. PICK rest, v : /\ rest = SubSeq(server.out, k + 1, Len(server.out))
                     /\ v = wire.client \o SubSeq(server.out, 1, k)
  OBVIOUS
<1>5. /\ rest \in Seq(Unit) /\ v \in Seq(Unit)
      /\ Cat(v, rest) = Cat(wire.client, server.out)
      /\ rest # << >> <=> Len(server.out) > k
  BY <1>2, <1>4, Leaves
<1>6. PICK t : t = Written(server, k)
  OBVIOUS
<1>7. t = [server EXCEPT !.out = rest, !.armed = Len(server.out) > k]
  BY <1>4, <1>6 DEF Written
<1>8. /\ t \in Server /\ t.bad = server.bad /\ t.in = server.in
      /\ t.reading = server.reading /\ t.active = server.active
      /\ t.size = server.size /\ t.left = server.left /\ t.requested = server.requested
      /\ t.remaining = server.remaining
      /\ t.out = rest /\ (t.armed <=> Len(server.out) > k)
  <2>1. PICK b \in BOOLEAN : b = (Len(server.out) > k)
    <3>1. PICK l \in Nat, m \in Nat : l = Len(server.out) /\ m = k
      BY <1>2
    <3>2. (l > m) \in BOOLEAN
      OBVIOUS
    <3> QED BY <3>1, <3>2
  <2>2. t = [server EXCEPT !.out = rest, !.armed = b]
    BY <1>7, <2>1, Zenon
  <2>3. t \in Server
    BY <1>2, <1>5, <2>2 DEF Server
  <2>4. /\ t.bad = server.bad /\ t.in = server.in
        /\ t.reading = server.reading /\ t.active = server.active
        /\ t.size = server.size /\ t.left = server.left /\ t.requested = server.requested
        /\ t.remaining = server.remaining
        /\ t.out = rest /\ t.armed = b
    BY <1>2, <2>2 DEF Server
  <2> QED BY <2>1, <2>3, <2>4
<1>9. Talks(client, t, Cat(wire.server, client.out), Cat(wire.client, server.out))
  BY <1>8, InvFacts, ServerStays
<1>10. ServerPart(t)
  BY <1>5, <1>8 DEF ExchangeInv, ServerPart, ServerDrops
<1>11. /\ wire' \in [client : Seq(Unit), server : Seq(Unit)]
       /\ wire'.server = wire.server /\ wire'.client = v
  BY <1>3, <1>4, <1>5, InvFacts
<1>12. Talks(client', server', Cat(wire'.server, client'.out), Cat(wire'.client, server'.out))
  BY <1>1, <1>3, <1>5, <1>6, <1>8, <1>9, <1>11
<1>13. ClientPart(client', made') /\ ServerPart(server') /\ made' \in 0..N
  BY <1>1, <1>3, <1>6, <1>10 DEF ExchangeInv
<1> QED BY <1>11, <1>12, <1>13 DEF ExchangeInv

(* Nothing is under way at the start.                                      *)
LEMMA StartsEmpty ==
  ExchangeInit => ExchangeInv
<1> SUFFICES ASSUME ExchangeInit
             PROVE  ExchangeInv
  OBVIOUS
<1>1. /\ client = NewClient /\ server = NewServer
      /\ wire = [client |-> << >>, server |-> << >>] /\ made = 0
  BY DEF ExchangeInit
<1>2. << >> \in Seq(Unit) /\ << >> \in Seq(1..N) /\ Len(<< >>) = 0
  OBVIOUS
<1>3. /\ [r \in 1..N |-> 0] \in [1..N -> Nat]
      /\ \A r \in 1..N : [i \in 1..N |-> 0][r] = 0
  OBVIOUS
<1>4. 0 \in 0..N
  BY ExchangeAssumption
<1>5. client \in Client
  BY <1>1, <1>2, <1>3, <1>4 DEF NewClient, Client
<1>6. /\ client.bad = "no" /\ client.in = << >> /\ client.out = << >> /\ ~client.armed
      /\ client.active = 0 /\ client.state = "CONNECTING" /\ client.reading = "STATUS_LINE"
      /\ client.left = 0 /\ client.requested = 0 /\ client.remaining = 0
      /\ client.done = << >> /\ client.submitted = << >>
      /\ \A r \in 1..N : client.metas[r] = 0 /\ client.got[r] = 0
  BY <1>1, <1>3 DEF NewClient
<1>7. Tally(client, made)
  BY <1>1, <1>2, <1>6 DEF Tally, Begun
<1>8. ClientPart(client, made)
  BY <1>5, <1>6, <1>7 DEF ClientPart, Healthy, ClientDrops, Output
<1>9. server \in Server
  BY <1>1, <1>2 DEF NewServer, Server
<1>10. /\ server.bad = "no" /\ server.in = << >> /\ server.out = << >> /\ ~server.armed
       /\ server.requested = 0 /\ server.remaining = 0 /\ ServerIdle(server)
  BY <1>1 DEF NewServer, ServerIdle
<1>11. ServerPart(server)
  BY <1>9, <1>10 DEF ServerPart, ServerDrops
<1>12. Cat(wire.server, client.out) = << >> /\ Cat(wire.client, server.out) = << >>
  <2>1. wire.server = << >> /\ wire.client = << >>
    BY <1>1
  <2> QED BY <1>2, <1>6, <1>10, <2>1, CatSeq
<1>13. Talks(client, server, Cat(wire.server, client.out), Cat(wire.client, server.out))
  BY <1>6, <1>10, <1>12 DEF Talks, ClientIdle
<1>14. wire \in [client : Seq(Unit), server : Seq(Unit)] /\ made \in 0..N
  BY <1>1, <1>2, <1>4
<1> QED BY <1>8, <1>11, <1>13, <1>14 DEF ExchangeInv

(* Every step keeps the invariant.                                         *)
LEMMA ExchangeStep ==
  ExchangeInv /\ [ExchangeNext]_exchangeVars => ExchangeInv'
<1> SUFFICES ASSUME ExchangeInv, [ExchangeNext]_exchangeVars
             PROVE  ExchangeInv'
  OBVIOUS
<1>1. CASE Submit
  BY <1>1, SubmitStep
<1>2. CASE Connect
  BY <1>2, ConnectStep
<1>3. CASE Close
  BY <1>3, CloseStep
<1>4. CASE ClientRead
  BY <1>4, ClientReadStep
<1>5. CASE ClientWrite
  BY <1>5, ClientWriteStep
<1>6. CASE ServerRead
  BY <1>6, ServerReadStep
<1>7. CASE ServerWrite
  BY <1>7, ServerWriteStep
<1>8. CASE ServerEnd
  BY <1>8, ServerEndStep
<1>9. CASE UNCHANGED exchangeVars
  <2>1. client' = client /\ server' = server /\ wire' = wire /\ made' = made
    BY <1>9 DEF exchangeVars
  <2> QED BY <2>1 DEF ExchangeInv
<1> QED BY <1>1, <1>2, <1>3, <1>4, <1>5, <1>6, <1>7, <1>8, <1>9 DEF ExchangeNext

(* a is what is left of p after some of it.                                *)
EndOf(a, p) == \E k \in 0..Len(p) : a = SubSeq(p, k + 1, Len(p))

(* A stream is an end of itself, and so is nothing.                        *)
LEMMA EndsItself ==
  ASSUME NEW p \in Seq(Unit)
  PROVE  EndOf(p, p) /\ EndOf(<< >>, p)
<1>1. Len(p) \in Nat
  OBVIOUS
<1>2. p = SubSeq(p, 0 + 1, Len(p)) /\ 0 \in 0..Len(p)
  BY <1>1
<1>3. << >> = SubSeq(p, Len(p) + 1, Len(p)) /\ Len(p) \in 0..Len(p)
  BY <1>1
<1>4. EndOf(p, p)
  BY <1>2, Zenon DEF EndOf
<1>5. EndOf(<< >>, p)
  BY <1>3, Zenon DEF EndOf
<1> QED BY <1>4, <1>5

(* Without its first unit, an end of a stream is still one.                *)
LEMMA EndsAfter ==
  ASSUME NEW p \in Seq(Unit), NEW u \in Unit, NEW q \in Seq(Unit), EndOf(Then(u, q), p)
  PROVE  EndOf(q, p)
<1>1. PICK k \in 0..Len(p) : Then(u, q) = SubSeq(p, k + 1, Len(p))
  BY DEF EndOf
<1>2. PICK b \in Seq(Unit) : /\ b = Then(u, q) /\ Len(b) = Len(q) + 1
                            /\ \A i \in 1..Len(q) : b[i + 1] = q[i]
  BY ThenAt
<1>3. Len(p) \in Nat /\ Len(q) \in Nat /\ k \in Nat
  OBVIOUS
<1>4. Len(b) = Len(p) - k /\ \A i \in 1..(Len(p) - k) : b[i] = p[k + i]
  <2>1. b = SubSeq(p, k + 1, Len(p))
    BY <1>1, <1>2
  <2>2. /\ Len(SubSeq(p, k + 1, Len(p))) = Len(p) - k
        /\ \A i \in 1..(Len(p) - k) : SubSeq(p, k + 1, Len(p))[i] = p[k + i]
    BY <1>3
  <2> QED BY <2>1, <2>2
<1>5. k + 1 \in 0..Len(p) /\ Len(q) = Len(p) - (k + 1)
  <2>1. PICK l \in Nat, m \in Nat : l = Len(p) /\ m = Len(q)
    BY <1>3
  <2>2. m + 1 = l - k /\ k \in Nat
    BY <1>2, <1>3, <1>4, <2>1
  <2>3. k + 1 \in 0..l /\ m = l - (k + 1)
    BY <2>2
  <2> QED BY <2>1, <2>3
<1>6. PICK g \in Seq(Unit) : /\ g = SubSeq(p, (k + 1) + 1, Len(p)) /\ Len(g) = Len(q)
                            /\ \A i \in 1..Len(q) : g[i] = p[(k + 1) + i]
  <2>1. /\ SubSeq(p, (k + 1) + 1, Len(p)) \in Seq(Unit)
        /\ Len(SubSeq(p, (k + 1) + 1, Len(p))) = Len(p) - (k + 1)
        /\ \A i \in 1..(Len(p) - (k + 1)) : SubSeq(p, (k + 1) + 1, Len(p))[i] = p[(k + 1) + i]
    BY <1>3, <1>5
  <2> QED BY <1>5, <2>1
<1>7. q = g
  <2>1. ASSUME NEW i \in 1..Len(q)
        PROVE  q[i] = g[i]
    <3>1. i + 1 \in 1..(Len(p) - k) /\ (k + 1) + i = k + (i + 1)
      BY <1>3, <1>5
    <3>2. b[i + 1] = p[k + (i + 1)]
      BY <1>4, <3>1
    <3> QED BY <1>2, <1>6, <3>1, <3>2
  <2> QED BY <1>6, <2>1, SameSeq
<1> QED BY <1>5, <1>6, <1>7, Zenon DEF EndOf

(* A response from any of its lines on is an end of it.                    *)
LEMMA AnswerEnds ==
  ASSUME NEW n \in Nat
  PROVE  LET rsp == WholeResponse(n)
         IN  /\ EndOf(<< >>, rsp) /\ EndOf(rsp, rsp) /\ EndOf(RspFromLength(n), rsp)
             /\ EndOf(RspFromDummy(n), rsp) /\ EndOf(RspFromEnd(n), rsp)
<1> DEFINE rsp == WholeResponse(n)
<1>1. /\ RspFromEnd(n) \in Seq(Unit) /\ RspFromDummy(n) \in Seq(Unit)
      /\ RspFromLength(n) \in Seq(Unit) /\ rsp \in Seq(Unit)
  BY RspForms
<1>2. /\ Line("status", 0) \in Unit /\ Line("length", n) \in Unit /\ Line("dummy", 0) \in Unit
  BY LineUnit
<1>3. EndOf(<< >>, rsp) /\ EndOf(rsp, rsp)
  BY <1>1, EndsItself
<1>4. rsp = Then(Line("status", 0), RspFromLength(n))
  BY DEF WholeResponse
<1> HIDE DEF rsp
<1>5. EndOf(RspFromLength(n), rsp)
  BY <1>1, <1>2, <1>3, <1>4, EndsAfter
<1>6. RspFromLength(n) = Then(Line("length", n), RspFromDummy(n))
  BY DEF RspFromLength
<1>7. EndOf(RspFromDummy(n), rsp)
  BY <1>1, <1>2, <1>5, <1>6, EndsAfter
<1>8. RspFromDummy(n) = Then(Line("dummy", 0), RspFromEnd(n))
  BY DEF RspFromDummy
<1>9. EndOf(RspFromEnd(n), rsp)
  BY <1>1, <1>2, <1>7, <1>8, EndsAfter
<1> QED BY <1>3, <1>5, <1>7, <1>9 DEF rsp

(* The invariant gives that both sides agree on their place in the         *)
(* stream.                                                                 *)
LEMMA StaysInStep ==
  ASSUME ExchangeInv
  PROVE  SidesInStep
<1>1. PICK q \in Seq(Unit), a \in Seq(Unit) :
        /\ q = Cat(wire.server, client.out) /\ a = Cat(wire.client, server.out)
        /\ Talks(client, server, q, a)
  BY InvFacts, CatSeq
<1>2. ToServer = q
  <2>1. server.in \o wire.server = wire.server
    <3>1. server.in = << >> /\ wire.server \in Seq(Unit)
      BY InvFacts
    <3>2. Cat(<< >>, wire.server) = wire.server
      <4>1. << >> \in Seq(Unit)
        OBVIOUS
      <4> QED BY <3>1, <4>1, CatSeq
    <3> QED BY <3>1, <3>2 DEF Cat
  <2>2. ToServer = Cat(server.in \o wire.server, client.out)
    BY Zenon DEF ToServer, Cat
  <2> QED BY <1>1, <2>1, <2>2
<1>3. ToClient = a
  <2>1. client.in \o wire.client = wire.client
    <3>1. client.in = << >> /\ wire.client \in Seq(Unit)
      BY InvFacts
    <3>2. Cat(<< >>, wire.client) = wire.client
      <4>1. << >> \in Seq(Unit)
        OBVIOUS
      <4> QED BY <3>1, <4>1, CatSeq
    <3> QED BY <3>1, <3>2 DEF Cat
  <2>2. ToClient = Cat(client.in \o wire.client, server.out)
    BY Zenon DEF ToClient, Cat
  <2> QED BY <1>1, <2>1, <2>2
<1>4. client.active = 0 => a = << >> /\ q = << >>
  BY <1>1 DEF Talks
<1>5. q # << >> => a = << >>
  BY <1>1 DEF Talks
<1>6. client.reading = "BODY" => a = Body(client.left)
  BY <1>1 DEF Talks, ClientIdle, AtClient
<1>7. client.requested > 0 => client.reading = "BODY" /\ client.remaining = client.left
  <2>1. ClientDrops(client)
    BY InvFacts
  <2>2. client.requested = 0 => ~(client.requested > 0)
    OBVIOUS
  <2> QED BY <2>1, <2>2 DEF ClientDrops
<1>8. server.reading = "BODY" =>
        q = Body(IF server.requested > 0 THEN server.remaining ELSE server.left)
  BY <1>1 DEF Talks, ServerIdle, AtServer
<1>9. ASSUME client.active # 0, client.reading # "BODY"
      PROVE  EndOf(a, ResponseHead(RspBody[client.active]) \o Body(RspBody[client.active]))
  <2>1. PICK n \in Nat : n = RspBody[client.active]
    BY <1>9, InvFacts, ActiveOne
  <2>2. a \in {<< >>, WholeResponse(n), RspFromLength(n), RspFromDummy(n), RspFromEnd(n)}
    BY <1>1, <1>9, <2>1 DEF Talks, AtClient
  <2>3. EndOf(a, WholeResponse(n))
    BY <2>1, <2>2, AnswerEnds
  <2>4. ResponseHead(n) \o Body(n) = WholeResponse(n)
    BY RspForms
  <2> QED BY <2>1, <2>3, <2>4
<1> QED BY <1>2, <1>3, <1>4, <1>5, <1>6, <1>7, <1>8, <1>9, Zenon DEF SidesInStep, EndOf

(* The invariant gives all that the run checks.                            *)
LEMMA InvIsSafe ==
  ExchangeInv => ExchangeIsSafe
<1> SUFFICES ASSUME ExchangeInv
             PROVE  ExchangeIsSafe
  OBVIOUS
<1>1. ExchangeTypeOK
  BY InvFacts DEF ExchangeTypeOK
<1>2. NoCheckFails
  BY InvFacts DEF NoCheckFails, Ok, Healthy
<1>3. WriteArmed
  BY InvFacts DEF WriteArmed, Output
<1>4. AnsweredInOrder
  <2>1. Tally(client, made) /\ client \in Client
    BY InvFacts DEF Healthy
  <2>2. client.done \in Seq(1..N)
    BY <2>1 DEF Client
  <2>3. \A i \in 1..Len(client.done) :
          client.done[i] = i /\ client.metas[i] = 1 /\ client.got[i] = RspBody[i]
    BY <2>1 DEF Tally
  <2>4. client.done = [i \in 1..Len(client.done) |-> client.done[i]]
    BY <2>2
  <2>5. client.done = [i \in 1..Len(client.done) |-> i]
    BY <2>3, <2>4
  <2> QED BY <2>3, <2>5 DEF AnsweredInOrder
<1> QED BY <1>1, <1>2, <1>3, <1>4, StaysInStep DEF ExchangeIsSafe

(* For any requests and answers, however their bytes are cut and whenever  *)
(* the client goes: no CHECK of Connection, Handler or TCPChannel fails,   *)
(* both ends keep the same place in the stream, the write event is armed   *)
(* whenever there is output, and responses come whole and in order.        *)
THEOREM ExchangeStaysSafe == ExchangeSpec => []ExchangeIsSafe
<1>1. ExchangeSpec => []ExchangeInv
  BY StartsEmpty, ExchangeStep, PTL DEF ExchangeSpec
<1> QED BY <1>1, InvIsSafe, PTL
================================================================================
