------------------------------ MODULE HttpSession ------------------------------
(***************************************************************************)
(* A renderer's session in the IO process: HttpNetworkSession, its         *)
(* http::ConnectionManager, and the http::Connections to each server.      *)
(* Requests wait per server, go to a connection whose queue is empty or to *)
(* a new one, and are answered one at a time on each connection (how their *)
(* bytes are read is in HttpExchange).  One event loop runs every callback *)
(* to its end.                                                             *)
(*                                                                         *)
(* A connection is its two queues and its state; the steps through the     *)
(* SOCKS5 proxy are one step here (ChannelSetup has the connector).  An    *)
(* idle connection is any whose queue is empty, where the code takes the   *)
(* first of the list.  A connection that is refused at once ends the       *)
(* process ("to be implemented") and is left out.                          *)
(***************************************************************************)
EXTENDS Naturals, Sequences, FiniteSets

CONSTANTS Req,       \* requests a renderer may make
          Size,      \* of each one's response body
          Site,      \* the server (NetLoc) each is for
          Conn,      \* connections, reused when they are gone
          MaxConns   \* max_persist_cnx_per_srv_, 8 in the code

Sites == {Site[r] : r \in Req}

ASSUME SessionAssumption ==
  /\ Size \in [Req -> Nat] /\ DOMAIN Site = Req
  /\ MaxConns \in Nat \ {0}

CONSTANT None
ASSUME NoneAssumption == None \notin Req

VARIABLES pending,    \* pending_requests_
          waiting,    \* requests_ of each server
          conns,      \* connections_ of each server
          state,      \* state_ of each connection
          submitted,  \* submitted_req_queue_
          active,     \* active_req_queue_, which holds at most one
          left,       \* remaining_resp_body_len_
          body,       \* HTTP_RSP_STATE_BODY, for the active request
          recvd,      \* actual_resp_body_size_ of each request
          asked,      \* requests the renderer has made
          heads,      \* ReceivedResponse messages sent for each request
          told,       \* bytes reported in DataReceived messages
          ends,       \* RequestComplete messages sent for each request
          bad         \* the CHECK that failed

manager == << waiting, conns, state, submitted, active >>
reading == << left, body, recvd >>
renderer == << heads, told, ends >>
vars == << pending, manager, reading, asked, renderer, bad >>

Init ==
  /\ pending = {}
  /\ waiting = [n \in Sites |-> << >>]
  /\ conns = [n \in Sites |-> {}]
  /\ state = [c \in Conn |-> "none"]
  /\ submitted = [c \in Conn |-> << >>]
  /\ active = [c \in Conn |-> None]
  /\ left = [c \in Conn |-> 0]
  /\ body = [c \in Conn |-> FALSE]
  /\ recvd = [r \in Req |-> 0]
  /\ asked = {}
  /\ heads = [r \in Req |-> 0]
  /\ told = [r \in Req |-> 0]
  /\ ends = [r \in Req |-> << >>]
  /\ bad = "no"

Elems(q) == {q[i] : i \in DOMAIN q}

Busy(c) == submitted[c] # << >> \/ active[c] # None

Owner(c) == CHOOSE n \in Sites : c \in conns[n]

-----------------------------------------------------------------------------
(* Connection::submit_request, and _maybe_http_write_to_transport when it  *)
(* is connected: s and a are its queues, the result its new ones.          *)
Enqueue(st, s, a, r) ==
  LET q == Append(s, r)
  IN  IF st = "CONNECTED" /\ a = None
      THEN << Tail(q), Head(q) >>
      ELSE << q, a >>

(* ConnectionManager::submit_request.                                      *)
SubmitRequest(r) ==
  LET n == Site[r]
      q == Append(waiting[n], r)
      idle == {c \in conns[n] : ~Busy(c)}
  IN  \/ \E c \in idle :
           LET e == Enqueue(state[c], submitted[c], active[c], Head(q)) IN
           /\ submitted' = [submitted EXCEPT ![c] = e[1]]
           /\ active' = [active EXCEPT ![c] = e[2]]
           /\ waiting' = [waiting EXCEPT ![n] = Tail(q)]
           /\ UNCHANGED << conns, state >>
      \/ /\ idle = {} /\ Cardinality(conns[n]) < MaxConns
         /\ \E c \in {d \in Conn : state[d] = "none"} :
              /\ conns' = [conns EXCEPT ![n] = @ \cup {c}]
              /\ state' = [state EXCEPT ![c] = "CONNECTING"]
              /\ submitted' = [submitted EXCEPT ![c] = << Head(q) >>]
              /\ waiting' = [waiting EXCEPT ![n] = Tail(q)]
              /\ UNCHANGED active
      \/ /\ idle = {} /\ Cardinality(conns[n]) >= MaxConns
         /\ waiting' = [waiting EXCEPT ![n] = q]
         /\ UNCHANGED << conns, state, submitted, active >>

(* handle_RequestResource: the request is submitted, then remembered.      *)
RequestResource(r) ==
  /\ bad = "no" /\ r \notin asked
  /\ SubmitRequest(r)
  /\ pending' = pending \cup {r}
  /\ asked' = asked \cup {r}
  /\ UNCHANGED << reading, renderer, bad >>

-----------------------------------------------------------------------------
(* A connection's transport.                                               *)

(* Connected to the target, through the proxy or directly: _maybe_send.    *)
Connected_NoSend(c) ==
  /\ bad = "no" /\ state[c] = "CONNECTING"
  /\ state' = [state EXCEPT ![c] = "CONNECTED"]
  /\ UNCHANGED << pending, waiting, conns, submitted, active, reading, asked,
                  renderer, bad >>

Connected(c) ==
  /\ bad = "no" /\ state[c] = "CONNECTING"
  /\ state' = [state EXCEPT ![c] = "CONNECTED"]
  /\ active' = [active EXCEPT ![c] = Head(submitted[c])]
  /\ submitted' = [submitted EXCEPT ![c] = Tail(@)]
  /\ UNCHANGED << pending, waiting, conns, reading, asked, renderer, bad >>

(* _done_with_resp after the request is popped: RequestComplete with       *)
(* success, which forgets it; the manager gives the connection the next    *)
(* waiting request; and the connection writes the next of its own.         *)
DoneWithResp_Forgets(c) ==
  LET r == active[c] IN
  /\ pending' = pending \ {r}
  /\ ends' = [ends EXCEPT ![r] = Append(@, TRUE)]
  /\ active' = [active EXCEPT ![c] = None]
  /\ UNCHANGED << waiting, submitted >>

DoneWithResp_Resends(c) ==
  LET r == active[c] IN
  /\ pending' = pending \ {r}
  /\ ends' = [ends EXCEPT ![r] = Append(@, TRUE)]
  /\ UNCHANGED << waiting, submitted, active >>

DoneWithResp(c) ==
  LET r == active[c]
      n == Owner(c)
      more == waiting[n] # << >>
      q == IF more THEN Append(submitted[c], Head(waiting[n])) ELSE submitted[c]
  IN  /\ pending' = pending \ {r}
      /\ ends' = [ends EXCEPT ![r] = Append(@, TRUE)]
      /\ waiting' = IF more THEN [waiting EXCEPT ![n] = Tail(@)] ELSE waiting
      /\ active' = [active EXCEPT ![c] = IF q = << >> THEN None ELSE Head(q)]
      /\ submitted' = [submitted EXCEPT ![c] = IF q = << >> THEN q ELSE Tail(q)]

(* The end of a response's header: ReceivedResponse, then the body or the  *)
(* end.                                                                    *)
ReadMeta(c) ==
  LET r == active[c] IN
  /\ bad = "no" /\ state[c] = "CONNECTED" /\ r # None /\ ~body[c]
  /\ heads' = [heads EXCEPT ![r] = @ + 1]
  /\ bad' = IF r \in pending THEN "no" ELSE "unknown request"
  /\ left' = [left EXCEPT ![c] = Size[r]]
  /\ IF Size[r] > 0
     THEN /\ body' = [body EXCEPT ![c] = TRUE]
          /\ UNCHANGED << pending, waiting, submitted, active, ends >>
     ELSE /\ DoneWithResp(c)
          /\ UNCHANGED body
  /\ UNCHANGED << conns, state, recvd, asked, told >>

(* How much may be taken as body: no more than is left of it.              *)
ChunkSizes(c) == 1..left[c]

(* _got_a_chunk_of_resp_body, from the input buffer or dropped: k bytes.   *)
ReadBody(c) ==
  LET r == active[c] IN
  /\ bad = "no" /\ state[c] = "CONNECTED" /\ body[c]
  /\ \E k \in ChunkSizes(c) :
       /\ left' = [left EXCEPT ![c] = @ - k]
       /\ recvd' = [recvd EXCEPT ![r] = @ + k]
       /\ told' = [told EXCEPT ![r] = @ + k]
       /\ bad' = CASE r \notin pending -> "unknown request"
                   [] r \in pending /\ k = left[c] /\ recvd[r] + k # Size[r] -> "wrong size"
                   [] OTHER -> "no"
       /\ IF k = left[c]
          THEN DoneWithResp(c) /\ body' = [body EXCEPT ![c] = FALSE]
          ELSE UNCHANGED << pending, waiting, submitted, active, ends, body >>
  /\ UNCHANGED << conns, state, asked, heads >>

-----------------------------------------------------------------------------
(* The requests that fail with a connection: those in its queues and, when *)
(* it is the server's last, those waiting for one.                         *)
Lost(c, n) ==
  Elems(submitted[c]) \cup ({active[c]} \ {None})
  \cup (IF conns[n] = {c} THEN Elems(waiting[n]) ELSE {})

(* handle_unusable_conn: the connection is released, and with the last one *)
(* its Server; the lost requests are reported (there are no retries).      *)
HandleUnusable_Strands(c, n) ==
  /\ conns' = [conns EXCEPT ![n] = @ \ {c}]
  /\ UNCHANGED waiting
  /\ pending' = pending \ Lost(c, n)
  /\ ends' = [r \in Req |-> IF r \in Lost(c, n) THEN Append(ends[r], FALSE) ELSE ends[r]]

HandleUnusable(c, n) ==
  /\ conns' = [conns EXCEPT ![n] = @ \ {c}]
  /\ waiting' = IF conns[n] = {c} THEN [waiting EXCEPT ![n] = << >>] ELSE waiting
  /\ pending' = pending \ Lost(c, n)
  /\ ends' = [r \in Req |-> IF r \in Lost(c, n) THEN Append(ends[r], FALSE) ELSE ends[r]]

(* The Connection is destroyed when its callback returns.                  *)
Destroy(D) ==
  /\ state' = [c \in Conn |-> IF c \in D THEN "none" ELSE state[c]]
  /\ submitted' = [c \in Conn |-> IF c \in D THEN << >> ELSE submitted[c]]
  /\ active' = [c \in Conn |-> IF c \in D THEN None ELSE active[c]]
  /\ left' = [c \in Conn |-> IF c \in D THEN 0 ELSE left[c]]
  /\ body' = [c \in Conn |-> IF c \in D THEN FALSE ELSE body[c]]

(* End of file or error, or the proxy could not connect to the target.     *)
ConnectionEnds(c) ==
  /\ bad = "no" /\ state[c] # "none"
  /\ HandleUnusable(c, Owner(c))
  /\ Destroy({c})
  /\ bad' = IF Lost(c, Owner(c)) \subseteq pending THEN "no" ELSE "unknown request"
  /\ UNCHANGED << recvd, asked, heads, told >>

(* handle_ResetSession: connman_->reset(), then the requests are cleared.  *)
ResetSession ==
  /\ bad = "no"
  /\ conns' = [n \in Sites |-> {}]
  /\ waiting' = [n \in Sites |-> << >>]
  /\ Destroy(Conn)
  /\ pending' = {}
  /\ UNCHANGED << recvd, asked, renderer, bad >>

Next ==
  \/ \E r \in Req : RequestResource(r)
  \/ \E c \in Conn : Connected(c) \/ ReadMeta(c) \/ ReadBody(c) \/ ConnectionEnds(c)
  \/ ResetSession

(* A connection attempt succeeds or fails, and a server that was sent a    *)
(* request answers it or hangs up.  Nothing makes an idle connection end.  *)
Progress(c) ==
  \/ Connected(c) \/ ReadMeta(c) \/ ReadBody(c)
  \/ (state[c] = "CONNECTING" \/ active[c] # None) /\ ConnectionEnds(c)

Spec == Init /\ [][Next]_vars /\ \A c \in Conn : WF_vars(Progress(c))

-----------------------------------------------------------------------------
(* Types of the variables.                                                 *)
TypeOK ==
  /\ pending \subseteq Req /\ asked \subseteq Req
  /\ waiting \in [Sites -> Seq(Req)]
  /\ conns \in [Sites -> SUBSET Conn]
  /\ state \in [Conn -> {"none", "CONNECTING", "CONNECTED"}]
  /\ submitted \in [Conn -> Seq(Req)]
  /\ active \in [Conn -> Req \cup {None}]
  /\ left \in [Conn -> Nat] /\ body \in [Conn -> BOOLEAN]
  /\ recvd \in [Req -> Nat] /\ heads \in [Req -> Nat] /\ told \in [Req -> Nat]
  /\ ends \in [Req -> Seq(BOOLEAN)]
  /\ bad \in {"no", "unknown request", "wrong size"}

(* No request is unknown to the session when its connection reports on it, *)
(* and a response ends with exactly the size that was expected.            *)
ChecksHold == bad = "no"

(* A request waits for a server only while every connection to it is busy, *)
(* and there is one: otherwise nothing would ever take it from the queue.  *)
WaitingMeansBusy ==
  \A n \in Sites : waiting[n] # << >> =>
    conns[n] # {} /\ \A c \in conns[n] : Busy(c)

(* submit_request never opens more connections to a server than allowed.   *)
WithinLimit == \A n \in Sites : Cardinality(conns[n]) <= MaxConns

Slots(q, r) == {i \in DOMAIN q : q[i] = r}

Places(r) ==
  (UNION {{<< "waiting", n, i >> : i \in Slots(waiting[n], r)} : n \in Sites})
  \cup (UNION {{<< "submitted", c, i >> : i \in Slots(submitted[c], r)} : c \in Conn})
  \cup {<< "active", c, 1 >> : c \in {d \in Conn : active[d] = r}}

(* Every pending request is in exactly one queue, once, and every queued   *)
(* request is pending.                                                     *)
InOnePlace ==
  \A r \in Req : Cardinality(Places(r)) = IF r \in pending THEN 1 ELSE 0

(* The session's books agree with each other: no request is lost between   *)
(* the queues or in two of them, and no limit is passed.                   *)
SessionIsSafe == TypeOK /\ ChecksHold /\ WithinLimit /\ InOnePlace

(* What the renderer is told about each request follows RequestLife.       *)
Life(r) ==
  CASE r \notin asked -> "new"
    [] ends[r] = << TRUE >> -> "ok"
    [] ends[r] = << FALSE >> -> "failed"
    [] ends[r] = << >> /\ r \in asked \ pending -> "dropped"
    [] ends[r] = << >> /\ r \in pending /\ heads[r] = 0 -> "asked"
    [] ends[r] = << >> /\ r \in pending /\ heads[r] = 1 -> "answered"
    [] OTHER -> "wrong"

R == INSTANCE RequestLife WITH life <- [r \in Req |-> Life(r)], bytes <- told

RendererSees == R!LSpec

(* Every request ends, or the session is reset.                            *)
RequestsEnd == \A r \in Req : r \in pending ~> r \notin pending
===============================================================================
