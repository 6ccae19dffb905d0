----------------------------- MODULE HttpExchange -----------------------------
(***************************************************************************)
(* One http::Connection, the web server's Handler for it, and the          *)
(* TCPChannel under each: requests and responses as a stream of units that *)
(* the sockets cut anywhere.  Most of a body never enters an input buffer: *)
(* each side asks its channel to drop that many future bytes, and is told  *)
(* of them (the client of every piece, the server once).                   *)
(*                                                                         *)
(* A unit is a header line or a byte of a body; a line that has arrived in *)
(* part is one that has not arrived (evbuffer_readln takes whole lines).   *)
(* How many bytes a read returns is free, so the read size hint and the    *)
(* size of the drop buffer leave no trace.  The client may be destroyed at *)
(* any time (a reset of its session); a server ends only with its client.  *)
(***************************************************************************)
EXTENDS Naturals, Sequences

CONSTANTS N,         \* requests, made in the order 1..N
          ReqBody,   \* opaque bytes of each request, at least one
          RspBody    \* resp_body_size of each

ASSUME ExchangeAssumption ==
  /\ N \in Nat
  /\ ReqBody \in [1..N -> Nat \ {0}] /\ RspBody \in [1..N -> Nat]

VARIABLES client,   \* Connection and its channel
          server,   \* Handler and its channel
          wire,     \* what is on the way to each of them
          made      \* requests submitted so far

exchangeVars == << client, server, wire, made >>

Line(k, v) == [kind |-> k, value |-> v]

Body(n) == [i \in 1..n |-> Line("byte", 0)]

RequestHead(r) ==
  << Line("request", 0), Line("resp_body_size", RspBody[r]),
     Line("length", ReqBody[r]), Line("end", 0) >>

ResponseHead(n) ==
  << Line("status", 0), Line("length", n), Line("dummy", 0), Line("end", 0) >>

(* The first fields of each side are its channel's: input_evb_,           *)
(* output_evb_, the write event, and input_drop_.                          *)
NewClient ==
  [in |-> << >>, out |-> << >>, armed |-> FALSE, requested |-> 0, remaining |-> 0,
   state |-> "CONNECTING", submitted |-> << >>, active |-> 0,
   reading |-> "STATUS_LINE", left |-> 0,
   metas |-> [r \in 1..N |-> 0], got |-> [r \in 1..N |-> 0],
   done |-> << >>, bad |-> "no"]

NewServer ==
  [in |-> << >>, out |-> << >>, armed |-> FALSE, requested |-> 0, remaining |-> 0,
   alive |-> TRUE, reading |-> "REQ_LINE", left |-> 0, active |-> FALSE,
   size |-> 0, bad |-> "no"]

ExchangeInit ==
  /\ client = NewClient /\ server = NewServer
  /\ wire = [client |-> << >>, server |-> << >>]
  /\ made = 0

Check(x, ok, what) == IF ok \/ x.bad # "no" THEN x ELSE [x EXCEPT !.bad = what]

-----------------------------------------------------------------------------
(* TCPChannel.                                                             *)

WriteBuffer(x, u) == [x EXCEPT !.out = @ \o u, !.armed = TRUE]

(* write_dummy leaves the write event as it is.                            *)
WriteDummy(x, n) == [x EXCEPT !.out = @ \o Body(n)]

DropFutureInput(x, n) ==
  [Check(x, x.requested = 0 /\ n > 0, "drop") EXCEPT !.requested = n, !.remaining = n]

ResetDrop(x) == IF x.remaining = 0 THEN [x EXCEPT !.requested = 0] ELSE x

(* _on_socket_writecb, k units of it accepted by the socket.               *)
Written_Disarms(x, k) == [x EXCEPT !.out = SubSeq(@, k + 1, Len(@)), !.armed = FALSE]

Written(x, k) ==
  [x EXCEPT !.out = SubSeq(@, k + 1, Len(@)), !.armed = Len(x.out) > k]

-----------------------------------------------------------------------------
(* http::Connection.                                                       *)

(* _maybe_http_write_to_transport.                                         *)
MaybeSend(c) ==
  IF c.submitted = << >> \/ c.active # 0 THEN c
  ELSE LET r == Head(c.submitted)
       IN  [WriteDummy(WriteBuffer(c, RequestHead(r)), ReqBody[r])
              EXCEPT !.submitted = Tail(@), !.active = r]

DoneWithResponse(c) ==
  LET c1 == Check(c, c.left = 0 /\ c.got[c.active] = RspBody[c.active], "size")
  IN  MaybeSend([c1 EXCEPT !.active = 0, !.done = Append(@, c.active),
                           !.reading = "STATUS_LINE"])

GotAChunk(c, n) ==
  LET c1 == [Check(c, c.left >= n, "chunk")
               EXCEPT !.left = @ - n, !.got[c.active] = @ + n]
  IN  IF c1.left = 0 THEN DoneWithResponse(c1) ELSE c1

(* The body that is in the buffer already; the rest is to be dropped.      *)
ReadRspBody_DropsAll(c) ==
  LET n == IF Len(c.in) < c.left THEN Len(c.in) ELSE c.left
      c1 == [c EXCEPT !.in = SubSeq(@, n + 1, Len(@))]
      c2 == IF n > 0 THEN GotAChunk(c1, n) ELSE c1
  IN  IF n < c.left THEN DropFutureInput(c2, c.left) ELSE c2

ReadRspBody(c) ==
  LET n == IF Len(c.in) < c.left THEN Len(c.in) ELSE c.left
      c1 == [c EXCEPT !.in = SubSeq(@, n + 1, Len(@))]
      c2 == IF n > 0 THEN GotAChunk(c1, n) ELSE c1
      c3 == Check(c2, c2.in = << >>, "input_after_body")
  IN  IF n < c.left THEN DropFutureInput(c3, c.left - n) ELSE c3

(* One turn of the loop of _maybe_http_consume_input before the body.      *)
ReadRspLine(c) ==
  IF c.reading = "BODY" \/ c.in = << >> \/ c.bad # "no" THEN c
  ELSE LET line == Head(c.in)
           d == [c EXCEPT !.in = Tail(@)]
       IN  CASE c.reading = "STATUS_LINE" ->
                  [Check(d, line.kind = "status", "status_line")
                     EXCEPT !.reading = "HEADERS"]
             [] c.reading = "HEADERS" /\ line.kind = "length" -> [d EXCEPT !.left = line.value]
             [] c.reading = "HEADERS" /\ line.kind = "dummy" -> d
             [] c.reading = "HEADERS" /\ line.kind = "end" ->
                  LET e == [d EXCEPT !.metas[c.active] = @ + 1]
                  IN  IF e.left > 0 THEN [e EXCEPT !.reading = "BODY"]
                                    ELSE DoneWithResponse(e)
             [] OTHER -> Check(d, FALSE, "header")

(* The loop: it takes one line a turn, and ends with the body or the input. *)
ClientConsume(c) ==
  LET after[n \in 0..Len(c.in)] == IF n = 0 THEN c ELSE ReadRspLine(after[n - 1])
      d == after[Len(c.in)]
  IN  IF d.reading = "BODY" THEN ReadRspBody(d) ELSE d

ClientInput(c) ==
  ClientConsume(Check(c, c.active # 0, "no_active_request"))

(* onInputBytesDropped, for every piece.                                   *)
ClientDropped(c, n) ==
  ResetDrop(GotAChunk([c EXCEPT !.remaining = @ - n], n))

-----------------------------------------------------------------------------
(* The web server's Handler.                                               *)

ServeResponse(s) ==
  LET s1 == Check(s, s.left = 0 /\ s.active, "serve")
  IN  [WriteDummy(WriteBuffer(s1, ResponseHead(s.size)), s.size)
         EXCEPT !.active = FALSE, !.size = 0, !.reading = "REQ_LINE"]

ReadReqLine(s) ==
  LET line == Head(s.in)
      t == [s EXCEPT !.in = Tail(@)]
  IN  CASE s.reading = "REQ_LINE" ->
             [Check(t, ~s.active /\ line.kind = "request", "request_line")
                EXCEPT !.active = TRUE, !.reading = "HEADERS"]
        [] s.reading = "HEADERS" /\ line.kind = "resp_body_size" -> [t EXCEPT !.size = line.value]
        [] s.reading = "HEADERS" /\ line.kind = "length" -> [t EXCEPT !.left = line.value]
        [] s.reading = "HEADERS" /\ line.kind = "end" ->
             IF t.left > 0 THEN [t EXCEPT !.reading = "BODY"] ELSE ServeResponse(t)
        [] OTHER -> Check(t, FALSE, "header")

(* The body that is in the buffer already; the rest is to be dropped.      *)
ReadReqBody(s) ==
  LET n == IF Len(s.in) < s.left THEN Len(s.in) ELSE s.left
      t == [Check(s, s.left > 0, "empty_body")
              EXCEPT !.in = SubSeq(@, n + 1, Len(@)), !.left = @ - n]
  IN  IF t.left > 0 THEN DropFutureInput(t, t.left) ELSE ServeResponse(t)

(* The loop of _maybe_consume_input, which stops on an empty buffer; each  *)
(* turn takes something from it.                                           *)
ReadRequest(s) ==
  IF s.in = << >> \/ s.bad # "no" THEN s
  ELSE IF s.reading = "BODY" THEN ReadReqBody(s) ELSE ReadReqLine(s)

ServerConsume(s) ==
  LET after[n \in 0..Len(s.in)] == IF n = 0 THEN s ELSE ReadRequest(after[n - 1])
  IN  after[Len(s.in)]

(* onInputBytesDropped, once: with the number that was asked for.          *)
ServerDropped(s, n) ==
  LET s1 == [s EXCEPT !.remaining = @ - n]
      s2 == Check(s1, s.reading = "BODY" /\ s.left = s.requested, "dropped")
  IN  IF s1.remaining > 0 THEN s1
                          ELSE ResetDrop(ServeResponse([s2 EXCEPT !.left = 0]))

-----------------------------------------------------------------------------
Ok == client.bad = "no" /\ server.bad = "no"

(* submit_request; a new request may come at any time.                     *)
Submit ==
  /\ Ok /\ client.state # "closed" /\ made < N
  /\ made' = made + 1
  /\ client' = LET c == [client EXCEPT !.submitted = Append(@, made + 1)]
               IN  IF c.state = "CONNECTED" THEN MaybeSend(c) ELSE c
  /\ UNCHANGED << server, wire >>

Connect ==
  /\ Ok /\ client.state = "CONNECTING"
  /\ client' = MaybeSend([client EXCEPT !.state = "CONNECTED"])
  /\ UNCHANGED << server, wire, made >>

(* _on_socket_readcb: d units are dropped; only when nothing is left to    *)
(* drop are k more read into the buffer.                                   *)
Reads(x, w) ==
  {p \in (0..Len(w)) \X (0..Len(w)) :
     /\ p[1] <= x.remaining /\ p[1] + p[2] \in 1..Len(w)
     /\ p[2] > 0 => p[1] = x.remaining}

Fill(x, w, p) == [x EXCEPT !.in = @ \o SubSeq(w, p[1] + 1, p[1] + p[2])]

ClientRead ==
  /\ Ok /\ client.state = "CONNECTED"
  /\ \E p \in Reads(client, wire.client) :
       LET c == IF p[1] > 0 THEN ClientDropped(client, p[1]) ELSE client
       IN  /\ client' = IF p[2] > 0 THEN ClientInput(Fill(c, wire.client, p)) ELSE c
           /\ wire' = [wire EXCEPT !.client = SubSeq(@, p[1] + p[2] + 1, Len(@))]
  /\ UNCHANGED << server, made >>

ServerRead ==
  /\ Ok /\ server.alive
  /\ \E p \in Reads(server, wire.server) :
       LET s == IF p[1] > 0 THEN ServerDropped(server, p[1]) ELSE server
       IN  /\ server' = IF p[2] > 0 THEN ServerConsume(Fill(s, wire.server, p)) ELSE s
           /\ wire' = [wire EXCEPT !.server = SubSeq(@, p[1] + p[2] + 1, Len(@))]
  /\ UNCHANGED << client, made >>

(* The socket takes some of the output; the client's onWrittenData sends.  *)
(* An armed event with nothing to write reads as the end of the stream.    *)
ClientWrite ==
  /\ Ok /\ client.state = "CONNECTED" /\ client.armed
  /\ IF client.out = << >>
     THEN client' = Check(client, FALSE, "wrote_nothing") /\ UNCHANGED wire
     ELSE \E k \in 1..Len(client.out) :
            LET c == Written(client, k) IN
            /\ client' = IF c.out = << >> THEN MaybeSend(c) ELSE c
            /\ wire' = [wire EXCEPT !.server = @ \o SubSeq(client.out, 1, k)]
  /\ UNCHANGED << server, made >>

ServerWrite ==
  /\ Ok /\ server.alive /\ server.armed
  /\ IF server.out = << >>
     THEN server' = Check(server, FALSE, "wrote_nothing") /\ UNCHANGED wire
     ELSE \E k \in 1..Len(server.out) :
            /\ server' = Written(server, k)
            /\ wire' = [wire EXCEPT !.client = @ \o SubSeq(server.out, 1, k)]
  /\ UNCHANGED << client, made >>

(* The Connection is destroyed with its channel.                           *)
Close ==
  /\ Ok /\ client.state # "closed"
  /\ client' = [client EXCEPT !.state = "closed"]
  /\ UNCHANGED << server, wire, made >>

(* End of file once everything is read, or an error at any time: the       *)
(* handler is done.                                                        *)
ServerEnd ==
  /\ Ok /\ server.alive /\ client.state = "closed"
  /\ server' = [server EXCEPT !.alive = FALSE]
  /\ UNCHANGED << client, wire, made >>

ExchangeNext ==
  \/ Submit \/ Connect \/ Close
  \/ ClientRead \/ ClientWrite \/ ServerRead \/ ServerWrite \/ ServerEnd

ExchangeSpec ==
  /\ ExchangeInit /\ [][ExchangeNext]_exchangeVars
  /\ WF_exchangeVars(Connect) /\ WF_exchangeVars(ClientRead) /\ WF_exchangeVars(ClientWrite)
  /\ WF_exchangeVars(ServerRead) /\ WF_exchangeVars(ServerWrite) /\ WF_exchangeVars(ServerEnd)

-----------------------------------------------------------------------------
Failures == {"drop", "size", "chunk", "input_after_body", "status_line", "header",
             "no_active_request", "serve", "request_line", "empty_body", "dropped",
             "wrote_nothing"}

Unit ==
  [kind : {"request", "resp_body_size", "length", "end", "status", "dummy", "byte"},
   value : Nat]

Client ==
  [in : Seq(Unit), out : Seq(Unit), armed : BOOLEAN, requested : Nat, remaining : Nat,
   state : {"CONNECTING", "CONNECTED", "closed"}, submitted : Seq(1..N),
   active : 0..N, reading : {"STATUS_LINE", "HEADERS", "BODY"}, left : Nat,
   metas : [1..N -> Nat], got : [1..N -> Nat], done : Seq(1..N),
   bad : Failures \cup {"no"}]

Server ==
  [in : Seq(Unit), out : Seq(Unit), armed : BOOLEAN, requested : Nat, remaining : Nat,
   alive : BOOLEAN, reading : {"REQ_LINE", "HEADERS", "BODY"}, left : Nat,
   active : BOOLEAN, size : Nat, bad : Failures \cup {"no"}]

ExchangeTypeOK ==
  /\ client \in Client /\ server \in Server
  /\ wire \in [client : Seq(Unit), server : Seq(Unit)]
  /\ made \in 0..N

(* Every assertion of both programs and of the channel holds: lines are of *)
(* the expected kind, no bytes follow a body, the drop requests do not     *)
(* overlap and are reported in full, and no write event finds nothing.     *)
NoCheckFails == Ok

Open == client.state = "CONNECTED" /\ server.alive

(* What is still to be read of the stream towards each side.               *)
ToServer == server.in \o wire.server \o client.out

ToClient == client.in \o wire.client \o server.out

(* Both sides agree where they are in the stream: what is on the way to a  *)
(* side is exactly what it has left to read of the one current message.    *)
SidesInStep ==
  Open =>
    /\ client.active = 0 => ToClient = << >> /\ ToServer = << >>
    /\ ToServer # << >> => ToClient = << >>
    /\ client.reading = "BODY" => ToClient = Body(client.left)
    /\ client.requested > 0 => client.reading = "BODY" /\ client.remaining = client.left
    /\ client.active # 0 /\ client.reading # "BODY" =>
         LET rsp == ResponseHead(RspBody[client.active]) \o Body(RspBody[client.active])
         IN  \E k \in 0..Len(rsp) : ToClient = SubSeq(rsp, k + 1, Len(rsp))
    /\ server.reading = "BODY" =>
         ToServer = Body(IF server.requested > 0 THEN server.remaining ELSE server.left)

(* Output waits for nothing but the socket: the write event is on exactly  *)
(* while there is something to write, though write_dummy never arms it.    *)
WriteArmed ==
  /\ client.state = "CONNECTED" => (client.armed <=> client.out # << >>)
  /\ server.armed <=> server.out # << >>

(* Requests are answered in the order they were submitted, each header     *)
(* once, each body whole.                                                  *)
AnsweredInOrder ==
  /\ client.done = [i \in 1..Len(client.done) |-> i]
  /\ \A r \in 1..Len(client.done) : client.metas[r] = 1 /\ client.got[r] = RspBody[r]

(* Client and server never lose their place in the stream, however the two *)
(* sockets cut it, nor a wake-up, nor the order of the answers.            *)
ExchangeIsSafe ==
  ExchangeTypeOK /\ NoCheckFails /\ SidesInStep /\ WriteArmed /\ AnsweredInOrder

(* A submitted request is answered unless its connection goes away.        *)
AllAnswered == \A r \in 1..N :
  made >= r ~> (Len(client.done) >= r \/ client.state = "closed")

(* The server's handler does not outlive its client, wherever in a message *)
(* the client left.                                                        *)
HandlerEnds == client.state = "closed" ~> ~server.alive
===============================================================================
