------------------------------ MODULE StreamRelay ------------------------------
(***************************************************************************)
(* One proxied connection, end to end: a program speaks SOCKS5 to          *)
(* csp::ClientHandler, which opens a stream of the BuFLO channel; the      *)
(* server side's CSPHandler gives the stream to a ssp::StreamHandler,      *)
(* which connects to the target; then an InnerOuterHandler on each side    *)
(* copies between the stream ("inner") and the connection ("outer") until  *)
(* somebody ends it.                                                       *)
(*                                                                         *)
(* end[s] is everything one side keeps for the connection: its handler,    *)
(* its InnerOuterHandler, its half of the stream, the output buffer of its *)
(* outer channel, and the frames it sent that the other has not read.  The *)
(* channel delivers frames in order (BufloEndpoint has the cells).         *)
(* outer[s] is the program at the far end of the outer connection.         *)
(*                                                                         *)
(* spdylay is external: it sends what is submitted at once, calls the data *)
(* provider until that defers or ends, closes a stream when both           *)
(* directions have ended or it is reset, and ignores late frames.          *)
(***************************************************************************)
EXTENDS Naturals, Sequences

CONSTANTS Confs,     \* configurations: [shadow, after, splits]
          MaxUnits   \* bound on the data units a program sends

(* after: what a socket says when it is read again after its end of file;  *)
(* splits: whether a SOCKS5 message may arrive in more than one piece.     *)
ASSUME RelayAssumption ==
  /\ Confs \subseteq [shadow : BOOLEAN, after : {"quiet", "error", "eof"},
                      splits : BOOLEAN]
  /\ MaxUnits \in Nat \ {0}

VARIABLES conf,    \* the build, and how its sockets behave
          end,     \* what each side keeps
          outer,   \* the programs at both ends
          broken   \* the channel's connection is gone

relayVars == << conf, end, outer, broken >>

Sides == {"csp", "ssp"}
Peer(s) == IF s = "csp" THEN "ssp" ELSE "csp"

(* state     handler's state_       half      inner_stream_half_closed_     *)
(* buflo     buflo_channel_ is set  deferred  inward_deferred_              *)
(* chan      outer channel open     weof      inward_has_seen_eof_          *)
(* out       output_evb_            inner     inward_buf_                   *)
(* stream    spdylay's stream       obs       its observer                  *)
(* provider  submitted              shutR/shutW  directions that ended      *)
(* tx        frames on their way    bad       the CHECK that failed         *)
NewEnd(state) ==
  [state |-> state, buflo |-> TRUE, chan |-> state # "NONE", out |-> << >>,
   half |-> FALSE, stream |-> "none", obs |-> "none", provider |-> FALSE,
   deferred |-> FALSE, weof |-> FALSE, inner |-> << >>, shutR |-> FALSE,
   shutW |-> FALSE, tx |-> << >>, bad |-> "no"]

NewOuter == [sin |-> << >>, over |-> "no", told |-> FALSE, sent |-> 0,
             asked |-> "nothing", got |-> << >>]

RelayInit ==
  /\ conf \in Confs
  /\ end = [s \in Sides |->
              NewEnd(IF s = "csp" THEN "READ_SOCKS5_GREETING" ELSE "NONE")]
  /\ outer = [s \in Sides |-> NewOuter]
  /\ broken = FALSE

Check(e, ok, what) == IF ok \/ e.bad # "no" THEN e ELSE [e EXCEPT !.bad = what]

Live(e) == e.stream \in {"opening", "open"}

(* Frames of the channel, and messages and data units of the sockets.      *)
Frame(t) == [type |-> t, data |-> 0]

Data(d)  == [type |-> "DATA", data |-> d]

-----------------------------------------------------------------------------
(* Ending: the handler, and who tells whom.                                *)

(* set_stream_observer; a stream spdylay does not know is an error that    *)
(* no caller looks at.                                                     *)
SetObserver(e, o) == IF Live(e) THEN [e EXCEPT !.obs = o] ELSE e

(* close_stream: clear the observer, reset the stream; its close callback  *)
(* finds no observer and forgets the stream's state.                       *)
CloseStream(e) ==
  IF Live(e)
  THEN [SetObserver(e, "none") EXCEPT !.tx = Append(@, Frame("RST")),
                                      !.stream = "gone"]
  ELSE e

(* ClientHandler::_close and StreamHandler::_close, up to the proxy's      *)
(* erasing the handler.                                                    *)
Close_KeepsStream(e) ==
  [e EXCEPT !.state = "CLOSED", !.chan = FALSE, !.out = << >>,
            !.buflo = FALSE]

Close_Quietly(e) ==
  [e EXCEPT !.state = "CLOSED", !.chan = FALSE, !.out = << >>,
            !.buflo = FALSE, !.stream = "gone", !.obs = "none"]

Close(e) ==
  IF e.state = "CLOSED" THEN e
  ELSE LET shut == [e EXCEPT !.state = "CLOSED", !.chan = FALSE,
                             !.out = << >>, !.buflo = FALSE]
       IN  IF e.buflo /\ e.stream # "none" THEN CloseStream(shut) ELSE shut

(* InnerOuterHandler::_be_done, and its owner's answer to it.              *)
BeDone(e, alreadyClosed) ==
  LET f == IF alreadyClosed
           THEN [SetObserver(e, "none") EXCEPT !.buflo = FALSE]
           ELSE e
  IN  Close(Check(f, e.state = "FORWARDING", "done_while_not_forwarding"))

(* The stream closed, by the peer or because both directions ended.        *)
StreamClosed(e) ==
  LET f == CASE e.obs = "ioh" -> BeDone(e, TRUE)
             [] e.obs = "handler" ->
                  Close([Check(e, e.state \in {"CREATE_BUFLO_STREAM",
                                               "CONNECTING_TARGET"},
                               "closed_in_a_wrong_state")
                         EXCEPT !.buflo = FALSE])
             [] OTHER -> e
  IN  [f EXCEPT !.stream = "gone", !.obs = "none"]

-----------------------------------------------------------------------------
(* Sending on the stream.                                                  *)

(* spdylay_session_send with the data provider: everything in inward_buf_  *)
(* goes out, then the stream is deferred, or ended after an end of file.   *)
Pump(e) ==
  IF ~(e.stream # "gone" /\ e.provider /\ ~e.deferred /\ ~e.shutW) THEN e
  ELSE LET flushed == [e EXCEPT
                         !.tx = @ \o e.inner,
                         !.inner = << >>]
       IN  IF ~e.weof THEN [flushed EXCEPT !.deferred = TRUE]
           ELSE LET fin == [flushed EXCEPT !.tx = Append(@, Frame("FIN")),
                                           !.shutW = TRUE]
                IN  IF e.shutR THEN StreamClosed(fin) ELSE fin

WriteBuffer_NoResume(e, data) ==
  Pump([e EXCEPT !.inner = @ \o data])

WriteBuffer(e, data) ==
  IF ~Live(e) THEN Check(e, FALSE, "write_buffer_failed")
  ELSE Pump([e EXCEPT !.inner = @ \o data, !.deferred = FALSE])

SetWriteEof(e) ==
  IF ~Live(e) THEN e
  ELSE Pump([Check(e, ~e.weof, "second_end_of_file")
             EXCEPT !.weof = TRUE, !.deferred = FALSE])

(* create_stream2: the stream gets its id and its data provider while the  *)
(* request is being sent.                                                  *)
CreateStream(e) ==
  Pump([e EXCEPT !.stream = "opening", !.obs = "handler", !.provider = TRUE,
                 !.tx = Append(@, Frame("SYN_STREAM"))])

(* set_stream_connected.                                                   *)
SetStreamConnected(e) ==
  Pump([e EXCEPT !.stream = "open", !.provider = TRUE,
                 !.tx = Append(@, Frame("SYN_REPLY"))])

(* A new InnerOuterHandler takes both observers over.                      *)
HandOff(e) == SetObserver([e EXCEPT !.state = "FORWARDING"], "ioh")

-----------------------------------------------------------------------------
(* Callbacks of the outer channel.                                         *)

(* ClientHandler::_consume_client_input: a greeting, then a request.       *)
Greeting(e, msg) ==
  IF msg = "greeting"
  THEN [e EXCEPT !.state = "READ_SOCKS5_CONNECT_REQ", !.out = Append(@, Frame("hello"))]
  ELSE Close(e)

Request(e, msg) ==
  IF msg = "request"
  THEN [CreateStream(e) EXCEPT !.state = "CREATE_BUFLO_STREAM"]
  ELSE Close(e)

NewInput(e, input) ==
  CASE e.state = "READ_SOCKS5_GREETING" -> Greeting(e, Head(input).type)
    [] e.state = "READ_SOCKS5_CONNECT_REQ" -> Request(e, Head(input).type)
    [] e.state = "FORWARDING" -> WriteBuffer(e, input)
    [] OTHER -> Check(e, FALSE, "input_not_expected")

(* onEOF.  In Shadow a forwarding handler passes the end on; the others    *)
(* and the other build hang up.                                            *)
OnEOF(e) ==
  CASE e.state = "FORWARDING" /\ conf.shadow -> SetWriteEof(e)
    [] e.state = "FORWARDING" /\ ~conf.shadow -> BeDone(e, FALSE)
    [] OTHER -> Close(e)

OnError(e) == IF e.state = "FORWARDING" THEN BeDone(e, FALSE) ELSE Close(e)

(* onWrittenData: everything was written.                                  *)
OnWritten(e) ==
  IF e.state = "FORWARDING" /\ e.half THEN BeDone(e, FALSE) ELSE e

(* TCPChannel: the socket is readable, or the poll every five seconds.     *)
ReadData(s) ==
  LET o == outer[s] IN
  /\ end[s].chan /\ o.sin # << >>
  /\ outer' = [outer EXCEPT ![s].sin = << >>]
  /\ \/ end' = [end EXCEPT ![s] = NewInput(@, o.sin)]
     \/ /\ conf.splits /\ Head(o.sin).type \in {"greeting", "request"}
        /\ end' = [end EXCEPT ![s] = Check(@, FALSE, "message_in_pieces")]
  /\ UNCHANGED << conf, broken >>

ReadEnd(s) ==
  LET o == outer[s]
      what == IF o.told THEN conf.after ELSE o.over IN
  /\ end[s].chan /\ o.sin = << >> /\ o.over # "no" /\ what # "quiet"
  /\ outer' = [outer EXCEPT ![s].told = TRUE]
  /\ end' = [end EXCEPT ![s] = IF what = "eof" THEN OnEOF(@) ELSE OnError(@)]
  /\ UNCHANGED << conf, broken >>

(* The socket is writable: some of the output goes out.  A program that    *)
(* has gone gets nothing, and the socket may report it.                    *)
Write(s) ==
  LET e == end[s] IN
  /\ e.chan /\ e.out # << >>
  /\ \/ \E n \in 1..Len(e.out) :
          LET rest == [e EXCEPT !.out = SubSeq(@, n + 1, Len(@))] IN
          /\ end' = [end EXCEPT ![s] =
                       IF rest.out = << >> THEN OnWritten(rest) ELSE rest]
          /\ outer' = [outer EXCEPT ![s].got =
                         IF outer[s].over = "no"
                         THEN @ \o SubSeq(e.out, 1, n) ELSE @]
     \/ /\ outer[s].over # "no"
        /\ end' = [end EXCEPT ![s] = OnError(e)]
        /\ UNCHANGED outer
  /\ UNCHANGED << conf, broken >>

-----------------------------------------------------------------------------
(* Frames from the other side.                                             *)

(* SYN_STREAM: CSPHandler makes a StreamHandler, which starts connecting.  *)
RecvSynStream(e) ==
  [e EXCEPT !.state = "CONNECTING_TARGET", !.chan = TRUE,
            !.stream = "opening", !.obs = "handler"]

(* SYN_REPLY: ClientHandler::onStreamCreateResult.                         *)
RecvSynReply(e) ==
  LET f == Check(Check(e, e.obs # "none", "no_observer"),
                 e.state = "CREATE_BUFLO_STREAM", "granted_in_a_wrong_state")
  IN  HandOff([f EXCEPT !.stream = "open", !.out = Append(@, Frame("granted"))])

(* DATA: onStreamNewDataAvailable; only InnerOuterHandler takes it.        *)
RecvData_Overwrites(e, f) == [e EXCEPT !.out = << f >>]

RecvData(e, f) ==
  CASE e.obs = "ioh" -> [Check(e, e.chan, "no_output_buffer")
                         EXCEPT !.out = Append(@, f)]
    [] e.obs = "handler" -> Check(e, FALSE, "data_not_expected")
    [] OTHER -> e

(* DATA with FIN: onStreamRecvEOF, then spdylay ends the direction.        *)
RecvFin(e) ==
  LET f == [Check(e, e.obs # "handler" /\ ~e.half, "end_not_expected")
            EXCEPT !.half = (e.obs = "ioh"), !.shutR = TRUE]
  IN  IF e.shutW THEN StreamClosed(f) ELSE f

Recv(e, frame) ==
  CASE frame.type = "SYN_STREAM" -> RecvSynStream(e)
    [] frame.type = "SYN_REPLY" /\ Live(e) -> RecvSynReply(e)
    [] frame.type = "DATA" /\ Live(e) -> RecvData(e, frame)
    [] frame.type = "FIN" /\ Live(e) -> RecvFin(e)
    [] frame.type = "RST" /\ Live(e) -> StreamClosed(e)
    [] OTHER -> e

MuxRecv(s) ==
  /\ ~broken /\ end[Peer(s)].tx # << >>
  /\ end' = [end EXCEPT ![Peer(s)].tx = Tail(@),
                        ![s] = Recv(@, Head(end[Peer(s)].tx))]
  /\ UNCHANGED << conf, outer, broken >>

-----------------------------------------------------------------------------
(* StreamHandler's connection to the target: made, refused or timed out.   *)
OnConnected ==
  /\ end["ssp"].state = "CONNECTING_TARGET"
  /\ end' = [end EXCEPT !["ssp"] = HandOff(SetStreamConnected(@))]
  /\ UNCHANGED << conf, outer, broken >>

OnConnectFailed ==
  /\ end["ssp"].state = "CONNECTING_TARGET"
  /\ end' = [end EXCEPT !["ssp"] = Close(@)]
  /\ UNCHANGED << conf, outer, broken >>

(* The channel reports CLOSED to each proxy, which destroys the handlers   *)
(* and then the channel; outside Shadow the client side's process exits.   *)
ChannelClosed(s) ==
  /\ broken /\ end[s].stream # "destroyed"
  /\ end' = [end EXCEPT ![s] = [Close(@) EXCEPT !.stream = "destroyed",
                                                !.obs = "none", !.tx = << >>]]
  /\ UNCHANGED << conf, outer, broken >>

-----------------------------------------------------------------------------
(* The programs, and the network.                                          *)

(* A client waits for each answer before it sends the next thing; it may   *)
(* offer no method the proxy knows, or ask for something unsupported.      *)
ClientAsks ==
  LET o == outer["csp"] IN
  /\ o.over = "no" /\ end["csp"].chan
  /\ \/ /\ o.asked = "nothing"
        /\ \E m \in {"greeting", "bad_greeting"} :
             outer' = [outer EXCEPT !["csp"].sin = Append(@, Frame(m)),
                                    !["csp"].asked = "hello"]
     \/ /\ o.asked = "hello" /\ o.got # << >> /\ o.got[Len(o.got)].type = "hello"
        /\ \E m \in {"request", "bad_request"} :
             outer' = [outer EXCEPT !["csp"].sin = Append(@, Frame(m)),
                                    !["csp"].asked = "granted"]
  /\ UNCHANGED << conf, end, broken >>

MaySend(s) ==
  IF s = "csp" THEN \E i \in DOMAIN outer[s].got : outer[s].got[i].type = "granted"
  ELSE end[s].state = "FORWARDING"

Send(s) ==
  /\ outer[s].over = "no" /\ end[s].chan /\ MaySend(s)
  /\ outer[s].sent < MaxUnits
  /\ outer' = [outer EXCEPT ![s].sent = @ + 1,
                            ![s].sin = Append(@, Data(outer[s].sent + 1))]
  /\ UNCHANGED << conf, end, broken >>

(* A program ends its connection; a reset loses what was not read.         *)
Leave(s) ==
  /\ outer[s].over = "no" /\ end[s].chan
  /\ s = "ssp" => end[s].state = "FORWARDING"
  /\ \/ outer' = [outer EXCEPT ![s].over = "eof"]
     \/ outer' = [outer EXCEPT ![s].over = "error", ![s].sin = << >>]
  /\ UNCHANGED << conf, end, broken >>

BreakChannel ==
  /\ ~broken
  /\ broken' = TRUE
  /\ UNCHANGED << conf, end, outer >>

Runs == \A s \in Sides : end[s].bad = "no"

RelayNext ==
  /\ Runs
  /\ \/ \E s \in Sides : \/ ReadData(s) \/ ReadEnd(s) \/ Write(s)
                         \/ MuxRecv(s) \/ ChannelClosed(s)
                         \/ Send(s) \/ Leave(s)
     \/ OnConnected \/ OnConnectFailed
     \/ ClientAsks \/ BreakChannel

(* Both event loops keep running, a connection attempt ends within three   *)
(* seconds, and the programs read what they are sent.                      *)
RelayFairness ==
  /\ \A s \in Sides : /\ WF_relayVars(Runs /\ ReadData(s))
                      /\ WF_relayVars(Runs /\ ReadEnd(s))
                      /\ WF_relayVars(Runs /\ Write(s))
                      /\ WF_relayVars(Runs /\ MuxRecv(s))
                      /\ WF_relayVars(Runs /\ ChannelClosed(s))
  /\ WF_relayVars(Runs /\ (OnConnected \/ OnConnectFailed))

RelaySpec == RelayInit /\ [][RelayNext]_relayVars /\ RelayFairness

-----------------------------------------------------------------------------
HandlerStates == {"NONE", "READ_SOCKS5_GREETING", "READ_SOCKS5_CONNECT_REQ",
                  "CREATE_BUFLO_STREAM", "CONNECTING_TARGET", "FORWARDING",
                  "CLOSED"}

(* The CHECKs and "not reached"s that can fail.                            *)
Failures == {"done_while_not_forwarding", "closed_in_a_wrong_state",
             "write_buffer_failed", "second_end_of_file", "input_not_expected",
             "message_in_pieces", "no_observer", "granted_in_a_wrong_state",
             "no_output_buffer", "data_not_expected", "end_not_expected"}

StreamStates == {"none", "opening", "open", "gone", "destroyed"}

Unit == [type : {"SYN_STREAM", "SYN_REPLY", "DATA", "FIN", "RST", "hello",
                 "granted", "greeting", "bad_greeting", "request", "bad_request"},
         data : Nat]

End ==
  [state : HandlerStates, buflo : BOOLEAN, chan : BOOLEAN, out : Seq(Unit),
   half : BOOLEAN, stream : StreamStates, obs : {"none", "handler", "ioh"},
   provider : BOOLEAN, deferred : BOOLEAN, weof : BOOLEAN, inner : Seq(Unit),
   shutR : BOOLEAN, shutW : BOOLEAN, tx : Seq(Unit), bad : Failures \cup {"no"}]

Outer ==
  [sin : Seq(Unit), over : {"no", "eof", "error"}, told : BOOLEAN,
   sent : 0..MaxUnits, asked : {"nothing", "hello", "granted"}, got : Seq(Unit)]

(* Types of the variables.                                                 *)
RelayTypeOK ==
  /\ conf \in Confs /\ broken \in BOOLEAN
  /\ end \in [Sides -> End] /\ outer \in [Sides -> Outer]

(* No CHECK and no "not reached" of the handlers, the InnerOuterHandlers   *)
(* and the stream functions they call is hit, however the two sides' ends, *)
(* resets, refused connections and the loss of the channel interleave.     *)
ChecksHold == Runs

(* A stream that can still call back has an observer only while the        *)
(* handler is there: none is called after it has been erased.              *)
ObserversAlive ==
  \A s \in Sides : end[s].obs # "none" =>
    /\ Live(end[s]) /\ end[s].state # "CLOSED"
    /\ end[s].obs = "ioh" <=> end[s].state = "FORWARDING"

(* The data units in a sequence of frames and messages are exactly 1..n,   *)
(* each once and in order.                                                 *)
DataAt(seq) == {i \in DOMAIN seq : seq[i].type = "DATA"}

Carries(seq, n) ==
  /\ {seq[i].data : i \in DataAt(seq)} = 1..n
  /\ \A i, j \in DataAt(seq) : i < j => seq[i].data < seq[j].data

(* While both sides forward and nobody has left, every unit a program sent *)
(* is in exactly one place on its way, in order: socket, stream buffer,    *)
(* channel, output buffer, or with the other program.                      *)
NothingLost ==
  (/\ \A s \in Sides : end[s].state = "FORWARDING" /\ outer[s].over = "no"
   /\ ~broken)
  => \A s \in Sides :
       Carries(outer[Peer(s)].got \o end[Peer(s)].out
                 \o end[s].tx \o end[s].inner \o outer[s].sin,
               outer[s].sent)

(* What a program has been given is, at any time, the beginning of what    *)
(* the other sent.                                                         *)
InOrder ==
  \A s \in Sides : \E n \in 0..outer[Peer(s)].sent : Carries(outer[s].got, n)

(* The handlers and the streams stay in step, and nothing is called back    *)
(* that is gone or in a state that cannot take the call.                   *)
RelayIsSafe == RelayTypeOK /\ ChecksHold /\ ObserversAlive

(* No unit is lost, duplicated or overtaken between the two programs.      *)
Delivery == NothingLost /\ InOrder

(* In Shadow the client side hangs up on a client that is still there,     *)
(* while the channel is up and the server side still forwards, only when   *)
(* the target has ended and the client has everything it sent.             *)
HangsUpWhenServed ==
  [][( /\ conf.shadow /\ ~broken /\ outer["csp"].over = "no"
       /\ end["csp"].state = "FORWARDING" /\ end["csp"].state' = "CLOSED"
       /\ end["ssp"].state = "FORWARDING" )
     => /\ outer["ssp"].over = "eof"
        /\ Carries(outer["csp"].got', outer["ssp"].sent)]_relayVars

(* When a program leaves, a connection attempt fails or the channel is     *)
(* lost, both handlers end and both outer connections are closed.  In      *)
(* Shadow that takes a socket whose end the five-second poll reports.      *)
AllOver == \A s \in Sides : end[s].state \in {"NONE", "CLOSED"}

EndsTogether ==
  (/\ conf.shadow => conf.after # "quiet"
   /\ \/ broken
      \/ \E s \in Sides : outer[s].over # "no"
      \/ \E s \in Sides : end[s].state = "CLOSED")
  ~> (AllOver /\ \A s \in Sides : ~end[s].chan)

(* A unit a program sent is delivered unless the connection ends.          *)
DataArrives ==
  \A s \in Sides, n \in 1..MaxUnits :
    (outer[s].sent = n) ~> \/ \E i \in DataAt(outer[Peer(s)].got) : outer[Peer(s)].got[i].data = n
                           \/ AllOver
                           \/ \E t \in Sides : outer[t].over # "no"

(* The comment in onWrittenData: "the inner stream finished sending to us, *)
(* and now we have finished sending to outer stream, so we're done".       *)
DrainedIsDone ==
  \A s \in Sides : end[s].half /\ end[s].out = << >> => end[s].state = "CLOSED"
==============================================================================
