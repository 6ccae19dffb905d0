# Shadow browser plugin: verification development

TLA+ specifications, TLC configurations and TLAPS proofs for the program in
`src/`: a web browser, a web server and a pair of transport proxies that run
inside the Shadow network simulator or natively. The proxies hide the traffic
pattern of page loads with the Tamaraw / CS-BuFLO defense. The defense is
modelled most closely and proved about; around it, every part of the program
that keeps state across events has a module: the proxies, the browser's three
processes, the web server, and the channels that join them.

## 1. The system

Every process is single-threaded and runs a libevent loop: a handler runs to
its end before the next starts, but handlers call each other through callbacks
and the order in which the loop serves sockets, timers and IPC is open. `CHECK`
and `LOG(FATAL)` end the process in every build.

| part | files (under `src/newweb/`) | state it keeps | operations | talks to |
|---|---|---|---|---|
| BuFLO mux channel | `utility/buflo_mux_channel*` | `defense_info_`, `spdy_outbuf_`, `cell_outbuf_`, `output_cells_data_bytes_info_`, `front_cell_sent_progress_`, `whole_dummy_cell_at_end_outbuf_`, write event, timer, SPDY streams, read state | create/close/write stream, arm, start and stop a defense session; timer, socket readable, socket writable | its peer over TCP; its owner by callbacks |
| Client-side proxy (CSP) | `transport_proxy/csp/csp.*` | tunnel state, channel, client handlers, statistics, reap timer | establish tunnel, arm, stop, accept a client, reap an old channel | TCP server, SOCKS5 connector, channel, IPC server |
| CSP client handler | `transport_proxy/csp/client_handler.*` | SOCKS5 state of one browser connection, stream id | read greeting and request, create stream, hand over to the inner/outer handler | TCP channel, mux channel, CSP |
| Inner/outer handler | `transport_proxy/common_inner_outer_handler.*` | half-closed flags of a stream and a TCP connection | copy both ways, end of file, close | mux channel, TCP channel |
| Server-side proxy (SSP) | `transport_proxy/ssp/*` | one CSP handler per client, one stream handler per stream | accept, connect to target, hand over | mux channel, TCP channels |
| Transport-proxy IPC server | `transport_proxy/ipc.*` | id of the establish call in progress | arm, stop (establish is disabled) | CSP, generic IPC channel |
| Transport-proxy main | `transport_proxy/main.cpp` | signal handlers | establish; SIGUSR1 arms, SIGUSR2 stops | CSP |
| Generic IPC channel | `utility/ipc/*`, `utility/generic_message_channel.*` | framing state, pending calls, timed-out ids | send, call, reply, notify, timeout | stream channel |
| Timer | `utility/timer.*` | libevent event | start, cancel, restart, fire | libevent |
| TCP channel and server | `utility/tcp_channel.*`, `tcp_server.*` | connection state, buffers, low-water mark, bytes to drop | connect, read, drop, write, close, accept | libevent, observers |
| SOCKS5 connector | `utility/socks5_connector.*` | handshake state | connect to a target | TCP channel |
| Browser driver | `browser/driver/*` | page-load state, pending requests, three timers | load, reset, think, arm and stop the defense | render process, transport proxy, by IPC |
| Browser IO process | `browser/io_process/*` | requests of a renderer's session | request, reset session | render process, HTTP |
| HTTP connections | `utility/http/*` | a queue per server, connections with a queue each, one request at a time on each; no retries | submit, response, error, reset | TCP channel |
| Render process, web engine | `browser/render_process/*` | document, parser, resources, requests, timers | load page, reset, parse, run a script, fetch | driver, IO process |
| Web server | `webserver/*` | request parser of a connection | answer with a sized body | TCP channel |

The top-level directories `browser`, `echo`, `filetransfer`, `hello`,
`pcap_replay`, `ping`, `python`, `torcontrol`, `torrent` and `web` hold older
Shadow plugins; `utility/old`, `angelscript`, `folly` and `easylogging++` are
old or vendored code; `experiments` is data. Of about 140 000 lines of
implementation about 21 500 are the program's own; the rest is mostly the
AngelScript compiler and interpreter. The map covers some 6 600 lines, a third
of the program's own and under a twentieth of the whole tree; no amount of
modelling of this program could raise the latter share much (section 7).

### How a defense session works

1. The driver (or SIGUSR1) asks the CSP to **arm** a session: the client end
   becomes `PENDING`.
2. The first stream operation puts **one** data cell, with flag `START`, in the
   outbuf. When the socket can be written the client becomes `ACTIVE`, its
   timer starts, its write event is removed and the cell is written.
3. The server reads `START`, becomes `ACTIVE` and starts its own timer. At each
   tick an active end writes one cell's worth of bytes: data if there is some,
   otherwise a dummy cell. A dummy still whole at the end of the outbuf is
   dropped when data comes.
4. On **stop** the client sends `STOP` in its next cell. Each end goes on to the
   next multiple of `L` attempts, then flushes; the server's last flag is
   `DONE`. When both have finished the CSP is told `A_DEFENSE_SESSION_DONE`.
5. A server whose time limit passes stops on its own with `AUTO_STOPPED`; a
   client still active and not stopping answers with another `START`.

### How a page load goes through the program

The driver resets the renderer, arms the proxy, and sends `LoadPage`. The web
engine asks the IO process for the document, parses it as it arrives, and asks
for what its elements and scripts refer to. The IO process sends each request on
a connection per server, through the CSP (SOCKS5), a stream of the BuFLO
channel, the SSP and the web server, and passes the response back. The renderer
tells the driver of every request, and of the load event; when no request has
been pending for a while, or at a time limit, the driver stops the defense,
reports, thinks and loads the next page.

### What is hard, and what makes each part correct

- *Channel, bytes*: three records of the same bytes (buffer, list of cells,
  progress of the first) under partial writes; a flag that allows the last cell
  to be cut off. Correct: they agree, only whole unsent dummies without flags
  are cut, nothing else is lost or reordered.
- *Channel, events*: two ways of writing (timer and write event) that exclude
  each other. Correct: no lost wake-up, no write outside the schedule.
- *Channel, sessions*: two ends follow each other through flags that travel
  behind queued data, with time limits. Correct: no CHECK fails, both start,
  both stop, "done" means both done and is eventually said.
- *Setting up*: two replies of a SOCKS5 proxy, a socket that changes owner, peer
  information in both directions. Correct: no byte of one stage is read by
  another, versions that differ never talk.
- *CSP*: an old channel is reaped, a channel closes, while sessions are armed or
  on and clients come. Correct: no client outlives its channel, every byte is
  counted once, a promised session is not lost with its channel.
- *Streams and handlers*: half-close and teardown re-entered from callbacks,
  on two sides that learn of an end at different times. Correct: nothing is
  called back after it is gone, both sides of a connection end, no data is lost
  before.
- *Messages and calls*: messages split and joined by the socket, a reply racing
  its timeout. Correct: a queue of whole messages; each call ends exactly once.
- *HTTP session*: requests move between a queue per server and a queue per
  connection, connections fail at any time. Correct: no request is lost, held
  twice or left waiting behind no one; each ends.
- *HTTP exchange*: most of a body is dropped by the channel and never seen.
  Correct: client and server stay in step in the stream.
- *Web engine*: parsing is suspended by scripts and style sheets and resumed
  from several callbacks and timers; answers to the last page may still come.
  Correct: scripts run in order, the load event means loaded, every load ends.
- *Driver*: timers racing the load event, messages of the last page. Correct:
  one report per load, the count of pending requests is right, loads go on.

`PROJECT.json` lists every hazard at its line with the properties that cover it.

## 2. Modules

```
BufloEndpoint          operators on one end of a channel (a record)
  |-- BufloChannel     one end, its owner, timer and socket; any peer
  |     `-- BufloChannelProofs  (extends BufloEndpointProofs)
  `-- BufloDefense     two ends joined by TCP        ==> DefenseSession
        `-- BufloDefenseProofs  (extends BufloEndpointProofs)
ChannelSetup           connecting, SOCKS5, peer information of both ends
StreamRelay            one proxied connection, program to target
CspTunnel              the client-side proxy's channels, one after another
  `-- ProxyProofs      of ChannelSetup, StreamRelay and CspTunnel
MessageChannel         messages on a byte stream     ==> MessageFifo
IpcChannel             calls on a message channel    ==> CallTable
  `-- IpcProofs        of MessageChannel and of IpcChannel
HttpExchange           one HTTP connection, client and web server
HttpSession            all connections of a renderer ==> RequestLife
  `-- HttpProofs       of HttpExchange and of HttpSession
WebEngine              the renderer                  ==> RendererProtocol
  `-- WebEngineProofs
PageDriver             the driver, with the renderer of RendererProtocol
  `-- PageDriverProofs
```

`==>`: implements, by `INSTANCE` with a refinement mapping; the abstract
specification is a property of a run. Each module `X` with a run has an `MCX`
that gives the small instance. The modules are joined by these abstractions
rather than by one product: `PageDriver` is checked against every renderer that
`RendererProtocol` allows, and `WebEngine` is shown to be one; `IpcChannel`
takes for granted what `MessageFifo` says and `MessageChannel` implements;
`HttpSession` takes a response as pieces of a body and an end, which
`HttpExchange` shows a connection gives; `CspTunnel` keeps of a session what
`DefenseSession` says.

A definition named `X_WhatIsWrong`, just before `X`, is `X` with a plausible
mistake in it; no specification uses them. Each shows that some property
notices the mistake.

**BufloEndpoint** is the member functions of `BufloMuxChannelImplSpdy` that
decide what goes into the socket and when, one operator per function, on a
record whose fields are the object's members (the comment beside each field of
`Endpoint` names the member). Abstractions:

- Bytes are counted. `outlen` is the length of `cell_outbuf_`, `spdy` of
  `spdy_outbuf_`; `cells` is `output_cells_data_bytes_info_` together with the
  flags each cell carries. A DUMMY cell is a cell with no payload.
- What spdylay hands over in a pump is a number chosen by the environment.
- `num_write_attempts` is kept modulo `L`; only its residue is ever tested. (The
  code's counter has 32 bits: at the shortest interval a session would have to
  last for weeks to wrap, far beyond its time limit.)
- The DEFENSIVE flag, statistics and log lines are left out.
- A failed `CHECK` sets `status` to the name of that check and nothing happens
  after it.
- Time is the Boolean `expired`: whether the time limit has passed at a tick.

**BufloChannel** is one object, of either role, and everything that can call it:
stream operations (all end in `_pump_spdy_send`), arming and stopping, the
timer, the write event, a cell read, a failing socket. Its peer may send any
cell of `PeerFlags[role]` at any time, so its properties do not rest on the
other end behaving.

**BufloDefense** joins a client and a server end. What an end has written whole
and the other has not read is its `wire`; TCP keeps it whole and in order. Cells
partly written stay in the sender's outbuf. The owner of the client end is the
environment; `Discipline` says which of these rules it keeps:

| rule | meaning |
|---|---|
| `waits_for_done` | arms only when told that every earlier session is done |
| `stop_when_active` | does not stop a session that is still pending |
| `stop_once` | stops a session once |
| `arm_when_idle` | arms with empty buffers and no session on |
| `one_pump_pending` | performs one stream operation, with data, while pending |

The CHECKs of the source assume all five. The code enforces none of them in
`csp.cpp`. `arm_when_idle` is what `set_auto_start_defense_session_on_next_send`
checks first (`mux.cpp:486`); section 6 says what happens without each of the
others.

**DefenseSession** is what the channel promises, without cells, flags or
sockets: the server follows the client on and off, once in a session, and the
session is over for both at once, when the owner is told. `BufloDefense`
implements it under the mapping `ClientPhase`, `ServerPhase`.

**ChannelSetup** runs from `TCPChannel::start_connecting` to two READY channel
ends: `Socks5Connector::_consume_input`, `release_fd`, and the peer-information
parts of the channel's `_on_socket_readcb` and `_on_socket_writecb`. A reply or
a block of peer information is two halves, so that a read may end inside one;
the proxy forwards on the same connection. `ShortReads` allows a read to end
inside a *proxy* reply, which the connector does not survive (section 6).

**CspTunnel** is `ClientSideProxy` and the parts of `main.cpp` and `ipc.cpp`
that call it. `ch` is the channel in place (age, defense state, bytes written),
`soFar` the statistics of those gone, `handlers` the clients with the channel
each points to. A configuration is the build (Shadow or not) and whether
main's callback arms each channel and exits when a session is done.

**StreamRelay** is `csp::ClientHandler`, `ssp::CSPHandler`,
`ssp::StreamHandler`, `InnerOuterHandler` on both sides and the stream functions
of the channel, for one connection. `end[s]` is all that one side keeps,
`outer[s]` the program at its outer end. Frames travel in order between the
sides; spdylay is external. A configuration is the build, what a socket reports
when it is read after its end (`after`), and whether a SOCKS5 message may
arrive in pieces (`splits`).

**MessageChannel** is `GenericMessageChannel::_consume_input` and its sender,
with the low watermark that decides when it is called. A byte is
`<< message, offset >>`, so a body taken for a header is noticed.

**IpcChannel** is `GenericIpcChannel` at both ends: `call`, `reply`, `sendMsg`,
the timer of a call, and `onRecvMsg`, which tells a reply from a call by whether
the id is known. A callback may make the next call before it returns.

**HttpSession** is `HttpNetworkSession`, `ConnectionManager` and, as far as their
queues and outcomes go, `http::Connection`; **HttpExchange** is one
`http::Connection` and one `Handler` of the web server, with the read, drop and
write logic of `TCPChannel` under both, on a stream of header lines and body
bytes.

**WebEngine** is `Webengine`, `Document`, `HTMLDocumentParser`, `Resource`,
`ResourceFetcher` and `DOMTimer`. The page is a constant: elements by offset,
what refers to what, what each script fetches or starts. `w` is the state of the
load; `stale` holds the requests of earlier loads, whose answers may still come.
What a handler may make of `w` is a set: of one record, but where the order in
which a resource tells its clients (a set of pointers) matters. **RendererProtocol** is what it tells the driver, and **PageDriver** is
`Driver` (all three files) with its timers and calls, the renderer, and a proxy
that answers on a channel of its own.

## 3. Runs

| run | shows |
|---|---|
| `buflo_channel` | one end of either role facing any peer: `OutbufAccounting`, `DummyIsWhole`, `WriteMonitoring`, `NothingStranded`, `StreamOnlyGrows`, `PacedWhileActive`, `BacklogShrinks` |
| `buflo_defense` | two ends, all rules kept, no time limit: `ChecksHold`, `DoneMeansBothDone`, `ServerFollows`, `ReapIsSafe`, `ImplementsSession`, `StopIsAnswered` |
| `channel_setup` | both routes, equal and different versions: `SetupIsSafe`, `SetupEnds`, `AnswersArrive` |
| `csp_tunnel` | both builds, reaping and closing at any point: `StatsExact`, `TunnelIsSafe`, `OldChannelReplaced` |
| `stream_relay` | both builds, ends, resets, refusals and loss of the channel at any point: `RelayIsSafe`, `Delivery`, `EndsTogether`, `DataArrives` |
| `message_framing` | messages split and joined in every way: `NoStall`, `ImplementsFifo` |
| `ipc_calls` | replies racing timers, a lost connection: `CallsAreSafe`, `ImplementsCallTable` |
| `http_session` | connections that fail at any time, resets: `SessionIsSafe`, `WaitingMeansBusy`, `RendererSees`, `RequestsEnd` |
| `http_exchange` | requests and responses cut anywhere: `ExchangeIsSafe`, `AllAnswered` |
| `web_engine` | two loads, reset at any point, late answers: `EngineIsSafe`, `ScriptsInOrder`, `LoadedMeansLoaded`, `LoadEnds`, `FollowsProtocol` |
| `page_driver` | two loads, timers at any moment, late messages: `DriverIsSafe`, `LoadsGoOn` |
| `auto_stop_crosses_stop` | violates `StopIsAnswered`: section 6 |

**Deadlock.** All runs may stop (`CHECK_DEADLOCK FALSE`). These are reactive
programs: a channel whose socket has failed, a process that a CHECK has ended,
a connection that is over, and an owner or user that has nothing more to ask
(each has a bound) take no further step. That nothing waits that should go on
is what the liveness properties say.

**Bounds.** Each is a constant of the module or a definition of its MC module.

- *Channel*: cells of 3 bytes with 2 of payload (2 and 1 in `BufloDefense`), so
  that payloads leave room for padding and writes stop inside a cell; `L = 2`, so
  that a stop is asked both at and off a multiple. `MaxSpdy` bounds the bytes
  waiting in `spdy_outbuf_`. `MaxCells` bounds the cells queued by *new data*
  (`RoomForData`); cells that carry only flags are not held back, so a full
  outbuf still meets a stop, and in `BufloChannel` a `START` of the arbitrary
  peer is held back at a full outbuf (`RoomForSession`), since that peer may
  otherwise start sessions without end and each leaves a cell. Three cells are
  enough to have one partly written, one whole and a dummy, and to start a
  defense behind a backlog. `SocketCells` bounds what the socket takes before it
  would block: any number of bytes up to that, 0 included. `WriteGrain = 2` lets
  `BufloDefense` write by whole cells (partial writes are `BufloChannel`'s
  subject; the safety properties and `ImplementsSession` also hold with grain 1
  and without fairness). `MaxSessions = 2` lets the flags of one session meet
  the next.
- *Setup*: three data units each way, so that the first waits behind the peer
  information and a later one meets the write event again.
- *CSP*: three channels (so one successor is itself replaced), two clients,
  three bytes.
- *Relay*: two units each way and both ends of each connection free to leave at
  any time; two is one in a buffer when the next comes.
- *Framing*: a header of 2, bodies of 0, 1 and 3, reads of 1, 2, 4 and 7 bytes,
  three messages: a read ends in a header, at its end, in a body, and past a
  whole message.
- *Calls*: three, two with a time limit, so a late reply meets a later call.
- *HTTP session*: four requests, three for one server that may have two
  connections: one waits, and takes over when either ends; sizes 0, 1, 2. Three
  connections in all, whose names are used again.
- *HTTP exchange*: four requests with bodies up to 4, one response with none.
- *Web engine*: a page of seven bytes in messages of five, parsed two at a time,
  with every kind of element (`MCWebEngine`), two loads.
- *Driver*: two loads, up to two requests each, three configurations.

**Fairness**, and why the code justifies it. A libevent loop that keeps turning
serves a readable or writable socket it watches and a timer that has expired;
every `WF` below is of such a handler.

- `BufloDefense!FairSpec`: a running timer fires again and again, and sometimes
  when the socket has room; a write event with room in the socket is served; a
  cell on the wire is read. `WF(Ticks(r, Sizes \ {0}))` says a timer does not
  find the socket blocked at every tick although there is room: the room stays
  until the peer reads or this end writes, so the action is continuously
  enabled. An end may read only when it has `RoomForData` for its answer, but an
  answer of none (`k < 0`) is always possible, so a bound never blocks
  `Receives`. Nothing is assumed of the owner.
- `MessageChannel`: bytes in the socket are read, and `_consume_input` runs to
  its end. `IpcChannel`: only the timers; a server need not answer.
- `ChannelSetup`: connecting ends one way or the other, the proxy and both ends
  read and write. `CspTunnel`: connecting ends, channels become old, sessions
  that were asked to stop end (`BufloDefense`, from `StopIsAnswered`), the reap
  timer fires. A client need never come or go.
- `StreamRelay`: both sides read, write and take frames; the connection to the
  target ends one way or the other; a channel known to be lost is noticed by
  both. No program need send or leave.
- `HttpSession`: `Progress(c)`: something happens to a connection that is being
  made or has a request, be it an error: a server answers or hangs up, and an
  attempt to connect ends. Nothing is assumed of an idle connection.
  `HttpExchange`: both sockets are served.
- `WebEngine`: the IO process answers each request, with success or failure
  (`RequestsEnd`), and timers fire. The driver need not reset.
- `PageDriver`: calls are handled, messages are received, timers fire. The
  renderer need not ever load a page: the page-load timer is there for that.

## 4. Checked properties, and why they matter

An invariant named `...IsSafe` (`...AreSafe`) is the conjunction of the named
parts below it in its module, each with its own comment; the type invariant is
one of them.

- `OutbufAccounting`, `DummyIsWhole`, `StreamOnlyGrows`: the flag
  `whole_dummy_cell_at_end_outbuf_` lets a later handler cut `cell_size_` bytes
  off the outbuf. If it is stale the cut removes part of a data cell and the SPDY
  stream is garbage from then on.
- `WriteMonitoring`: at each state, either the timer writes and the write event
  is off, or the write event is on exactly when there is something to write.
  Five functions toggle it, several while the state changes.
- `NothingStranded`: when no defense is on, no byte and no flag waits for one.
- `BacklogShrinks`, `PacedWhileActive`: the defense itself. While a session is
  on, bytes leave only at a counted attempt and at most one cell's worth, and a
  backlog drains.
- `ChecksHold` (channel): none of the assertions listed in `CheckName` fails.
- `DoneMeansBothDone`: an owner told of every session it armed finds both ends
  idle and no start, stop or done under way, so it may arm again.
- `ServerFollows`: no flag that the other end needs is lost in a dropped dummy, a
  reset or a flush, at the start or at the stop of a session.
- `ReapIsSafe`: the two conditions `_reap_buflo_channel_timer_fired` tests imply
  that the *server* has no session on and no flag for the client.
- `ImplementsSession`, `StopIsAnswered`: the protocol as a whole.
- `SetupIsSafe`: the socket is released with nothing unread
  (`SocketReleasedEmpty`), disabling the write event after the peer information
  loses no wake-up (`WriteEventExact`), information comes before data
  (`InfoBeforeData`), and a server of another version closes before the client's
  CHECK can fail (`VersionsAgree`). `SetupEnds`, `AnswersArrive`: neither end
  waits for the other for ever.
- `StatsExact`: every byte of every channel is counted once, through reaping and
  closing. `TunnelIsSafe`: `ClientsOnLiveChannel`, `ReaperInTurn` (READY never
  starts a running timer, which would end the process), `PromiseKeptOutside`.
  `OldChannelReplaced`: the reaper does its work again and again.
- `RelayIsSafe`: no assertion of five classes fails and no observer is left
  behind by a handler that is gone, in any order of ends. `Delivery`: every unit
  is in exactly one buffer and in order. `EndsTogether`: an end anywhere ends
  both handlers and both connections (in Shadow, with a socket whose end the
  five-second poll reports; section 6). `DataArrives`: a deferred data provider
  is always resumed.
- `NoStall`: no complete message sits in the buffer below a stale watermark.
  `ImplementsFifo`: whole messages, in order, each once, and they do arrive.
- `CallsAreSafe`: a late reply always finds its id (it would be taken for a call
  and fail a CHECK), and ids are not kept when no reply can come.
  `ImplementsCallTable`: one callback per call, a timed one in any case.
- `SessionIsSafe`: `InOnePlace`, `WithinLimit`, `ChecksHold`. `WaitingMeansBusy`:
  a request waits only behind a connection that will look at the queue again.
  `RendererSees`: head, body, end, each once, also when a connection with
  several requests fails. `RequestsEnd`.
- `ExchangeIsSafe`: `SidesInStep` (what is on the way to a side is what it has
  left to read, drops included), `WriteArmed`, `AnsweredInOrder`, `NoCheckFails`.
- `EngineIsSafe`: `CountExact` (the count the load event waits for, through
  redirects, failures and resets), `DriverSeesPending`. `ScriptsInOrder`,
  `LoadedMeansLoaded`, `LoadEnds`, `FollowsProtocol`.
- `DriverIsSafe`: `ChecksHold`, `PendingExact` (no message of an earlier page is
  counted for this one), `OneReportPerLoad`, `WaitsWhenQuiet`. `LoadsGoOn`.

Every property of a passing run is paired in `PROJECT.json` with a mistake in
the code that it catches.

## 5. Proofs

For every value of the constants, within the assumptions named below:

| theorem | statement |
|---|---|
| `ChannelIsSound` | `Spec => []IInv` |
| `ChannelTyped` | `Spec => []TypeOK` |
| `ChannelAccounts` | `Spec => []OutbufAccounting` |
| `ChannelDropsOnlyDummies` | `Spec => []DummyIsWhole` |
| `ChannelWatchesWrites` | `Spec => []WriteMonitoring` |
| `ChannelStrandsNothing` | `~StopWhilePending` implies `Spec => []NothingStranded` |
| `ChannelKeepsStream` | `Spec => StreamOnlyGrows` |
| `ChannelBacklogShrinks` | `Spec => BacklogShrinks` |
| `ChannelIsPaced` | `Spec => PacedWhileActive` |
| `DefenseInv` | `Discipline = Rule` implies `Spec => []IInv` (of `BufloDefense`) |
| `DefensePassesChecks` | `Discipline = Rule` implies `Spec => []ChecksHold` |
| `DoneIsMutual` | `Discipline = Rule` implies `Spec => []DoneMeansBothDone` |
| `ServerAlwaysFollows` | `Discipline = Rule` implies `Spec => []ServerFollows` |
| `ReapIsAlwaysSafe` | `Discipline = Rule` implies `Spec => []ReapIsSafe` |
| `DefenseRefinesSession` | `Discipline = Rule`, `"SSP" \notin MayExpire` imply `Spec => ImplementsSession` |
| `SetupStaysSafe` | `Spec => []SetupIsSafe` (of `ChannelSetup`) |
| `RelayStaysSafe` | `SocketsAsRead` implies `RelaySpec => []RelayIsSafe` (of `StreamRelay`) |
| `RelayDelivers` | `SocketsAsRead` implies `RelaySpec => []Delivery` |
| `RelayHangsUpWhenServed` | `SocketsAsRead` implies `RelaySpec => HangsUpWhenServed` |
| `SessionTypes` | `Spec => []TypeOK` (of `HttpSession`) |
| `NobodyStranded` | `Spec => []WaitingMeansBusy` |
| `SessionStaysSafe` | `Spec => []SessionIsSafe` |
| `RendererSeesLife` | `Spec => RendererSees` |
| `ExchangeStaysSafe` | `ExchangeSpec => []ExchangeIsSafe` (of `HttpExchange`) |
| `TunnelCounts` | `TunnelSpec => []StatsExact` (of `CspTunnel`) |
| `TunnelKeepsOrder` | `TunnelSpec => []TunnelIsSafe` |
| `CallsStaySafe` | `Spec => []CallsAreSafe` (of `IpcChannel`) |
| `CallsEndOnce` | `Spec => Table!Init /\ [][Table!Next]_CallStatus` |
| `NeverStalls` | `FramingSpec => []NoStall` (of `MessageChannel`) |
| `ChannelIsFifo` | `FramingSpec => Fifo!Init /\ [][Fifo!Next]_<<...>>` |
| `EngineStaysSafe` | `Spec => []EngineIsSafe` (of `WebEngine`) |
| `ScriptsStayInOrder` | `ImmediateFirst` implies `Spec => []ScriptsInOrder` |
| `ScriptsRunInOrder` | `Spec => [](w.died # "script not ready" => ScriptsInOrder)` |
| `LoadedStaysLoaded` | `Spec => []LoadedMeansLoaded` |
| `EngineFollowsProtocol` | `Spec => FollowsProtocol` |
| `DriverStaysSafe` | `ProxyFirst` implies `Spec => []DriverIsSafe` (of `PageDriver`) |

**The channel** (`BufloEndpointProofs`, `BufloChannelProofs`): every cell size, every `L`, every pump
size, every bound, either role and a peer that sends anything. Assumptions:
`CellAssumption` (a cell has a header and a body, as the constructor's checks on
`cell_size_` require), `LAssumption` (`L > 0`, `start_defense_session` checks
it) and `ChannelAssumption` (types of the bounds). Neither property is inductive
alone: the amount cut with a dummy is right only if the outbuf balances with the
list of cells, and it stays balanced only if the dummy is a whole cell. And
neither is inductive without the types (no length goes below zero). `Sound` is
the three together.

The argument follows the code. `BufloEndpointProofs` has a lemma for each
operator of `BufloEndpoint`, `Sound(e)` implies `Sound` of what the function
returns; operators that touch no buffer share the frame lemma `SoundFrame`;
`FlushCells`, the flush in closed form, has lemmas on the length and the type of
what it adds; `Progress` rests on the arithmetic of quotients and remainders
(`DivMod`, `MulMono`, `MulDist`, `MulLess`). `NextSound` is then one step per
action of `Next`.

`ChannelWatchesWrites` and `ChannelStrandsNothing` need, for each operator, that
it `Wakes`: what it returns is
`Watched` (`WriteMonitoring` of an endpoint) and, if what it was given was, is
`Served` (`NothingStranded`, and only a client is ever pending). `Sound` is
needed underneath: a write decides from the length of the dummy whether it has
emptied the outbuf and removes the event. `NothingStranded` is not inductive
without `WriteMonitoring` (the timer must run only in a session, or a tick could
finish one that is only armed), nor without the fact that a server is never
pending: it obeys a `STOP` by a reset, which would strand what an armed session
was to send. That is the one thing `~StopWhilePending` excludes at a client, and
TLC shows that the assumption cannot be dropped (section 6).

The action properties need, for each operator, what it does to the cells that
must be sent (`Firm`: all but a dummy at the end). Whatever adds cells does so
behind the firm ones and writes nothing (`Adds`, or `Quiet` when it starts or
ends a session); a write moves whole cells from the front of the list to the
wire (`Grows`), and in a session at most one, at a counted attempt (`Paces`).
`ChannelIsPaced` then comes from `ChannelWatchesWrites`: the write event, which
would write unpaced, is off in a session, so only the timer writes.

**Sessions** (`BufloDefenseProofs`): every cell size, `L`, pump size and bound,
and any set of ends whose time limit may pass. The assumption is `Discipline =
Rule`: the owner of the client keeps the five rules of the module, without which
a CHECK or `ServerFollows` fails (sections 2 and 6). An end's flags are looked at as one
*line*: those in whole cells on the wire, then in cells not sent yet, then those
that still wait for a cell (`Under`: all of them; `Ordered`: each once, and no
`START` after a `STOP`). Each operator of `BufloEndpoint` has a
lemma that says what it does to the line: most carry it on unchanged (`Carries`,
`Speaks`), though cells move to the wire and dummies are dropped; arming,
stopping, expiring and finishing a session add one flag at its end; reading a
cell takes what is in front.

None of the four invariants is inductive: what an end may find in a cell depends
on what the other was doing when it was sent. `IInv` therefore adds to the types,
the checks and what each end keeps by itself (`Keeps`) the `Phase` the two are in
*together*: no session (`Quiet`); armed at the client only (`Armed`); begun
(`On`); asked to stop, or over, at the client (`Off`), each with the flags that may be under way
in both directions and whether the count of sessions armed and told differs. The
preservation proof has one lemma per action, and in it one step per phase: a
`START` that is read finds the server at rest, a `DONE` comes last, and no flag
of one session is left when the next begins. `ServerFollows`, `ReapIsSafe` and
`DoneMeansBothDone` are then read off the phase.

`DefenseRefinesSession` follows each step through the mapping (`Moved`, `Shows`,
`StepShows`): a step within a phase is a stutter or a step of the server, a
change of phase one of the client. It needs that the server's limit never
passes: `DefenseSession` has no session that the server ends, and section 6
shows that such an end can leave the owner waiting for ever. That the limit is
never reached is not assumed by the four invariants.

**Setting up** (`ProxyProofs`): any routes, versions and amounts of data,
and replies cut anywhere (`SetupAssumption`). `SetupIsSafe` is about what is in
the socket's buffers when it changes hands; that they are empty then needs to
be known of every earlier state. `ProxyTalk` says, state by state of the SOCKS5
exchange, what is on its way between the client and the proxy; `Handshake` the
same of the two ends of the channel, from the first byte of peer information on;
`Answers` bounds the server's buffer by what it was given, so that its write
event is compared with the right number.

**The relay** (`ProxyProofs`): any set of builds, any amount of data
(`RelayAssumption`). The theorems assume `SocketsAsRead`: no read splits a
SOCKS5 message, and in Shadow a socket read after its end reports an error or
nothing. Without it a CHECK fails whatever the handlers do, as section 6 shows
for each half; outside Shadow nothing is assumed of a socket after its end.
`RelayIInv` says, of each side:

- `Fits`: its state goes with what it holds (`Mode`: it waits, opens a stream,
  forwards or has ended), and its half-closed flags with the stream's
  (`RelayHalves`). So every call finds the state its CHECK expects, *if* the
  frames that arrive are the right ones.
- `InStep`: they are. `ToSsp` and `ToCsp` say which frames may be under way by
  the state of both sides: the opening of the stream is its first frame, its
  answer the first the other way, data only meets a side that forwards.
  `OneEnd`: a direction has one end, after its data, and a side that has seen it
  gets no more. It is this that keeps `RecvFin` from ending a direction twice.
- `Talk` and `Told`: where the SOCKS5 dialogue stands, and that an end passed on
  is one the program has reported and that was the last of its input.
- `Flow`: there are numbers `g <= l` such that the receiving program has units 1
  to `g`, the output buffer those up to `l`, and what the sender still supplies
  (`Supplies`: on the way, held, in the socket) goes on from there. Each step
  moves a boundary. `Delivery` speaks only of two sides that both forward;
  `Flow` must hold of one that has closed too, since what it sent before may
  still arrive at the other.

`RelayHangsUpWhenServed` is of the steps: a client handler that closes has seen
the end and has just written its last byte, so with `OneEnd` and `Told` nothing
is left anywhere on the way. No run lists this property (TLC was used to find it
out); the comment at `common_inner_outer_handler.cpp:94` states its substance.

**The HTTP session** (`HttpProofs`): any requests, servers, connections
and limit. Assumptions: `SessionAssumption` (types of the constants, at least
one connection per server) and `NoneAssumption`. `WaitingMeansBusy` is not
inductive. When a connection ends, the manager looks at *its server's* queue and
list; that this is the right one needs `OneOwner` and `OwnerKnown` (a connection
is in the list of one server, exactly while it exists). That a connection which
has just been made or has finished a response is still busy, or takes a request
from the queue, needs `HasWork` (a connection being made has a request, one
being read from an active one). `IInv` is these with the types; `NextInv` is one
lemma per action. `SessionStaysSafe` counts where a request is; `JInv` says it
with sets: a queue holds a request once (`QueuedOnce`), no two queues or
connections share one (`Apart`), and what they all hold is what is pending
(`Books`). A server's connections stay within the limit because one is made only
below it (`FewConns`). `RendererSeesLife` adds what has been told of each request
so far (`ToldSoFar`, `BytesAddUp`): a request is told its head, its bytes and its
end in that order only because the connection that reads it is the one place it
is in.

**One exchange** (`HttpProofs`): any requests and responses
(`ExchangeAssumption`: a request has a body, a response may have none), any cut
of the stream, a client that goes at any point. `SidesInStep` does not say who
may talk, and only looks at a client that is there. `ExchangeInv` does
(`Talks`): nobody has the word, and nothing is under way; or the client has, and
what is under way, on the wire or still in its output, is the request from where
the server has read it (`AtServer`: one case for each of its lines, one for the
body); or the server has (`AtClient`). With it go what each side keeps by itself
between two steps: an empty input buffer, a drop request for just what is left of
a body (`ClientDrops`, `ServerDrops`), and the requests in order, done, active,
waiting (`Tally`). This is why a CHECK that a buffer is empty after a body holds:
the next response is not written before the next request has been read.

A read runs a loop over all that has come. Each turn has a lemma
(`ClientReadsLine`, `ClientReadsBody`, `ServerReadsLine`, `ServerReadsBody`), which
finds the side where it was, one line or some bytes further on. The loops are
recursive functions of the number of turns; as no theorem of induction can be
used, `HoldsAll` takes a least turn after which the invariant would not hold
(`HasLeast`, from the well-foundedness of the naturals). That all
is read after as many turns as units came is part of what the turns keep.

**The tunnel** (`ProxyProofs`): any clients, configurations and bounds
(`TunnelAssumption` gives their types). Two parts of `TunnelIsSafe` are not
inductive. READY finds the reap timer at rest only because it runs over no
channel but a READY one, or a closed proxy that makes no other (`ReaperPlace`).
And a promised send is defended outside Shadow only because a promise there
always means an armed channel, or one to come that the callback will arm
(`PromiseArmed`). The steps fall into kinds with a lemma each: those that end
the process, change a channel but not its bytes, count a byte, destroy a
channel, or change the clients.

**Calls** (`IpcProofs`): any number of calls and any time limits
(`IpcAssumption`). `CallsAreSafe` counts copies of ids in queues; the inductive
invariant says the same with sets: each queue holds an id once, queues and
server share none, and what they hold is what is pending or remembered
(`Places`); ids are fresh (`Fresh`), which needs that the next one is odd; and a
call that waits has had no callback, one that is remembered has (`EndedOnce`).
Without the last a reply could find its id both pending and remembered, and
leave it remembered for ever. `CallsEndOnce` is the safety part of
`ImplementsCallTable`: each step moves each call as `CallTable` allows, though
one callback may end a call and make another in the same step.

**Messages** (`IpcProofs`): any header, any lengths and any cut of
the bytes (`MessageAssumption`). The invariant `Stream` says that the bytes
received and under way are those of whole messages, numbered on from the last
one handed over; `Waits` what the state and the watermark of the receiver are by
what it has of the message in front. `NoStall` then says that the watermark is
never above what completes that message. `ChannelIsFifo` is the safety part of
`ImplementsFifo`; a step of bytes is a stutter of the queue.

**The driver** (`PageDriverProofs`): any number of loads and requests and any
renderer that `RendererProtocol` allows (`DriverAssumption`). `DriverStaysSafe`
assumes `ProxyFirst`: in every configuration with a proxy, its channel is
connected before the renderer's. The code starts both and waits for neither;
TLC shows a CHECK that fails without it (section 6). Which reply may still come,
and where it stands among the messages before it, follows from the state the
driver called from (`Talk`). That the count of pending requests is exact needs
it at every place of the queue, not at its end alone: each end of a request
under way is covered by one announced before it (`Covered`), and all messages of
an earlier page are ahead of the answer to the Reset (`SameLoad`).

**The web engine** (`WebEngineProofs`): any page, pump limit, message size and
number of loads (`PageAssumption`: the elements of a page stand in order within
its size, and a redirect chain has at least one entry). A handler calls others
on the way, so `Steady` is what
holds between any two of these calls, and `Phase` what goes with the driver's
view of the load between two handlers. `WebInv` is the two together. `Steady`
says:

- `Fetches`: a resource that is loading, and has not failed, has exactly one
  request out, of this load; the count is of those, and of the one whose clients
  are just being told (`CountExact` alone says nothing of requests, and
  `DriverSeesPending` nothing of who waits for them).
- `Reading`: how far the parser is goes with the element it is at, an end that
  was put off with the document received whole, and a load event that was sent
  with a document that was parsed.
- `Asked`: each element passed, or preloaded, has had its resource loaded; with
  `Reading` this is `LoadedMeansLoaded`.
- `Watched`: of the resources the parser is a client of, only that of the script
  which blocks it can still end. So nothing tells a parser that waits for no
  script.
- `RanBut`: unless a script came up that was not ready, the scripts run are those
  before the parser's place but the one that blocks, once each and in order.
- `Sheltered`: before a script that is to be run at once no sheet is pending, and
  nothing that is due can add one.

The proof follows the calls: one lemma each for a resource that is loaded, a
scope, an element, one turn of the parsing loop, the end of a pump, each kind of
client that is told, and then each handler. The parsing loop and the telling of
clients are recursive functions of the number of turns; as for the HTTP
exchange, the least turn that would break the invariant cannot exist
(`HoldsAll`). This covers every order of the clients, also one in which the
parser runs scripts and loads more before the others have been told.

`ScriptsStayInOrder` assumes `ImmediateFirst`: no element, scope or timer before
a script that is to be run at once can leave a style sheet pending. The code
does not ensure it; without it a CHECK fails, as the last of the
`WebEngine` rows of section 6 shows. `ScriptsRunInOrder` says, with no
assumption, that this CHECK is the only way the order of scripts can end.
`EngineFollowsProtocol` is the refinement, so `DriverStaysSafe` speaks of this
renderer: every load ends at most once for the driver, requests are announced
only while the page is there, and nothing follows a failure.

**Only model-checked**: all liveness, which under fairness is beyond the prover:
`StopIsAnswered`, `SetupEnds`, `AnswersArrive`, `OldChannelReplaced`,
`EndsTogether`, `DataArrives`, `RequestsEnd`, `AllAnswered`, `LoadEnds`,
`LoadsGoOn`, and the fair parts of `ImplementsFifo` and `ImplementsCallTable`.
Every other property that a run checks is a theorem.

## 6. Where the code does not keep its word

One disagreement is a run that TLC must find violated: `auto_stop_crosses_stop`.
`AUTO_STOPPED` and `STOP` cross on the wire. The server has no session to stop,
the client is stopping and does not restart it; no `DONE` is ever sent, the owner
waits for ever and the reaper never replaces the channel. `PROJECT.json` quotes
the lines.

The others are cases the runs leave out, by a constant or a property that is
stated in the module and not listed. Each can be seen by giving the constant, or
the property, in the run's cfg; TLC then finds the violation. Sources are under
`src/newweb/`; `mux.cpp` and `mux.hpp` are `utility/buflo_mux_channel_impl_spdy.*`.

| what happens | where | to see it |
|---|---|---|
| Arming as soon as the client's end is idle, as the driver does before each load, sends a `START` to a server that has not finished: its CHECK fails | `mux.cpp:1572`, `:445` | `BufloDefense`, `Discipline <- NotWaiting`: `ChecksHold` |
| A second stop of one session fails `CHECK(!stop_requested)` | `mux.hpp:410` | `Discipline <- StopsTwice`: `ChecksHold` |
| Two stream operations between arming and the first write fail a CHECK | `mux.cpp:1066` | `Discipline <- PumpsPending`, `PumpSizes = {1}`: `ChecksHold` |
| A session stopped while pending, its first cell queued, starts a defense at the server that nobody stops | `mux.cpp:511` | `Discipline <- StopsPending`: `ServerFollows` |
| The same stop leaves bytes in `spdy_outbuf_` that nothing sends | `mux.cpp:512` | `BufloChannel`, `StopWhilePending = TRUE`: `NothingStranded` |
| A server can be active with more than two full cells queued, against the comment on `whole_dummy_cell_at_end_outbuf_`; the code survives it (`BacklogShrinks`, `DummyIsWhole`) | `mux.hpp:497` | the states in which `BacklogShrinks` has a backlog to shrink |
| A proxy reply that arrives in two segments ends the client | `utility/socks5_connector.cpp:77`, `:121` | `ChannelSetup`, `ShortReads = TRUE`: `RepliesReadWhole` |
| In Shadow the reaper may replace an armed channel; nothing arms the new one | `mux.cpp:2490` | `CspTunnel`: `PromiseKept` |
| In Shadow no one is notified of a closed channel, against the log line | `transport_proxy/csp/csp.cpp:456` | `Options <- MCShadow`: `CloseIsNotified` |
| A document that ends with a blocking script fails the CHECK at the end of parsing | `.../html/parser/HTMLDocumentParser.cpp:314` | `WebEngine`, `Page <- EndsWithScript`, `Chunk = 7`: `NotBlockedAtEnd` |
| A preloaded script whose request failed blocks parsing for ever | `.../fetch/Resource.cpp:144` | `Page <- TwoScripts`, `CanFail` with `img`, `Chunk = 3`, `MaxLoads = 1`: `MovesOn` |
| After a last DOM timer that fetches nothing, what no scope has loaded is never loaded | `.../webengine.cpp:622` | `Page <- IdleTimer`, `MaxLoads = 1`: `UnloadedLoaded` |
| A script to run at once behind a pending style sheet fails a CHECK | `.../html/parser/HTMLDocumentParser.cpp:204` | `Page <- SheetThenImmediate`: `ImmediateScriptsRun` |
| The driver may stop one session twice (page loaded, then the time limit) | `browser/driver/driver.cpp:245` | `PageDriver`: `OneStopPerLoad` |
| The page-load timer ends a load that waits for pending requests | `browser/driver/driver.cpp:218` | `PageDriver`: `PatientWait` (PROPERTY) |
| A page's first request may reach the proxy before the call that arms it | `browser/driver/driver_renderer.cpp:366` | `PageDriver`: `ArmedFirst` |
| The first load may begin before the proxy's channel is connected | `browser/driver/driver_tproxy.cpp:128` | `Confs <- MCProxyLate`: `ChecksHold` |
| An end of the inner stream that finds nothing left to write does not end the handler in Shadow | `transport_proxy/common_inner_outer_handler.cpp:73` | `StreamRelay`, `Confs <- MCQuiet`: `DrainedIsDone` |
| A socket that reports its end of file at each poll fails a CHECK of the stream | `mux.cpp:629` | `Confs <- MCEof`: `ChecksHold` |
| A SOCKS5 message of a client that arrives in pieces fails a CHECK | `transport_proxy/csp/client_handler.cpp:163`, `:210` | `Confs <- MCSplits`: `ChecksHold` |

## 7. Not modelled, and what is left

Left out of modelled parts, and why:

- *Channel*: the mode without cells (cell size 0), which has no defense; several
  streams of one channel at once (they share nothing but the order of frames);
  spdylay itself, modelled from how the code uses it.
- *Proxies*: the `EstablishTunnel` call, which is `LOG(FATAL)` in the only build
  that has the IPC server; accepting sockets; a second client-side proxy at one
  SSP (each has a handler of its own).
- *HTTP*: the SPDY mode of `http::Connection`, which is unfinished ("to
  implement"); a connection refused at once, which ends the process with "to be
  implemented"; byte totals and time stamps.
- *IO process*: a renderer that disconnects: its session is destroyed like a
  reset one and none follows.
- *Web engine*: XMLHttpRequest, repeating and cancelled timers, load events of
  elements, changing an element's resource, and what scripts compute: the
  interpreter is a vendored library.
- *Sizes and delays*, which belong to the simulator.

Not modelled at all: the vendored libraries (AngelScript, folly, easylogging++),
which are other projects' code and most of the lines under `src/`; the older
plugins at the top level, `utility/old` and `newweb/browser/browser.cc`, which
the CMake files do not build; option parsing, logging and scripts.

Proofs left: liveness (section 5).
