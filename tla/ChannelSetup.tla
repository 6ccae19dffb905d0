----------------------------- MODULE ChannelSetup -----------------------------
(***************************************************************************)
(* How a channel between a client-side and a server-side proxy comes up:   *)
(* the client's TCPChannel connects, to the SSP or to a SOCKS5 proxy that  *)
(* then connects to it; Socks5Connector runs its two exchanges; the socket *)
(* is released from the TCPChannel to a BufloMuxChannelImplSpdy; and the   *)
(* two channel ends exchange their peer information, after which each is   *)
(* READY and data flows.                                                   *)
(*                                                                         *)
(* Bytes are counted in halves of a reply, << kind, half >>, so that a     *)
(* read may end inside one.  What the proxy forwards from the SSP follows  *)
(* its own reply on the same connection.                                   *)
(***************************************************************************)
EXTENDS Naturals, Sequences

CONSTANTS Routes,        \* "socks": a proxy is configured; "direct": none is
          Versions,      \* s_version of the builds in use
          ShortReads,    \* a read may end inside a reply of the proxy
          MaxData        \* bound on data each end sends

ASSUME SetupAssumption ==
  Routes \subseteq {"direct", "socks"} /\ ShortReads \in BOOLEAN /\ MaxData \in Nat

VARIABLES route,    \* how this client reaches the server
          version,  \* s_version of each end
          csp,      \* where the client is
          input,    \* its input_evb_, then its peer_info_inbuf_
          toCsp,    \* bytes on their way to the client
          toSsp,    \* and to the server
          request,  \* what the proxy has been sent: none, greeting, connect
          ssp,      \* where the server's channel is
          sspInput, \* its peer_info_inbuf_
          writeEv,  \* its write event is enabled
          outbuf,   \* its queued data
          sentData, \* data each end has sent
          died      \* the check that ended the client process, or "no"

config == << route, version >>
cspVars == << csp, input, request, died >>
sspVars == << ssp, sspInput, writeEv, outbuf >>
vars == << config, cspVars, sspVars, toCsp, toSsp, sentData >>

Halves(kind) == << << kind, 1 >>, << kind, 2 >> >>

Init ==
  /\ route \in Routes /\ version \in [{"CSP", "SSP"} -> Versions]
  /\ csp = "CONNECTING" /\ input = << >> /\ request = "none"
  /\ toCsp = << >> /\ toSsp = << >>
  /\ ssp = "none" /\ sspInput = << >> /\ writeEv = FALSE /\ outbuf = 0
  /\ sentData = [r \in {"CSP", "SSP"} |-> 0]
  /\ died = "no"

Alive == died = "no"

(* LOG(FATAL) or a failed CHECK in the client.                             *)
Die(why) ==
  /\ died' = why
  /\ UNCHANGED << csp, request >>

-----------------------------------------------------------------------------
(* The client.  A new channel writes its peer information at once.         *)
StartChannel ==
  /\ csp' = "SETTING_UP_BUFLO_CHANNEL"
  /\ toSsp' = toSsp \o Halves("csp_info")

(* onConnected: through a proxy, Socks5Connector sends its greeting.       *)
Connected ==
  /\ Alive /\ csp = "CONNECTING"
  /\ IF route = "socks"
       THEN csp' = "SOCKS5_GREETING" /\ request' = "greeting" /\ UNCHANGED << toSsp, ssp >>
       ELSE StartChannel /\ ssp' = "accepting" /\ UNCHANGED request
  /\ UNCHANGED << config, input, toCsp, sspInput, writeEv, outbuf, sentData, died >>

(* Socks5Connector::_consume_input reads one whole reply or dies; what is  *)
(* behind it stays in the input buffer.                                    *)
ConsumeGreeting(in) ==
  IF Len(in) < 2 THEN Die("short read") /\ input' = in /\ UNCHANGED toSsp
  ELSE /\ input' = SubSeq(in, 3, Len(in))
       /\ csp' = "SOCKS5_READ_RESP_NEXT" /\ request' = "connect"
       /\ UNCHANGED << toSsp, died >>

(* onSocksTargetConnectResult and _on_connected_to_ssp: release_fd refuses *)
(* a TCPChannel whose input buffer is not empty.                           *)
ConsumeResponse(in) ==
  CASE Len(in) < 2 -> Die("short read") /\ input' = in /\ UNCHANGED toSsp
    [] Len(in) >= 2 /\ in[1][1] = "refused" ->
         Die("connect failed") /\ input' = << >> /\ UNCHANGED toSsp
    [] Len(in) > 2 /\ in[1][1] # "refused" ->
         Die("unread input") /\ input' = in /\ UNCHANGED toSsp
    [] Len(in) = 2 /\ in[1][1] # "refused" ->
         StartChannel /\ input' = << >> /\ UNCHANGED << request, died >>

(* TCPChannel's read callback while the proxy is being talked to.          *)
ReadFromProxy(n) ==
  /\ Alive /\ n <= Len(toCsp)
  /\ ShortReads \/ n > 1
  /\ toCsp' = SubSeq(toCsp, n + 1, Len(toCsp))
  /\ LET in == input \o SubSeq(toCsp, 1, n)
     IN  \/ csp = "SOCKS5_GREETING" /\ ConsumeGreeting(in)
         \/ csp = "SOCKS5_READ_RESP_NEXT" /\ ConsumeResponse(in)
  /\ UNCHANGED << config, sspVars, sentData >>

(* The channel reads no more than the rest of the peer information; when   *)
(* it is whole the channel is READY, or the versions differ.               *)
CspReadsPeerInfo(n) ==
  /\ Alive /\ csp = "SETTING_UP_BUFLO_CHANNEL"
  /\ n <= Len(toCsp) /\ Len(input) + n <= 2
  /\ input' = input \o SubSeq(toCsp, 1, n)
  /\ toCsp' = SubSeq(toCsp, n + 1, Len(toCsp))
  /\ IF Len(input') < 2 THEN UNCHANGED << csp, died, request >>
     ELSE IF version["CSP"] # version["SSP"] THEN Die("version")
     ELSE csp' = "READY" /\ UNCHANGED << died, request >>
  /\ UNCHANGED << config, toSsp, sspVars, sentData >>

(* A READY client sends data, and reads what the server sends.             *)
CspSends ==
  /\ Alive /\ csp = "READY" /\ sentData["CSP"] < MaxData
  /\ toSsp' = Append(toSsp, << "data", 1 >>)
  /\ sentData' = [sentData EXCEPT !["CSP"] = @ + 1]
  /\ UNCHANGED << config, cspVars, toCsp, sspVars >>

CspReadsData ==
  /\ Alive /\ csp = "READY" /\ toCsp # << >>
  /\ toCsp' = Tail(toCsp)
  /\ UNCHANGED << config, cspVars, toSsp, sspVars, sentData >>

(* The server closed: the read returns 0 and the owner is told CLOSED.     *)
CspReadsEOF ==
  /\ Alive /\ csp \in {"SETTING_UP_BUFLO_CHANNEL", "READY"}
  /\ ssp = "CLOSED" /\ toCsp = << >>
  /\ csp' = "CLOSED"
  /\ UNCHANGED << config, input, request, died, toCsp, toSsp, sspVars, sentData >>

(* The reaper or a reset of the tunnel drops the channel.                  *)
CspClosesChannel ==
  /\ Alive /\ csp = "READY"
  /\ csp' = "CLOSED"
  /\ UNCHANGED << config, input, request, died, toCsp, toSsp, sspVars, sentData >>

-----------------------------------------------------------------------------
(* The SOCKS5 proxy: it answers the greeting, then connects to the SSP and *)
(* says so, or refuses.                                                    *)
ProxyAccepts ==
  /\ request = "greeting"
  /\ toCsp' = toCsp \o Halves("method") /\ request' = "none"
  /\ UNCHANGED << config, csp, input, died, toSsp, sspVars, sentData >>

ProxyConnects ==
  /\ request = "connect"
  /\ toCsp' = toCsp \o Halves("connected") /\ request' = "none"
  /\ ssp' = "accepting"
  /\ UNCHANGED << config, csp, input, died, toSsp, sspInput, writeEv, outbuf, sentData >>

ProxyRefuses ==
  /\ request = "connect"
  /\ toCsp' = toCsp \o Halves("refused") /\ request' = "none"
  /\ UNCHANGED << config, csp, input, died, toSsp, sspVars, sentData >>

(* The proxy drops the connection instead of answering: Socks5Connector    *)
(* reports a transport error, which is an invalid result to the client.    *)
ProxyCloses ==
  /\ Alive /\ request # "none"
  /\ died' = "connect failed" /\ request' = "none"
  /\ UNCHANGED << config, csp, input, toCsp, toSsp, sspVars, sentData >>

-----------------------------------------------------------------------------
(* The server: a CSPHandler with a channel that waits for the client's     *)
(* peer information before it sends its own.                               *)
SspAccepts ==
  /\ ssp = "accepting"
  /\ ssp' = "hello"
  /\ UNCHANGED << config, cspVars, toCsp, toSsp, sspInput, writeEv, outbuf, sentData >>

SspReadsPeerInfo_KeepsMismatch(n) ==
  /\ ssp = "hello"
  /\ n <= Len(toSsp) /\ Len(sspInput) + n <= 2
  /\ sspInput' = sspInput \o SubSeq(toSsp, 1, n)
  /\ toSsp' = SubSeq(toSsp, n + 1, Len(toSsp))
  /\ IF Len(sspInput') < 2 THEN UNCHANGED << ssp, writeEv >>
     ELSE ssp' = "info" /\ writeEv' = TRUE
  /\ UNCHANGED << config, cspVars, toCsp, outbuf, sentData >>

SspReadsPeerInfo_NoEvent(n) ==
  /\ ssp = "hello"
  /\ n <= Len(toSsp) /\ Len(sspInput) + n <= 2
  /\ sspInput' = sspInput \o SubSeq(toSsp, 1, n)
  /\ toSsp' = SubSeq(toSsp, n + 1, Len(toSsp))
  /\ CASE Len(sspInput') < 2 -> UNCHANGED ssp
       [] Len(sspInput') = 2 /\ version["CSP"] # version["SSP"] -> ssp' = "CLOSED"
       [] Len(sspInput') = 2 /\ version["CSP"] = version["SSP"] -> ssp' = "info"
  /\ UNCHANGED << config, cspVars, toCsp, writeEv, outbuf, sentData >>

(* With the whole information the write event is enabled first; another    *)
(* version then closes socket and events and reports CLOSED.               *)
SspReadsPeerInfo(n) ==
  /\ ssp = "hello"
  /\ n <= Len(toSsp) /\ Len(sspInput) + n <= 2
  /\ sspInput' = sspInput \o SubSeq(toSsp, 1, n)
  /\ toSsp' = SubSeq(toSsp, n + 1, Len(toSsp))
  /\ CASE Len(sspInput') < 2 -> UNCHANGED << ssp, writeEv >>
       [] Len(sspInput') = 2 /\ version["CSP"] # version["SSP"] ->
            ssp' = "CLOSED" /\ writeEv' = FALSE
       [] Len(sspInput') = 2 /\ version["CSP"] = version["SSP"] ->
            ssp' = "info" /\ writeEv' = TRUE
  /\ UNCHANGED << config, cspVars, toCsp, outbuf, sentData >>

(* _on_socket_writecb: first the peer information, and the event is        *)
(* disabled whatever else there may be.                                    *)
SspWritesPeerInfo ==
  /\ writeEv /\ ssp \in {"hello", "info"}
  /\ toCsp' = toCsp \o Halves("ssp_info")
  /\ ssp' = "READY" /\ writeEv' = FALSE
  /\ UNCHANGED << config, cspVars, toSsp, sspInput, outbuf, sentData >>

SspWritesData_Disables ==
  /\ writeEv /\ ssp = "READY"
  /\ \E n \in 1..outbuf :
       /\ toCsp' = toCsp \o [i \in 1..n |-> << "data", 1 >>]
       /\ outbuf' = outbuf - n
  /\ writeEv' = FALSE
  /\ UNCHANGED << config, cspVars, toSsp, ssp, sspInput, sentData >>

(* ... then as much of the queued data as the socket takes.                *)
SspWritesData ==
  /\ writeEv /\ ssp = "READY"
  /\ \E n \in 1..outbuf :
       /\ toCsp' = toCsp \o [i \in 1..n |-> << "data", 1 >>]
       /\ outbuf' = outbuf - n
  /\ writeEv' = (outbuf' > 0)
  /\ UNCHANGED << config, cspVars, toSsp, ssp, sspInput, sentData >>

(* Data from the client; the server may answer, which queues data and      *)
(* enables the write event.  A server that has read the client's           *)
(* information takes what follows for data.                                *)
SspReadsData(answers) ==
  /\ ssp \in {"info", "READY"} /\ toSsp # << >>
  /\ toSsp' = Tail(toSsp)
  /\ IF answers
       THEN /\ sentData["SSP"] < MaxData
            /\ outbuf' = outbuf + 1 /\ writeEv' = TRUE
            /\ sentData' = [sentData EXCEPT !["SSP"] = @ + 1]
       ELSE UNCHANGED << outbuf, writeEv, sentData >>
  /\ UNCHANGED << config, cspVars, toCsp, ssp, sspInput >>

(* The client's process ended, or it closed the channel: the server reads  *)
(* end of file and drops the handler.                                      *)
SspReadsEOF ==
  /\ ssp \in {"hello", "info", "READY"}
  /\ ~Alive \/ csp = "CLOSED"
  /\ toSsp = << >>
  /\ ssp' = "CLOSED" /\ writeEv' = FALSE
  /\ UNCHANGED << config, cspVars, toCsp, toSsp, sspInput, outbuf, sentData >>

CspReads == \E n \in 1..Len(toCsp) : ReadFromProxy(n) \/ CspReadsPeerInfo(n)
SspReads == \E n \in 1..Len(toSsp) : SspReadsPeerInfo(n)

Next ==
  \/ Connected \/ CspReads \/ CspSends \/ CspReadsData \/ CspReadsEOF
  \/ CspClosesChannel
  \/ ProxyAccepts \/ ProxyConnects \/ ProxyRefuses \/ ProxyCloses
  \/ SspAccepts \/ SspReads \/ SspReadsEOF
  \/ SspWritesPeerInfo \/ SspWritesData
  \/ \E answers \in BOOLEAN : SspReadsData(answers)

(* Sockets deliver, enabled events fire, and the proxy answers.            *)
Fairness ==
  /\ WF_vars(Connected) /\ WF_vars(CspReads) /\ WF_vars(CspReadsData)
  /\ WF_vars(CspReadsEOF)
  /\ WF_vars(ProxyAccepts) /\ WF_vars(ProxyConnects)
  /\ WF_vars(SspAccepts) /\ WF_vars(SspReads) /\ WF_vars(SspReadsEOF)
  /\ WF_vars(SspWritesPeerInfo) /\ WF_vars(SspWritesData)
  /\ WF_vars(\E answers \in BOOLEAN : SspReadsData(answers))

Spec == Init /\ [][Next]_vars /\ Fairness

-----------------------------------------------------------------------------
CspState == {"CONNECTING", "SOCKS5_GREETING", "SOCKS5_READ_RESP_NEXT",
             "SETTING_UP_BUFLO_CHANNEL", "READY", "CLOSED"}

(* Type correctness.                                                       *)
TypeOK ==
  /\ csp \in CspState
  /\ ssp \in {"none", "accepting", "hello", "info", "READY", "CLOSED"}
  /\ Len(input) <= 2 /\ Len(sspInput) <= 2
  /\ outbuf \in 0..MaxData
  /\ died \in {"no", "short read", "connect failed", "unread input", "version"}

(* Nothing is in the TCPChannel's buffer when its socket is handed to the  *)
(* channel (release_fd would end the process): no byte of the SSP can be   *)
(* right behind the proxy's reply.                                         *)
SocketReleasedEmpty == died # "unread input"

(* Disabling the write event after the peer information loses no wake-up,  *)
(* and the event is enabled only while there is something to write, which  *)
(* the callback checks (CHECK(curbufsize > 0)).                            *)
WriteEventExact ==
  writeEv <=> (ssp = "info" \/ (ssp = "READY" /\ outbuf > 0))

(* Peer information comes first in each direction, so the first two halves *)
(* an end reads are the other's information and never data.                *)
InfoBeforeData ==
  /\ csp = "READY" => input = Halves("ssp_info")
  /\ ssp \in {"info", "READY"} => sspInput = Halves("csp_info")

(* Two versions never talk: the server closes on the client's information, *)
(* before its own is sent, so the client is closed and not ended by its    *)
(* own version check.                                                      *)
VersionsAgree ==
  version["CSP"] # version["SSP"] => csp # "READY" /\ ssp # "READY" /\ died # "version"

(* The handshake is followed from the proxy's first reply to the last      *)
(* answer, in every order of reads, writes and events.                     *)
SetupIsSafe ==
  /\ TypeOK /\ SocketReleasedEmpty /\ WriteEventExact /\ InfoBeforeData
  /\ VersionsAgree

(* Setting up ends: both ends are READY, or the client is told CLOSED or   *)
(* gives up as a connection is refused.                                    *)
SetupEnds == <>(csp \in {"READY", "CLOSED"} \/ died = "connect failed")

(* Every answer the server queues is written, the first one behind its     *)
(* peer information too, unless the channel closes.                        *)
AnswersArrive == [](outbuf > 0 => <>(outbuf = 0 \/ ssp = "CLOSED"))

(* The connector reads a whole reply or CHECKs (CHECK_EQ(rv, sizeof mem)). *)
RepliesReadWhole == died # "short read"
===============================================================================
