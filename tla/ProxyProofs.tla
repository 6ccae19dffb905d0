------------------------------ MODULE ProxyProofs ------------------------------
(***************************************************************************)
(* Proofs about the proxies: how a channel is set up, how the data of a    *)
(* connection is relayed over it, and how the client side replaces one     *)
(* channel by the next.                                                    *)
(*                                                                         *)
(* Setting up, for any route, any versions and any reads, short ones too:  *)
(* the socket is released empty, peer information comes first in each      *)
(* direction, two versions never talk, and the server's write event is     *)
(* exact.                                                                  *)
(*                                                                         *)
(* Relaying, for any set of builds and any amount of data: no check of the *)
(* handlers fails, data arrives whole and in order, and a program is told  *)
(* of an end only when it has all there was.                               *)
(*                                                                         *)
(* The tunnel, for any configurations, clients and bounds: the statistics  *)
(* are exact, and nothing of a channel outlives it.                        *)
(***************************************************************************)
EXTENDS ChannelSetup, StreamRelay, CspTunnel,
        SequenceTheorems, NaturalsInduction, WellFoundedInduction, TLAPS

Kind == {"method", "connected", "refused", "csp_info", "ssp_info", "data"}
Half == Kind \X {1, 2}

(* Types of the streams, and of what TypeOK leaves out.                    *)
StreamTypes ==
  /\ input \in Seq(Half) /\ toCsp \in Seq(Half)
  /\ sspInput \in Seq(Half) /\ toSsp \in Seq(Half)
  /\ request \in {"none", "greeting", "connect"} /\ writeEv \in BOOLEAN
  /\ sentData \in [{"CSP", "SSP"} -> Nat]

(* An end's input, and what is on its way to it, begin with the other's    *)
(* peer information.                                                       *)
Coming(in, to, kind) ==
  Len(in \o to) >= 2 /\ \A i \in 1..2 : (in \o to)[i] = << kind, i >>

(* What the client and the proxy have told each other, and that nothing    *)
(* else is on its way to either: the server does not speak first.          *)
ProxyTalk ==
  /\ csp = "CONNECTING" =>
       Alive /\ request = "none" /\ ssp = "none" /\ input = << >> /\ toCsp = << >>
  /\ csp = "SOCKS5_GREETING" =>
       /\ ssp = "none"
       /\ IF Alive
            THEN input = << >> /\ \/ request = "greeting" /\ toCsp = << >>
                                  \/ request = "none" /\ toCsp = Halves("method")
            ELSE request = "none"
  /\ csp = "SOCKS5_READ_RESP_NEXT" =>
       /\ ssp \in {"none", "accepting", "hello", "CLOSED"}
       /\ IF Alive
            THEN input = << >> /\
                 \/ request = "connect" /\ toCsp = << >> /\ ssp = "none"
                 \/ request = "none" /\ toCsp = Halves("refused") /\ ssp = "none"
                 \/ /\ request = "none" /\ toCsp = Halves("connected")
                    /\ ssp \in {"accepting", "hello"}
            ELSE request = "none"
  /\ csp \in {"CONNECTING", "SOCKS5_GREETING", "SOCKS5_READ_RESP_NEXT"} => toSsp = << >>

(* The two ends of the channel, from the first byte of peer information.   *)
Handshake ==
  /\ csp \in {"SETTING_UP_BUFLO_CHANNEL", "READY", "CLOSED"} =>
       Alive /\ request = "none" /\ ssp # "none"
  /\ csp = "READY" => version["CSP"] = version["SSP"]
  /\ ssp \in {"none", "accepting"} => sspInput = << >>
  /\ ssp = "accepting" => csp \in {"SOCKS5_READ_RESP_NEXT", "SETTING_UP_BUFLO_CHANNEL"}
  /\ ssp = "hello" => \/ csp = "SOCKS5_READ_RESP_NEXT" /\ sspInput = << >>
                      \/ csp = "SETTING_UP_BUFLO_CHANNEL"
  /\ ssp \in {"none", "accepting", "hello", "info"} => outbuf = 0
  /\ csp = "SETTING_UP_BUFLO_CHANNEL" /\ ssp \in {"accepting", "hello"} =>
       sspInput \o toSsp = Halves("csp_info") /\ Len(sspInput) < 2
  /\ csp = "SETTING_UP_BUFLO_CHANNEL" /\ ssp # "READY" => input = << >> /\ toCsp = << >>
  /\ csp = "SETTING_UP_BUFLO_CHANNEL" /\ ssp = "READY" =>
       Len(input) < 2 /\ Coming(input, toCsp, "ssp_info")
  /\ ssp = "info" => csp = "SETTING_UP_BUFLO_CHANNEL" /\ toSsp = << >>
  /\ ssp = "READY" => csp \in {"SETTING_UP_BUFLO_CHANNEL", "READY", "CLOSED"}
  /\ ssp \in {"info", "READY"} => version["CSP"] = version["SSP"]

(* The answers the server has queued are among those it has sent.          *)
Answers == outbuf <= sentData["SSP"] /\ sentData["SSP"] <= MaxData

(* The inductive invariant.                                                *)
IInv == SetupIsSafe /\ StreamTypes /\ ProxyTalk /\ Handshake /\ Answers

-----------------------------------------------------------------------------
(* A piece moved from the front of q to the end of p.                      *)
LEMMA Regroup ==
  \A p, q \in Seq(Half) : \A n \in 1..Len(q) :
    /\ SubSeq(q, n + 1, Len(q)) \in Seq(Half)
    /\ p \o SubSeq(q, 1, n) \in Seq(Half) /\ Len(p \o SubSeq(q, 1, n)) = Len(p) + n
    /\ (p \o SubSeq(q, 1, n)) \o SubSeq(q, n + 1, Len(q)) = p \o q
<1> TAKE p, q \in Seq(Half)
<1> TAKE n \in 1..Len(q)
<1>1. Len(q) \in Nat /\ \A i \in 1..Len(q) : q[i] \in Half
  BY LenProperties
<1> DEFINE a == SubSeq(q, 1, n)
           b == SubSeq(q, n + 1, Len(q))
<1>2. a \in Seq(Half) /\ Len(a) = n
  <2>1. \A i \in 1..n : q[i] \in Half
    BY <1>1
  <2> QED
    BY <2>1, SubSeqProperties
<1>3. b \in Seq(Half)
  <2>1. \A i \in (n + 1)..Len(q) : q[i] \in Half
    BY <1>1
  <2> QED
    BY <1>1, <2>1, SubSeqProperties
<1>4. a \o b = q
  <2>1. 1 \in 1..Len(q) + 1 /\ n \in (1 - 1)..Len(q) /\ Len(q) \in n..Len(q)
    BY <1>1
  <2>2. a \o b = SubSeq(q, 1, Len(q))
    BY <2>1, ConcatAdjacentSubSeq
  <2> QED
    BY <2>2, SubSeqFull
<1> HIDE DEF a, b
<1>5. \A x, y \in Seq(Half) : /\ p \o x \in Seq(Half) /\ Len(p \o x) = Len(p) + Len(x)
                           /\ (p \o x) \o y = p \o (x \o y)
  OBVIOUS
<1>6. /\ p \o a \in Seq(Half) /\ Len(p \o a) = Len(p) + n
      /\ (p \o a) \o b = p \o q
  BY <1>2, <1>3, <1>4, <1>5, Zenon
<1> QED
  BY <1>3, <1>6 DEF a, b

LEMMA HalvesFacts ==
  \A k \in Kind : /\ Halves(k) \in Seq(Half) /\ Len(Halves(k)) = 2 /\ Halves(k) # << >>
                  /\ Halves(k)[1] = << k, 1 >> /\ Halves(k)[2] = << k, 2 >>
  BY DEF Halves, Half

(* Two halves are a whole.                                                 *)
LEMMA FirstWhole ==
  \A p, q \in Seq(Half) : \A k \in Kind :
    Coming(p, q, k) /\ Len(p) = 2 => p = Halves(k)
<1> TAKE p, q \in Seq(Half)
<1> TAKE k \in Kind
<1> HAVE Coming(p, q, k) /\ Len(p) = 2
<1>1. \A i \in 1..2 : (p \o q)[i] = p[i]
  OBVIOUS
<1>2. p[1] = << k, 1 >> /\ p[2] = << k, 2 >>
  BY <1>1 DEF Coming
<1>3. \A i \in 1..Len(p) : p[i] = Halves(k)[i]
  <2>1. Halves(k)[1] = << k, 1 >> /\ Halves(k)[2] = << k, 2 >>
    BY HalvesFacts
  <2>2. ASSUME NEW i \in 1..Len(p) PROVE i = 1 \/ i = 2
    OBVIOUS
  <2> QED
    BY <1>2, <2>1, <2>2
<1>4. Halves(k) \in Seq(Half) /\ Len(Halves(k)) = Len(p)
  BY HalvesFacts
<1> HIDE DEF Halves
<1> QED
  BY <1>3, <1>4, SeqEqual

LEMMA BothHalves ==
  \A p, q \in Seq(Half) : \A k \in Kind :
    p \o q = Halves(k) => /\ Len(p) <= 2
                          /\ Len(p) = 2 => p = Halves(k) /\ q = << >>
                          /\ Len(p) < 2 => q # << >>
<1> TAKE p, q \in Seq(Half)
<1> TAKE k \in Kind
<1> HAVE p \o q = Halves(k)
<1>1. Len(p) \in Nat /\ Len(q) \in Nat /\ Len(p \o q) = Len(p) + Len(q)
  BY LenProperties
<1>2. Len(p) + Len(q) = 2
  BY <1>1, HalvesFacts
<1>3. ASSUME Len(p) = 2 PROVE p = Halves(k) /\ q = << >>
  <2>1. q = << >>
    BY <1>1, <1>2, <1>3, EmptySeq
  <2>2. \A x \in Seq(Half) : x \o << >> = x
    OBVIOUS
  <2> QED
    BY <2>1, <2>2
<1>4. Len(p) < 2 => q # << >>
  BY <1>1, <1>2, EmptySeq
<1> QED
  BY <1>1, <1>2, <1>3, <1>4

(* What comes first still does when more is written behind it.             *)
LEMMA MoreComing ==
  \A p, q, x \in Seq(Half) : \A k \in Kind : Coming(p, q, k) => Coming(p, q \o x, k)
<1> TAKE p, q, x \in Seq(Half)
<1> TAKE k \in Kind
<1> HAVE Coming(p, q, k)
<1> DEFINE s == p \o q
<1>1. s \in Seq(Half) /\ p \o (q \o x) = s \o x
  OBVIOUS
<1>2. Len(s) >= 2 /\ (\A i \in 1..2 : s[i] = << k, i >>) /\ Len(s) \in Nat
  BY <1>1, LenProperties DEF Coming
<1> HIDE DEF s
<1>3. Len(s \o x) = Len(s) + Len(x) /\ Len(x) \in Nat /\ \A i \in 1..Len(s) : (s \o x)[i] = s[i]
  BY <1>1
<1>4. Len(s \o x) >= 2 /\ \A i \in 1..2 : (s \o x)[i] = << k, i >>
  BY <1>2, <1>3
<1> QED
  BY <1>1, <1>4 DEF Coming

LEMMA InfoComing ==
  \A k \in Kind : Coming(<< >>, Halves(k), k)
  BY DEF Coming, Halves

-----------------------------------------------------------------------------
(* The invariant.                                                          *)
LEMMA InitInv == Init => IInv
<1> SUFFICES ASSUME Init PROVE IInv
  OBVIOUS
<1>1. << >> \in Seq(Half) /\ Len(<< >>) = 0 /\ MaxData \in Nat
  BY SetupAssumption
<1>2. SetupIsSafe
  BY <1>1 DEF Init, SetupIsSafe, TypeOK, CspState, SocketReleasedEmpty, WriteEventExact,
              InfoBeforeData, VersionsAgree
<1>3. StreamTypes /\ Answers
  <2>1. sentData \in [{"CSP", "SSP"} -> Nat] /\ sentData["SSP"] = 0
    BY DEF Init
  <2>2. sentData \in [{"CSP", "SSP"} -> Nat] /\ outbuf = 0
    BY <2>1 DEF Init
  <2>3. Answers
    BY <1>1, <2>1, <2>2 DEF Answers
  <2>4. StreamTypes
    BY <1>1, <2>1, Zenon DEF Init, StreamTypes
  <2> QED
    BY <2>3, <2>4
<1>4. ProxyTalk /\ Handshake
  BY DEF Init, ProxyTalk, Handshake, Alive
<1> QED
  BY <1>2, <1>3, <1>4 DEF IInv

LEMMA ConnectedInv == ASSUME IInv, Connected PROVE IInv'
<1>1. /\ Alive /\ csp = "CONNECTING" /\ ssp = "none" /\ input = << >> /\ toCsp = << >>
      /\ toSsp = << >> /\ sspInput = << >> /\ request = "none" /\ outbuf = 0 /\ died = "no"
      /\ writeEv = FALSE
  BY DEF Connected, IInv, ProxyTalk, Handshake, SetupIsSafe, WriteEventExact, StreamTypes, Alive
<1>2. UNCHANGED << config, input, toCsp, sspInput, writeEv, outbuf, sentData, died >>
  BY DEF Connected
<1>3. /\ << >> \o Halves("csp_info") = Halves("csp_info")
      /\ Halves("csp_info") \in Seq(Half) /\ Len(<< >>) = 0
  BY HalvesFacts DEF Kind
<1>4. CASE csp' = "SOCKS5_GREETING" /\ request' = "greeting" /\ UNCHANGED << toSsp, ssp >>
  <2>1. SetupIsSafe'
    BY <1>1, <1>2, <1>4 DEF IInv, SetupIsSafe, TypeOK, CspState, SocketReleasedEmpty,
       WriteEventExact, InfoBeforeData, VersionsAgree, config
  <2>2. StreamTypes' /\ Answers'
    BY <1>1, <1>2, <1>4 DEF IInv, StreamTypes, Answers
  <2>3. ProxyTalk' /\ Handshake'
    BY <1>1, <1>2, <1>4 DEF ProxyTalk, Handshake, Alive
  <2> QED
    BY <2>1, <2>2, <2>3 DEF IInv
<1>5. CASE StartChannel /\ ssp' = "accepting" /\ UNCHANGED request
  <2>1. csp' = "SETTING_UP_BUFLO_CHANNEL" /\ toSsp' = Halves("csp_info")
    BY <1>1, <1>3, <1>5 DEF StartChannel
  <2>2. SetupIsSafe'
    BY <1>1, <1>2, <1>5, <2>1 DEF IInv, SetupIsSafe, TypeOK, CspState, SocketReleasedEmpty,
       WriteEventExact, InfoBeforeData, VersionsAgree, config
  <2>3. StreamTypes' /\ Answers'
    BY <1>1, <1>2, <1>3, <1>5, <2>1 DEF IInv, StreamTypes, Answers
  <2>4. ProxyTalk' /\ Handshake'
    BY <1>1, <1>2, <1>3, <1>5, <2>1 DEF ProxyTalk, Handshake, Alive
  <2> QED
    BY <2>2, <2>3, <2>4 DEF IInv
<1> QED
  BY <1>4, <1>5 DEF Connected

LEMMA Counts ==
  IInv => /\ outbuf \in Nat /\ outbuf \in 0..MaxData /\ MaxData \in Nat /\ sentData["SSP"] \in Nat
          /\ outbuf <= sentData["SSP"] /\ sentData["SSP"] <= MaxData
<1> SUFFICES ASSUME IInv
             PROVE  /\ outbuf \in Nat /\ outbuf \in 0..MaxData /\ MaxData \in Nat
                    /\ sentData["SSP"] \in Nat
                    /\ outbuf <= sentData["SSP"] /\ sentData["SSP"] <= MaxData
  OBVIOUS
<1>1. MaxData \in Nat /\ outbuf \in 0..MaxData
  BY SetupAssumption DEF IInv, SetupIsSafe, TypeOK
<1>2. sentData["SSP"] \in Nat
  BY DEF IInv, StreamTypes
<1>3. outbuf <= sentData["SSP"] /\ sentData["SSP"] <= MaxData
  BY DEF IInv, Answers
<1> QED
  BY <1>1, <1>2, <1>3

LEMMA CspSendsInv == ASSUME IInv, CspSends PROVE IInv'
<1>1. /\ Alive /\ csp = "READY" /\ toSsp' = Append(toSsp, << "data", 1 >>)
      /\ sentData' = [sentData EXCEPT !["CSP"] = @ + 1]
      /\ ssp \in {"READY", "CLOSED"} /\ UNCHANGED << config, cspVars, toCsp, sspVars >>
  BY DEF CspSends, IInv, ProxyTalk, Handshake, SetupIsSafe, WriteEventExact, StreamTypes, Alive, TypeOK
<1>2. toSsp' \in Seq(Half)
  <2>1. << "data", 1 >> \in Half
    BY DEF Half, Kind
  <2> QED
    BY <1>1, <2>1 DEF IInv, StreamTypes
<1>3. sentData' \in [{"CSP", "SSP"} -> Nat] /\ sentData'["SSP"] = sentData["SSP"]
  BY <1>1 DEF IInv, StreamTypes
<1>4. UNCHANGED << route, version, csp, input, request, died, toCsp, ssp, sspInput, writeEv, outbuf >>
  BY <1>1 DEF config, cspVars, sspVars
<1>5. SetupIsSafe'
  <2>1. TypeOK' /\ SocketReleasedEmpty'
    BY <1>1, <1>2, <1>3, <1>4 DEF IInv, SetupIsSafe, TypeOK, CspState, SocketReleasedEmpty
  <2>2. WriteEventExact'
    BY <1>1, <1>2, <1>3, <1>4 DEF IInv, SetupIsSafe, WriteEventExact
  <2>3. InfoBeforeData' /\ VersionsAgree'
    BY <1>1, <1>2, <1>3, <1>4 DEF IInv, SetupIsSafe, InfoBeforeData, VersionsAgree
  <2> QED
    BY <2>1, <2>2, <2>3 DEF SetupIsSafe
<1>6. StreamTypes' /\ Answers'
  BY <1>1, <1>2, <1>3, <1>4 DEF IInv, StreamTypes, Answers
<1>7. ProxyTalk'
  BY <1>1, <1>2, <1>3, <1>4 DEF IInv, ProxyTalk, Alive
<1>8. Handshake'
  BY <1>1, <1>2, <1>3, <1>4 DEF IInv, Handshake, Alive, config
<1> QED
  BY <1>5, <1>6, <1>7, <1>8 DEF IInv

LEMMA CspReadsDataInv == ASSUME IInv, CspReadsData PROVE IInv'
<1>1. /\ Alive /\ csp = "READY" /\ toCsp' \in Seq(Half)
      /\ UNCHANGED << config, cspVars, toSsp, sspVars, sentData >>
  BY DEF CspReadsData, IInv, StreamTypes
<1>2. UNCHANGED << route, version, csp, input, request, died, toSsp, ssp, sspInput, writeEv, outbuf,
                   sentData >>
  BY <1>1 DEF config, cspVars, sspVars
<1>3. SetupIsSafe'
  <2>1. TypeOK' /\ SocketReleasedEmpty'
    BY <1>1, <1>2 DEF IInv, SetupIsSafe, TypeOK, CspState, SocketReleasedEmpty
  <2>2. WriteEventExact'
    BY <1>1, <1>2 DEF IInv, SetupIsSafe, WriteEventExact
  <2>3. InfoBeforeData' /\ VersionsAgree'
    BY <1>1, <1>2 DEF IInv, SetupIsSafe, InfoBeforeData, VersionsAgree
  <2> QED
    BY <2>1, <2>2, <2>3 DEF SetupIsSafe
<1>4. StreamTypes' /\ Answers'
  BY <1>1, <1>2 DEF IInv, StreamTypes, Answers
<1>5. ProxyTalk'
  BY <1>1, <1>2 DEF IInv, ProxyTalk, Alive
<1>6. Handshake'
  BY <1>1, <1>2 DEF IInv, Handshake, Alive, config
<1> QED
  BY <1>3, <1>4, <1>5, <1>6 DEF IInv

LEMMA CspEndsInv == ASSUME IInv, CspReadsEOF \/ CspClosesChannel PROVE IInv'
<1>1. /\ Alive /\ csp' = "CLOSED"
      /\ csp = "READY" \/ (csp = "SETTING_UP_BUFLO_CHANNEL" /\ ssp = "CLOSED")
      /\ UNCHANGED << config, input, request, died, toCsp, toSsp, sspVars, sentData >>
  BY DEF CspReadsEOF, CspClosesChannel
<1>2. UNCHANGED << route, version, input, request, died, toCsp, toSsp, ssp, sspInput, writeEv, outbuf,
                   sentData >>
  BY <1>1 DEF config, sspVars
<1>3. SetupIsSafe'
  <2>1. TypeOK' /\ SocketReleasedEmpty'
    BY <1>1, <1>2 DEF IInv, SetupIsSafe, TypeOK, CspState, SocketReleasedEmpty
  <2>2. WriteEventExact'
    BY <1>1, <1>2 DEF IInv, SetupIsSafe, WriteEventExact
  <2>3. InfoBeforeData' /\ VersionsAgree'
    BY <1>1, <1>2 DEF IInv, SetupIsSafe, InfoBeforeData, VersionsAgree
  <2> QED
    BY <2>1, <2>2, <2>3 DEF SetupIsSafe
<1>4. StreamTypes' /\ Answers'
  BY <1>1, <1>2 DEF IInv, StreamTypes, Answers
<1>5. ProxyTalk'
  BY <1>1, <1>2 DEF IInv, ProxyTalk, Alive
<1>6. Handshake'
  BY <1>1, <1>2 DEF IInv, Handshake, Alive, config
<1> QED
  BY <1>3, <1>4, <1>5, <1>6 DEF IInv

LEMMA ProxyAcceptsInv == ASSUME IInv, ProxyAccepts PROVE IInv'
<1>1. /\ Alive /\ csp = "SOCKS5_GREETING" /\ input = << >> /\ toCsp = << >> /\ ssp = "none"
      /\ toCsp' = toCsp \o Halves("method") /\ request' = "none"
      /\ UNCHANGED << config, csp, input, died, toSsp, sspVars, sentData >>
  BY DEF ProxyAccepts, IInv, ProxyTalk, Handshake, SetupIsSafe, WriteEventExact, StreamTypes, Alive, TypeOK, CspState
<1>2. toCsp' = Halves("method") /\ toCsp' \in Seq(Half)
  <2>1. Halves("method") \in Seq(Half)
    BY HalvesFacts DEF Kind
  <2>2. \A x \in Seq(Half) : << >> \o x = x
    OBVIOUS
  <2> QED
    BY <1>1, <2>1, <2>2
<1>3. UNCHANGED << route, version, csp, input, died, toSsp, ssp, sspInput, writeEv, outbuf, sentData >>
  BY <1>1 DEF config, sspVars
<1>4. SetupIsSafe'
  <2>1. TypeOK' /\ SocketReleasedEmpty'
    BY <1>1, <1>2, <1>3 DEF IInv, SetupIsSafe, TypeOK, CspState, SocketReleasedEmpty
  <2>2. WriteEventExact'
    BY <1>1, <1>2, <1>3 DEF IInv, SetupIsSafe, WriteEventExact
  <2>3. InfoBeforeData' /\ VersionsAgree'
    BY <1>1, <1>2, <1>3 DEF IInv, SetupIsSafe, InfoBeforeData, VersionsAgree
  <2> QED
    BY <2>1, <2>2, <2>3 DEF SetupIsSafe
<1>5. StreamTypes' /\ Answers'
  BY <1>1, <1>2, <1>3 DEF IInv, StreamTypes, Answers
<1>6. ProxyTalk'
  BY <1>1, <1>2, <1>3 DEF IInv, ProxyTalk, Alive
<1>7. Handshake'
  BY <1>1, <1>2, <1>3 DEF IInv, Handshake, Alive, config
<1> QED
  BY <1>4, <1>5, <1>6, <1>7 DEF IInv

LEMMA ProxyConnectsInv == ASSUME IInv, ProxyConnects PROVE IInv'
<1>1. /\ Alive /\ csp = "SOCKS5_READ_RESP_NEXT" /\ input = << >> /\ toCsp = << >> /\ ssp = "none"
      /\ sspInput = << >> /\ outbuf = 0 /\ toSsp = << >> /\ writeEv = FALSE
      /\ toCsp' = toCsp \o Halves("connected") /\ request' = "none" /\ ssp' = "accepting"
      /\ UNCHANGED << config, csp, input, died, toSsp, sspInput, writeEv, outbuf, sentData >>
  BY DEF ProxyConnects, IInv, ProxyTalk, Handshake, SetupIsSafe, WriteEventExact, StreamTypes, Alive, TypeOK, CspState
<1>2. toCsp' = Halves("connected") /\ toCsp' \in Seq(Half)
  <2>1. Halves("connected") \in Seq(Half)
    BY HalvesFacts DEF Kind
  <2>2. \A x \in Seq(Half) : << >> \o x = x
    OBVIOUS
  <2> QED
    BY <1>1, <2>1, <2>2
<1>3. UNCHANGED << route, version, csp, input, died, toSsp, sspInput, writeEv, outbuf, sentData >>
  BY <1>1 DEF config
<1>4. SetupIsSafe'
  <2>1. TypeOK' /\ SocketReleasedEmpty'
    BY <1>1, <1>2, <1>3 DEF IInv, SetupIsSafe, TypeOK, CspState, SocketReleasedEmpty
  <2>2. WriteEventExact'
    BY <1>1, <1>2, <1>3 DEF IInv, SetupIsSafe, WriteEventExact
  <2>3. InfoBeforeData' /\ VersionsAgree'
    BY <1>1, <1>2, <1>3 DEF IInv, SetupIsSafe, InfoBeforeData, VersionsAgree
  <2> QED
    BY <2>1, <2>2, <2>3 DEF SetupIsSafe
<1>5. StreamTypes' /\ Answers'
  BY <1>1, <1>2, <1>3 DEF IInv, StreamTypes, Answers
<1>6. ProxyTalk'
  BY <1>1, <1>2, <1>3 DEF IInv, ProxyTalk, Alive
<1>7. Handshake'
  BY <1>1, <1>2, <1>3 DEF IInv, Handshake, Alive, config
<1> QED
  BY <1>4, <1>5, <1>6, <1>7 DEF IInv

LEMMA ProxyRefusesInv == ASSUME IInv, ProxyRefuses PROVE IInv'
<1>1. /\ Alive /\ csp = "SOCKS5_READ_RESP_NEXT" /\ input = << >> /\ toCsp = << >> /\ ssp = "none"
      /\ toCsp' = toCsp \o Halves("refused") /\ request' = "none"
      /\ UNCHANGED << config, csp, input, died, toSsp, sspVars, sentData >>
  BY DEF ProxyRefuses, IInv, ProxyTalk, Handshake, SetupIsSafe, WriteEventExact, StreamTypes, Alive, TypeOK, CspState
<1>2. toCsp' = Halves("refused") /\ toCsp' \in Seq(Half)
  <2>1. Halves("refused") \in Seq(Half)
    BY HalvesFacts DEF Kind
  <2>2. \A x \in Seq(Half) : << >> \o x = x
    OBVIOUS
  <2> QED
    BY <1>1, <2>1, <2>2
<1>3. UNCHANGED << route, version, csp, input, died, toSsp, ssp, sspInput, writeEv, outbuf, sentData >>
  BY <1>1 DEF config, sspVars
<1>4. SetupIsSafe'
  <2>1. TypeOK' /\ SocketReleasedEmpty'
    BY <1>1, <1>2, <1>3 DEF IInv, SetupIsSafe, TypeOK, CspState, SocketReleasedEmpty
  <2>2. WriteEventExact'
    BY <1>1, <1>2, <1>3 DEF IInv, SetupIsSafe, WriteEventExact
  <2>3. InfoBeforeData' /\ VersionsAgree'
    BY <1>1, <1>2, <1>3 DEF IInv, SetupIsSafe, InfoBeforeData, VersionsAgree
  <2> QED
    BY <2>1, <2>2, <2>3 DEF SetupIsSafe
<1>5. StreamTypes' /\ Answers'
  BY <1>1, <1>2, <1>3 DEF IInv, StreamTypes, Answers
<1>6. ProxyTalk'
  BY <1>1, <1>2, <1>3 DEF IInv, ProxyTalk, Alive
<1>7. Handshake'
  BY <1>1, <1>2, <1>3 DEF IInv, Handshake, Alive, config
<1> QED
  BY <1>4, <1>5, <1>6, <1>7 DEF IInv

LEMMA ProxyClosesInv == ASSUME IInv, ProxyCloses PROVE IInv'
<1>1. /\ Alive /\ csp \in {"SOCKS5_GREETING", "SOCKS5_READ_RESP_NEXT"}
      /\ died' = "connect failed" /\ request' = "none"
      /\ UNCHANGED << config, csp, input, toCsp, toSsp, sspVars, sentData >>
  BY DEF ProxyCloses, IInv, ProxyTalk, Handshake, SetupIsSafe, WriteEventExact, StreamTypes, Alive, TypeOK, CspState
<1>2. UNCHANGED << route, version, csp, input, toCsp, toSsp, ssp, sspInput, writeEv, outbuf, sentData >>
  BY <1>1 DEF config, sspVars
<1>3. SetupIsSafe'
  <2>1. TypeOK' /\ SocketReleasedEmpty'
    BY <1>1, <1>2 DEF IInv, SetupIsSafe, TypeOK, CspState, SocketReleasedEmpty
  <2>2. WriteEventExact'
    BY <1>1, <1>2 DEF IInv, SetupIsSafe, WriteEventExact
  <2>3. InfoBeforeData' /\ VersionsAgree'
    BY <1>1, <1>2 DEF IInv, SetupIsSafe, InfoBeforeData, VersionsAgree
  <2> QED
    BY <2>1, <2>2, <2>3 DEF SetupIsSafe
<1>4. StreamTypes' /\ Answers'
  BY <1>1, <1>2 DEF IInv, StreamTypes, Answers
<1>5. ProxyTalk'
  BY <1>1, <1>2 DEF IInv, ProxyTalk, Alive
<1>6. Handshake'
  BY <1>1, <1>2 DEF IInv, Handshake, Alive, config
<1> QED
  BY <1>3, <1>4, <1>5, <1>6 DEF IInv

LEMMA SspAcceptsInv == ASSUME IInv, SspAccepts PROVE IInv'
<1>1. /\ ssp = "accepting" /\ ssp' = "hello" /\ sspInput = << >> /\ outbuf = 0
      /\ csp \in {"SOCKS5_READ_RESP_NEXT", "SETTING_UP_BUFLO_CHANNEL"}
      /\ UNCHANGED << config, cspVars, toCsp, toSsp, sspInput, writeEv, outbuf, sentData >>
  BY DEF SspAccepts, IInv, ProxyTalk, Handshake, SetupIsSafe, WriteEventExact, StreamTypes, Alive
<1>2. UNCHANGED << route, version, csp, input, request, died, toCsp, toSsp, sspInput, writeEv, outbuf,
                   sentData >>
  BY <1>1 DEF config, cspVars
<1>3. SetupIsSafe'
  <2>1. TypeOK' /\ SocketReleasedEmpty'
    BY <1>1, <1>2 DEF IInv, SetupIsSafe, TypeOK, CspState, SocketReleasedEmpty
  <2>2. WriteEventExact'
    BY <1>1, <1>2 DEF IInv, SetupIsSafe, WriteEventExact
  <2>3. InfoBeforeData' /\ VersionsAgree'
    BY <1>1, <1>2 DEF IInv, SetupIsSafe, InfoBeforeData, VersionsAgree
  <2> QED
    BY <2>1, <2>2, <2>3 DEF SetupIsSafe
<1>4. StreamTypes' /\ Answers'
  BY <1>1, <1>2 DEF IInv, StreamTypes, Answers
<1>5. ProxyTalk'
  BY <1>1, <1>2 DEF IInv, ProxyTalk, Alive
<1>6. Handshake'
  BY <1>1, <1>2 DEF IInv, Handshake, Alive, config
<1> QED
  BY <1>3, <1>4, <1>5, <1>6 DEF IInv

LEMMA SspReadsEOFInv == ASSUME IInv, SspReadsEOF PROVE IInv'
<1>1. /\ ssp \in {"hello", "info", "READY"} /\ (~Alive \/ csp = "CLOSED") /\ toSsp = << >>
      /\ ssp' = "CLOSED" /\ writeEv' = FALSE
      /\ UNCHANGED << config, cspVars, toCsp, toSsp, sspInput, outbuf, sentData >>
  BY DEF SspReadsEOF
<1>2. UNCHANGED << route, version, csp, input, request, died, toCsp, toSsp, sspInput, outbuf, sentData >>
  BY <1>1 DEF config, cspVars
<1>3. csp \in {"SOCKS5_READ_RESP_NEXT", "CLOSED"}
  BY <1>1 DEF IInv, Handshake, Alive
<1>4. SetupIsSafe'
  <2>1. TypeOK' /\ SocketReleasedEmpty'
    BY <1>1, <1>2, <1>3 DEF IInv, SetupIsSafe, TypeOK, CspState, SocketReleasedEmpty
  <2>2. WriteEventExact'
    BY <1>1, <1>2, <1>3 DEF IInv, SetupIsSafe, WriteEventExact
  <2>3. InfoBeforeData' /\ VersionsAgree'
    BY <1>1, <1>2, <1>3 DEF IInv, SetupIsSafe, InfoBeforeData, VersionsAgree
  <2> QED
    BY <2>1, <2>2, <2>3 DEF SetupIsSafe
<1>5. StreamTypes' /\ Answers'
  BY <1>1, <1>2, <1>3 DEF IInv, StreamTypes, Answers
<1>6. ProxyTalk'
  BY <1>1, <1>2, <1>3 DEF IInv, ProxyTalk, Alive
<1>7. Handshake'
  BY <1>1, <1>2, <1>3 DEF IInv, Handshake, Alive, config
<1> QED
  BY <1>4, <1>5, <1>6, <1>7 DEF IInv

LEMMA SspWritesInfoInv == ASSUME IInv, SspWritesPeerInfo PROVE IInv'
<1>1. /\ ssp = "info" /\ csp = "SETTING_UP_BUFLO_CHANNEL" /\ toSsp = << >> /\ outbuf = 0
      /\ input = << >> /\ toCsp = << >> /\ sspInput = Halves("csp_info")
      /\ version["CSP"] = version["SSP"] /\ Alive /\ request = "none"
      /\ toCsp' = toCsp \o Halves("ssp_info") /\ ssp' = "READY" /\ writeEv' = FALSE
      /\ UNCHANGED << config, cspVars, toSsp, sspInput, outbuf, sentData >>
  BY DEF SspWritesPeerInfo, IInv, ProxyTalk, Handshake, SetupIsSafe, WriteEventExact, StreamTypes, Alive, InfoBeforeData
<1>2. toCsp' = Halves("ssp_info") /\ toCsp' \in Seq(Half) /\ Coming(input, toCsp', "ssp_info")
  <2>1. Halves("ssp_info") \in Seq(Half) /\ Coming(<< >>, Halves("ssp_info"), "ssp_info")
    BY HalvesFacts, InfoComing DEF Kind
  <2>2. \A x \in Seq(Half) : << >> \o x = x
    OBVIOUS
  <2> QED
    BY <1>1, <2>1, <2>2
<1>3. Len(input) = 0
  BY <1>1
<1>4. UNCHANGED << route, version, csp, input, request, died, toSsp, sspInput, outbuf, sentData >>
  BY <1>1 DEF config, cspVars
<1>5. SetupIsSafe'
  <2>1. TypeOK' /\ SocketReleasedEmpty'
    BY <1>1, <1>2, <1>3, <1>4 DEF IInv, SetupIsSafe, TypeOK, CspState, SocketReleasedEmpty
  <2>2. WriteEventExact'
    BY <1>1, <1>2, <1>3, <1>4 DEF IInv, SetupIsSafe, WriteEventExact
  <2>3. InfoBeforeData' /\ VersionsAgree'
    BY <1>1, <1>2, <1>3, <1>4 DEF IInv, SetupIsSafe, InfoBeforeData, VersionsAgree
  <2> QED
    BY <2>1, <2>2, <2>3 DEF SetupIsSafe
<1>6. StreamTypes' /\ Answers'
  BY <1>1, <1>2, <1>3, <1>4 DEF IInv, StreamTypes, Answers
<1>7. ProxyTalk'
  BY <1>1, <1>2, <1>3, <1>4 DEF IInv, ProxyTalk, Alive
<1>8. Handshake'
  BY <1>1, <1>2, <1>3, <1>4 DEF IInv, Handshake, Alive, config
<1> QED
  BY <1>5, <1>6, <1>7, <1>8 DEF IInv

LEMMA SspWritesDataInv == ASSUME IInv, SspWritesData PROVE IInv'
<1>1. PICK n \in 1..outbuf : /\ toCsp' = toCsp \o [i \in 1..n |-> << "data", 1 >>]
                            /\ outbuf' = outbuf - n
  BY DEF SspWritesData
<1>2. /\ writeEv /\ ssp = "READY" /\ writeEv' = (outbuf' > 0)
      /\ UNCHANGED << config, cspVars, toSsp, ssp, sspInput, sentData >>
  BY DEF SspWritesData
<1>3. [i \in 1..n |-> << "data", 1 >>] \in Seq(Half)
  <2>1. n \in Nat /\ << "data", 1 >> \in Half
    BY Counts DEF Half, Kind
  <2> DEFINE d == << "data", 1 >>
  <2> HIDE DEF d
  <2>2. [i \in 1..n |-> d] \in Seq(Half)
    BY <2>1 DEF d
  <2> QED
    BY <2>2 DEF d
<1>4. toCsp' \in Seq(Half) /\ (Coming(input, toCsp, "ssp_info") => Coming(input, toCsp', "ssp_info"))
  <2>1. "ssp_info" \in Kind /\ input \in Seq(Half) /\ toCsp \in Seq(Half)
    BY DEF Kind, IInv, StreamTypes
  <2>2. toCsp' \in Seq(Half)
    BY <1>1, <1>3, <2>1
  <2> QED
    BY <1>1, <1>3, <2>1, <2>2, MoreComing
<1>5. outbuf' \in 0..MaxData /\ outbuf' <= outbuf /\ outbuf' \in Nat /\ outbuf \in Nat
  BY <1>1, Counts
<1>6. UNCHANGED << route, version, csp, input, request, died, toSsp, ssp, sspInput, sentData >>
  BY <1>2 DEF config, cspVars
<1>7. ssp # "info" /\ (csp \in {"SETTING_UP_BUFLO_CHANNEL", "READY", "CLOSED"})
  BY <1>2 DEF IInv, Handshake
<1>8. SetupIsSafe'
  <2>1. TypeOK' /\ SocketReleasedEmpty'
    BY <1>2, <1>4, <1>5, <1>6, <1>7 DEF IInv, SetupIsSafe, TypeOK, CspState, SocketReleasedEmpty
  <2>2. WriteEventExact'
    BY <1>2, <1>4, <1>5, <1>6, <1>7 DEF IInv, SetupIsSafe, WriteEventExact
  <2>3. InfoBeforeData' /\ VersionsAgree'
    BY <1>2, <1>4, <1>5, <1>6, <1>7 DEF IInv, SetupIsSafe, InfoBeforeData, VersionsAgree
  <2> QED
    BY <2>1, <2>2, <2>3 DEF SetupIsSafe
<1>9. StreamTypes' /\ Answers'
  BY <1>2, <1>4, <1>5, <1>6, <1>7, Counts DEF IInv, StreamTypes, Answers
<1>10. ProxyTalk'
  BY <1>2, <1>4, <1>5, <1>6, <1>7 DEF IInv, ProxyTalk, Alive
<1>11. Handshake'
  BY <1>2, <1>4, <1>5, <1>6, <1>7 DEF IInv, Handshake, Alive, config
<1> QED
  BY <1>8, <1>9, <1>10, <1>11 DEF IInv

LEMMA SspReadsDataInv == ASSUME IInv, NEW answers \in BOOLEAN, SspReadsData(answers) PROVE IInv'
<1>1. /\ ssp = "READY" /\ toSsp' = Tail(toSsp) /\ toSsp # << >>
      /\ csp \in {"SETTING_UP_BUFLO_CHANNEL", "READY", "CLOSED"}
      /\ UNCHANGED << config, cspVars, toCsp, ssp, sspInput >>
  BY DEF SspReadsData, IInv, Handshake
<1>2. toSsp' \in Seq(Half)
  BY <1>1 DEF IInv, StreamTypes
<1>3. /\ outbuf \in 0..MaxData /\ outbuf <= sentData["SSP"] /\ sentData["SSP"] <= MaxData
      /\ sentData \in [{"CSP", "SSP"} -> Nat] /\ sentData["SSP"] \in Nat /\ outbuf \in Nat
      /\ MaxData \in Nat /\ (writeEv <=> outbuf > 0) /\ writeEv \in BOOLEAN
  <2>1. (writeEv <=> outbuf > 0) /\ writeEv \in BOOLEAN /\ sentData \in [{"CSP", "SSP"} -> Nat]
    BY <1>1 DEF IInv, SetupIsSafe, StreamTypes, WriteEventExact
  <2> QED
    BY <2>1, Counts
<1>4. /\ outbuf' \in 0..MaxData /\ outbuf' <= sentData'["SSP"] /\ sentData'["SSP"] <= MaxData
      /\ sentData' \in [{"CSP", "SSP"} -> Nat] /\ outbuf' \in Nat
      /\ (writeEv' <=> outbuf' > 0) /\ writeEv' \in BOOLEAN
  <2>1. CASE answers
    <3>1. /\ sentData["SSP"] < MaxData /\ outbuf' = outbuf + 1 /\ writeEv' = TRUE
          /\ sentData' = [sentData EXCEPT !["SSP"] = @ + 1]
      BY <2>1 DEF SspReadsData
    <3>2. sentData' \in [{"CSP", "SSP"} -> Nat] /\ sentData'["SSP"] = sentData["SSP"] + 1
      BY <1>3, <3>1
    <3> QED
      BY <1>3, <3>1, <3>2
  <2>2. CASE ~answers
    BY <1>3, <2>2 DEF SspReadsData
  <2> QED
    BY <2>1, <2>2
<1>5. UNCHANGED << route, version, csp, input, request, died, toCsp, ssp, sspInput >>
  BY <1>1 DEF config, cspVars
<1>6. SetupIsSafe'
  <2>1. TypeOK' /\ SocketReleasedEmpty'
    BY <1>1, <1>2, <1>4, <1>5 DEF IInv, SetupIsSafe, TypeOK, CspState, SocketReleasedEmpty
  <2>2. WriteEventExact'
    BY <1>1, <1>2, <1>4, <1>5 DEF IInv, SetupIsSafe, WriteEventExact
  <2>3. InfoBeforeData' /\ VersionsAgree'
    BY <1>1, <1>2, <1>4, <1>5 DEF IInv, SetupIsSafe, InfoBeforeData, VersionsAgree
  <2> QED
    BY <2>1, <2>2, <2>3 DEF SetupIsSafe
<1>7. StreamTypes' /\ Answers'
  BY <1>1, <1>2, <1>4, <1>5 DEF IInv, StreamTypes, Answers
<1>8. ProxyTalk'
  BY <1>1, <1>2, <1>4, <1>5 DEF IInv, ProxyTalk, Alive
<1>9. Handshake'
  BY <1>1, <1>2, <1>4, <1>5 DEF IInv, Handshake, Alive, config
<1> QED
  BY <1>6, <1>7, <1>8, <1>9 DEF IInv

(* Every half has been read, when two have: what is behind them.           *)
LEMMA AfterTwo ==
  \A q \in Seq(Half) : Len(q) = 2 => SubSeq(q, 3, Len(q)) = << >>
  OBVIOUS

LEMMA UpToTwo == \A n \in Nat : (n <= 2 => n < 2 \/ n = 2) /\ (n < 2 => n # 2)
  OBVIOUS

(* The arms of the CASE that reads the answer to connect.                  *)
LEMMA ConnectArms ==
  ASSUME NEW in, ConsumeResponse(in), Len(in) \in Nat, Len(in) <= 2
  PROVE  /\ Len(in) < 2 => Die("short read") /\ input' = in /\ UNCHANGED toSsp
         /\ Len(in) = 2 /\ in[1][1] = "refused" =>
              Die("connect failed") /\ input' = << >> /\ UNCHANGED toSsp
         /\ Len(in) = 2 /\ in[1][1] # "refused" =>
              StartChannel /\ input' = << >> /\ UNCHANGED << request, died >>
<1>1. ASSUME Len(in) < 2 PROVE Die("short read") /\ input' = in /\ UNCHANGED toSsp
  <2>1. ~(Len(in) > 2) /\ ~(Len(in) >= 2) /\ ~(Len(in) = 2)
    BY <1>1
  <2> QED
    BY <1>1, <2>1, Zenon DEF ConsumeResponse
<1>2. Len(in) = 2 => ~(Len(in) > 2) /\ Len(in) >= 2 /\ ~(Len(in) < 2)
  OBVIOUS
<1>3. ASSUME Len(in) = 2, in[1][1] = "refused"
      PROVE  Die("connect failed") /\ input' = << >> /\ UNCHANGED toSsp
  BY <1>2, <1>3, Zenon DEF ConsumeResponse
<1>4. ASSUME Len(in) = 2, in[1][1] # "refused"
      PROVE  StartChannel /\ input' = << >> /\ UNCHANGED << request, died >>
  BY <1>2, <1>4, Zenon DEF ConsumeResponse
<1> QED
  BY <1>1, <1>3, <1>4

(* The client reads a reply of the proxy, and all of it or none is there.  *)
LEMMA ReadFromProxyInv ==
  ASSUME IInv, NEW n \in 1..Len(toCsp), ReadFromProxy(n) PROVE IInv'
<1> DEFINE in == input \o SubSeq(toCsp, 1, n)
<1>1. /\ Alive /\ died = "no" /\ input = << >> /\ toSsp = << >> /\ request = "none"
      /\ csp \in {"SOCKS5_GREETING", "SOCKS5_READ_RESP_NEXT"} /\ n \in Nat /\ n >= 1
      /\ toCsp' = SubSeq(toCsp, n + 1, Len(toCsp))
      /\ UNCHANGED << route, version, ssp, sspInput, writeEv, outbuf, sentData >>
  <2>1. toCsp # << >> /\ Len(toCsp) \in Nat
    BY EmptySeq, LenProperties DEF IInv, StreamTypes
  <2>2. /\ Alive /\ csp \in {"SOCKS5_GREETING", "SOCKS5_READ_RESP_NEXT"}
        /\ toCsp' = SubSeq(toCsp, n + 1, Len(toCsp))
        /\ UNCHANGED << route, version, ssp, sspInput, writeEv, outbuf, sentData >>
    BY DEF ReadFromProxy, config, sspVars
  <2>3. input = << >> /\ toSsp = << >> /\ request = "none"
    BY <2>1, <2>2 DEF IInv, ProxyTalk
  <2> QED
    BY <2>1, <2>2, <2>3 DEF Alive
<1>2. PICK k \in Kind : toCsp = Halves(k)
                        /\ (csp = "SOCKS5_GREETING" => k = "method")
                        /\ (csp = "SOCKS5_READ_RESP_NEXT" => k \in {"refused", "connected"})
  <2>1. toCsp # << >>
    BY EmptySeq DEF IInv, StreamTypes
  <2>2. CASE csp = "SOCKS5_GREETING"
    <3>1. toCsp = Halves("method") /\ "method" \in Kind
      BY <1>1, <2>1, <2>2 DEF IInv, ProxyTalk, Kind
    <3> QED
      BY <2>2, <3>1
  <2>3. CASE csp = "SOCKS5_READ_RESP_NEXT"
    <3>1. \E k \in {"refused", "connected"} : toCsp = Halves(k)
      BY <1>1, <2>1, <2>3 DEF IInv, ProxyTalk
    <3> QED
      BY <2>3, <3>1 DEF Kind
  <2> QED
    BY <1>1, <2>2, <2>3
<1>3. /\ in \in Seq(Half) /\ toCsp' \in Seq(Half) /\ in \o toCsp' = Halves(k)
  <2>1. input \in Seq(Half) /\ toCsp \in Seq(Half)
    BY DEF IInv, StreamTypes
  <2>2. /\ SubSeq(toCsp, n + 1, Len(toCsp)) \in Seq(Half)
        /\ in \in Seq(Half) /\ in \o SubSeq(toCsp, n + 1, Len(toCsp)) = input \o toCsp
    BY <2>1, Regroup, Zenon
  <2>3. input \o toCsp = toCsp
    <3>1. \A x \in Seq(Half) : << >> \o x = x
      OBVIOUS
    <3> QED
      BY <1>1, <2>1, <3>1
  <2> QED
    BY <1>1, <1>2, <2>2, <2>3, Zenon
<1>4. (csp = "SOCKS5_GREETING" /\ ConsumeGreeting(in))
      \/ (csp = "SOCKS5_READ_RESP_NEXT" /\ ConsumeResponse(in))
  BY DEF ReadFromProxy
<1> HIDE DEF in
<1>5. /\ Len(in) \in Nat /\ Len(in) <= 2 /\ (Len(in) = 2 => in = Halves(k) /\ toCsp' = << >>)
  BY <1>3, BothHalves, LenProperties
<1>6. CASE Len(in) < 2
  <2>1. died' = "short read" /\ input' = in /\ UNCHANGED << csp, request, toSsp >>
    <3>1. Die("short read") /\ input' = in /\ UNCHANGED toSsp
      BY <1>4, <1>5, <1>6, ConnectArms DEF ConsumeGreeting
    <3> QED
      BY <3>1 DEF Die
  <2>2. Len(input') <= 2 /\ input' \in Seq(Half)
    BY <1>3, <1>5, <2>1
  <2>3. SetupIsSafe'
    <3>1. TypeOK' /\ SocketReleasedEmpty'
      BY <1>1, <2>1, <2>2 DEF IInv, SetupIsSafe, TypeOK, CspState, SocketReleasedEmpty
    <3>2. WriteEventExact' /\ InfoBeforeData' /\ VersionsAgree'
      BY <1>1, <2>1 DEF IInv, SetupIsSafe, WriteEventExact, InfoBeforeData, VersionsAgree
    <3> QED
      BY <3>1, <3>2 DEF SetupIsSafe
  <2>4. StreamTypes' /\ Answers'
    BY <1>1, <1>3, <2>1, <2>2 DEF IInv, StreamTypes, Answers
  <2>5. ProxyTalk' /\ Handshake'
    BY <1>1, <2>1 DEF IInv, ProxyTalk, Handshake, Alive
  <2> QED
    BY <2>3, <2>4, <2>5 DEF IInv
<1>7. CASE Len(in) = 2 /\ csp = "SOCKS5_GREETING"
  <2>1. /\ input' = SubSeq(in, 3, Len(in)) /\ csp' = "SOCKS5_READ_RESP_NEXT"
        /\ request' = "connect" /\ UNCHANGED << toSsp, died >>
    BY <1>4, <1>7 DEF ConsumeGreeting
  <2>2. input' = << >> /\ toCsp' = << >> /\ Len(<< >>) = 0
    BY <1>3, <1>5, <1>7, <2>1, AfterTwo
  <2>3. ssp = "none"
    BY <1>7 DEF IInv, ProxyTalk
  <2>4. SetupIsSafe'
    <3>1. TypeOK' /\ SocketReleasedEmpty'
      BY <1>1, <2>1, <2>2 DEF IInv, SetupIsSafe, TypeOK, CspState, SocketReleasedEmpty
    <3>2. WriteEventExact' /\ InfoBeforeData' /\ VersionsAgree'
      BY <1>1, <2>1 DEF IInv, SetupIsSafe, WriteEventExact, InfoBeforeData, VersionsAgree
    <3> QED
      BY <3>1, <3>2 DEF SetupIsSafe
  <2>5. StreamTypes' /\ Answers'
    BY <1>1, <1>3, <2>1, <2>2 DEF IInv, StreamTypes, Answers
  <2>6. ProxyTalk' /\ Handshake'
    BY <1>1, <2>1, <2>2, <2>3 DEF IInv, ProxyTalk, Handshake, Alive
  <2> QED
    BY <2>4, <2>5, <2>6 DEF IInv
<1>8. CASE Len(in) = 2 /\ csp = "SOCKS5_READ_RESP_NEXT"
  <2>1. in = Halves(k) /\ toCsp' = << >> /\ in[1][1] = k /\ k \in {"refused", "connected"}
    <3>1. Halves(k)[1] = << k, 1 >>
      BY HalvesFacts
    <3> QED
      BY <1>2, <1>5, <1>8, <3>1
  <2>2. CASE k = "refused"
    <3>1. died' = "connect failed" /\ input' = << >> /\ UNCHANGED << csp, request, toSsp >>
      <4>1. Die("connect failed") /\ input' = << >> /\ UNCHANGED toSsp
        BY <1>4, <1>5, <1>8, <2>1, <2>2, ConnectArms
      <4> QED
        BY <4>1 DEF Die
    <3>2. Len(<< >>) = 0
      OBVIOUS
    <3>3. SetupIsSafe'
      <4>1. TypeOK' /\ SocketReleasedEmpty'
        BY <1>1, <3>1, <3>2 DEF IInv, SetupIsSafe, TypeOK, CspState, SocketReleasedEmpty
      <4>2. WriteEventExact' /\ InfoBeforeData' /\ VersionsAgree'
        BY <1>1, <3>1 DEF IInv, SetupIsSafe, WriteEventExact, InfoBeforeData, VersionsAgree
      <4> QED
        BY <4>1, <4>2 DEF SetupIsSafe
    <3>4. StreamTypes' /\ Answers'
      BY <1>1, <1>3, <3>1 DEF IInv, StreamTypes, Answers
    <3>5. ProxyTalk' /\ Handshake'
      BY <1>1, <3>1 DEF IInv, ProxyTalk, Handshake, Alive
    <3> QED
      BY <3>3, <3>4, <3>5 DEF IInv
  <2>3. CASE k = "connected"
    <3>1. /\ csp' = "SETTING_UP_BUFLO_CHANNEL" /\ toSsp' = toSsp \o Halves("csp_info")
          /\ input' = << >> /\ UNCHANGED << request, died >>
      <4>1. StartChannel /\ input' = << >> /\ UNCHANGED << request, died >>
        BY <1>4, <1>5, <1>8, <2>1, <2>3, ConnectArms
      <4> QED
        BY <4>1 DEF StartChannel
    <3>2. toSsp' = Halves("csp_info") /\ Halves("csp_info") \in Seq(Half) /\ Len(<< >>) = 0
      <4>1. Halves("csp_info") \in Seq(Half)
        BY HalvesFacts DEF Kind
      <4>2. \A x \in Seq(Half) : << >> \o x = x
        OBVIOUS
      <4> QED
        BY <1>1, <3>1, <4>1, <4>2
    <3>3. ssp \in {"accepting", "hello"} /\ sspInput = << >> /\ outbuf = 0
      <4>1. toCsp # Halves("refused") /\ toCsp # << >>
        <5>1. Halves("connected")[1] = << "connected", 1 >> /\ Halves("refused")[1] = << "refused", 1 >>
          BY HalvesFacts DEF Kind
        <5>2. toCsp[1][1] = "connected" /\ Halves("refused")[1][1] = "refused"
          BY <1>2, <2>3, <5>1
        <5>3. Halves("connected") # << >>
          BY HalvesFacts DEF Kind
        <5> QED
          BY <1>2, <2>3, <5>2, <5>3
      <4>2. ssp \in {"accepting", "hello"}
        BY <1>1, <1>8, <4>1 DEF IInv, ProxyTalk
      <4> QED
        BY <1>8, <4>2 DEF IInv, Handshake
    <3>4. << >> \o Halves("csp_info") = Halves("csp_info")
      BY <3>2
    <3>5. SetupIsSafe'
      <4>1. TypeOK' /\ SocketReleasedEmpty'
        BY <1>1, <3>1, <3>2 DEF IInv, SetupIsSafe, TypeOK, CspState, SocketReleasedEmpty
      <4>2. WriteEventExact' /\ InfoBeforeData' /\ VersionsAgree'
        BY <1>1, <3>1, <3>3 DEF IInv, SetupIsSafe, WriteEventExact, InfoBeforeData, VersionsAgree
      <4> QED
        BY <4>1, <4>2 DEF SetupIsSafe
    <3>6. StreamTypes' /\ Answers'
      BY <1>1, <1>3, <3>1, <3>2 DEF IInv, StreamTypes, Answers
    <3>7. ProxyTalk' /\ Handshake'
      BY <1>1, <2>1, <3>1, <3>2, <3>3, <3>4 DEF ProxyTalk, Handshake, Alive
    <3> QED
      BY <3>5, <3>6, <3>7 DEF IInv
  <2> QED
    BY <2>1, <2>2, <2>3
<1>9. Len(in) < 2 \/ Len(in) = 2
  BY <1>5, UpToTwo, Zenon
<1> QED
  BY <1>1, <1>6, <1>7, <1>8, <1>9

(* The client reads peer information: the server has sent it, and only     *)
(* after it found the versions equal.                                      *)
LEMMA CspReadsInfoInv ==
  ASSUME IInv, NEW n \in 1..Len(toCsp), CspReadsPeerInfo(n) PROVE IInv'
<1>1. /\ Alive /\ csp = "SETTING_UP_BUFLO_CHANNEL" /\ ssp = "READY" /\ request = "none"
      /\ version["CSP"] = version["SSP"] /\ Coming(input, toCsp, "ssp_info")
      /\ sspInput = Halves("csp_info")
  <2>1. Alive /\ csp = "SETTING_UP_BUFLO_CHANNEL" /\ toCsp # << >>
    BY EmptySeq DEF CspReadsPeerInfo, IInv, StreamTypes
  <2> QED
    BY <2>1 DEF IInv, Handshake, SetupIsSafe, InfoBeforeData
<1>2. /\ input' = input \o SubSeq(toCsp, 1, n) /\ toCsp' = SubSeq(toCsp, n + 1, Len(toCsp))
      /\ Len(input) + n <= 2
      /\ UNCHANGED << route, version, toSsp, ssp, sspInput, writeEv, outbuf, sentData >>
      /\ IF Len(input') < 2 THEN UNCHANGED << csp, died, request >>
         ELSE csp' = "READY" /\ UNCHANGED << died, request >>
  BY <1>1 DEF CspReadsPeerInfo, config, sspVars
<1>3. /\ input' \in Seq(Half) /\ toCsp' \in Seq(Half) /\ Len(input') = Len(input) + n
      /\ input' \o toCsp' = input \o toCsp
  <2>1. input \in Seq(Half) /\ toCsp \in Seq(Half)
    BY DEF IInv, StreamTypes
  <2>2. /\ SubSeq(toCsp, n + 1, Len(toCsp)) \in Seq(Half)
        /\ input \o SubSeq(toCsp, 1, n) \in Seq(Half)
        /\ Len(input \o SubSeq(toCsp, 1, n)) = Len(input) + n
        /\ (input \o SubSeq(toCsp, 1, n)) \o SubSeq(toCsp, n + 1, Len(toCsp)) = input \o toCsp
    BY <2>1, Regroup, Zenon
  <2> QED
    BY <1>2, <2>2, Zenon
<1>4. Coming(input', toCsp', "ssp_info") /\ Len(input') \in Nat /\ Len(input') <= 2
  BY <1>1, <1>2, <1>3, LenProperties DEF Coming
<1>5. Len(input') = 2 => input' = Halves("ssp_info")
  <2>1. "ssp_info" \in Kind
    BY DEF Kind
  <2> QED
    BY <1>3, <1>4, <2>1, FirstWhole, Zenon
<1>6. csp' \in {"SETTING_UP_BUFLO_CHANNEL", "READY"} /\ UNCHANGED << died, request >>
      /\ (csp' = "READY" => input' = Halves("ssp_info"))
      /\ (csp' = "SETTING_UP_BUFLO_CHANNEL" => Len(input') < 2)
  BY <1>1, <1>2, <1>4, <1>5
<1>7. SetupIsSafe'
  <2>1. TypeOK' /\ SocketReleasedEmpty'
    BY <1>2, <1>4, <1>6 DEF IInv, SetupIsSafe, TypeOK, CspState, SocketReleasedEmpty
  <2>2. WriteEventExact' /\ InfoBeforeData' /\ VersionsAgree'
    BY <1>1, <1>2, <1>6 DEF IInv, SetupIsSafe, WriteEventExact, InfoBeforeData, VersionsAgree
  <2> QED
    BY <2>1, <2>2 DEF SetupIsSafe
<1>8. StreamTypes' /\ Answers'
  BY <1>2, <1>3, <1>6 DEF IInv, StreamTypes, Answers
<1>9. ProxyTalk' /\ Handshake'
  BY <1>1, <1>2, <1>4, <1>6 DEF IInv, ProxyTalk, Handshake, Alive
<1> QED
  BY <1>7, <1>8, <1>9 DEF IInv

(* The server reads peer information.                                      *)
LEMMA SspReadsInfoInv ==
  ASSUME IInv, NEW n \in 1..Len(toSsp), SspReadsPeerInfo(n) PROVE IInv'
<1>1. /\ ssp = "hello" /\ csp = "SETTING_UP_BUFLO_CHANNEL" /\ Alive /\ request = "none"
      /\ sspInput \o toSsp = Halves("csp_info") /\ outbuf = 0
      /\ input = << >> /\ toCsp = << >> /\ writeEv = FALSE /\ died = "no"
  <2>1. ssp = "hello" /\ toSsp # << >>
    BY EmptySeq DEF SspReadsPeerInfo, IInv, StreamTypes
  <2>2. csp = "SETTING_UP_BUFLO_CHANNEL"
    BY <2>1 DEF IInv, Handshake, ProxyTalk
  <2> QED
    BY <2>1, <2>2 DEF IInv, Handshake, SetupIsSafe, WriteEventExact, StreamTypes, Alive
<1>2. /\ sspInput' = sspInput \o SubSeq(toSsp, 1, n) /\ toSsp' = SubSeq(toSsp, n + 1, Len(toSsp))
      /\ UNCHANGED << route, version, csp, input, request, died, toCsp, outbuf, sentData >>
  BY DEF SspReadsPeerInfo, config, cspVars
<1>3. /\ sspInput' \in Seq(Half) /\ toSsp' \in Seq(Half) /\ Len(sspInput') \in Nat
      /\ sspInput' \o toSsp' = Halves("csp_info")
  <2>1. sspInput \in Seq(Half) /\ toSsp \in Seq(Half)
    BY DEF IInv, StreamTypes
  <2>2. /\ SubSeq(toSsp, n + 1, Len(toSsp)) \in Seq(Half)
        /\ sspInput \o SubSeq(toSsp, 1, n) \in Seq(Half)
        /\ (sspInput \o SubSeq(toSsp, 1, n)) \o SubSeq(toSsp, n + 1, Len(toSsp)) = sspInput \o toSsp
    BY <2>1, Regroup, Zenon
  <2>3. sspInput' \in Seq(Half)
    BY <1>2, <2>2, Zenon
  <2>4. Len(sspInput') \in Nat
    BY <2>3, LenProperties
  <2> QED
    BY <1>1, <1>2, <2>2, <2>3, <2>4, Zenon
<1>4. /\ Len(sspInput') <= 2
      /\ (Len(sspInput') = 2 => sspInput' = Halves("csp_info") /\ toSsp' = << >>)
  <2>1. "csp_info" \in Kind
    BY DEF Kind
  <2> QED
    BY <1>3, <2>1, BothHalves, Zenon
<1>5. \/ Len(sspInput') < 2 /\ ssp' = "hello" /\ writeEv' = FALSE
      \/ /\ Len(sspInput') = 2 /\ version["CSP"] # version["SSP"]
         /\ ssp' = "CLOSED" /\ writeEv' = FALSE
      \/ /\ Len(sspInput') = 2 /\ version["CSP"] = version["SSP"]
         /\ ssp' = "info" /\ writeEv' = TRUE
  <2>1. Len(sspInput') < 2 \/ Len(sspInput') = 2
    BY <1>3, <1>4, UpToTwo, Zenon
  <2>2. CASE Len(sspInput') < 2
    <3>1. Len(sspInput') # 2
      BY <1>3, <2>2, UpToTwo, Zenon
    <3>2. UNCHANGED << ssp, writeEv >>
      BY <2>2, <3>1, Zenon DEF SspReadsPeerInfo
    <3> QED
      BY <1>1, <2>2, <3>2
  <2>3. CASE Len(sspInput') = 2
    <3>1. ~(Len(sspInput') < 2)
      BY <2>3
    <3>2. CASE version["CSP"] # version["SSP"]
      <4>1. ssp' = "CLOSED" /\ writeEv' = FALSE
        BY <2>3, <3>1, <3>2, Zenon DEF SspReadsPeerInfo
      <4> QED
        BY <2>3, <3>2, <4>1
    <3>3. CASE version["CSP"] = version["SSP"]
      <4>1. ssp' = "info" /\ writeEv' = TRUE
        BY <2>3, <3>1, <3>3, Zenon DEF SspReadsPeerInfo
      <4> QED
        BY <2>3, <3>3, <4>1
    <3> QED
      BY <3>2, <3>3
  <2> QED
    BY <2>1, <2>2, <2>3
<1>6. SetupIsSafe'
  <2>1. TypeOK' /\ SocketReleasedEmpty'
    BY <1>2, <1>4, <1>5 DEF IInv, SetupIsSafe, TypeOK, CspState, SocketReleasedEmpty
  <2>2. WriteEventExact' /\ InfoBeforeData' /\ VersionsAgree'
    BY <1>1, <1>2, <1>4, <1>5 DEF WriteEventExact, InfoBeforeData, VersionsAgree
  <2> QED
    BY <2>1, <2>2 DEF SetupIsSafe
<1>7. StreamTypes' /\ Answers'
  BY <1>2, <1>3, <1>5 DEF IInv, StreamTypes, Answers
<1>8. ProxyTalk' /\ Handshake'
  BY <1>1, <1>2, <1>3, <1>4, <1>5 DEF ProxyTalk, Handshake, Alive
<1> QED
  BY <1>6, <1>7, <1>8 DEF IInv

LEMMA NextInv == IInv /\ [Next]_vars => IInv'
<1> SUFFICES ASSUME IInv, [Next]_vars PROVE IInv'
  OBVIOUS
<1>1. CASE Connected
  BY <1>1, ConnectedInv
<1>2. CASE CspReads
  BY <1>2, ReadFromProxyInv, CspReadsInfoInv DEF CspReads
<1>3. CASE CspSends
  BY <1>3, CspSendsInv
<1>4. CASE CspReadsData
  BY <1>4, CspReadsDataInv
<1>5. CASE CspReadsEOF \/ CspClosesChannel
  BY <1>5, CspEndsInv
<1>6. CASE ProxyAccepts
  BY <1>6, ProxyAcceptsInv
<1>7. CASE ProxyConnects
  BY <1>7, ProxyConnectsInv
<1>8. CASE ProxyRefuses
  BY <1>8, ProxyRefusesInv
<1>9. CASE ProxyCloses
  BY <1>9, ProxyClosesInv
<1>10. CASE SspAccepts
  BY <1>10, SspAcceptsInv
<1>11. CASE SspReads
  BY <1>11, SspReadsInfoInv DEF SspReads
<1>12. CASE SspReadsEOF
  BY <1>12, SspReadsEOFInv
<1>13. CASE SspWritesPeerInfo
  BY <1>13, SspWritesInfoInv
<1>14. CASE SspWritesData
  BY <1>14, SspWritesDataInv
<1>15. CASE \E answers \in BOOLEAN : SspReadsData(answers)
  BY <1>15, SspReadsDataInv
<1>16. CASE UNCHANGED vars
  <2> USE <1>16 DEF vars, config, cspVars, sspVars, IInv
  <2>1. SetupIsSafe'
    BY DEF SetupIsSafe, TypeOK, SocketReleasedEmpty, WriteEventExact, InfoBeforeData, VersionsAgree
  <2>2. StreamTypes' /\ Answers'
    BY DEF StreamTypes, Answers
  <2>3. ProxyTalk'
    BY DEF ProxyTalk, Alive
  <2>4. Handshake'
    BY DEF Handshake, Alive
  <2> QED
    BY <2>1, <2>2, <2>3, <2>4
<1> QED
  BY <1>1, <1>2, <1>3, <1>4, <1>5, <1>6, <1>7, <1>8, <1>9, <1>10, <1>11, <1>12, <1>13, <1>14,
     <1>15, <1>16 DEF Next

(* The handshake is followed, whatever the order of reads, writes and      *)
(* events and however short the reads: the TCPChannel's buffer is empty    *)
(* when its socket is released, the write event is enabled exactly while   *)
(* there is something to write, what an end takes for the other's peer     *)
(* information is nothing else, and ends of two versions never talk.       *)
THEOREM SetupStaysSafe == Spec => []SetupIsSafe
<1>1. Spec => Init /\ [][Next]_vars
  BY PTL DEF Spec
<1>2. IInv => SetupIsSafe
  BY DEF IInv
<1> QED
  BY <1>1, <1>2, InitInv, NextInv, PTL

-----------------------------------------------------------------------------
(***************************************************************************)
(* The relay.                                                              *)
(*                                                                         *)
(* Data that is cut in runs: what a list carries, put together and apart.  *)
(***************************************************************************)
(* A set of numbers has a least one.                                       *)
LEMMA HasMin ==
  ASSUME NEW T, T \subseteq Nat, T # {}
  PROVE  \E x \in T : \A y \in T : x <= y
<1> DEFINE R == OpToRel(<, Nat)
<1>1. IsWellFoundedOn(R, Nat)
  BY NatLessThanWellFounded
<1>2. \A x, y \in Nat : x < y => <<x, y>> \in R
  BY DEF OpToRel
<1> HIDE DEF R
<1>3. PICK x \in T : \A y \in T : ~(<<y, x>> \in R)
  BY <1>1, WFMin
<1>4. \A y \in T : y \in Nat /\ x \in Nat /\ ~(y < x)
  BY <1>2, <1>3
<1> QED BY <1>3, <1>4

(* The data units of q are l+1..h, each once and in order.                  *)
Run(q, l, h) ==
  /\ l <= h
  /\ \A i \in DataAt(q) : q[i].data \in (l+1)..h
  /\ \A n \in (l+1)..h : \E i \in DataAt(q) : q[i].data = n
  /\ \A i, j \in DataAt(q) : i < j => q[i].data < q[j].data

(* Nothing carries nothing.                                                *)
LEMMA RunEmpty ==
  ASSUME NEW m \in Nat
  PROVE  Run(<< >>, m, m)
BY DEF Run, DataAt

(* A run from the first unit is what a program should have.                *)
LEMMA RunCarries ==
  ASSUME NEW q \in Seq(Unit), NEW n \in Nat, Run(q, 0, n)
  PROVE  Carries(q, n)
<1>1. {q[i].data : i \in DataAt(q)} = 1..n
  BY DEF Run
<1> QED BY <1>1 DEF Run, Carries

(* Two runs that meet make one run.                                        *)
LEMMA RunConcat ==
  ASSUME NEW a \in Seq(Unit), NEW b \in Seq(Unit),
         NEW l \in Nat, NEW m \in Nat, NEW h \in Nat, Run(a, l, m), Run(b, m, h)
  PROVE  Run(a \o b, l, h)
<1> DEFINE q == a \o b
<1>1. /\ Len(a) \in Nat /\ Len(b) \in Nat /\ Len(q) = Len(a) + Len(b)
      /\ DOMAIN a = 1..Len(a) /\ DOMAIN b = 1..Len(b) /\ DOMAIN q = 1..Len(q)
      /\ \A i \in 1..Len(a) : q[i] = a[i]
      /\ \A i \in 1..Len(b) : q[Len(a) + i] = b[i]
  OBVIOUS
<1> HIDE DEF q
<1>2. \A i \in DataAt(q) : \/ i \in DataAt(a) /\ q[i] = a[i]
                           \/ i - Len(a) \in DataAt(b) /\ q[i] = b[i - Len(a)] /\ i > Len(a)
  <2> SUFFICES ASSUME NEW i \in DataAt(q)
               PROVE  \/ i \in DataAt(a) /\ q[i] = a[i]
                      \/ i - Len(a) \in DataAt(b) /\ q[i] = b[i - Len(a)] /\ i > Len(a)
    OBVIOUS
  <2>1. i \in 1..Len(q) /\ q[i].type = "DATA"
    BY <1>1 DEF DataAt
  <2>2. CASE i <= Len(a)
    BY <1>1, <2>1, <2>2 DEF DataAt
  <2>3. CASE i > Len(a)
    <3>1. i - Len(a) \in 1..Len(b) /\ i = Len(a) + (i - Len(a))
      BY <1>1, <2>1, <2>3
    <3>2. q[i] = b[i - Len(a)]
      BY <1>1, <3>1
    <3> QED BY <1>1, <2>1, <2>3, <3>1, <3>2 DEF DataAt
  <2> QED BY <1>1, <2>1, <2>2, <2>3
<1>3. /\ \A i \in DataAt(a) : i \in DataAt(q) /\ q[i] = a[i] /\ i \in 1..Len(a)
      /\ \A i \in DataAt(b) : Len(a) + i \in DataAt(q) /\ q[Len(a) + i] = b[i] /\ i \in 1..Len(b)
  BY <1>1 DEF DataAt
<1>4. l <= h /\ \A i \in DataAt(q) : q[i].data \in (l+1)..h
  BY <1>2 DEF Run
<1>5. \A n \in (l+1)..h : \E i \in DataAt(q) : q[i].data = n
  <2> SUFFICES ASSUME NEW n \in (l+1)..h
               PROVE  \E i \in DataAt(q) : q[i].data = n
    OBVIOUS
  <2>1. CASE n <= m
    <3>1. n \in (l+1)..m
      BY <2>1
    <3>2. PICK i \in DataAt(a) : a[i].data = n
      BY <3>1 DEF Run
    <3> QED BY <1>3, <3>2
  <2>2. CASE n > m
    <3>1. n \in (m+1)..h
      BY <2>2
    <3>2. PICK i \in DataAt(b) : b[i].data = n
      BY <3>1 DEF Run
    <3> QED BY <1>3, <3>2
  <2> QED BY <2>1, <2>2
<1>6. \A i, j \in DataAt(q) : i < j => q[i].data < q[j].data
  <2> SUFFICES ASSUME NEW i \in DataAt(q), NEW j \in DataAt(q), i < j
               PROVE  q[i].data < q[j].data
    OBVIOUS
  <2>1. i \in Nat /\ j \in Nat
    BY <1>1 DEF DataAt
  <2>2. CASE j \in DataAt(a) /\ q[j] = a[j]
    <3>1. j <= Len(a)
      BY <1>3, <2>2
    <3>2. i \in DataAt(a) /\ q[i] = a[i]
      BY <1>1, <1>2, <2>1, <3>1
    <3> QED BY <2>2, <3>2 DEF Run
  <2>3. CASE j - Len(a) \in DataAt(b) /\ q[j] = b[j - Len(a)] /\ j > Len(a)
    <3>1. CASE i \in DataAt(a) /\ q[i] = a[i]
      BY <2>3, <3>1 DEF Run
    <3>2. CASE i - Len(a) \in DataAt(b) /\ q[i] = b[i - Len(a)] /\ i > Len(a)
      <4>1. i - Len(a) < j - Len(a)
        BY <1>1, <2>1
      <4> QED BY <2>3, <3>2, <4>1 DEF Run
    <3> QED BY <1>2, <3>1, <3>2
  <2> QED BY <1>2, <2>2, <2>3
<1>7. Run(q, l, h)
  BY <1>4, <1>5, <1>6 DEF Run
<1> QED BY <1>7 DEF q

(* So what a list carries from the first is carried on by the next.         *)
LEMMA RunOn ==
  ASSUME NEW a \in Seq(Unit), NEW b \in Seq(Unit),
         NEW m \in Nat, NEW h \in Nat, Run(a, 0, m), Run(b, m, h)
  PROVE  a \o b \in Seq(Unit) /\ Run(a \o b, 0, h)
<1>1. 0 \in Nat
  OBVIOUS
<1>2. Run(a \o b, 0, h)
  BY <1>1, RunConcat
<1>3. a \o b \in Seq(Unit)
  OBVIOUS
<1> QED BY <1>2, <1>3

(* A run cut in two is two runs that meet.                                 *)
LEMMA RunSplit ==
  ASSUME NEW q \in Seq(Unit), NEW l \in Nat, NEW h \in Nat, Run(q, l, h),
         NEW n \in 0..Len(q)
  PROVE  \E m \in l..h : /\ Run(SubSeq(q, 1, n), l, m)
                         /\ Run(SubSeq(q, n + 1, Len(q)), m, h)
<1> DEFINE a == SubSeq(q, 1, n)
           b == SubSeq(q, n + 1, Len(q))
           T == {i \in DataAt(q) : i > n}
<1>1. /\ Len(q) \in Nat /\ DOMAIN q = 1..Len(q)
      /\ a \in Seq(Unit) /\ Len(a) = n /\ DOMAIN a = 1..n /\ \A i \in 1..n : a[i] = q[i]
      /\ b \in Seq(Unit) /\ Len(b) = Len(q) - n /\ DOMAIN b = 1..(Len(q) - n)
      /\ \A i \in 1..(Len(q) - n) : b[i] = q[n + i]
  OBVIOUS
<1> HIDE DEF a, b
<1>2. /\ \A i \in DataAt(a) : i \in DataAt(q) /\ i \in 1..n /\ q[i] = a[i]
      /\ \A i \in DataAt(q) : i <= n => i \in DataAt(a)
      /\ \A i \in DataAt(b) : n + i \in T /\ b[i] = q[n + i] /\ i \in Nat
      /\ \A i \in T : i - n \in DataAt(b) /\ b[i - n] = q[i]
      /\ \A i \in DataAt(q) : i \in 1..Len(q)
  <2>1. \A i \in DataAt(q) : i \in 1..Len(q) /\ q[i].type = "DATA"
    BY <1>1 DEF DataAt
  <2>2. /\ \A i \in DataAt(a) : i \in DataAt(q) /\ i \in 1..n /\ q[i] = a[i]
        /\ \A i \in DataAt(q) : i <= n => i \in DataAt(a)
    BY <1>1 DEF DataAt
  <2>3. \A i \in DataAt(b) : n + i \in T /\ b[i] = q[n + i] /\ i \in Nat
    BY <1>1 DEF DataAt
  <2>4. ASSUME NEW i \in T
        PROVE  i - n \in DataAt(b) /\ b[i - n] = q[i]
    <3>1. i \in 1..Len(q) /\ i > n /\ q[i].type = "DATA"
      BY <2>1
    <3>2. i - n \in 1..(Len(q) - n) /\ n + (i - n) = i
      BY <1>1, <3>1
    <3>3. b[i - n] = q[i]
      BY <1>1, <3>2
    <3> QED BY <1>1, <3>1, <3>2, <3>3 DEF DataAt
  <2> QED BY <2>1, <2>2, <2>3, <2>4
<1>3. CASE T = {}
  <2>1. Run(b, h, h)
    BY <1>2, <1>3 DEF Run
  <2>2. \A i \in DataAt(q) : i \in DataAt(a)
    BY <1>2, <1>3
  <2>3. Run(a, l, h)
    BY <1>2, <2>2 DEF Run
  <2>4. h \in l..h
    BY DEF Run
  <2> QED BY <2>1, <2>3, <2>4 DEF a, b
<1>4. CASE T # {}
  <2>1. T \subseteq Nat
    BY <1>2
  <2>2. PICK k \in T : \A y \in T : k <= y
    BY <1>4, <2>1, HasMin
  <2> DEFINE m == q[k].data - 1
  <2>3. k \in DataAt(q) /\ k > n /\ k \in Nat /\ q[k].data \in (l+1)..h
    BY <1>2, <2>2 DEF Run
  <2>4. m \in l..h /\ m < h /\ q[k].data = m + 1
    BY <2>3
  <2> HIDE DEF m
  <2>5. \A i \in DataAt(q) : i <= n => q[i].data \in (l+1)..m
    BY SMTT(20), <1>2, <2>3, <2>4 DEF Run
  <2>6. \A i \in T : q[i].data \in (m+1)..h
    BY SMTT(20), <1>2, <2>2, <2>3, <2>4 DEF Run
  <2>7. Run(a, l, m)
    <3>1. \A v \in (l+1)..m : \E i \in DataAt(a) : a[i].data = v
      <4> SUFFICES ASSUME NEW v \in (l+1)..m
                   PROVE  \E i \in DataAt(a) : a[i].data = v
        OBVIOUS
      <4>0. v \in (l+1)..h /\ v <= m
        BY <2>4
      <4>1. PICK i \in DataAt(q) : q[i].data = v
        BY <4>0 DEF Run
      <4>2. ~(i > n)
        BY <2>4, <2>6, <4>0, <4>1
      <4>3. i \in 1..Len(q) /\ i <= n
        BY <1>2, <4>2
      <4> QED BY <1>2, <4>1, <4>3
    <3>2. \A i \in DataAt(a) : a[i].data \in (l+1)..m
      BY <1>2, <2>5
    <3>3. \A i, j \in DataAt(a) : i < j => a[i].data < a[j].data
      BY <1>2 DEF Run
    <3> QED BY <2>4, <3>1, <3>2, <3>3 DEF Run
  <2>8. Run(b, m, h)
    <3>1. \A v \in (m+1)..h : \E i \in DataAt(b) : b[i].data = v
      <4> SUFFICES ASSUME NEW v \in (m+1)..h
                   PROVE  \E i \in DataAt(b) : b[i].data = v
        OBVIOUS
      <4>0. v \in (l+1)..h /\ m < v
        BY <2>4
      <4>1. PICK i \in DataAt(q) : q[i].data = v
        BY <4>0 DEF Run
      <4>2. i > n
        <5>1. ~(i <= n) /\ i \in Nat /\ n \in Nat
          BY <1>2, <2>4, <2>5, <4>0, <4>1
        <5> QED BY <5>1
      <4>3. i - n \in DataAt(b) /\ b[i - n] = q[i]
        BY <1>2, <4>2
      <4> QED BY <4>1, <4>3
    <3>2. \A i \in DataAt(b) : b[i].data \in (m+1)..h
      BY <1>2, <2>6
    <3>3. \A i, j \in DataAt(b) : i < j => b[i].data < b[j].data
      <4> SUFFICES ASSUME NEW i \in DataAt(b), NEW j \in DataAt(b), i < j
                   PROVE  b[i].data < b[j].data
        OBVIOUS
      <4>1. /\ n + i \in DataAt(q) /\ n + j \in DataAt(q) /\ n + i < n + j
            /\ b[i] = q[n + i] /\ b[j] = q[n + j]
        BY <1>2
      <4> QED BY <4>1 DEF Run
    <3> QED BY <2>4, <3>1, <3>2, <3>3 DEF Run
  <2> QED BY <2>4, <2>7, <2>8 DEF a, b
<1> QED BY <1>3, <1>4

(* A frame that is no data does not change what a list carries.             *)
LEMMA RunSkip ==
  ASSUME NEW q \in Seq(Unit), NEW u \in Unit, u.type # "DATA",
         NEW l \in Nat, NEW h \in Nat, Run(q, l, h)
  PROVE  Run(Append(q, u), l, h)
<1>1. DataAt(Append(q, u)) = DataAt(q) /\ \A i \in DataAt(q) : Append(q, u)[i] = q[i]
  BY DEF DataAt
<1> QED BY <1>1 DEF Run

(* The next unit, put at the end, lengthens a run by one.                   *)
LEMMA RunAppend ==
  ASSUME NEW q \in Seq(Unit), NEW l \in Nat, NEW h \in Nat, Run(q, l, h),
         NEW u \in Unit, u.type = "DATA", u.data = h + 1
  PROVE  Run(Append(q, u), l, h + 1)
<1>1. << u >> \in Seq(Unit) /\ Append(q, u) = q \o << u >>
  OBVIOUS
<1>2. Run(<< u >>, h, h + 1)
  <2>1. DataAt(<< u >>) = {1} /\ << u >>[1] = u
    BY DEF DataAt
  <2> QED BY <2>1 DEF Run
<1> QED BY <1>1, <1>2, h + 1 \in Nat, RunConcat

(* The first unit, taken off, shortens it by one at the other end.          *)
LEMMA RunTake ==
  ASSUME NEW q \in Seq(Unit), q # << >>, NEW l \in Nat, NEW h \in Nat, Run(q, l, h)
  PROVE  /\ Head(q) \in Unit /\ Tail(q) \in Seq(Unit)
         /\ Head(q).type # "DATA" => Run(Tail(q), l, h)
         /\ Head(q).type = "DATA" =>
              l + 1 <= h /\ Head(q).data = l + 1 /\ Run(Tail(q), l + 1, h)
<1> DEFINE t == Tail(q)
<1>1. /\ Len(q) \in Nat /\ Len(q) >= 1 /\ DOMAIN q = 1..Len(q) /\ Head(q) = q[1] /\ Head(q) \in Unit
      /\ t \in Seq(Unit) /\ DOMAIN t = 1..(Len(q) - 1)
      /\ \A i \in 1..(Len(q) - 1) : t[i] = q[i + 1]
  OBVIOUS
<1> HIDE DEF t
<1>2. /\ \A i \in DataAt(t) : i + 1 \in DataAt(q) /\ t[i] = q[i + 1] /\ i \in Nat /\ i + 1 > 1
      /\ \A i \in DataAt(q) : i # 1 => i - 1 \in DataAt(t) /\ t[i - 1] = q[i] /\ i \in Nat /\ i > 1
  <2>1. ASSUME NEW i \in DataAt(q), i # 1
        PROVE  i - 1 \in DataAt(t) /\ t[i - 1] = q[i] /\ i \in Nat /\ i > 1
    <3>1. i \in 1..Len(q) /\ i > 1 /\ q[i].type = "DATA"
      BY <1>1, <2>1 DEF DataAt
    <3>2. i - 1 \in 1..(Len(q) - 1) /\ (i - 1) + 1 = i
      BY <1>1, <3>1
    <3>3. t[i - 1] = q[i]
      BY <1>1, <3>2
    <3> QED BY <1>1, <3>1, <3>2, <3>3 DEF DataAt
  <2> QED BY <1>1, <2>1 DEF DataAt
<1>3. \A i, j \in DataAt(t) : i < j => t[i].data < t[j].data
  <2> SUFFICES ASSUME NEW i \in DataAt(t), NEW j \in DataAt(t), i < j
               PROVE  t[i].data < t[j].data
    OBVIOUS
  <2>1. /\ i + 1 \in DataAt(q) /\ j + 1 \in DataAt(q) /\ i + 1 < j + 1
        /\ t[i] = q[i + 1] /\ t[j] = q[j + 1]
    BY <1>2
  <2> QED BY <2>1 DEF Run
<1>4. CASE q[1].type # "DATA"
  <2>1. 1 \notin DataAt(q)
    BY <1>4 DEF DataAt
  <2>2. Run(t, l, h)
    <3>1. \A n \in (l+1)..h : \E i \in DataAt(t) : t[i].data = n
      <4> SUFFICES ASSUME NEW n \in (l+1)..h
                   PROVE  \E i \in DataAt(t) : t[i].data = n
        OBVIOUS
      <4>1. PICK i \in DataAt(q) : q[i].data = n
        BY DEF Run
      <4>2. i # 1
        BY <2>1
      <4> QED BY <1>2, <4>1, <4>2
    <3>2. \A i \in DataAt(t) : t[i].data \in (l+1)..h
      BY <1>2 DEF Run
    <3> QED BY <1>3, <3>1, <3>2 DEF Run
  <2> QED BY <1>1, <1>4, <2>2 DEF t
<1>5. CASE q[1].type = "DATA"
  <2>1. 1 \in DataAt(q) /\ q[1].data \in (l+1)..h
    BY <1>1, <1>5 DEF DataAt, Run
  <2>2. q[1].data = l + 1
    <3>1. PICK i \in DataAt(q) : q[i].data = l + 1
      BY <2>1 DEF Run
    <3>2. i = 1 \/ (i \in Nat /\ 1 < i)
      BY <1>2
    <3> QED BY <2>1, <3>1, <3>2 DEF Run
  <2>3. \A i \in DataAt(t) : t[i].data \in (l+2)..h
    BY <1>2, <2>1, <2>2 DEF Run
  <2>4. ASSUME NEW n \in (l+2)..h
        PROVE  \E i \in DataAt(t) : t[i].data = n
    <3>1. PICK i \in DataAt(q) : q[i].data = n
      BY DEF Run
    <3>2. i # 1
      BY <2>2, <3>1
    <3> QED BY <1>2, <3>1, <3>2
  <2>5. Run(t, l + 1, h)
    BY <1>3, <2>1, <2>3, <2>4 DEF Run
  <2> QED BY <1>1, <1>5, <2>1, <2>2, <2>5 DEF t
<1> QED BY <1>4, <1>5

DataOnly(q) == \A i \in DOMAIN q : q[i].type = "DATA"

(* No check has failed, and the state of the handler says what it holds:    *)
(* before its stream, while that is being opened, forwarding, or ended.     *)
Early(s) ==
  IF s = "csp" THEN {"READ_SOCKS5_GREETING", "READ_SOCKS5_CONNECT_REQ"} ELSE {"NONE"}

Opening(s) == IF s = "csp" THEN "CREATE_BUFLO_STREAM" ELSE "CONNECTING_TARGET"

Unused(e) ==
  ~e.half /\ ~e.shutR /\ ~e.shutW /\ ~e.weof /\ e.inner = << >> /\ e.buflo

Waits(s, e) ==
  /\ e.state \in Early(s) /\ e.stream = "none" /\ e.obs = "none"
  /\ e.chan = (s = "csp") /\ e.tx = << >> /\ Unused(e)

Opens(s, e) ==
  /\ e.state = Opening(s) /\ e.stream = "opening" /\ e.obs = "handler"
  /\ e.chan /\ Unused(e)

Forwards(e) ==
  e.state = "FORWARDING" /\ e.stream = "open" /\ e.obs = "ioh" /\ e.buflo /\ e.chan

Ended(e) ==
  /\ e.state = "CLOSED" /\ e.stream \notin {"opening", "open"} /\ e.obs = "none"
  /\ ~e.chan /\ e.out = << >>

Mode(s, e) ==
  /\ e \in End /\ e.bad = "no"
  /\ Waits(s, e) \/ Opens(s, e) \/ Forwards(e) \/ Ended(e)

(* The two directions of a stream in use.                                   *)
RelayHalves(e) ==
  Forwards(e) =>
    /\ e.half = e.shutR /\ ~(e.shutR /\ e.shutW)
    /\ e.shutW => e.weof

(* How e may end in f: the stream may be reset.                             *)
Shuts(e, f) ==
  /\ f \in End /\ Ended(f) /\ f.bad = e.bad
  /\ f.inner = e.inner /\ f.shutR = e.shutR /\ f.shutW = e.shutW
  /\ \/ f.tx = e.tx
     \/ f.tx = Append(e.tx, Frame("RST")) /\ e.stream # "none"

(* A frame of its own is a unit of that type, and is no data.               *)
LEMMA FrameUnit ==
  /\ \A t \in {"SYN_STREAM", "SYN_REPLY", "FIN", "RST", "hello", "granted",
               "greeting", "bad_greeting", "request", "bad_request"} :
       Frame(t) \in Unit /\ Frame(t).type = t
  /\ \A d \in Nat : Data(d) \in Unit /\ Data(d).type = "DATA" /\ Data(d).data = d
BY DEF Frame, Data, Unit

(* A check that holds leaves the handler as it was.                         *)
LEMMA CheckHolds ==
  ASSUME NEW e, NEW what
  PROVE  Check(e, TRUE, what) = e
BY DEF Check

(* What the fields become when a handler closes.                            *)
LEMMA ClosingEnd ==
  ASSUME NEW e \in End
  PROVE  LET g == [e EXCEPT !.state = "CLOSED", !.chan = FALSE, !.out = << >>, !.buflo = FALSE]
         IN  /\ g \in End /\ g.state = "CLOSED" /\ ~g.chan /\ g.out = << >>
             /\ g.stream = e.stream /\ g.obs = e.obs /\ g.bad = e.bad /\ g.tx = e.tx
             /\ g.inner = e.inner /\ g.shutR = e.shutR /\ g.shutW = e.shutW
<1>1. << >> \in Seq(Unit) /\ "CLOSED" \in HandlerStates
  BY DEF HandlerStates
<1> QED BY <1>1 DEF End

(* The handlers' _close().                                                  *)
LEMMA CloseShuts ==
  ASSUME NEW s \in Sides, NEW e, Mode(s, e)
  PROVE  Shuts(e, Close(e))
<1>1. e \in End /\ e.bad = "no" /\ e.tx \in Seq(Unit) /\ e.inner \in Seq(Unit)
  BY DEF Mode, End
<1>2. CASE e.state = "CLOSED"
  <2>1. Close(e) = e
    BY <1>2 DEF Close
  <2>2. Ended(e)
    BY <1>2 DEF Mode, Waits, Opens, Forwards, Early, Opening, Sides
  <2> QED BY <1>1, <2>1, <2>2 DEF Shuts
<1>3. CASE e.state # "CLOSED"
  <2> DEFINE g == [e EXCEPT !.state = "CLOSED", !.chan = FALSE, !.out = << >>, !.buflo = FALSE]
             h == SetObserver(g, "none")
             k == [h EXCEPT !.tx = Append(@, Frame("RST")), !.stream = "gone"]
  <2>1. Waits(s, e) \/ Opens(s, e) \/ Forwards(e)
    BY <1>3 DEF Mode, Ended
  <2>2. Close(e) = IF e.buflo /\ e.stream # "none" THEN CloseStream(g) ELSE g
    BY <1>3 DEF Close
  <2>3. /\ g \in End /\ g.state = "CLOSED" /\ ~g.chan /\ g.out = << >> /\ g.stream = e.stream
        /\ g.obs = e.obs /\ g.bad = e.bad /\ g.inner = e.inner /\ g.shutR = e.shutR
        /\ g.shutW = e.shutW /\ g.tx = e.tx
    BY <1>1, ClosingEnd
  <2> HIDE DEF g
  <2>4. CloseStream(g) = IF Live(g) THEN k ELSE g
    BY DEF CloseStream
  <2>5. CASE Waits(s, e)
    <3>1. Close(e) = g /\ e.stream = "none" /\ e.obs = "none"
      BY <2>2, <2>5 DEF Waits
    <3> QED BY <2>3, <3>1 DEF Shuts, Ended
  <2>6. CASE Opens(s, e) \/ Forwards(e)
    <3>1. Live(g) /\ Close(e) = k
      BY <2>2, <2>3, <2>4, <2>6 DEF Live, Opens, Forwards, Unused
    <3>2. h = [g EXCEPT !.obs = "none"]
      BY <3>1 DEF SetObserver
    <3>3. /\ h \in End /\ h.obs = "none" /\ h.state = g.state /\ h.chan = g.chan /\ h.out = g.out
          /\ h.bad = g.bad /\ h.inner = g.inner /\ h.shutR = g.shutR /\ h.shutW = g.shutW
          /\ h.tx = g.tx
      BY <2>3, <3>2 DEF End
    <3> HIDE DEF h
    <3>4. Append(h.tx, Frame("RST")) \in Seq(Unit)
      <4>1. Frame("RST") \in Unit
        BY FrameUnit
      <4>2. h.tx \in Seq(Unit)
        BY <3>3 DEF End
      <4> QED BY <4>1, <4>2
    <3>5. /\ k \in End /\ k.obs = h.obs /\ k.state = h.state /\ k.chan = h.chan /\ k.out = h.out
          /\ k.bad = h.bad /\ k.inner = h.inner /\ k.shutR = h.shutR /\ k.shutW = h.shutW
          /\ k.tx = Append(h.tx, Frame("RST")) /\ k.stream = "gone"
      BY <3>3, <3>4 DEF End, StreamStates
    <3> HIDE DEF k
    <3>6. e.stream # "none"
      BY <2>6 DEF Opens, Forwards
    <3> QED BY <2>3, <3>1, <3>3, <3>5, <3>6 DEF Shuts, Ended
  <2> QED BY <2>1, <2>5, <2>6
<1> QED BY <1>2, <1>3

(* InnerOuterHandler is done: it tells its handler, which closes.           *)
LEMMA BeDoneShuts ==
  ASSUME NEW e, e.bad = "no", e \in End, Forwards(e)
  PROVE  Shuts(e, BeDone(e, FALSE))
<1>1. BeDone(e, FALSE) = Close(e)
  BY DEF BeDone, Forwards, Check
<1>2. Mode("csp", e) /\ "csp" \in Sides
  BY DEF Mode, Sides
<1> QED BY <1>1, <1>2, CloseShuts

(* The stream is closed under its observer, which is not called again.      *)
LEMMA LostShuts ==
  ASSUME NEW e \in End, NEW d \in {e, [e EXCEPT !.obs = "none"]}, e.state # "CLOSED"
  PROVE  LET k == [Close([d EXCEPT !.buflo = FALSE]) EXCEPT !.stream = "gone", !.obs = "none"]
         IN  Shuts(e, k) /\ k.tx = e.tx
<1> DEFINE f == [d EXCEPT !.buflo = FALSE]
           g == [f EXCEPT !.state = "CLOSED", !.chan = FALSE, !.out = << >>, !.buflo = FALSE]
           k == [g EXCEPT !.stream = "gone", !.obs = "none"]
<1>1. /\ d \in End /\ d.state = e.state /\ d.bad = e.bad /\ d.inner = e.inner
      /\ d.shutR = e.shutR /\ d.shutW = e.shutW /\ d.tx = e.tx
  BY DEF End
<1>2. /\ f \in End /\ f.state = e.state /\ f.bad = e.bad /\ f.inner = e.inner
      /\ f.shutR = e.shutR /\ f.shutW = e.shutW /\ f.tx = e.tx /\ f.buflo = FALSE
  BY <1>1 DEF End
<1>3. Close(f) = g
  BY <1>2 DEF Close
<1> HIDE DEF f
<1>4. /\ g \in End /\ g.state = "CLOSED" /\ ~g.chan /\ g.out = << >>
      /\ g.bad = e.bad /\ g.inner = e.inner /\ g.shutR = e.shutR /\ g.shutW = e.shutW
      /\ g.tx = e.tx
  BY <1>2, ClosingEnd
<1> HIDE DEF g
<1>5. /\ k \in End /\ k.state = "CLOSED" /\ ~k.chan /\ k.out = << >>
      /\ k.bad = e.bad /\ k.inner = e.inner /\ k.shutR = e.shutR /\ k.shutW = e.shutW
      /\ k.tx = e.tx /\ k.stream = "gone" /\ k.obs = "none"
  BY <1>4 DEF End, StreamStates
<1>6. k = [Close(f) EXCEPT !.stream = "gone", !.obs = "none"]
  BY <1>3
<1> HIDE DEF k
<1>7. Shuts(e, k) /\ k.tx = e.tx
  BY <1>5 DEF Shuts, Ended
<1> QED BY <1>6, <1>7 DEF f

(* onStreamClosed: the handler closes, with nothing more to send.           *)
LEMMA StreamClosedShuts ==
  ASSUME NEW s \in Sides, NEW e, Mode(s, e), Live(e)
  PROVE  Shuts(e, StreamClosed(e)) /\ StreamClosed(e).tx = e.tx
<1> DEFINE k(d) == [Close([d EXCEPT !.buflo = FALSE]) EXCEPT !.stream = "gone", !.obs = "none"]
           d1 == [e EXCEPT !.obs = "none"]
<1>1. e \in End /\ e.bad = "no" /\ (Opens(s, e) \/ Forwards(e))
  BY DEF Mode, Waits, Ended, Live
<1>2. e.state # "CLOSED"
  BY <1>1 DEF Opens, Forwards, Opening
<1>3. CASE Opens(s, e)
  <2>1. /\ e.obs = "handler"
        /\ Check(e, e.state \in {"CREATE_BUFLO_STREAM", "CONNECTING_TARGET"},
                 "closed_in_a_wrong_state") = e
    BY <1>3 DEF Opens, Opening, Check
  <2>2. StreamClosed(e) = k(e)
    BY <2>1 DEF StreamClosed
  <2> QED BY <1>1, <1>2, <2>2, LostShuts
<1>4. CASE Forwards(e)
  <2>1. SetObserver(e, "none") = d1
    BY DEF SetObserver
  <2>2. BeDone(e, TRUE) = Close(Check([SetObserver(e, "none") EXCEPT !.buflo = FALSE],
                                      e.state = "FORWARDING", "done_while_not_forwarding"))
    BY DEF BeDone
  <2>3. BeDone(e, TRUE) = Close([d1 EXCEPT !.buflo = FALSE])
    BY <1>4, <2>1, <2>2 DEF Check, Forwards
  <2>4. StreamClosed(e) = k(d1)
    BY <1>4, <2>3 DEF StreamClosed, Forwards
  <2> QED BY <1>1, <1>2, <2>4, LostShuts
<1> QED BY <1>1, <1>3, <1>4

(* f is e but for what it has passed on.                                    *)
SameHandler(e, f) ==
  /\ f.state = e.state /\ f.stream = e.stream /\ f.obs = e.obs /\ f.buflo = e.buflo
  /\ f.chan = e.chan /\ f.out = e.out /\ f.half = e.half /\ f.weof = e.weof
  /\ f.shutR = e.shutR /\ f.bad = e.bad

(* What a call of the data provider may do: nothing, send what there is, or *)
(* send it and end the direction; then the stream may be over.              *)
Passes(e, f) ==
  /\ f \in End
  /\ \/ SameHandler(e, f) /\ f.tx = e.tx /\ f.inner = e.inner /\ f.shutW = e.shutW
     \/ SameHandler(e, f) /\ f.tx = e.tx \o e.inner /\ f.inner = << >>
        /\ f.shutW = e.shutW /\ ~e.shutW
     \/ /\ SameHandler(e, f) \/ Ended(f)
        /\ f.bad = e.bad /\ f.shutR = e.shutR /\ (e.shutR => Ended(f))
        /\ f.tx = Append(e.tx \o e.inner, Frame("FIN")) /\ f.inner = << >>
        /\ f.shutW /\ ~e.shutW /\ e.weof

(* The data provider sends what is there, and the end after it.             *)
LEMMA PumpPasses ==
  ASSUME NEW e \in End, e.bad = "no", Forwards(e)
  PROVE  Passes(e, Pump(e))
<1> DEFINE a == [e EXCEPT !.tx = @ \o e.inner, !.inner = << >>]
           b == [a EXCEPT !.deferred = TRUE]
           c == [a EXCEPT !.tx = Append(@, Frame("FIN")), !.shutW = TRUE]
<1>1. /\ e.tx \in Seq(Unit) /\ e.inner \in Seq(Unit) /\ e.tx \o e.inner \in Seq(Unit)
      /\ Append(e.tx \o e.inner, Frame("FIN")) \in Seq(Unit)
  <2>1. Frame("FIN") \in Unit
    BY FrameUnit
  <2>2. e.tx \in Seq(Unit) /\ e.inner \in Seq(Unit)
    BY DEF End
  <2> QED BY <2>1, <2>2
<1>2. \/ Pump(e) = e
      \/ Pump(e) = b /\ ~e.weof /\ ~e.shutW
      \/ Pump(e) = (IF e.shutR THEN StreamClosed(c) ELSE c) /\ ~e.shutW /\ e.weof
  BY DEF Pump
<1>3. a \in End /\ SameHandler(e, a) /\ a.tx = e.tx \o e.inner /\ a.inner = << >> /\ a.shutW = e.shutW
  <2> DEFINE t == e.tx \o e.inner
  <2>1. t \in Seq(Unit) /\ << >> \in Seq(Unit)
    BY <1>1
  <2>2. a = [e EXCEPT !.tx = t, !.inner = << >>]
    OBVIOUS
  <2> HIDE DEF t, a
  <2>3. a \in End
    BY <2>1, <2>2 DEF End
  <2>4. a.tx = t /\ a.inner = << >> /\ a.shutW = e.shutW
    BY <2>2 DEF End
  <2>5. SameHandler(e, a)
    BY <2>2 DEF End, SameHandler
  <2> QED BY <2>3, <2>4, <2>5 DEF t
<1> HIDE DEF a
<1>4. b \in End /\ SameHandler(a, b) /\ b.tx = a.tx /\ b.inner = a.inner /\ b.shutW = a.shutW
  BY <1>3 DEF End, SameHandler
<1> HIDE DEF b
<1>5. /\ c \in End /\ SameHandler(a, c) /\ c.tx = Append(a.tx, Frame("FIN"))
      /\ c.inner = a.inner /\ c.shutW
  BY <1>1, <1>3 DEF End, SameHandler
<1> HIDE DEF c
<1>6. CASE Pump(e) = e
  BY <1>6 DEF Passes, SameHandler
<1>7. CASE Pump(e) = b /\ ~e.shutW
  BY <1>3, <1>4, <1>7 DEF Passes, SameHandler
<1>8. CASE Pump(e) = (IF e.shutR THEN StreamClosed(c) ELSE c) /\ ~e.shutW /\ e.weof
  <2>1. /\ SameHandler(e, c) /\ c.tx = Append(e.tx \o e.inner, Frame("FIN"))
        /\ c.inner = << >>
    BY <1>3, <1>5 DEF SameHandler
  <2>2. CASE ~e.shutR
    <3>1. Pump(e) = c /\ c.bad = e.bad /\ c.shutR = e.shutR
      BY <1>8, <2>1, <2>2 DEF SameHandler
    <3> QED BY <1>5, <1>8, <2>1, <2>2, <3>1 DEF Passes
  <2>3. CASE e.shutR
    <3>1. Mode("csp", c) /\ Live(c) /\ "csp" \in Sides
      BY <1>5, <2>1 DEF Mode, Forwards, SameHandler, Live, Sides
    <3>2. Shuts(c, StreamClosed(c)) /\ StreamClosed(c).tx = c.tx
      BY <3>1, StreamClosedShuts
    <3>3. Pump(e) = StreamClosed(c)
      BY <1>8, <2>3
    <3> QED BY <1>5, <1>8, <2>1, <3>2, <3>3 DEF Passes, Shuts, SameHandler
  <2> QED BY <2>2, <2>3
<1> QED BY <1>2, <1>6, <1>7, <1>8

(* write_buffer: what came in is held, then passed on.                      *)
LEMMA WriteBufferPasses ==
  ASSUME NEW e \in End, e.bad = "no", Forwards(e), NEW data \in Seq(Unit)
  PROVE  \E d \in End : /\ SameHandler(e, d) /\ d.tx = e.tx /\ d.inner = e.inner \o data
                        /\ d.shutW = e.shutW
                        /\ Passes(d, WriteBuffer(e, data))
<1> DEFINE d == [e EXCEPT !.inner = @ \o data, !.deferred = FALSE]
<1>1. e.inner \in Seq(Unit) /\ e.inner \o data \in Seq(Unit)
  BY DEF End
<1>2. WriteBuffer(e, data) = Pump(d)
  BY DEF WriteBuffer, Live, Forwards
<1>3. /\ d \in End /\ SameHandler(e, d) /\ d.tx = e.tx /\ d.inner = e.inner \o data
      /\ d.shutW = e.shutW
  BY <1>1 DEF End, SameHandler
<1> HIDE DEF d
<1>4. Passes(d, Pump(d))
  BY <1>3, PumpPasses DEF Forwards, SameHandler
<1> QED BY <1>2, <1>3, <1>4

(* set_write_eof: the end is noted, then passed on.                         *)
LEMMA SetWriteEofPasses ==
  ASSUME NEW e \in End, e.bad = "no", Forwards(e), ~e.weof
  PROVE  \E d \in End : /\ Forwards(d) /\ d.out = e.out /\ d.half = e.half /\ d.weof
                        /\ d.shutR = e.shutR /\ d.bad = e.bad
                        /\ d.tx = e.tx /\ d.inner = e.inner /\ d.shutW = e.shutW
                        /\ Passes(d, SetWriteEof(e))
<1> DEFINE d == [e EXCEPT !.weof = TRUE, !.deferred = FALSE]
<1>1. SetWriteEof(e) = Pump(d)
  BY DEF SetWriteEof, Live, Forwards, Check
<1>2. /\ d \in End /\ Forwards(d) /\ d.out = e.out /\ d.half = e.half /\ d.weof
      /\ d.shutR = e.shutR /\ d.bad = e.bad
      /\ d.tx = e.tx /\ d.inner = e.inner /\ d.shutW = e.shutW
  BY DEF End, Forwards
<1> HIDE DEF d
<1>3. Passes(d, Pump(d))
  BY <1>2, PumpPasses
<1> QED BY <1>1, <1>2, <1>3

(* The first call finds nothing to send.                                    *)
LEMMA FirstPump ==
  ASSUME NEW e \in End, e.inner = << >>, ~e.weof
  PROVE  /\ Pump(e) \in End /\ SameHandler(e, Pump(e)) /\ Pump(e).tx = e.tx
         /\ Pump(e).inner = << >> /\ Pump(e).shutW = e.shutW
<1> DEFINE a == [e EXCEPT !.tx = @ \o e.inner, !.inner = << >>]
           b == [a EXCEPT !.deferred = TRUE]
<1>1. Pump(e) = e \/ Pump(e) = b
  BY DEF Pump
<1>2. e.tx \in Seq(Unit) /\ e.tx \o e.inner = e.tx
  BY DEF End
<1>3. a \in End /\ SameHandler(e, a) /\ a.tx = e.tx /\ a.inner = << >> /\ a.shutW = e.shutW
  BY <1>2 DEF End, SameHandler
<1> HIDE DEF a
<1>4. b \in End /\ SameHandler(e, b) /\ b.tx = e.tx /\ b.inner = << >> /\ b.shutW = e.shutW
  BY <1>3 DEF End, SameHandler
<1> HIDE DEF b
<1>5. SameHandler(e, e)
  BY DEF SameHandler
<1> QED BY <1>1, <1>4, <1>5

(* create_stream asks for a stream, with the first frame on it.             *)
LEMMA CreateStreamOpens ==
  ASSUME NEW e \in End, Waits("csp", e), e.bad = "no"
  PROVE  LET f == [CreateStream(e) EXCEPT !.state = "CREATE_BUFLO_STREAM"]
         IN  /\ Mode("csp", f) /\ Opens("csp", f) /\ f.tx = << Frame("SYN_STREAM") >>
             /\ f.out = e.out
<1> DEFINE a == [e EXCEPT !.stream = "opening", !.obs = "handler", !.provider = TRUE,
                          !.tx = Append(@, Frame("SYN_STREAM"))]
           b == Pump(a)
           f == [b EXCEPT !.state = "CREATE_BUFLO_STREAM"]
<1>1. CreateStream(e) = b
  BY DEF CreateStream
<1>2. Append(e.tx, Frame("SYN_STREAM")) = << Frame("SYN_STREAM") >> /\ << Frame("SYN_STREAM") >> \in Seq(Unit)
  <2>1. Frame("SYN_STREAM") \in Unit
    BY FrameUnit
  <2> QED BY <2>1 DEF Waits
<1>3. /\ a \in End /\ a.stream = "opening" /\ a.obs = "handler" /\ a.chan = e.chan /\ a.out = e.out
      /\ a.tx = << Frame("SYN_STREAM") >> /\ Unused(a) /\ a.bad = "no"
  BY <1>2 DEF End, StreamStates, Waits, Unused
<1> HIDE DEF a
<1>4. b \in End /\ SameHandler(a, b) /\ b.tx = a.tx /\ b.inner = << >> /\ b.shutW = a.shutW
  BY <1>3, FirstPump DEF Unused
<1> HIDE DEF b
<1>5. /\ f \in End /\ f.state = "CREATE_BUFLO_STREAM" /\ f.stream = "opening" /\ f.obs = "handler"
      /\ f.chan = e.chan /\ f.out = e.out /\ f.tx = << Frame("SYN_STREAM") >> /\ Unused(f) /\ f.bad = "no"
  <2>1. f \in End
    BY <1>4 DEF End, HandlerStates
  <2>2. /\ f.state = "CREATE_BUFLO_STREAM" /\ f.stream = b.stream /\ f.obs = b.obs
        /\ f.chan = b.chan /\ f.out = b.out /\ f.tx = b.tx /\ f.bad = b.bad
        /\ f.half = b.half /\ f.shutR = b.shutR /\ f.shutW = b.shutW /\ f.weof = b.weof
        /\ f.inner = b.inner /\ f.buflo = b.buflo
    BY <1>4 DEF End
  <2> HIDE DEF f
  <2> QED BY <1>3, <1>4, <2>1, <2>2 DEF SameHandler, Unused
<1> HIDE DEF f
<1>6. Opens("csp", f)
  BY <1>5 DEF Opens, Opening, Waits
<1> QED BY <1>1, <1>5, <1>6 DEF Mode, f

(* A handler takes the stream over.                                         *)
LEMMA HandOffForwards ==
  ASSUME NEW e \in End, e.stream = "open", e.buflo, e.chan
  PROVE  LET f == HandOff(e)
         IN  /\ f \in End /\ Forwards(f) /\ f.bad = e.bad /\ f.out = e.out /\ f.tx = e.tx
             /\ f.inner = e.inner /\ f.half = e.half /\ f.weof = e.weof
             /\ f.shutR = e.shutR /\ f.shutW = e.shutW
<1> DEFINE a == [e EXCEPT !.state = "FORWARDING"]
           f == [a EXCEPT !.obs = "ioh"]
<1>1. /\ a \in End /\ a.state = "FORWARDING" /\ a.stream = "open" /\ a.buflo /\ a.chan
      /\ a.bad = e.bad /\ a.out = e.out /\ a.tx = e.tx
      /\ a.inner = e.inner /\ a.half = e.half /\ a.weof = e.weof
      /\ a.shutR = e.shutR /\ a.shutW = e.shutW
  BY DEF End, HandlerStates
<1>2. HandOff(e) = SetObserver(a, "ioh")
  BY DEF HandOff
<1> HIDE DEF a
<1>3. HandOff(e) = f
  BY <1>1, <1>2 DEF SetObserver, Live
<1>4. /\ f \in End /\ Forwards(f) /\ f.bad = a.bad /\ f.out = a.out /\ f.tx = a.tx
      /\ f.inner = a.inner /\ f.half = a.half /\ f.weof = a.weof
      /\ f.shutR = a.shutR /\ f.shutW = a.shutW
  BY <1>1 DEF End, Forwards
<1> HIDE DEF f
<1> QED BY <1>1, <1>3, <1>4

(* set_as_server_connected answers, and the forwarding begins.              *)
LEMMA ConnectedForwards ==
  ASSUME NEW e \in End, Opens("ssp", e), e.bad = "no"
  PROVE  LET f == HandOff(SetStreamConnected(e))
         IN  /\ f \in End /\ Forwards(f) /\ f.bad = "no" /\ f.out = e.out
             /\ f.tx = Append(e.tx, Frame("SYN_REPLY")) /\ Unused(f)
<1> DEFINE a == [e EXCEPT !.stream = "open", !.provider = TRUE,
                          !.tx = Append(@, Frame("SYN_REPLY"))]
           b == Pump(a)
<1>1. SetStreamConnected(e) = b
  BY DEF SetStreamConnected
<1>2. Append(e.tx, Frame("SYN_REPLY")) \in Seq(Unit)
  <2>1. Frame("SYN_REPLY") \in Unit
    BY FrameUnit
  <2>2. e.tx \in Seq(Unit)
    BY DEF End
  <2> QED BY <2>1, <2>2
<1>3. /\ a \in End /\ a.stream = "open" /\ a.chan /\ a.out = e.out
      /\ a.tx = Append(e.tx, Frame("SYN_REPLY")) /\ Unused(a) /\ a.bad = "no"
  BY <1>2 DEF End, StreamStates, Opens, Unused
<1> HIDE DEF a
<1>4. b \in End /\ SameHandler(a, b) /\ b.tx = a.tx /\ b.inner = << >> /\ b.shutW = a.shutW
  BY <1>3, FirstPump DEF Unused
<1> HIDE DEF b
<1>5. b.stream = "open" /\ b.buflo /\ b.chan /\ Unused(b) /\ b.bad = "no" /\ b.out = e.out
  BY <1>3, <1>4 DEF SameHandler, Unused
<1> DEFINE f == HandOff(b)
<1>6. /\ f \in End /\ Forwards(f) /\ f.bad = b.bad /\ f.out = b.out /\ f.tx = b.tx
      /\ f.inner = b.inner /\ f.half = b.half /\ f.weof = b.weof
      /\ f.shutR = b.shutR /\ f.shutW = b.shutW
  BY <1>4, <1>5, HandOffForwards
<1> HIDE DEF f
<1>7. Unused(f)
  BY <1>5, <1>6 DEF Unused, Forwards
<1> QED BY <1>1, <1>3, <1>4, <1>5, <1>6, <1>7 DEF f

(* What f has sent that e had not: data and an end only while forwarding,   *)
(* one end, nothing after it, and a reset only when it closes.              *)
Sent(e, f, x) ==
  /\ x \in Seq(Unit) /\ f.tx = e.tx \o x
  /\ e.stream = "none" => x = << >>
  /\ \A i \in DOMAIN x :
       /\ x[i].type \in {"DATA", "FIN", "RST"}
       /\ x[i].type \in {"DATA", "FIN"} => e.state = "FORWARDING" /\ ~e.shutW
       /\ x[i].type = "FIN" => f.shutW
       /\ x[i].type = "RST" => f.state = "CLOSED"
  /\ \A i, j \in DOMAIN x : x[i].type = "FIN" /\ x[j].type = "FIN" => i = j
  /\ \A i, j \in DOMAIN x : i < j => x[i].type # "FIN"

Sends(e, f) ==
  /\ f.shutR = e.shutR /\ (e.shutW => f.shutW)
  /\ \E x \in Seq(Unit) : Sent(e, f, x)

(* The data units of e and of the new data are sent or kept, in order.      *)
PassesOn(e, data, f) ==
  \A o, t, i \in Nat : Run(e.tx, o, t) /\ Run(e.inner \o data, t, i) =>
    \E m \in t..i : Run(f.tx, o, m) /\ (f.state # "CLOSED" => Run(f.inner, m, i))

(* What the handler does with new data, with the end or an error of its     *)
(* socket, and when its output is written.                                  *)
Works(s, e, data, f) ==
  /\ Mode(s, f) /\ RelayHalves(f) /\ DataOnly(f.inner)
  /\ f.state \in {e.state, "CLOSED"}
  /\ f.state # "CLOSED" => f.out = e.out
  /\ Sends(e, f) /\ PassesOn(e, data, f)

(* Who ends the direction has nothing left to send.                         *)
EndsEmpty(e, f) == Forwards(f) /\ f.shutW /\ ~e.shutW => f.inner = << >>

(* Adding one is adding a list of one.                                      *)
LEMMA AppendConcat ==
  ASSUME NEW a \in Seq(Unit), NEW b \in Seq(Unit), NEW u \in Unit
  PROVE  /\ Append(a \o b, u) = a \o Append(b, u)
         /\ Append(a, u) = a \o << u >> /\ a \o << >> = a
<1>1. << u >> \in Seq(Unit)
  OBVIOUS
<1>2. Append(a \o b, u) = (a \o b) \o << u >> /\ Append(b, u) = b \o << u >>
  OBVIOUS
<1>3. (a \o b) \o << u >> = a \o (b \o << u >>)
  BY <1>1, ConcatAssociative
<1> QED BY <1>2, <1>3

(* A run goes up.                                                           *)
LEMMA RunUp ==
  ASSUME NEW q, NEW l, NEW h, Run(q, l, h)
  PROVE  l <= h
BY DEF Run

(* Closing is one way to work on the input.                                 *)
LEMMA ShutsWorks ==
  ASSUME NEW s \in Sides, NEW e \in End, e.bad = "no", NEW f, Shuts(e, f), DataOnly(e.inner),
         NEW data \in Seq(Unit)
  PROVE  Works(s, e, data, f)
<1>1. Mode(s, f) /\ RelayHalves(f) /\ DataOnly(f.inner) /\ f.state = "CLOSED"
  BY DEF Shuts, Mode, RelayHalves, Ended, Forwards
<1>2. Sends(e, f)
  <2>1. CASE f.tx = e.tx
    <3>1. << >> \in Seq(Unit) /\ e.tx \o << >> = e.tx
      BY DEF End
    <3>2. Sent(e, f, << >>)
      BY <2>1, <3>1 DEF Sent
    <3> QED BY <3>1, <3>2 DEF Sends, Shuts
  <2>2. CASE f.tx = Append(e.tx, Frame("RST")) /\ e.stream # "none"
    <3> DEFINE u == Frame("RST")
    <3>1. u \in Unit /\ u.type = "RST"
      BY FrameUnit
    <3> HIDE DEF u
    <3>2. << u >> \in Seq(Unit) /\ e.tx \o << u >> = Append(e.tx, u)
      BY <3>1 DEF End
    <3>3. DOMAIN << u >> = {1} /\ << u >>[1].type = "RST"
      BY <3>1
    <3>5. \A i \in DOMAIN << u >> : << u >>[i].type = "RST"
      BY <3>3
    <3>4. Sent(e, f, << u >>)
      BY <1>1, <2>2, <3>2, <3>5 DEF Sent, u
    <3> QED BY <3>2, <3>4 DEF Sends, Shuts
  <2> QED BY <2>1, <2>2 DEF Shuts
<1>3. PassesOn(e, data, f)
  <2> SUFFICES ASSUME NEW o \in Nat, NEW t \in Nat, NEW i \in Nat,
                      Run(e.tx, o, t), Run(e.inner \o data, t, i)
               PROVE  t \in t..i /\ Run(f.tx, o, t)
    BY <1>1 DEF PassesOn
  <2>1. t <= i
    BY RunUp
  <2>2. Run(Append(e.tx, Frame("RST")), o, t)
    <3>1. e.tx \in Seq(Unit) /\ Frame("RST") \in Unit /\ Frame("RST").type # "DATA"
      BY FrameUnit DEF End
    <3> QED BY <3>1, RunSkip
  <2>3. t \in t..i
    BY <2>1
  <2>4. Run(f.tx, o, t)
    BY <2>2 DEF Shuts
  <2> QED BY <2>3, <2>4
<1> QED BY <1>1, <1>2, <1>3 DEF Works

(* And passing it on is the other.                                          *)
LEMMA PassesWorks ==
  ASSUME NEW s \in Sides, NEW e \in End, e.bad = "no", Forwards(e), NEW data \in Seq(Unit),
         DataOnly(e.inner), DataOnly(data), RelayHalves(e),
         NEW d \in End, Forwards(d), d.out = e.out, d.half = e.half, d.shutR = e.shutR,
         d.bad = e.bad, d.tx = e.tx, d.inner = e.inner \o data, d.shutW = e.shutW,
         e.weof => d.weof,
         NEW f, Passes(d, f)
  PROVE  /\ Works(s, e, data, f)
         /\ Forwards(f) => f.weof = d.weof
         /\ EndsEmpty(e, f)
<1>1. /\ e.tx \in Seq(Unit) /\ e.inner \in Seq(Unit) /\ d.inner \in Seq(Unit)
      /\ d.inner = e.inner \o data
  BY DEF End
<1>2. DataOnly(d.inner)
  BY <1>1 DEF DataOnly
<1>3. Frame("FIN") \in Unit /\ Frame("FIN").type = "FIN"
  BY FrameUnit
<1> DEFINE g == d.inner
           u == Frame("FIN")
           x == Append(g, u)
<1> HIDE DEF g, u
<1>4. g \in Seq(Unit) /\ u \in Unit /\ u.type = "FIN" /\ DataOnly(g) /\ g = e.inner \o data
  BY <1>1, <1>2, <1>3 DEF g, u
<1>5. /\ x \in Seq(Unit) /\ Append(e.tx \o g, u) = e.tx \o x
      /\ DOMAIN x = 1..(Len(g) + 1) /\ x[Len(g) + 1] = u /\ \A i \in 1..Len(g) : x[i] = g[i] /\ g[i].type = "DATA"
  <2>1. x \in Seq(Unit)
    BY <1>4
  <2>5. Append(e.tx \o g, u) = e.tx \o x
    BY <1>1, <1>4, AppendConcat
  <2>2. Len(g) \in Nat /\ DOMAIN g = 1..Len(g) /\ DOMAIN x = 1..(Len(g) + 1) /\ x[Len(g) + 1] = u
    BY <1>4
  <2>3. \A i \in 1..Len(g) : x[i] = g[i]
    BY <1>4
  <2>4. \A i \in 1..Len(g) : g[i].type = "DATA"
    BY <1>4, <2>2 DEF DataOnly
  <2> QED BY <2>1, <2>2, <2>3, <2>4, <2>5
<1> HIDE DEF x
<1>6. EndsEmpty(e, f)
  BY DEF Passes, EndsEmpty
<1>7. CASE SameHandler(d, f) /\ f.tx = d.tx /\ f.inner = d.inner /\ f.shutW = d.shutW
  <2>1. Mode(s, f) /\ RelayHalves(f) /\ DataOnly(f.inner) /\ f.state = e.state /\ f.out = e.out
    BY <1>2, <1>7 DEF Passes, Mode, Forwards, SameHandler, RelayHalves
  <2>2. Sends(e, f)
    <3>1. << >> \in Seq(Unit) /\ e.tx \o << >> = e.tx
      BY <1>1
    <3>2. Sent(e, f, << >>)
      BY <1>7, <3>1 DEF Sent
    <3> QED BY <1>7, <3>1, <3>2 DEF Sends, SameHandler
  <2>3. PassesOn(e, data, f)
    <3> SUFFICES ASSUME NEW o \in Nat, NEW t \in Nat, NEW i \in Nat,
                        Run(e.tx, o, t), Run(e.inner \o data, t, i)
                 PROVE  t \in t..i /\ Run(f.tx, o, t) /\ Run(f.inner, t, i)
      BY DEF PassesOn
    <3> QED BY <1>7, RunUp
  <2> QED BY <1>7, <1>6, <2>1, <2>2, <2>3 DEF Works, SameHandler
<1>8. CASE SameHandler(d, f) /\ f.tx = d.tx \o d.inner /\ f.inner = << >> /\ f.shutW = d.shutW
           /\ ~d.shutW
  <2>1. Mode(s, f) /\ RelayHalves(f) /\ DataOnly(f.inner) /\ f.state = e.state /\ f.out = e.out
    BY <1>2, <1>8 DEF Passes, Mode, Forwards, SameHandler, RelayHalves, DataOnly
  <2>2. Sends(e, f)
    <3>1. \A i \in DOMAIN g : g[i].type = "DATA"
      BY <1>4 DEF DataOnly
    <3>2. f.tx = e.tx \o g /\ e.state = "FORWARDING" /\ e.stream # "none" /\ ~e.shutW
      BY <1>8 DEF Forwards, g
    <3>3. Sent(e, f, g)
      BY <1>4, <3>1, <3>2 DEF Sent
    <3> QED BY <1>4, <1>8, <3>3 DEF Sends, SameHandler
  <2>3. PassesOn(e, data, f)
    <3> SUFFICES ASSUME NEW o \in Nat, NEW t \in Nat, NEW i \in Nat,
                        Run(e.tx, o, t), Run(e.inner \o data, t, i)
                 PROVE  i \in t..i /\ Run(f.tx, o, i) /\ Run(f.inner, i, i)
      BY DEF PassesOn
    <3>1. t <= i
      BY RunUp
    <3>2. Run(e.tx \o g, o, i)
      BY <1>1, <1>4, RunConcat
    <3>3. Run(<< >>, i, i)
      BY RunEmpty
    <3> QED BY <1>8, <3>1, <3>2, <3>3 DEF g
  <2> QED BY <1>8, <1>6, <2>1, <2>2, <2>3 DEF Works, SameHandler
<1>9. CASE /\ SameHandler(d, f) \/ Ended(f)
           /\ f.bad = d.bad /\ f.shutR = d.shutR /\ (d.shutR => Ended(f))
           /\ f.tx = Append(d.tx \o d.inner, Frame("FIN")) /\ f.inner = << >>
           /\ f.shutW /\ ~d.shutW /\ d.weof
  <2>1. f \in End /\ f.bad = "no" /\ DataOnly(f.inner) /\ (SameHandler(d, f) \/ Ended(f))
    BY <1>9 DEF Passes, DataOnly
  <2>2. Mode(s, f) /\ RelayHalves(f) /\ f.state \in {e.state, "CLOSED"} /\ (f.state # "CLOSED" => f.out = e.out)
    <3>1. CASE Ended(f)
      BY <2>1, <3>1 DEF Mode, RelayHalves, Ended, Forwards
    <3>2. CASE SameHandler(d, f) /\ ~Ended(f)
      <4>1. Forwards(f) /\ ~d.shutR
        BY <1>9, <3>2 DEF SameHandler, Forwards
      <4> QED BY <1>9, <2>1, <3>2, <4>1 DEF Mode, RelayHalves, Forwards, SameHandler
    <3> QED BY <2>1, <3>1, <3>2
  <2>3. f.tx = e.tx \o x
    BY <1>5, <1>9 DEF g, u
  <2>4. Sends(e, f)
    <3>1. \A i \in DOMAIN x : i \in 1..Len(g) \/ i = Len(g) + 1
      BY <1>4, <1>5
    <3>2. \A i \in DOMAIN x : x[i].type \in {"DATA", "FIN"} /\ (x[i].type = "FIN" => i = Len(g) + 1)
      BY SMTT(20), <1>4, <1>5, <3>1
    <3>4. x \in Seq(Unit) /\ e.stream # "none" /\ e.state = "FORWARDING" /\ ~e.shutW /\ f.shutW
      BY <1>5, <1>9 DEF Forwards
    <3>5. \A i, j \in DOMAIN x : x[i].type = "FIN" /\ x[j].type = "FIN" => i = j
      BY <3>2
    <3>6. \A i, j \in DOMAIN x : i < j => x[i].type # "FIN"
      BY <1>4, <1>5, <3>1, <3>2
    <3>3. Sent(e, f, x)
      BY <2>3, <3>2, <3>4, <3>5, <3>6 DEF Sent
    <3> QED BY <1>5, <1>9, <3>3 DEF Sends
  <2>5. PassesOn(e, data, f)
    <3> SUFFICES ASSUME NEW o \in Nat, NEW t \in Nat, NEW i \in Nat,
                        Run(e.tx, o, t), Run(e.inner \o data, t, i)
                 PROVE  i \in t..i /\ Run(f.tx, o, i) /\ Run(f.inner, i, i)
      BY DEF PassesOn
    <3>1. t <= i
      BY RunUp
    <3>2. Run(e.tx \o g, o, i)
      BY <1>1, <1>4, RunConcat
    <3>3. Run(<< >>, i, i)
      BY RunEmpty
    <3>4. e.tx \o g \in Seq(Unit) /\ u.type # "DATA"
      BY <1>1, <1>4
    <3>5. Run(Append(e.tx \o g, u), o, i)
      BY <1>4, <3>2, <3>4, RunSkip
    <3> QED BY <1>9, <3>1, <3>3, <3>5 DEF g, u
  <2>6. Forwards(f) => f.weof = d.weof
    BY <2>1 DEF Forwards, Ended, SameHandler
  <2> QED BY <1>6, <2>1, <2>2, <2>4, <2>5, <2>6 DEF Works
<1> QED BY <1>7, <1>8, <1>9 DEF Passes

-----------------------------------------------------------------------------
(* The inductive invariant.                                                 *)
Begun(e) == e.state \in {"FORWARDING", "CLOSED"}

(* One side by itself.                                                      *)
Fits(s, e) == Mode(s, e) /\ RelayHalves(e) /\ DataOnly(e.inner)

(* What is on its way from the client side c to the server side p, and      *)
(* what that says of p: the stream's opening is its first frame, and data   *)
(* comes only to a handler that forwards or has ended.                      *)
ToSsp(c, p) ==
  /\ \A i \in DOMAIN c.tx :
       /\ c.tx[i].type \in {"SYN_STREAM", "DATA", "FIN", "RST"}
       /\ c.tx[i].type = "SYN_STREAM" => i = 1 /\ p.state = "NONE"
       /\ c.tx[i].type \in {"DATA", "FIN"} => Begun(p)
  /\ c.state = "FORWARDING" => Begun(p)
  /\ c.state \in Early("csp") => p.state = "NONE"

(* The other way: the reply is first, and nothing is before it.             *)
ToCsp(p, c) ==
  /\ \A i \in DOMAIN p.tx :
       /\ p.tx[i].type \in {"SYN_REPLY", "DATA", "FIN", "RST"}
       /\ p.tx[i].type = "SYN_REPLY" =>
            i = 1 /\ c.state \in {"CREATE_BUFLO_STREAM", "CLOSED"} /\ Begun(p)
       /\ p.tx[i].type \in {"DATA", "FIN"} /\ c.state = "CREATE_BUFLO_STREAM" =>
            p.tx[1].type = "SYN_REPLY"
  /\ p.state = "CONNECTING_TARGET" => p.tx = << >>
  /\ p.state = "FORWARDING" /\ c.state = "CREATE_BUFLO_STREAM" =>
       p.tx # << >> /\ p.tx[1].type = "SYN_REPLY"

Lacks(q, t) == \A i \in DOMAIN q : q[i].type # t

(* A direction ends once: from e to f.                                      *)
OneEnd(e, f) ==
  /\ \A i, j \in DOMAIN e.tx : e.tx[i].type = "FIN" /\ e.tx[j].type = "FIN" => i = j
  /\ \A i \in DOMAIN e.tx : e.tx[i].type = "FIN" =>
       e.shutW /\ (f.state = "FORWARDING" => ~f.shutR)
  /\ f.state = "FORWARDING" /\ f.shutR => e.shutW /\ Lacks(e.tx, "DATA")
  /\ \A i, j \in DOMAIN e.tx : i < j /\ e.tx[i].type = "FIN" => e.tx[j].type # "DATA"
  /\ \A i \in DOMAIN e.tx : e.tx[i].type = "RST" => e.state = "CLOSED"

InStep(c, p) == ToSsp(c, p) /\ ToCsp(p, c) /\ OneEnd(c, p) /\ OneEnd(p, c)

(* The same seen from side s.                                               *)
InStepAt(s, e, f) == IF s = "csp" THEN InStep(e, f) ELSE InStep(f, e)

(* Where a client is in its conversation with the handler.                  *)
ClientTalk(e, o) ==
  /\ ~Begun(e) => Lacks(o.got, "granted") /\ Lacks(e.out, "granted") /\ o.sent = 0
  /\ e.state = "READ_SOCKS5_GREETING" =>
       /\ o.got = << >> /\ e.out = << >> /\ o.asked # "granted"
       /\ o.asked = "nothing" => o.sin = << >>
  /\ e.state = "READ_SOCKS5_CONNECT_REQ" =>
       /\ o.asked # "nothing"
       /\ o.asked = "hello" => o.sin = << >>
  /\ e.state = "CREATE_BUFLO_STREAM" => o.asked = "granted" /\ o.sin = << >>
  /\ e.state = "FORWARDING" => o.asked = "granted" /\ DataOnly(o.sin)

TargetTalk(e, o) ==
  /\ DataOnly(o.sin)
  /\ ~Begun(e) => o.sin = << >> /\ o.over = "no" /\ o.sent = 0

Talk(s, e, o) == IF s = "csp" THEN ClientTalk(e, o) ELSE TargetTalk(e, o)

(* The end of the input is passed on after it was reported, and when all of *)
(* the input has been.                                                      *)
Told(e, o) ==
  /\ o.told => o.over # "no"
  /\ e.state = "FORWARDING" /\ e.weof => o.told /\ o.over = "eof" /\ o.sin = << >>
  /\ e.state = "FORWARDING" /\ e.shutW => e.inner = << >>

(* A sender has, from unit l on: on the way, in its buffer, in its socket.  *)
Supplies(o, e, l) ==
  \E t, i, h \in Nat :
    /\ Run(e.tx, l, t) /\ t <= o.sent
    /\ e.state # "CLOSED" =>
         /\ Run(e.inner, t, i) /\ Run(o.sin, i, h) /\ h <= o.sent
         /\ o.over # "error" => h = o.sent

(* The way from the sender (o, e) to the receiver (f, p).                   *)
Flow(o, e, f, p, gone) ==
  \E g \in Nat :
    /\ Run(p.got, 0, g) /\ g <= o.sent
    /\ f.state # "CLOSED" =>
         \E l \in Nat : /\ l <= o.sent
                        /\ p.over = "no" => Run(f.out, g, l)
                        /\ ~gone => Supplies(o, e, l)

(* What holds of side s: of its end e and its program o, with the other     *)
(* side's end f and program p.                                              *)
SideInv(s, e, o, f, p, gone) ==
  /\ o \in Outer /\ Fits(s, e) /\ Talk(s, e, o) /\ Told(e, o)
  /\ ~gone => InStepAt(s, e, f)
  /\ Flow(o, e, f, p, gone) /\ Flow(p, f, e, o, gone)

RelayIInv ==
  /\ RelayTypeOK
  /\ \A s \in Sides :
       SideInv(s, end[s], outer[s], end[Peer(s)], outer[Peer(s)], broken)

(* There are two sides.                                                     *)
LEMMA BothSides ==
  /\ Sides = {"csp", "ssp"}
  /\ \A s \in Sides : Peer(s) \in Sides /\ Peer(Peer(s)) = s /\ Peer(s) # s
  /\ \A s \in Sides : s = "csp" <=> Peer(s) # "csp"
BY DEF Sides, Peer

(* Being in step does not depend on the side it is seen from.               *)
LEMMA InStepSame ==
  ASSUME NEW s \in Sides, NEW e, NEW f
  PROVE  InStepAt(s, e, f) <=> InStepAt(Peer(s), f, e)
BY DEF InStepAt, Sides, Peer

(* A side sends something and stays as it is, or closes.                    *)
LEMMA SendingInStep ==
  ASSUME NEW s \in Sides, NEW e \in End, NEW f \in End, NEW g \in End,
         InStepAt(s, e, g), Sends(e, f), f.state \in {e.state, "CLOSED"}, e.state # "NONE"
  PROVE  InStepAt(s, f, g)
<1>1. PICK x \in Seq(Unit) : Sent(e, f, x)
  BY DEF Sends
<1>2. e.tx \in Seq(Unit) /\ f.tx = e.tx \o x /\ f.tx \in Seq(Unit)
  BY <1>1 DEF Sent, End
<1>3. /\ \A i \in DOMAIN f.tx :
           \/ i \in DOMAIN e.tx /\ f.tx[i] = e.tx[i]
           \/ \E j \in DOMAIN x : i = Len(e.tx) + j /\ f.tx[i] = x[j]
      /\ \A i \in DOMAIN e.tx : i \in DOMAIN f.tx /\ f.tx[i] = e.tx[i]
      /\ e.tx # << >> => 1 \in DOMAIN e.tx
      /\ Len(e.tx) \in Nat /\ DOMAIN e.tx = 1..Len(e.tx) /\ \A j \in DOMAIN x : j \in Nat /\ j >= 1
  <2>1. /\ Len(e.tx) \in Nat /\ Len(x) \in Nat /\ DOMAIN e.tx = 1..Len(e.tx) /\ DOMAIN x = 1..Len(x)
        /\ DOMAIN f.tx = 1..(Len(e.tx) + Len(x))
        /\ \A i \in 1..Len(e.tx) : f.tx[i] = e.tx[i]
        /\ \A i \in 1..Len(x) : f.tx[Len(e.tx) + i] = x[i]
    BY <1>2
  <2>2. ASSUME NEW i \in DOMAIN f.tx, ~(i \in DOMAIN e.tx)
        PROVE  \E j \in DOMAIN x : i = Len(e.tx) + j /\ f.tx[i] = x[j]
    <3> DEFINE j == i - Len(e.tx)
    <3>3. i \in 1..(Len(e.tx) + Len(x)) /\ ~(i \in 1..Len(e.tx))
      BY <2>1, <2>2
    <3>1. j \in 1..Len(x) /\ i = Len(e.tx) + j
      <4> DEFINE a == Len(e.tx)
                 b == Len(x)
      <4>1. a \in Nat /\ b \in Nat /\ i \in 1..(a + b) /\ ~(i \in 1..a)
        BY <2>1, <3>3
      <4> HIDE DEF a, b
      <4>2. i - a \in 1..b /\ i = a + (i - a)
        BY <4>1
      <4> QED BY <4>2 DEF a, b
    <3> HIDE DEF j
    <3>2. f.tx[i] = x[j]
      BY <2>1, <3>1
    <3> QED BY <2>1, <3>1, <3>2
  <2>3. e.tx # << >> => 1 \in DOMAIN e.tx
    <3>1. e.tx # << >> => Len(e.tx) # 0
      BY <1>2
    <3> QED BY <2>1, <3>1
  <2> QED BY <2>1, <2>2, <2>3
<1>4. OneEnd(e, g) => OneEnd(f, g)
  <2> SUFFICES ASSUME OneEnd(e, g)
               PROVE  OneEnd(f, g)
    OBVIOUS
  <2>1. \A i, j \in DOMAIN f.tx : f.tx[i].type = "FIN" /\ f.tx[j].type = "FIN" => i = j
    <3> SUFFICES ASSUME NEW i \in DOMAIN f.tx, NEW j \in DOMAIN f.tx,
                        f.tx[i].type = "FIN", f.tx[j].type = "FIN"
                 PROVE  i = j
      OBVIOUS
    <3>1. (\E k \in DOMAIN x : x[k].type = "FIN") => ~(\E k \in DOMAIN e.tx : e.tx[k].type = "FIN")
      BY <1>1 DEF OneEnd, Sent
    <3>2. CASE i \in DOMAIN e.tx /\ f.tx[i] = e.tx[i]
      <4>1. j \in DOMAIN e.tx /\ f.tx[j] = e.tx[j]
        BY <1>3, <3>1, <3>2
      <4> QED BY <3>2, <4>1 DEF OneEnd
    <3>3. CASE \E k \in DOMAIN x : i = Len(e.tx) + k /\ f.tx[i] = x[k]
      <4>1. PICK k \in DOMAIN x : i = Len(e.tx) + k /\ f.tx[i] = x[k]
        BY <3>3
      <4>2. PICK m \in DOMAIN x : j = Len(e.tx) + m /\ f.tx[j] = x[m]
        BY <1>3, <3>1, <4>1
      <4>3. k = m
        BY <1>1, <4>1, <4>2 DEF Sent
      <4> QED BY <4>1, <4>2, <4>3
    <3> QED BY <1>3, <3>2, <3>3
  <2>2. \A i \in DOMAIN f.tx : f.tx[i].type = "FIN" =>
          f.shutW /\ (g.state = "FORWARDING" => ~g.shutR)
    BY <1>1, <1>3 DEF OneEnd, Sent, Sends
  <2>3. g.state = "FORWARDING" /\ g.shutR => f.shutW /\ Lacks(f.tx, "DATA")
    <3> SUFFICES ASSUME g.state = "FORWARDING", g.shutR
                 PROVE  f.shutW /\ Lacks(f.tx, "DATA")
      OBVIOUS
    <3>1. e.shutW /\ f.shutW /\ Lacks(e.tx, "DATA")
      BY DEF OneEnd, Sends
    <3>2. Lacks(x, "DATA")
      BY <1>1, <3>1 DEF Sent, Lacks
    <3> QED BY <1>3, <3>1, <3>2 DEF Lacks
  <2>4. ASSUME NEW i \in DOMAIN f.tx, NEW j \in DOMAIN f.tx, i < j, f.tx[i].type = "FIN"
        PROVE  f.tx[j].type # "DATA"
    <3>1. CASE i \in DOMAIN e.tx /\ f.tx[i] = e.tx[i]
      <4>1. e.shutW
        BY <2>4, <3>1 DEF OneEnd
      <4>2. CASE j \in DOMAIN e.tx /\ f.tx[j] = e.tx[j]
        BY <2>4, <3>1, <4>2 DEF OneEnd
      <4>3. CASE \E k \in DOMAIN x : j = Len(e.tx) + k /\ f.tx[j] = x[k]
        BY <1>1, <4>1, <4>3 DEF Sent
      <4> QED BY <1>3, <4>2, <4>3
    <3>2. CASE \E k \in DOMAIN x : i = Len(e.tx) + k /\ f.tx[i] = x[k]
      <4>1. PICK k \in DOMAIN x : i = Len(e.tx) + k /\ f.tx[i] = x[k]
        BY <3>2
      <4>2. ~(j \in DOMAIN e.tx)
        BY <1>3, <2>4, <4>1
      <4>3. PICK m \in DOMAIN x : j = Len(e.tx) + m /\ f.tx[j] = x[m]
        BY <1>3, <4>2
      <4>4. k < m
        BY <1>3, <2>4, <4>1, <4>3
      <4> QED BY <1>1, <2>4, <4>1, <4>3, <4>4 DEF Sent
    <3> QED BY <1>3, <3>1, <3>2
  <2>5. ASSUME NEW i \in DOMAIN f.tx, f.tx[i].type = "RST"
        PROVE  f.state = "CLOSED"
    <3>1. CASE i \in DOMAIN e.tx /\ f.tx[i] = e.tx[i]
      BY <2>5, <3>1 DEF OneEnd
    <3>2. CASE \E k \in DOMAIN x : i = Len(e.tx) + k /\ f.tx[i] = x[k]
      BY <1>1, <2>5, <3>2 DEF Sent
    <3> QED BY <1>3, <3>1, <3>2
  <2> QED BY <2>1, <2>2, <2>3, <2>4, <2>5 DEF OneEnd
<1>5. OneEnd(g, e) => OneEnd(g, f)
  BY DEF OneEnd, Sends
<1>6. CASE s = "csp"
  <2>1. ToSsp(e, g) /\ ToCsp(g, e) /\ OneEnd(e, g) /\ OneEnd(g, e)
    BY <1>6 DEF InStepAt, InStep
  <2>2. ToSsp(f, g)
    <3>1. \A i \in DOMAIN f.tx :
            /\ f.tx[i].type \in {"SYN_STREAM", "DATA", "FIN", "RST"}
            /\ f.tx[i].type = "SYN_STREAM" => i = 1 /\ g.state = "NONE"
            /\ f.tx[i].type \in {"DATA", "FIN"} => Begun(g)
      BY <1>1, <1>3, <2>1 DEF ToSsp, Sent
    <3> QED BY <2>1, <3>1 DEF ToSsp, Early
  <2>3. ToCsp(g, f)
    BY <2>1 DEF ToCsp
  <2> QED BY <1>4, <1>5, <1>6, <2>1, <2>2, <2>3 DEF InStepAt, InStep
<1>7. CASE s = "ssp"
  <2>1. ToSsp(g, e) /\ ToCsp(e, g) /\ OneEnd(e, g) /\ OneEnd(g, e)
    BY <1>7 DEF InStepAt, InStep
  <2>2. ToSsp(g, f)
    BY <2>1 DEF ToSsp, Begun
  <2>3. ToCsp(f, g)
    <3>1. \A i \in DOMAIN f.tx :
            /\ f.tx[i].type \in {"SYN_REPLY", "DATA", "FIN", "RST"}
            /\ f.tx[i].type = "SYN_REPLY" =>
                 i = 1 /\ g.state \in {"CREATE_BUFLO_STREAM", "CLOSED"} /\ Begun(f)
      <4>1. Begun(e) => Begun(f)
        BY DEF Begun
      <4>2. \A j \in DOMAIN x : x[j].type \in {"DATA", "FIN", "RST"}
        BY <1>1 DEF Sent
      <4> QED BY <1>3, <2>1, <4>1, <4>2 DEF ToCsp
    <3>2. ASSUME NEW i \in DOMAIN f.tx, f.tx[i].type \in {"DATA", "FIN"},
                 g.state = "CREATE_BUFLO_STREAM"
          PROVE  f.tx[1].type = "SYN_REPLY"
      <4>1. e.tx # << >> /\ e.tx[1].type = "SYN_REPLY"
        <5>1. CASE i \in DOMAIN e.tx /\ f.tx[i] = e.tx[i]
          BY <1>2, <2>1, <3>2, <5>1 DEF ToCsp
        <5>2. CASE \E j \in DOMAIN x : i = Len(e.tx) + j /\ f.tx[i] = x[j]
          BY <1>1, <2>1, <3>2, <5>2 DEF ToCsp, Sent
        <5> QED BY <1>3, <5>1, <5>2
      <4> QED BY <1>3, <4>1
    <3>3. f.state = "CONNECTING_TARGET" => f.tx = << >>
      <4> SUFFICES ASSUME f.state = "CONNECTING_TARGET"
                   PROVE  f.tx = << >>
        OBVIOUS
      <4>1. e.state = "CONNECTING_TARGET" /\ e.tx = << >>
        BY <2>1 DEF ToCsp
      <4>2. \A i \in DOMAIN x : FALSE
        BY <1>1, <4>1 DEF Sent
      <4>3. x = << >>
        <5>1. x # << >> => 1 \in DOMAIN x
          <6>1. x # << >> => Len(x) # 0 /\ Len(x) \in Nat /\ DOMAIN x = 1..Len(x)
            OBVIOUS
          <6> QED BY <6>1
        <5> QED BY <4>2, <5>1
      <4> QED BY <1>2, <4>1, <4>3
    <3>4. f.state = "FORWARDING" /\ g.state = "CREATE_BUFLO_STREAM" =>
            f.tx # << >> /\ f.tx[1].type = "SYN_REPLY"
      BY <1>2, <1>3, <2>1 DEF ToCsp
    <3> QED BY <3>1, <3>2, <3>3, <3>4 DEF ToCsp
  <2> QED BY <1>4, <1>5, <1>7, <2>1, <2>2, <2>3 DEF InStepAt, InStep
<1> QED BY <1>6, <1>7 DEF Sides

-----------------------------------------------------------------------------
(* The flow of data units, seen by its sender and by its receiver.          *)
LEMMA FlowFrom ==
  ASSUME NEW o, NEW e, NEW f, NEW p, NEW gone, Flow(o, e, f, p, gone),
         NEW ot, NEW et, o.sent \in Nat, ot.sent \in Nat, o.sent <= ot.sent,
         \A l \in Nat : ~gone /\ l <= o.sent /\ Supplies(o, e, l) => Supplies(ot, et, l)
  PROVE  Flow(ot, et, f, p, gone)
<1>1. PICK g \in Nat :
        /\ Run(p.got, 0, g) /\ g <= o.sent
        /\ f.state # "CLOSED" =>
             \E l \in Nat : /\ l <= o.sent
                            /\ p.over = "no" => Run(f.out, g, l)
                            /\ ~gone => Supplies(o, e, l)
  BY DEF Flow
<1>2. g <= ot.sent
  BY <1>1
<1>3. ASSUME f.state # "CLOSED"
      PROVE  \E l \in Nat : /\ l <= ot.sent
                            /\ p.over = "no" => Run(f.out, g, l)
                            /\ ~gone => Supplies(ot, et, l)
  <2>1. PICK l \in Nat : /\ l <= o.sent
                         /\ p.over = "no" => Run(f.out, g, l)
                         /\ ~gone => Supplies(o, e, l)
    BY <1>1, <1>3
  <2> QED BY <2>1
<1> QED BY <1>1, <1>2, <1>3 DEF Flow

(* And so does a receiver that still holds what it did.                     *)
LEMMA FlowTo ==
  ASSUME NEW o, NEW e, NEW f, NEW p, NEW gone, Flow(o, e, f, p, gone),
         NEW ft, NEW pt, pt.got = p.got, pt.over = "no" => p.over = "no",
         ft.state # "CLOSED" =>
           f.state # "CLOSED" /\ \A l, h \in Nat : Run(f.out, l, h) => Run(ft.out, l, h)
  PROVE  Flow(o, e, ft, pt, gone)
<1>1. PICK g \in Nat :
        /\ Run(p.got, 0, g) /\ g <= o.sent
        /\ f.state # "CLOSED" =>
             \E l \in Nat : /\ l <= o.sent
                            /\ p.over = "no" => Run(f.out, g, l)
                            /\ ~gone => Supplies(o, e, l)
  BY DEF Flow
<1>2. ASSUME ft.state # "CLOSED"
      PROVE  \E l \in Nat : /\ l <= o.sent
                            /\ pt.over = "no" => Run(ft.out, g, l)
                            /\ ~gone => Supplies(o, e, l)
  <2>1. PICK l \in Nat : /\ l <= o.sent
                         /\ p.over = "no" => Run(f.out, g, l)
                         /\ ~gone => Supplies(o, e, l)
    BY <1>1, <1>2
  <2> QED BY <1>2, <2>1
<1> QED BY <1>1, <1>2 DEF Flow

(* Working on the input moves data on, and loses none.                      *)
LEMMA WorksSupplies ==
  ASSUME NEW s, NEW e \in End, NEW data, NEW f, Works(s, e, data, f), e.state # "CLOSED",
         NEW o \in Outer, NEW ot \in Outer, ot.sent = o.sent, ot.over = o.over,
         \/ data = o.sin /\ ot.sin = << >>
         \/ data = << >> /\ ot.sin = o.sin,
         NEW l \in Nat, Supplies(o, e, l)
  PROVE  Supplies(ot, f, l)
<1>1. PICK t \in Nat, i \in Nat, h \in Nat :
        /\ Run(e.tx, l, t) /\ t <= o.sent /\ Run(e.inner, t, i) /\ Run(o.sin, i, h)
        /\ h <= o.sent /\ (o.over # "error" => h = o.sent)
  BY DEF Supplies
<1>2. e.inner \in Seq(Unit) /\ o.sin \in Seq(Unit) /\ o.sent \in Nat /\ e.inner \o << >> = e.inner
  BY DEF End, Outer
<1>3. PICK k \in Nat : Run(e.inner \o data, t, k) /\ Run(ot.sin, k, h)
  <2>1. CASE data = o.sin /\ ot.sin = << >>
    <3>1. Run(e.inner \o data, t, h)
      BY <1>1, <1>2, <2>1, RunConcat
    <3>2. Run(ot.sin, h, h)
      BY <2>1, RunEmpty
    <3> QED BY <3>1, <3>2
  <2>2. CASE data = << >> /\ ot.sin = o.sin
    BY <1>1, <1>2, <2>2
  <2> QED BY <2>1, <2>2
<1>4. PICK m \in t..k : Run(f.tx, l, m) /\ (f.state # "CLOSED" => Run(f.inner, m, k))
  BY <1>1, <1>3 DEF Works, PassesOn
<1>5. k <= h
  BY <1>3, RunUp
<1>6. m \in Nat /\ m <= ot.sent
  BY <1>1, <1>2, <1>4, <1>5
<1> QED BY <1>1, <1>3, <1>4, <1>6 DEF Supplies

-----------------------------------------------------------------------------
(* What the callbacks of the outer channel do.                              *)
LEMMA GreetingAnswers ==
  ASSUME NEW e, Mode("csp", e), e.state = "READ_SOCKS5_GREETING", NEW m
  PROVE  LET f == Greeting(e, m)
         IN  \/ Shuts(e, f)
             \/ /\ Mode("csp", f) /\ Waits("csp", f) /\ f.state = "READ_SOCKS5_CONNECT_REQ"
                /\ f.out = Append(e.out, Frame("hello"))
<1> DEFINE f == [e EXCEPT !.state = "READ_SOCKS5_CONNECT_REQ", !.out = Append(@, Frame("hello"))]
<1>1. e \in End /\ e.bad = "no" /\ Waits("csp", e)
  BY DEF Mode, Opens, Opening, Forwards, Ended
<1>2. Shuts(e, Close(e))
  BY CloseShuts DEF Sides
<1>3. Append(e.out, Frame("hello")) \in Seq(Unit)
  <2>1. Frame("hello") \in Unit
    BY FrameUnit
  <2>2. e.out \in Seq(Unit)
    BY <1>1 DEF End
  <2> QED BY <2>1, <2>2
<1>4. /\ f \in End /\ f.bad = "no" /\ Waits("csp", f) /\ f.state = "READ_SOCKS5_CONNECT_REQ"
      /\ f.out = Append(e.out, Frame("hello"))
  BY <1>1, <1>3 DEF End, HandlerStates, Waits, Unused, Early
<1>5. Greeting(e, m) = IF m = "greeting" THEN f ELSE Close(e)
  BY DEF Greeting
<1> HIDE DEF f
<1>6. Mode("csp", f)
  BY <1>4 DEF Mode
<1> QED BY <1>2, <1>4, <1>5, <1>6

(* A good request opens the stream; a bad one closes.                       *)
LEMMA RequestOpens ==
  ASSUME NEW e, Mode("csp", e), e.state = "READ_SOCKS5_CONNECT_REQ", NEW m
  PROVE  LET f == Request(e, m)
         IN  \/ Shuts(e, f)
             \/ /\ Mode("csp", f) /\ Opens("csp", f) /\ e.tx = << >>
                /\ f.tx = << Frame("SYN_STREAM") >> /\ f.out = e.out
<1>1. e \in End /\ e.bad = "no" /\ Waits("csp", e)
  BY DEF Mode, Opens, Opening, Forwards, Ended
<1>2. Shuts(e, Close(e))
  BY CloseShuts DEF Sides
<1> DEFINE f == [CreateStream(e) EXCEPT !.state = "CREATE_BUFLO_STREAM"]
<1>3. Mode("csp", f) /\ Opens("csp", f) /\ f.tx = << Frame("SYN_STREAM") >> /\ f.out = e.out
  BY <1>1, CreateStreamOpens
<1>4. Request(e, m) = IF m = "request" THEN f ELSE Close(e)
  BY DEF Request
<1> HIDE DEF f
<1> QED BY <1>1, <1>2, <1>3, <1>4 DEF Waits

(* In the state FORWARDING a handler forwards.                              *)
LEMMA ForwardingMode ==
  ASSUME NEW s \in Sides, NEW e, Mode(s, e), e.state = "FORWARDING"
  PROVE  e \in End /\ e.bad = "no" /\ Forwards(e)
BY DEF Mode, Waits, Opens, Early, Opening, Ended, Sides

(* Data from the socket, while forwarding.                                  *)
LEMMA WriteBufferWorks ==
  ASSUME NEW s \in Sides, NEW e, Fits(s, e), e.state = "FORWARDING",
         NEW data \in Seq(Unit), DataOnly(data)
  PROVE  LET f == WriteBuffer(e, data)
         IN  /\ Works(s, e, data, f)
             /\ Forwards(f) => f.weof = e.weof
             /\ EndsEmpty(e, f)
<1>1. e \in End /\ e.bad = "no" /\ Forwards(e) /\ RelayHalves(e) /\ DataOnly(e.inner)
  BY ForwardingMode DEF Fits
<1>2. PICK d \in End : /\ SameHandler(e, d) /\ d.tx = e.tx /\ d.inner = e.inner \o data
                       /\ d.shutW = e.shutW
                       /\ Passes(d, WriteBuffer(e, data))
  BY <1>1, WriteBufferPasses
<1>3. /\ Forwards(d) /\ d.out = e.out /\ d.half = e.half /\ d.shutR = e.shutR
      /\ d.bad = e.bad /\ d.weof = e.weof
  BY <1>1, <1>2 DEF SameHandler, Forwards
<1> DEFINE f == WriteBuffer(e, data)
<1> HIDE DEF f
<1>4. Passes(d, f)
  BY <1>2 DEF f
<1>5. d.tx = e.tx /\ d.inner = e.inner \o data /\ d.shutW = e.shutW
  BY <1>2
<1>6. /\ Works(s, e, data, f)
      /\ Forwards(f) => f.weof = d.weof
      /\ EndsEmpty(e, f)
  <2>1. e \in End /\ e.bad = "no" /\ Forwards(e) /\ DataOnly(e.inner) /\ RelayHalves(e)
    BY <1>1
  <2>2. d \in End /\ Forwards(d) /\ d.out = e.out /\ d.half = e.half /\ d.shutR = e.shutR
        /\ d.bad = e.bad /\ (e.weof => d.weof)
    BY <1>3
  <2>3. DataOnly(data) /\ data \in Seq(Unit) /\ s \in Sides
    OBVIOUS
  <2>4. Works(s, e, data, f)
    BY <1>4, <1>5, <2>1, <2>2, <2>3, PassesWorks
  <2>5. Forwards(f) => f.weof = d.weof
    BY <1>4, <1>5, <2>1, <2>2, <2>3, PassesWorks
  <2>6. EndsEmpty(e, f)
    BY <1>4, <1>5, <2>1, <2>2, <2>3, PassesWorks
  <2> QED BY <2>4, <2>5, <2>6
<1> QED BY <1>3, <1>6 DEF f

(* The end of the input, told once to a handler that forwards.              *)
LEMMA OnEOFWorks ==
  ASSUME NEW s \in Sides, NEW e, Fits(s, e),
         e.state = "FORWARDING" /\ conf.shadow => ~e.weof
  PROVE  /\ Works(s, e, << >>, OnEOF(e))
         /\ Forwards(OnEOF(e)) => conf.shadow /\ (OnEOF(e).shutW => OnEOF(e).inner = << >>)
<1>1. e \in End /\ e.bad = "no" /\ Mode(s, e) /\ RelayHalves(e) /\ DataOnly(e.inner)
  BY DEF Fits, Mode
<1>2. << >> \in Seq(Unit)
  OBVIOUS
<1>3. CASE e.state = "FORWARDING" /\ conf.shadow
  <2>1. Forwards(e)
    BY <1>1, <1>3, ForwardingMode
  <2>2. PICK d \in End : /\ Forwards(d) /\ d.out = e.out /\ d.half = e.half /\ d.weof
                         /\ d.shutR = e.shutR /\ d.bad = e.bad
                         /\ d.tx = e.tx /\ d.inner = e.inner /\ d.shutW = e.shutW
                         /\ Passes(d, SetWriteEof(e))
    BY <1>1, <1>3, <2>1, SetWriteEofPasses
  <2>3. DataOnly(<< >>) /\ e.inner \o << >> = e.inner
    BY <1>1 DEF DataOnly, End
  <2>4. OnEOF(e) = SetWriteEof(e)
    BY <1>3 DEF OnEOF
  <2>5. ~e.shutW
    BY <1>1, <1>3, <2>1 DEF RelayHalves
  <2>6. Works(s, e, << >>, SetWriteEof(e)) /\ EndsEmpty(e, SetWriteEof(e))
    BY <1>1, <1>2, <2>1, <2>2, <2>3, PassesWorks
  <2> QED BY <1>3, <2>4, <2>5, <2>6 DEF EndsEmpty
<1>4. CASE e.state = "FORWARDING" /\ ~conf.shadow
  <2>1. Forwards(e)
    BY <1>1, <1>4, ForwardingMode
  <2>2. OnEOF(e) = BeDone(e, FALSE)
    BY <1>4 DEF OnEOF
  <2>3. Shuts(e, OnEOF(e))
    BY <1>1, <2>1, <2>2, BeDoneShuts
  <2>4. ~Forwards(OnEOF(e))
    BY <2>3 DEF Shuts, Ended, Forwards
  <2> QED BY <1>1, <1>2, <2>3, <2>4, ShutsWorks
<1>5. CASE e.state # "FORWARDING"
  <2>1. OnEOF(e) = Close(e)
    BY <1>5 DEF OnEOF
  <2>2. Shuts(e, OnEOF(e))
    BY <1>1, <2>1, CloseShuts
  <2>3. ~Forwards(OnEOF(e))
    BY <2>2 DEF Shuts, Ended, Forwards
  <2> QED BY <1>1, <1>2, <2>2, <2>3, ShutsWorks
<1> QED BY <1>3, <1>4, <1>5

(* An error of the socket closes the handler.                               *)
LEMMA OnErrorShuts ==
  ASSUME NEW s \in Sides, NEW e, Fits(s, e)
  PROVE  Shuts(e, OnError(e)) /\ Works(s, e, << >>, OnError(e))
<1>1. e \in End /\ e.bad = "no" /\ Mode(s, e) /\ DataOnly(e.inner)
  BY DEF Fits, Mode
<1> DEFINE f == OnError(e)
<1>2. Shuts(e, f)
  <2>1. CASE e.state = "FORWARDING"
    <3>1. Forwards(e) /\ f = BeDone(e, FALSE)
      BY <1>1, <2>1, ForwardingMode DEF OnError
    <3> QED BY <1>1, <3>1, BeDoneShuts
  <2>2. CASE e.state # "FORWARDING"
    <3>1. f = Close(e)
      BY <2>2 DEF OnError
    <3> QED BY <1>1, <3>1, CloseShuts
  <2> QED BY <2>1, <2>2
<1> HIDE DEF f
<1>3. << >> \in Seq(Unit)
  OBVIOUS
<1>4. Works(s, e, << >>, f)
  BY <1>1, <1>2, <1>3, ShutsWorks
<1> QED BY <1>2, <1>4 DEF f

-----------------------------------------------------------------------------
(* A frame arrives: when it may, and what becomes of the side e.            *)
CanTake(s, e, u) ==
  /\ u \in Unit /\ u.type \in {"SYN_STREAM", "SYN_REPLY", "DATA", "FIN", "RST"}
  /\ u.type = "SYN_STREAM" => s = "ssp" /\ e.state = "NONE"
  /\ u.type = "SYN_REPLY" => s = "csp" /\ e.state \in {"CREATE_BUFLO_STREAM", "CLOSED"}
  /\ u.type \in {"DATA", "FIN"} => Begun(e)
  /\ u.type = "FIN" /\ e.state = "FORWARDING" => ~e.shutR

Takes(s, e, u, f) ==
  /\ Fits(s, f) /\ f.tx = e.tx /\ f.inner = e.inner /\ f.shutW = e.shutW
  /\ \/ f = e /\ ~Live(e) /\ u.type # "SYN_STREAM"
     \/ u.type = "SYN_STREAM" /\ Waits(s, e) /\ Opens(s, f) /\ f.out = e.out
     \/ /\ u.type = "SYN_REPLY" /\ Opens(s, e) /\ Forwards(f) /\ Unused(f)
        /\ f.out = Append(e.out, Frame("granted"))
     \/ /\ u.type = "DATA" /\ Forwards(e) /\ Forwards(f) /\ f.out = Append(e.out, u)
        /\ f.shutR = e.shutR /\ f.weof = e.weof
     \/ /\ u.type = "FIN" /\ Forwards(e) /\ Forwards(f) /\ f.out = e.out
        /\ f.shutR /\ f.weof = e.weof
     \/ u.type \in {"FIN", "RST"} /\ Live(e) /\ Ended(f)

(* A SYN_STREAM reaches a server side that waits for one.                   *)
LEMMA SynStreamTaken ==
  ASSUME NEW e, Fits("ssp", e), e.state = "NONE"
  PROVE  LET f == RecvSynStream(e)
         IN  Fits("ssp", f) /\ f.tx = e.tx /\ f.inner = e.inner /\ f.shutW = e.shutW
             /\ Waits("ssp", e) /\ Opens("ssp", f) /\ f.out = e.out
<1> DEFINE f == RecvSynStream(e)
<1>1. e \in End /\ e.bad = "no" /\ Waits("ssp", e) /\ DataOnly(e.inner)
  BY DEF Fits, Mode, Opens, Opening, Forwards, Ended
<1>2. /\ f \in End /\ f.bad = "no" /\ f.tx = e.tx /\ f.inner = e.inner /\ f.shutW = e.shutW
      /\ f.out = e.out /\ Opens("ssp", f)
  BY <1>1 DEF RecvSynStream, End, HandlerStates, StreamStates, Waits, Unused, Opens, Opening
<1> HIDE DEF f
<1>3. Fits("ssp", f)
  BY <1>1, <1>2 DEF Fits, Mode, RelayHalves, Opens, Forwards, Opening
<1> QED BY <1>1, <1>2, <1>3 DEF f

(* A SYN_REPLY reaches a client side whose stream is being opened.          *)
LEMMA SynReplyTaken ==
  ASSUME NEW e, Fits("csp", e), Opens("csp", e)
  PROVE  LET f == RecvSynReply(e)
         IN  Fits("csp", f) /\ f.tx = e.tx /\ f.inner = e.inner /\ f.shutW = e.shutW
             /\ Forwards(f) /\ Unused(f) /\ f.out = Append(e.out, Frame("granted"))
<1> DEFINE a == [e EXCEPT !.stream = "open", !.out = Append(@, Frame("granted"))]
           f == HandOff(a)
<1>1. e \in End /\ e.bad = "no" /\ DataOnly(e.inner)
  BY DEF Fits, Mode
<1>2. Append(e.out, Frame("granted")) \in Seq(Unit)
  <2>1. Frame("granted") \in Unit
    BY FrameUnit
  <2>2. e.out \in Seq(Unit)
    BY <1>1 DEF End
  <2> QED BY <2>1, <2>2
<1>3. RecvSynReply(e) = f
  <2>1. e.obs # "none" /\ e.state = "CREATE_BUFLO_STREAM"
    BY DEF Opens, Opening
  <2>2. Check(Check(e, e.obs # "none", "no_observer"),
              e.state = "CREATE_BUFLO_STREAM", "granted_in_a_wrong_state") = e
    BY <2>1, CheckHolds
  <2> QED BY <2>2 DEF RecvSynReply
<1>4. /\ a \in End /\ a.bad = "no" /\ a.tx = e.tx /\ a.inner = e.inner /\ a.shutW = e.shutW
      /\ a.out = Append(e.out, Frame("granted")) /\ a.stream = "open" /\ a.buflo /\ a.chan
      /\ Unused(a)
  BY <1>1, <1>2 DEF End, StreamStates, Opens, Unused
<1> HIDE DEF a
<1>5. /\ f \in End /\ Forwards(f) /\ f.bad = a.bad /\ f.out = a.out /\ f.tx = a.tx
      /\ f.inner = a.inner /\ f.half = a.half /\ f.weof = a.weof
      /\ f.shutR = a.shutR /\ f.shutW = a.shutW
  BY <1>4, HandOffForwards
<1> HIDE DEF f
<1>6. Unused(f)
  BY <1>4, <1>5 DEF Unused, Forwards
<1>7. Fits("csp", f)
  <2>1. Mode("csp", f)
    BY <1>4, <1>5 DEF Mode
  <2>2. RelayHalves(f)
    <3>1. f.half = FALSE /\ f.shutR = FALSE /\ f.shutW = FALSE
      BY <1>5, <1>6 DEF Unused, End
    <3> QED BY <3>1 DEF RelayHalves
  <2>3. DataOnly(f.inner)
    <3>1. f.inner = e.inner
      BY <1>4, <1>5
    <3> QED BY <1>1, <3>1
  <2> QED BY <2>1, <2>2, <2>3 DEF Fits
<1>8. Fits("csp", f) /\ f.tx = e.tx /\ f.inner = e.inner /\ f.shutW = e.shutW
      /\ Forwards(f) /\ Unused(f) /\ f.out = Append(e.out, Frame("granted"))
  BY <1>4, <1>5, <1>6, <1>7
<1> QED BY <1>3, <1>8 DEF f

(* DATA reaches a side that forwards.                                       *)
LEMMA DataTaken ==
  ASSUME NEW s \in Sides, NEW e, Fits(s, e), Forwards(e), NEW u \in Unit
  PROVE  LET f == RecvData(e, u)
         IN  Fits(s, f) /\ f.tx = e.tx /\ f.inner = e.inner /\ f.shutW = e.shutW
             /\ Forwards(f) /\ f.out = Append(e.out, u)
             /\ f.shutR = e.shutR /\ f.weof = e.weof
<1> DEFINE f == [e EXCEPT !.out = Append(@, u)]
<1>1. e \in End /\ e.bad = "no" /\ DataOnly(e.inner) /\ RelayHalves(e)
  BY DEF Fits, Mode
<1>2. Append(e.out, u) \in Seq(Unit)
  BY <1>1 DEF End
<1>3. RecvData(e, u) = f
  BY CheckHolds DEF RecvData, Forwards
<1>4. /\ f \in End /\ f.bad = "no" /\ f.tx = e.tx /\ f.inner = e.inner /\ f.shutW = e.shutW
      /\ f.out = Append(e.out, u) /\ Forwards(f) /\ f.half = e.half /\ f.shutR = e.shutR
      /\ f.weof = e.weof
  BY <1>1, <1>2 DEF End, Forwards
<1> HIDE DEF f
<1>5. Fits(s, f)
  BY <1>1, <1>4 DEF Fits, Mode, RelayHalves
<1> QED BY <1>3, <1>4, <1>5

(* FIN ends the direction, and perhaps the stream.                          *)
LEMMA FinTaken ==
  ASSUME NEW s \in Sides, NEW e, Fits(s, e), Forwards(e), ~e.shutR
  PROVE  LET f == RecvFin(e)
         IN  Fits(s, f) /\ f.tx = e.tx /\ f.inner = e.inner /\ f.shutW = e.shutW
             /\ \/ Forwards(f) /\ f.out = e.out /\ f.shutR /\ f.weof = e.weof
                \/ Ended(f)
<1> DEFINE a == [e EXCEPT !.half = (e.obs = "ioh"), !.shutR = TRUE]
<1>1. e \in End /\ e.bad = "no" /\ DataOnly(e.inner) /\ RelayHalves(e)
  BY DEF Fits, Mode
<1>2. RecvFin(e) = IF e.shutW THEN StreamClosed(a) ELSE a
  BY <1>1, CheckHolds DEF RecvFin, Forwards, RelayHalves
<1>3. /\ a \in End /\ a.bad = "no" /\ a.tx = e.tx /\ a.inner = e.inner /\ a.shutW = e.shutW
      /\ a.out = e.out /\ Forwards(a) /\ a.half /\ a.shutR /\ a.weof = e.weof
  BY <1>1 DEF End, Forwards
<1> HIDE DEF a
<1>4. CASE ~e.shutW
  <2>1. Fits(s, a)
    BY <1>1, <1>3, <1>4 DEF Fits, Mode, RelayHalves
  <2> QED BY <1>2, <1>3, <1>4, <2>1
<1>5. CASE e.shutW
  <2> DEFINE f == StreamClosed(a)
  <2>1. Mode(s, a) /\ Live(a)
    BY <1>3 DEF Mode, Live, Forwards
  <2>2. Shuts(a, f) /\ f.tx = a.tx
    BY <2>1, StreamClosedShuts
  <2> HIDE DEF f
  <2>3. /\ f \in End /\ f.bad = "no" /\ Ended(f) /\ f.inner = e.inner /\ f.shutW = e.shutW
        /\ f.tx = e.tx
    BY <1>3, <2>2 DEF Shuts
  <2>4. Fits(s, f)
    BY <1>1, <2>3 DEF Fits, Mode, RelayHalves, Ended, Forwards
  <2>5. RecvFin(e) = f
    BY <1>2, <1>5 DEF f
  <2> QED BY <2>3, <2>4, <2>5
<1> QED BY <1>4, <1>5

(* RST closes whoever is alive.                                             *)
LEMMA RstTaken ==
  ASSUME NEW s \in Sides, NEW e, Fits(s, e), Live(e)
  PROVE  LET f == StreamClosed(e)
         IN  Fits(s, f) /\ f.tx = e.tx /\ f.inner = e.inner /\ f.shutW = e.shutW /\ Ended(f)
<1> DEFINE f == StreamClosed(e)
<1>1. e.bad = "no" /\ Mode(s, e) /\ DataOnly(e.inner)
  BY DEF Fits, Mode
<1>2. Shuts(e, f) /\ f.tx = e.tx
  BY <1>1, StreamClosedShuts
<1> HIDE DEF f
<1>3. f \in End /\ f.bad = "no" /\ Ended(f) /\ f.inner = e.inner /\ f.shutW = e.shutW
  BY <1>1, <1>2 DEF Shuts
<1>4. Fits(s, f)
  BY <1>1, <1>3 DEF Fits, Mode, RelayHalves, Ended, Forwards
<1> QED BY <1>2, <1>3, <1>4 DEF f

(* So whatever frame may come is taken without a failed check.              *)
LEMMA RecvTakes ==
  ASSUME NEW s \in Sides, NEW e, Fits(s, e), NEW u, CanTake(s, e, u)
  PROVE  Takes(s, e, u, Recv(e, u))
<1> DEFINE f == Recv(e, u)
<1>1. Mode(s, e)
  BY DEF Fits
<1>2. u \in Unit /\ u.type \in {"SYN_STREAM", "SYN_REPLY", "DATA", "FIN", "RST"}
  BY DEF CanTake
<1>3. CASE u.type = "SYN_STREAM"
  <2>1. s = "ssp" /\ e.state = "NONE" /\ f = RecvSynStream(e)
    BY <1>3 DEF CanTake, Recv
  <2>2. Fits("ssp", f) /\ f.tx = e.tx /\ f.inner = e.inner /\ f.shutW = e.shutW
        /\ Waits("ssp", e) /\ Opens("ssp", f) /\ f.out = e.out
    BY <2>1, SynStreamTaken
  <2> HIDE DEF f
  <2>3. Takes(s, e, u, f)
    BY <1>3, <2>1, <2>2 DEF Takes
  <2> QED BY <2>3 DEF f
<1>4. CASE u.type # "SYN_STREAM" /\ ~Live(e)
  <2>1. f = e
    BY <1>4 DEF Recv
  <2> HIDE DEF f
  <2>2. Takes(s, e, u, f)
    BY <1>4, <2>1 DEF Takes
  <2> QED BY <2>2 DEF f
<1>5. CASE u.type # "SYN_STREAM" /\ Live(e)
  <2>1. Opens(s, e) \/ Forwards(e)
    BY <1>1, <1>5 DEF Mode, Waits, Ended, Live
  <2>2. CASE u.type = "SYN_REPLY"
    <3>1. s = "csp" /\ f = RecvSynReply(e) /\ Opens("csp", e)
      BY <1>5, <2>1, <2>2 DEF CanTake, Recv, Forwards
    <3> QED BY <2>2, <3>1, SynReplyTaken DEF Takes
  <2>3. CASE u.type \in {"DATA", "FIN"}
    <3>1. Forwards(e) /\ e.state = "FORWARDING"
      BY <2>1, <2>3 DEF CanTake, Begun, Opens, Opening, Forwards
    <3>2. CASE u.type = "DATA"
      <4>1. f = RecvData(e, u)
        BY <1>5, <3>2 DEF Recv
      <4> QED BY <1>2, <3>1, <3>2, <4>1, DataTaken DEF Takes
    <3>3. CASE u.type = "FIN"
      <4>1. f = RecvFin(e) /\ ~e.shutR
        BY <1>5, <3>1, <3>3 DEF Recv, CanTake
      <4> QED BY <1>5, <3>1, <3>3, <4>1, FinTaken DEF Takes
    <3> QED BY <2>3, <3>2, <3>3
  <2>4. CASE u.type = "RST"
    <3>1. f = StreamClosed(e)
      BY <1>5, <2>4 DEF Recv
    <3> QED BY <1>5, <2>4, <3>1, RstTaken DEF Takes
  <2> QED BY <1>2, <1>5, <2>2, <2>3, <2>4
<1> QED BY <1>3, <1>4, <1>5

-----------------------------------------------------------------------------
(* The two sides stay in step when a frame is received.                     *)
LEMMA FirstFrame ==
  ASSUME NEW d \in End, d.tx # << >>
  PROVE  LET dt == [d EXCEPT !.tx = Tail(@)]
         IN  /\ Head(d.tx) \in Unit /\ 1 \in DOMAIN d.tx /\ d.tx[1] = Head(d.tx)
             /\ dt \in End /\ dt.tx = Tail(d.tx)
             /\ \A i \in DOMAIN dt.tx : /\ i \in Nat /\ i >= 1 /\ i + 1 \in DOMAIN d.tx
                                        /\ dt.tx[i] = d.tx[i + 1]
             /\ \A k \in {"state", "buflo", "chan", "out", "half", "stream", "obs", "weof",
                          "inner", "shutR", "shutW", "bad"} : dt[k] = d[k]
<1> DEFINE q == d.tx
           dt == [d EXCEPT !.tx = Tail(@)]
<1>1. q \in Seq(Unit) /\ q # << >>
  BY DEF End
<1>2. /\ Head(q) \in Unit /\ 1 \in DOMAIN q /\ q[1] = Head(q) /\ Tail(q) \in Seq(Unit)
      /\ \A i \in DOMAIN Tail(q) : i \in Nat /\ i >= 1 /\ i + 1 \in DOMAIN q /\ Tail(q)[i] = q[i + 1]
  <2> HIDE DEF q
  <2>1. Len(q) \in Nat /\ Len(q) >= 1 /\ DOMAIN q = 1..Len(q) /\ Head(q) = q[1] /\ Head(q) \in Unit
    BY <1>1
  <2>2. /\ Tail(q) \in Seq(Unit) /\ DOMAIN Tail(q) = 1..(Len(q) - 1)
        /\ \A i \in 1..(Len(q) - 1) : Tail(q)[i] = q[i + 1]
    BY <1>1
  <2> QED BY <2>1, <2>2
<1>3. dt \in End /\ dt.tx = Tail(q)
  BY <1>2 DEF End
<1>4. \A k \in {"state", "buflo", "chan", "out", "half", "stream", "obs", "weof",
                "inner", "shutR", "shutW", "bad"} : dt[k] = d[k]
  BY DEF End
<1> QED BY <1>2, <1>3, <1>4

(* The next frame on the way is one that may come.                          *)
LEMMA HeadFits ==
  ASSUME NEW s \in Sides, NEW e, NEW d, Fits(s, e), Fits(Peer(s), d), InStepAt(s, e, d),
         d.tx # << >>
  PROVE  CanTake(s, e, Head(d.tx))
<1>1. d \in End /\ Mode(Peer(s), d) /\ Mode(s, e)
  BY DEF Fits, Mode
<1>2. Head(d.tx) \in Unit /\ 1 \in DOMAIN d.tx /\ d.tx[1] = Head(d.tx)
  BY <1>1, FirstFrame
<1> DEFINE u == Head(d.tx)
<1> HIDE DEF u
<1>3. u \in Unit /\ d.tx[1] = u
  BY <1>2 DEF u
<1>4. CASE s = "ssp"
  <2>1. ToSsp(d, e) /\ OneEnd(d, e)
    BY <1>4 DEF InStepAt, InStep
  <2>2. /\ u.type \in {"SYN_STREAM", "DATA", "FIN", "RST"}
        /\ u.type = "SYN_STREAM" => e.state = "NONE"
        /\ u.type \in {"DATA", "FIN"} => Begun(e)
    BY <1>2, <1>3, <2>1 DEF ToSsp
  <2>3. u.type = "FIN" /\ e.state = "FORWARDING" => ~e.shutR
    BY <1>2, <1>3, <2>1 DEF OneEnd
  <2> QED BY <1>3, <1>4, <2>2, <2>3 DEF CanTake, u
<1>5. CASE s = "csp"
  <2>1. ToCsp(d, e) /\ ToSsp(e, d) /\ OneEnd(d, e)
    BY <1>5 DEF InStepAt, InStep
  <2>2. /\ u.type \in {"SYN_REPLY", "DATA", "FIN", "RST"}
        /\ u.type = "SYN_REPLY" => e.state \in {"CREATE_BUFLO_STREAM", "CLOSED"}
    BY <1>2, <1>3, <2>1 DEF ToCsp
  <2>3. u.type \in {"DATA", "FIN"} => Begun(e)
    <3> SUFFICES ASSUME u.type \in {"DATA", "FIN"}
                 PROVE  Begun(e)
      OBVIOUS
    <3>1. e.state # "CREATE_BUFLO_STREAM"
      BY <1>2, <1>3, <2>1 DEF ToCsp
    <3>2. e.state \notin Early("csp")
      <4> SUFFICES ASSUME e.state \in Early("csp")
                   PROVE  FALSE
        OBVIOUS
      <4>1. d.state = "NONE"
        BY <2>1 DEF ToSsp
      <4>2. Waits("ssp", d)
        BY <1>1, <1>5, <4>1 DEF Mode, Opens, Opening, Forwards, Ended, Peer
      <4> QED BY <4>2 DEF Waits
    <3> QED BY <1>1, <1>5, <3>1, <3>2 DEF Mode, Waits, Opens, Opening, Forwards, Ended, Begun
  <2>4. u.type = "FIN" /\ e.state = "FORWARDING" => ~e.shutR
    BY <1>2, <1>3, <2>1 DEF OneEnd
  <2> QED BY <1>3, <1>5, <2>2, <2>3, <2>4 DEF CanTake, u
<1> QED BY <1>4, <1>5 DEF Sides

(* The two sides are in step after it is taken,                             *)
LEMMA TakingInStep ==
  ASSUME NEW s \in Sides, NEW e, NEW d, Fits(s, e), Fits(Peer(s), d), InStepAt(s, e, d),
         d.tx # << >>, NEW f, CanTake(s, e, Head(d.tx)), Takes(s, e, Head(d.tx), f)
  PROVE  InStepAt(s, f, [d EXCEPT !.tx = Tail(@)])
<1> DEFINE u == Head(d.tx)
           dt == [d EXCEPT !.tx = Tail(@)]
<1>1. d \in End /\ Mode(Peer(s), d) /\ Mode(s, e)
  BY DEF Fits, Mode
<1>2. /\ 1 \in DOMAIN d.tx /\ d.tx[1] = u
      /\ \A i \in DOMAIN dt.tx : i \in Nat /\ i >= 1 /\ i + 1 \in DOMAIN d.tx /\ dt.tx[i] = d.tx[i + 1]
      /\ dt.state = d.state /\ dt.shutR = d.shutR /\ dt.shutW = d.shutW
  BY <1>1, FirstFrame
<1>3. CanTake(s, e, u) /\ Takes(s, e, u, f)
  OBVIOUS
<1> HIDE DEF u, dt
<1>4. f.tx = e.tx /\ f.shutW = e.shutW
  BY <1>3 DEF Takes
<1>5. Begun(e) => Begun(f)
  BY <1>3 DEF Takes, Begun, Waits, Opens, Early, Opening, Forwards, Ended, CanTake
<1>6. \/ f = e /\ ~Live(e)
      \/ s = "ssp" /\ Waits(s, e) /\ Opens(s, f)
      \/ s = "csp" /\ u.type = "SYN_REPLY" /\ Opens(s, e) /\ Forwards(f) /\ ~f.shutR
      \/ u.type # "FIN" /\ Forwards(e) /\ Forwards(f) /\ f.shutR = e.shutR
      \/ u.type = "FIN" /\ Forwards(e) /\ Forwards(f)
      \/ Ended(f)
  BY <1>3 DEF Takes, CanTake, Unused
<1>7. OneEnd(d, e) /\ OneEnd(e, d)
  BY DEF InStepAt, InStep, Sides
<1>8. OneEnd(dt, f)
  <2>1. \A i, j \in DOMAIN dt.tx : dt.tx[i].type = "FIN" /\ dt.tx[j].type = "FIN" => i = j
    BY <1>2, <1>7 DEF OneEnd
  <2>2. u.type = "FIN" => \A i \in DOMAIN dt.tx : dt.tx[i].type # "FIN"
    BY <1>2, <1>7 DEF OneEnd
  <2>3. \A i \in DOMAIN dt.tx : dt.tx[i].type = "FIN" => d.shutW /\ (e.state = "FORWARDING" => ~e.shutR)
    BY <1>2, <1>7 DEF OneEnd
  <2>4. u.type = "FIN" => d.shutW
    BY <1>2, <1>7 DEF OneEnd
  <2>5. u.type # "FIN" /\ f.state = "FORWARDING" /\ f.shutR => e.state = "FORWARDING" /\ e.shutR
    BY <1>6 DEF Opens, Opening, Forwards, Ended
  <2>6. e.state = "FORWARDING" /\ e.shutR => d.shutW
    BY <1>7 DEF OneEnd
  <2>7. \A i, j \in DOMAIN dt.tx : i < j /\ dt.tx[i].type = "FIN" => dt.tx[j].type # "DATA"
    <3> SUFFICES ASSUME NEW i \in DOMAIN dt.tx, NEW j \in DOMAIN dt.tx, i < j,
                        dt.tx[i].type = "FIN"
                 PROVE  dt.tx[j].type # "DATA"
      OBVIOUS
    <3>1. /\ i + 1 \in DOMAIN d.tx /\ j + 1 \in DOMAIN d.tx /\ i + 1 < j + 1
          /\ dt.tx[i] = d.tx[i + 1] /\ dt.tx[j] = d.tx[j + 1]
      BY <1>2
    <3> QED BY <1>7, <3>1 DEF OneEnd
  <2>8. f.state = "FORWARDING" /\ f.shutR => Lacks(dt.tx, "DATA")
    <3>1. ASSUME u.type = "FIN", NEW i \in DOMAIN dt.tx
          PROVE  dt.tx[i].type # "DATA"
      <4>1. i + 1 \in DOMAIN d.tx /\ 1 < i + 1 /\ dt.tx[i] = d.tx[i + 1] /\ d.tx[1].type = "FIN"
        BY <1>2, <3>1
      <4> QED BY <1>2, <1>7, <4>1 DEF OneEnd
    <3>2. e.state = "FORWARDING" /\ e.shutR => Lacks(d.tx, "DATA")
      BY <1>7 DEF OneEnd
    <3>3. Lacks(d.tx, "DATA") => Lacks(dt.tx, "DATA")
      BY <1>2 DEF Lacks
    <3>4. u.type = "FIN" => Lacks(dt.tx, "DATA")
      BY <3>1 DEF Lacks
    <3> QED BY <2>5, <3>2, <3>3, <3>4
  <2>9. \A i \in DOMAIN dt.tx : dt.tx[i].type = "RST" => d.state = "CLOSED"
    BY <1>2, <1>7 DEF OneEnd
  <2> QED BY <1>2, <2>1, <2>2, <2>3, <2>4, <2>5, <2>6, <2>7, <2>8, <2>9 DEF OneEnd
<1>9. OneEnd(f, dt)
  <2>1. e.state = "CLOSED" => f.state = "CLOSED"
    BY <1>6 DEF Waits, Early, Opens, Opening, Forwards, Ended
  <2> QED BY <1>2, <1>4, <1>7, <2>1 DEF OneEnd
<1>10. CASE s = "ssp"
  <2>1. ToSsp(d, e) /\ ToCsp(e, d)
    BY <1>10 DEF InStepAt, InStep
  <2>2. ToSsp(dt, f)
    <3>1. \A i \in DOMAIN dt.tx :
            /\ dt.tx[i].type \in {"SYN_STREAM", "DATA", "FIN", "RST"}
            /\ dt.tx[i].type # "SYN_STREAM"
            /\ dt.tx[i].type \in {"DATA", "FIN"} => Begun(f)
      BY <1>2, <1>5, <2>1 DEF ToSsp
    <3>2. d.state \notin Early("csp")
      BY <1>1, <1>10 DEF Mode, Peer, Waits, Opens, Opening, Forwards, Ended, Early
    <3> QED BY <1>2, <1>5, <2>1, <3>1, <3>2 DEF ToSsp
  <2>3. ToCsp(f, dt)
    <3>1. \A i \in DOMAIN f.tx :
            /\ f.tx[i].type \in {"SYN_REPLY", "DATA", "FIN", "RST"}
            /\ f.tx[i].type = "SYN_REPLY" =>
                 i = 1 /\ dt.state \in {"CREATE_BUFLO_STREAM", "CLOSED"} /\ Begun(f)
            /\ f.tx[i].type \in {"DATA", "FIN"} /\ dt.state = "CREATE_BUFLO_STREAM" =>
                 f.tx[1].type = "SYN_REPLY"
      BY <1>2, <1>4, <1>5, <2>1 DEF ToCsp
    <3>2. f.state = "CONNECTING_TARGET" => f.tx = << >>
      BY <1>4, <1>6, <1>10, <2>1 DEF ToCsp, Waits, Forwards, Ended
    <3>3. f.state = "FORWARDING" => e.state = "FORWARDING"
      BY <1>6, <1>10 DEF Opens, Opening, Forwards, Ended
    <3> QED BY <1>2, <1>4, <2>1, <3>1, <3>2, <3>3 DEF ToCsp
  <2> QED BY <1>8, <1>9, <1>10, <2>2, <2>3 DEF InStepAt, InStep, dt
<1>11. CASE s = "csp"
  <2>1. ToSsp(e, d) /\ ToCsp(d, e)
    BY <1>11 DEF InStepAt, InStep
  <2>2. f.state = "FORWARDING" => Begun(d)
    <3>1. u.type = "SYN_REPLY" => Begun(d)
      BY <1>2, <2>1 DEF ToCsp
    <3>2. e.state = "FORWARDING" => Begun(d)
      BY <2>1 DEF ToSsp
    <3> QED BY <1>6, <1>11, <3>1, <3>2 DEF Forwards, Ended
  <2>3. f.state \in Early("csp") => e.state = f.state
    BY <1>6, <1>11 DEF Forwards, Ended, Early
  <2>4. f.state # "CREATE_BUFLO_STREAM"
    <3>1. e.state = "CREATE_BUFLO_STREAM" => Live(e)
      BY <1>1, <1>11 DEF Mode, Waits, Early, Opens, Forwards, Ended, Live
    <3> QED BY <1>6, <1>11, <3>1 DEF Forwards, Ended
  <2>5. ToSsp(f, dt)
    BY <1>2, <1>4, <2>1, <2>2, <2>3 DEF ToSsp, Begun
  <2>6. ToCsp(dt, f)
    <3>1. \A i \in DOMAIN dt.tx : dt.tx[i].type \in {"DATA", "FIN", "RST"}
      BY <1>2, <2>1 DEF ToCsp
    <3>2. dt.state # "CONNECTING_TARGET"
      BY <1>2, <2>1 DEF ToCsp
    <3> QED BY <2>4, <3>1, <3>2 DEF ToCsp
  <2> QED BY <1>8, <1>9, <1>11, <2>5, <2>6 DEF InStepAt, InStep, dt
<1> QED BY <1>10, <1>11 DEF Sides

-----------------------------------------------------------------------------
(* And when a handler goes on.                                              *)
LEMMA AnsweringInStep ==
  ASSUME NEW e, NEW f, NEW g, InStepAt("csp", e, g), Waits("csp", e), Waits("csp", f)
  PROVE  InStepAt("csp", f, g)
BY DEF InStepAt, InStep, ToSsp, ToCsp, OneEnd, Waits, Unused, Early

(* after a stream is asked for,                                             *)
LEMMA OpeningInStep ==
  ASSUME NEW e, NEW f, NEW g, Fits("ssp", g), InStepAt("csp", e, g), Waits("csp", e),
         Opens("csp", f), f.tx = << Frame("SYN_STREAM") >>
  PROVE  InStepAt("csp", f, g)
<1>1. g.state = "NONE"
  BY DEF InStepAt, InStep, ToSsp, Waits
<1>2. Waits("ssp", g)
  BY <1>1 DEF Fits, Mode, Opens, Opening, Forwards, Ended
<1>3. DOMAIN f.tx = {1} /\ f.tx[1].type = "SYN_STREAM"
  <2>1. Frame("SYN_STREAM").type = "SYN_STREAM"
    BY FrameUnit
  <2> QED BY <2>1
<1>4. DOMAIN g.tx = {}
  BY <1>2 DEF Waits
<1>5. ToSsp(f, g)
  BY <1>1, <1>3 DEF ToSsp, Opens, Opening, Early
<1>6. ToCsp(g, f)
  BY <1>1, <1>4 DEF ToCsp
<1>7. OneEnd(f, g) /\ OneEnd(g, f)
  BY <1>1, <1>3, <1>4 DEF OneEnd, Opens, Opening
<1> QED BY <1>5, <1>6, <1>7 DEF InStepAt, InStep

(* and after the target is connected.                                       *)
LEMMA ConnectingInStep ==
  ASSUME NEW e \in End, NEW f, NEW g, Fits("csp", g), InStepAt("ssp", e, g), Opens("ssp", e),
         Forwards(f), Unused(f), f.tx = Append(e.tx, Frame("SYN_REPLY"))
  PROVE  InStepAt("ssp", f, g)
<1>1. ToSsp(g, e) /\ ToCsp(e, g) /\ OneEnd(e, g) /\ OneEnd(g, e)
  BY DEF InStepAt, InStep
<1>2. e.tx = << >>
  BY <1>1 DEF ToCsp, Opens, Opening
<1>3. f.tx = << Frame("SYN_REPLY") >> /\ DOMAIN f.tx = {1} /\ f.tx[1].type = "SYN_REPLY"
  <2>1. Frame("SYN_REPLY").type = "SYN_REPLY"
    BY FrameUnit
  <2>2. f.tx = << Frame("SYN_REPLY") >>
    BY <1>2
  <2>3. DOMAIN << Frame("SYN_REPLY") >> = {1} /\ << Frame("SYN_REPLY") >>[1] = Frame("SYN_REPLY")
    OBVIOUS
  <2> QED BY <2>1, <2>2, <2>3
<1>4. g.state \in {"CREATE_BUFLO_STREAM", "CLOSED"}
  BY <1>1 DEF ToSsp, Begun, Opens, Opening, Fits, Mode, Waits, Forwards, Ended, Early
<1>5. Begun(f)
  BY DEF Begun, Forwards
<1>6. ToSsp(g, f)
  BY <1>1, <1>5 DEF ToSsp, Opens, Opening
<1>7. ToCsp(f, g)
  BY <1>3, <1>4, <1>5 DEF ToCsp, Forwards
<1>8. OneEnd(f, g) /\ OneEnd(g, f)
  BY <1>1, <1>3, <1>4 DEF OneEnd, Forwards, Unused
<1> QED BY <1>6, <1>7, <1>8 DEF InStepAt, InStep

-----------------------------------------------------------------------------
(* What one side keeps when it acts by itself.                              *)
LEMMA SideFits ==
  ASSUME NEW s \in Sides, NEW e, Fits(s, e)
  PROVE  e \in End /\ e.bad = "no" /\ Mode(s, e) /\ RelayHalves(e) /\ DataOnly(e.inner)
BY DEF Fits, Mode

(* A step that leaves the dialogue alone keeps its part.                    *)
LEMMA KeepsTalk ==
  ASSUME NEW s \in Sides, NEW e, NEW o, Talk(s, e, o), NEW f, NEW ot,
         f.state \in {e.state, "CLOSED"}, f.state # "CLOSED" => f.out = e.out,
         ot.got = o.got, ot.sent = o.sent, ot.asked = o.asked, ot.over = o.over,
         ot.sin \in {o.sin, << >>}
  PROVE  Talk(s, f, ot)
<1>1. DataOnly(o.sin) => DataOnly(ot.sin)
  BY DEF DataOnly
<1>2. CASE s = "csp"
  BY <1>1, <1>2 DEF Talk, ClientTalk, Begun
<1>3. CASE s = "ssp"
  BY <1>1, <1>3 DEF Talk, TargetTalk, Begun
<1> QED BY <1>2, <1>3 DEF Sides

(* Working on the input keeps everything said of a side.                    *)
LEMMA WorkKeeps ==
  ASSUME NEW s \in Sides, NEW e, NEW o, NEW g \in End, NEW p, NEW gone,
         SideInv(s, e, o, g, p, gone), e.state \notin {"NONE", "CLOSED"},
         NEW data, NEW f, Works(s, e, data, f), NEW ot \in Outer, Told(f, ot),
         ot.got = o.got, ot.sent = o.sent, ot.asked = o.asked, ot.over = o.over,
         \/ data = o.sin /\ ot.sin = << >>
         \/ data = << >> /\ ot.sin = o.sin
  PROVE  SideInv(s, f, ot, g, p, gone)
<1>1. /\ o \in Outer /\ Fits(s, e) /\ Talk(s, e, o) /\ (~gone => InStepAt(s, e, g))
      /\ Flow(o, e, g, p, gone) /\ Flow(p, g, e, o, gone)
  BY DEF SideInv
<1>2. e \in End
  BY <1>1, SideFits
<1>3. /\ f \in End /\ Fits(s, f) /\ Sends(e, f) /\ f.state \in {e.state, "CLOSED"}
      /\ f.state # "CLOSED" => f.out = e.out
  BY DEF Works, Fits, Mode
<1>4. Talk(s, f, ot)
  BY <1>1, <1>3, KeepsTalk
<1>5. ~gone => InStepAt(s, f, g)
  BY <1>1, <1>2, <1>3, SendingInStep
<1>6. Flow(ot, f, g, p, gone)
  <2>1. \A l \in Nat : Supplies(o, e, l) => Supplies(ot, f, l)
    BY <1>1, <1>2, WorksSupplies
  <2>2. o.sent \in Nat /\ ot.sent \in Nat /\ o.sent <= ot.sent
    BY <1>1, RelayAssumption DEF Outer
  <2> QED BY <1>1, <2>1, <2>2, FlowFrom
<1>7. Flow(p, g, f, ot, gone)
  BY <1>1, <1>3, FlowTo
<1> QED BY <1>3, <1>4, <1>5, <1>6, <1>7 DEF SideInv

(* One side acts, and the other is as it was.                               *)
LEMMA LocalStep ==
  ASSUME RelayIInv, NEW s \in Sides, NEW f, NEW o,
         SideInv(s, f, o, end[Peer(s)], outer[Peer(s)], broken),
         end' = [end EXCEPT ![s] = f], outer' = [outer EXCEPT ![s] = o],
         conf' = conf, broken' = broken
  PROVE  RelayIInv'
<1> DEFINE q == Peer(s)
<1>1. /\ q \in Sides /\ q # s /\ Peer(q) = s /\ \A t \in Sides : t = s \/ t = q
  BY BothSides
<1> HIDE DEF q
<1>2. /\ RelayTypeOK /\ SideInv(q, end[q], outer[q], end[s], outer[s], broken)
      /\ SideInv(s, f, o, end[q], outer[q], broken)
  BY <1>1 DEF RelayIInv, q
<1>3. f \in End /\ o \in Outer
  BY <1>2, SideFits DEF SideInv
<1>4. RelayTypeOK'
  BY <1>2, <1>3 DEF RelayTypeOK
<1>5. end'[s] = f /\ end'[q] = end[q] /\ outer'[s] = o /\ outer'[q] = outer[q]
  BY <1>1, <1>2 DEF RelayTypeOK
<1>6. SideInv(q, end[q], outer[q], f, o, broken)
  <2>1. ~broken => InStepAt(q, end[q], f)
    BY <1>1, <1>2, InStepSame DEF SideInv
  <2> QED BY <1>2, <2>1 DEF SideInv
<1>7. \A t \in Sides : SideInv(t, end'[t], outer'[t], end'[Peer(t)], outer'[Peer(t)], broken')
  <2> SUFFICES ASSUME NEW t \in Sides
               PROVE  SideInv(t, end'[t], outer'[t], end'[Peer(t)], outer'[Peer(t)], broken')
    OBVIOUS
  <2>1. CASE t = s
    <3>1. Peer(t) = q
      BY <2>1 DEF q
    <3> QED BY <1>2, <1>5, <2>1, <3>1
  <2>2. CASE t = q
    <3>1. Peer(t) = s
      BY <1>1, <2>2
    <3> QED BY <1>5, <1>6, <2>2, <3>1
  <2> QED BY <1>1, <2>1, <2>2
<1> QED BY <1>4, <1>7 DEF RelayIInv

(* What the invariant says, side by side.                                   *)
LEMMA SideHas ==
  ASSUME RelayIInv, NEW s \in Sides
  PROVE  /\ Peer(s) \in Sides /\ end[Peer(s)] \in End
         /\ SideInv(s, end[s], outer[s], end[Peer(s)], outer[Peer(s)], broken)
         /\ end[s] \in End /\ outer[s] \in Outer /\ Fits(s, end[s]) /\ Mode(s, end[s])
         /\ Talk(s, end[s], outer[s])
         /\ end[s].chan => end[s].state \notin {"NONE", "CLOSED"}
<1>1. Peer(s) \in Sides
  BY BothSides
<1>2. /\ SideInv(s, end[s], outer[s], end[Peer(s)], outer[Peer(s)], broken)
      /\ end[s] \in End /\ outer[s] \in Outer /\ end[Peer(s)] \in End
  BY <1>1 DEF RelayIInv, RelayTypeOK
<1>3. Fits(s, end[s]) /\ Mode(s, end[s]) /\ Talk(s, end[s], outer[s])
  BY <1>2, SideFits DEF SideInv
<1>4. end[s].chan => end[s].state \notin {"NONE", "CLOSED"}
  BY <1>3 DEF Mode, Waits, Early, Opens, Opening, Forwards, Ended, Sides
<1> QED BY <1>1, <1>2, <1>3, <1>4

-----------------------------------------------------------------------------
(* The actions of one side.                                                 *)
LEMMA ReadEndKeeps ==
  ASSUME RelayIInv, NEW s \in Sides, ReadEnd(s),
         \A c \in Confs : c.shadow => c.after # "eof"
  PROVE  RelayIInv'
<1> DEFINE e == end[s]
           o == outer[s]
           ot == [o EXCEPT !.told = TRUE]
           what == IF o.told THEN conf.after ELSE o.over
           f == IF what = "eof" THEN OnEOF(e) ELSE OnError(e)
<1>1. /\ end' = [end EXCEPT ![s] = f] /\ outer' = [outer EXCEPT ![s] = ot]
      /\ conf' = conf /\ broken' = broken /\ e.chan
  <2>1. outer' = [outer EXCEPT ![s].told = TRUE]
    BY DEF ReadEnd
  <2>2. outer' = [outer EXCEPT ![s] = ot]
    BY <2>1
  <2> QED BY <2>2 DEF ReadEnd
<1>2. /\ e \in End /\ o \in Outer /\ Fits(s, e) /\ e.state \notin {"NONE", "CLOSED"}
      /\ SideInv(s, e, o, end[Peer(s)], outer[Peer(s)], broken) /\ end[Peer(s)] \in End
  BY <1>1, SideHas
<1>3. conf \in Confs
  BY DEF RelayIInv, RelayTypeOK
<1>4. what = "eof" /\ e.state = "FORWARDING" /\ conf.shadow => ~e.weof
  <2>1. what = "eof" /\ conf.shadow => ~o.told
    BY <1>3
  <2> QED BY <1>2, <2>1 DEF SideInv, Told
<1> HIDE DEF what
<1>5. /\ Works(s, e, << >>, f)
      /\ Forwards(f) => what = "eof" /\ conf.shadow /\ (f.shutW => f.inner = << >>)
  <2>1. CASE what = "eof"
    BY <1>2, <1>4, <2>1, OnEOFWorks
  <2>2. CASE what # "eof"
    <3>1. f = OnError(e)
      BY <2>2
    <3>2. Shuts(e, f) /\ Works(s, e, << >>, f)
      BY <1>2, <3>1, OnErrorShuts
    <3> QED BY <3>2 DEF Shuts, Ended, Forwards
  <2> QED BY <2>1, <2>2
<1> HIDE DEF f, e, o
<1>6. /\ ot \in Outer /\ ot.got = o.got /\ ot.sent = o.sent /\ ot.asked = o.asked
      /\ ot.over = o.over /\ ot.sin = o.sin /\ ot.told = TRUE
  BY <1>2 DEF Outer
<1>7. Told(f, ot)
  <2>1. f.state = "FORWARDING" => Forwards(f)
    BY <1>5, ForwardingMode DEF Works
  <2>2. o.over # "no" /\ o.sin = << >>
    BY DEF ReadEnd, o
  <2>3. Forwards(f) => o.over = "eof"
    <3>1. what = "eof" /\ conf.shadow => ~o.told /\ o.over = "eof"
      BY <1>3 DEF what, o
    <3> QED BY <1>5, <3>1
  <2> QED BY <1>5, <1>6, <2>1, <2>2, <2>3 DEF Told
<1>8. SideInv(s, f, ot, end[Peer(s)], outer[Peer(s)], broken)
  BY <1>2, <1>5, <1>6, <1>7, WorkKeeps
<1> HIDE DEF ot
<1> QED BY <1>1, <1>8, LocalStep

(* The target cannot be reached: the server side closes.                    *)
LEMMA ConnectFailedKeeps ==
  ASSUME RelayIInv, OnConnectFailed
  PROVE  RelayIInv'
<1> DEFINE e == end["ssp"]
           o == outer["ssp"]
           f == Close(e)
<1>1. /\ end' = [end EXCEPT !["ssp"] = f] /\ outer' = outer
      /\ conf' = conf /\ broken' = broken /\ e.state = "CONNECTING_TARGET" /\ "ssp" \in Sides
  BY DEF OnConnectFailed, Sides
<1>2. /\ e \in End /\ o \in Outer /\ Fits("ssp", e) /\ end[Peer("ssp")] \in End
      /\ SideInv("ssp", e, o, end[Peer("ssp")], outer[Peer("ssp")], broken)
  BY <1>1, SideHas
<1>3. e.bad = "no" /\ Mode("ssp", e) /\ DataOnly(e.inner)
  BY <1>1, <1>2, SideFits
<1>4. Shuts(e, f)
  BY <1>1, <1>3, CloseShuts
<1> HIDE DEF e, o, f
<1>5. << >> \in Seq(Unit)
  OBVIOUS
<1>6. Works("ssp", e, << >>, f)
  BY <1>1, <1>2, <1>3, <1>4, <1>5, ShutsWorks
<1>7. Told(f, o)
  BY <1>2, <1>4 DEF Told, Shuts, Ended, SideInv
<1>8. SideInv("ssp", f, o, end[Peer("ssp")], outer[Peer("ssp")], broken)
  BY <1>1, <1>2, <1>6, <1>7, WorkKeeps
<1>9. outer' = [outer EXCEPT !["ssp"] = o]
  BY <1>1 DEF o, RelayIInv, RelayTypeOK
<1> QED BY <1>1, <1>8, <1>9, LocalStep

-----------------------------------------------------------------------------
(* The programs.                                                            *)
LEMMA ProgramStep ==
  ASSUME RelayIInv, NEW s \in Sides, NEW ot \in Outer, Talk(s, end[s], ot), Told(end[s], ot),
         ot.got = outer[s].got, outer[s].sent <= ot.sent, ot.over = "no" => outer[s].over = "no",
         \A l \in Nat : Supplies(outer[s], end[s], l) => Supplies(ot, end[s], l),
         end' = end, outer' = [outer EXCEPT ![s] = ot], conf' = conf, broken' = broken
  PROVE  RelayIInv'
<1> DEFINE e == end[s]
           o == outer[s]
           g == end[Peer(s)]
           p == outer[Peer(s)]
<1>1. SideInv(s, e, o, g, p, broken) /\ o \in Outer
  BY SideHas
<1>2. end' = [end EXCEPT ![s] = e]
  BY DEF RelayIInv, RelayTypeOK
<1> HIDE DEF g, p
<1>3. Flow(ot, e, g, p, broken)
  <2>1. o.sent \in Nat /\ ot.sent \in Nat
    BY <1>1, RelayAssumption DEF Outer
  <2> QED BY <1>1, <2>1, FlowFrom DEF SideInv
<1>4. Flow(p, g, e, ot, broken)
  BY <1>1, FlowTo DEF SideInv
<1>5. SideInv(s, e, ot, g, p, broken)
  BY <1>1, <1>3, <1>4 DEF SideInv
<1> HIDE DEF e, o
<1> QED BY <1>2, <1>5, LocalStep DEF g, p

(* The types of what a program keeps.                                       *)
LEMMA OuterTypes ==
  ASSUME NEW o \in Outer
  PROVE  o.sent \in Nat /\ o.sin \in Seq(Unit) /\ o.got \in Seq(Unit)
BY RelayAssumption DEF Outer

(* Data after data is data.                                                 *)
LEMMA MoreData ==
  ASSUME NEW q \in Seq(Unit), DataOnly(q), NEW u \in Unit, u.type = "DATA"
  PROVE  DataOnly(Append(q, u))
BY DEF DataOnly

(* A program sends a unit.                                                  *)
LEMMA SendKeeps ==
  ASSUME RelayIInv, NEW s \in Sides, Send(s)
  PROVE  RelayIInv'
<1> DEFINE e == end[s]
           o == outer[s]
           u == Data(o.sent + 1)
           ot == [o EXCEPT !.sent = @ + 1, !.sin = Append(@, u)]
<1>1. /\ o.over = "no" /\ e.chan /\ MaySend(s) /\ o.sent < MaxUnits
      /\ conf' = conf /\ broken' = broken /\ end' = end
  BY DEF Send
<1>2. outer' = [outer EXCEPT ![s] = ot]
  BY DEF Send, RelayIInv, RelayTypeOK
<1>3. /\ e \in End /\ o \in Outer /\ Mode(s, e) /\ e.state \notin {"NONE", "CLOSED"}
      /\ Talk(s, e, o) /\ Told(e, o)
  BY <1>1, SideHas DEF SideInv
<1>4. o.sent \in Nat /\ o.sent + 1 \in 0..MaxUnits /\ o.sin \in Seq(Unit)
  BY <1>1, <1>3, RelayAssumption DEF Outer
<1>5. u \in Unit /\ u.type = "DATA" /\ u.data = o.sent + 1
  <2>1. o.sent + 1 \in Nat
    BY <1>4
  <2> QED BY <2>1, FrameUnit
<1>6. e.state = "FORWARDING"
  <2>1. CASE s = "ssp"
    BY <1>1, <2>1 DEF MaySend
  <2>2. CASE s = "csp"
    <3>1. ~Lacks(o.got, "granted")
      BY <1>1, <2>2 DEF MaySend, Lacks
    <3> QED BY <1>3, <2>2, <3>1 DEF Talk, ClientTalk, Begun
  <2> QED BY <2>1, <2>2 DEF Sides
<1>7. DataOnly(o.sin)
  BY <1>3, <1>6 DEF Talk, ClientTalk, TargetTalk
<1> HIDE DEF u
<1>8. Append(o.sin, u) \in Seq(Unit) /\ DataOnly(Append(o.sin, u))
  BY <1>4, <1>5, <1>7, MoreData
<1>9. /\ ot \in Outer /\ ot.got = o.got /\ ot.sent = o.sent + 1 /\ ot.over = o.over
      /\ ot.asked = o.asked /\ ot.told = o.told /\ ot.sin = Append(o.sin, u)
  BY <1>3, <1>4, <1>8 DEF Outer
<1> HIDE DEF ot
<1>10. Talk(s, e, ot)
  BY <1>3, <1>6, <1>8, <1>9 DEF Talk, ClientTalk, TargetTalk, Begun
<1>11. Told(e, ot)
  BY <1>1, <1>3, <1>9 DEF Told
<1>12. ASSUME NEW l \in Nat, Supplies(o, e, l)
       PROVE  Supplies(ot, e, l)
  <2>1. PICK t \in Nat, i \in Nat, h \in Nat :
          /\ Run(e.tx, l, t) /\ t <= o.sent /\ Run(e.inner, t, i) /\ Run(o.sin, i, h)
          /\ h = o.sent
    BY <1>1, <1>6, <1>12 DEF Supplies
  <2>2. Run(ot.sin, i, h + 1)
    BY <1>4, <1>5, <1>9, <2>1, RunAppend
  <2>3. h + 1 \in Nat /\ h + 1 = ot.sent /\ t <= ot.sent /\ h + 1 <= ot.sent
    BY <1>4, <1>9, <2>1
  <2> HIDE DEF e, o
  <2> QED BY <2>1, <2>2, <2>3 DEF Supplies
<1>13. ot.got = outer[s].got /\ outer[s].sent <= ot.sent /\ (ot.over = "no" => outer[s].over = "no")
  BY <1>4, <1>9
<1> QED BY <1>1, <1>2, <1>9, <1>10, <1>11, <1>12, <1>13, ProgramStep

(* A program closes its connection, or loses it.                            *)
LEMMA LeaveKeeps ==
  ASSUME RelayIInv, NEW s \in Sides, Leave(s)
  PROVE  RelayIInv'
<1> DEFINE e == end[s]
           o == outer[s]
           eof == [o EXCEPT !.over = "eof"]
           reset == [o EXCEPT !.over = "error", !.sin = << >>]
<1>1. /\ o.over = "no" /\ e.chan /\ (s = "ssp" => e.state = "FORWARDING")
      /\ conf' = conf /\ broken' = broken /\ end' = end
  BY DEF Leave
<1>2. \/ outer' = [outer EXCEPT ![s] = eof]
      \/ outer' = [outer EXCEPT ![s] = reset]
  BY DEF Leave, RelayIInv, RelayTypeOK
<1>3. /\ e \in End /\ o \in Outer /\ Talk(s, e, o) /\ Told(e, o)
      /\ e.state \notin {"NONE", "CLOSED"}
  BY <1>1, SideHas DEF SideInv
<1>4. PICK ot \in {eof, reset} : outer' = [outer EXCEPT ![s] = ot]
  BY <1>2
<1>5. /\ ot \in Outer /\ ot.got = o.got /\ ot.sent = o.sent /\ ot.over # "no"
      /\ ot.asked = o.asked /\ ot.told = o.told /\ ot.sin \in {o.sin, << >>}
      /\ ot.over # "error" => ot.sin = o.sin
  <2> HIDE DEF o
  <2>1. /\ eof \in Outer /\ eof.got = o.got /\ eof.sent = o.sent /\ eof.over = "eof"
        /\ eof.asked = o.asked /\ eof.told = o.told /\ eof.sin = o.sin
    BY <1>3 DEF Outer
  <2>2. /\ reset \in Outer /\ reset.got = o.got /\ reset.sent = o.sent /\ reset.over = "error"
        /\ reset.asked = o.asked /\ reset.told = o.told /\ reset.sin = << >>
    <3>1. << >> \in Seq(Unit)
      OBVIOUS
    <3> QED BY <1>3, <3>1 DEF Outer
  <2> HIDE DEF eof, reset
  <2> QED BY <1>4, <2>1, <2>2
<1> HIDE DEF eof, reset
<1>6. DataOnly(o.sin) => DataOnly(ot.sin)
  BY <1>5 DEF DataOnly
<1>7. Talk(s, e, ot)
  <2> HIDE DEF e, o
  <2>1. CASE s = "csp"
    BY <1>3, <1>5, <1>6, <2>1 DEF Talk, ClientTalk, Begun
  <2>2. CASE s = "ssp"
    BY <1>1, <1>3, <1>5, <1>6, <2>2 DEF Talk, TargetTalk, Begun
  <2> QED BY <2>1, <2>2 DEF Sides
<1>8. Told(e, ot)
  BY <1>1, <1>3, <1>5 DEF Told
<1>9. o.sent \in Nat
  BY <1>3, OuterTypes
<1>10. ASSUME NEW l \in Nat, Supplies(o, e, l)
       PROVE  Supplies(ot, e, l)
  <2>1. PICK t \in Nat, i \in Nat, h \in Nat :
          /\ Run(e.tx, l, t) /\ t <= o.sent /\ Run(e.inner, t, i) /\ Run(o.sin, i, h)
          /\ h = o.sent
    BY <1>1, <1>3, <1>10 DEF Supplies
  <2>2. i <= h /\ i <= o.sent
    BY <1>9, <2>1, RunUp
  <2>3. \E k \in Nat : /\ Run(ot.sin, i, k) /\ k <= o.sent
                       /\ ot.over # "error" => k = o.sent
    <3>1. CASE ot.over # "error"
      BY <1>5, <1>9, <2>1, <3>1
    <3>2. CASE ot.over = "error"
      BY <1>5, <2>1, <2>2, <3>2, RunEmpty
    <3> QED BY <3>1, <3>2
  <2> HIDE DEF e, o
  <2> QED BY <1>5, <2>1, <2>3 DEF Supplies
<1>11. ot.got = outer[s].got /\ outer[s].sent <= ot.sent /\ (ot.over = "no" => outer[s].over = "no")
  BY <1>5, <1>9
<1> QED BY <1>1, <1>4, <1>5, <1>7, <1>8, <1>10, <1>11, ProgramStep

(* A client asks.                                                           *)
Asks(s, m, a) ==
  /\ outer[s].over = "no" /\ end[s].chan
  /\ \/ outer[s].asked = "nothing" /\ a = "hello"
     \/ outer[s].asked = "hello" /\ a = "granted" /\ outer[s].got # << >>
  /\ outer' = [outer EXCEPT ![s].sin = Append(@, Frame(m)), ![s].asked = a]
  /\ conf' = conf /\ broken' = broken /\ end' = end

(* The client's program sends a greeting or a request,                      *)
LEMMA AskingKeeps ==
  ASSUME RelayIInv, NEW s \in Sides, s = "csp",
         NEW m \in {"greeting", "bad_greeting", "request", "bad_request"},
         NEW a \in {"hello", "granted"}, Asks(s, m, a)
  PROVE  RelayIInv'
<1> DEFINE e == end[s]
           o == outer[s]
<1>1. o.over = "no" /\ e.chan /\ conf' = conf /\ broken' = broken /\ end' = end
  BY DEF Asks
<1>3. \/ o.asked = "nothing" /\ a = "hello"
      \/ o.asked = "hello" /\ a = "granted" /\ o.got # << >>
  BY DEF Asks
<1>4. /\ e \in End /\ o \in Outer /\ Talk(s, e, o) /\ Told(e, o) /\ Mode(s, e)
      /\ e.state \notin {"NONE", "CLOSED"}
  BY <1>1, SideHas DEF SideInv
<1>2. PICK u : u = Frame(m)
  OBVIOUS
<1>5. u \in Unit /\ u.type # "DATA" /\ o.sin \in Seq(Unit)
  <2>1. Frame(m) \in Unit /\ Frame(m).type = m
    BY FrameUnit
  <2>2. o.sin \in Seq(Unit)
    BY <1>4, OuterTypes
  <2> QED BY <1>2, <2>1, <2>2
<1>13. PICK more : more = Append(o.sin, u)
  OBVIOUS
<1>14. more \in Seq(Unit)
  BY <1>5, <1>13
<1>15. PICK o2 : o2 = [o EXCEPT !.sin = more, !.asked = a]
  OBVIOUS
<1>6. outer' = [outer EXCEPT ![s] = o2]
  BY <1>2, <1>13, <1>15 DEF Asks, RelayIInv, RelayTypeOK
<1>7. /\ o2 \in Outer /\ o2.got = o.got /\ o2.sent = o.sent /\ o2.over = o.over
      /\ o2.asked = a /\ o2.told = o.told /\ o2.sin = more
  <2>1. o \in Outer
    BY <1>4
  <2>2. a \in {"nothing", "hello", "granted"}
    OBVIOUS
  <2> HIDE DEF o
  <2> QED BY <2>1, <2>2, <1>14, <1>15 DEF Outer
<1>8. Talk(s, e, o2)
  <2>1. ClientTalk(e, o)
    BY <1>4 DEF Talk
  <2>2. e.state \in {"READ_SOCKS5_GREETING", "READ_SOCKS5_CONNECT_REQ",
                     "CREATE_BUFLO_STREAM", "FORWARDING"}
    BY <1>4 DEF Mode, Waits, Early, Opens, Opening, Forwards, Ended
  <2>3. \/ e.state = "READ_SOCKS5_GREETING" /\ a = "hello"
        \/ e.state = "READ_SOCKS5_CONNECT_REQ" /\ a = "granted"
    BY <1>3, <2>1, <2>2 DEF ClientTalk
  <2> HIDE DEF e, o
  <2> QED BY <1>7, <2>1, <2>3 DEF Talk, ClientTalk, Begun
<1>9. Told(e, o2)
  BY <1>1, <1>4, <1>7 DEF Told
<1>10. o.sent \in Nat
  BY <1>4, OuterTypes
<1>11. ASSUME NEW l \in Nat, Supplies(o, e, l)
       PROVE  Supplies(o2, e, l)
  <2>1. PICK t \in Nat, i \in Nat, h \in Nat :
          /\ Run(e.tx, l, t) /\ t <= o.sent /\ Run(e.inner, t, i) /\ Run(o.sin, i, h)
          /\ h <= o.sent /\ (o.over # "error" => h = o.sent)
    BY <1>4, <1>11 DEF Supplies
  <2>2. Run(o2.sin, i, h)
    BY <1>5, <1>7, <1>13, <2>1, RunSkip
  <2> HIDE DEF e, o
  <2> QED BY <1>7, <2>1, <2>2 DEF Supplies
<1>12. /\ o2.got = outer[s].got /\ outer[s].sent <= o2.sent
       /\ o2.over = "no" => outer[s].over = "no"
  BY <1>7, <1>10
<1> QED BY <1>1, <1>6, <1>7, <1>8, <1>9, <1>11, <1>12, ProgramStep

(* good or bad.                                                             *)
LEMMA ClientAsksKeeps ==
  ASSUME RelayIInv, ClientAsks
  PROVE  RelayIInv'
<1>0. PICK s \in Sides : s = "csp"
  BY DEF Sides
<1>1. /\ outer[s].over = "no" /\ end[s].chan
      /\ conf' = conf /\ broken' = broken /\ end' = end
  BY <1>0 DEF ClientAsks
<1>2. CASE /\ outer[s].asked = "nothing"
           /\ \E m \in {"greeting", "bad_greeting"} :
                outer' = [outer EXCEPT ![s].sin = Append(@, Frame(m)),
                                       ![s].asked = "hello"]
  BY <1>0, <1>1, <1>2, AskingKeeps DEF Asks
<1>3. CASE /\ outer[s].asked = "hello" /\ outer[s].got # << >>
           /\ \E m \in {"request", "bad_request"} :
                outer' = [outer EXCEPT ![s].sin = Append(@, Frame(m)),
                                       ![s].asked = "granted"]
  BY <1>0, <1>1, <1>3, AskingKeeps DEF Asks
<1> QED BY <1>0, <1>2, <1>3 DEF ClientAsks

-----------------------------------------------------------------------------
(* The socket of one side: input.                                           *)
LEMMA EarlyKeeps ==
  ASSUME NEW e, NEW o, NEW g, NEW p, NEW gone, SideInv("csp", e, o, g, p, gone),
         Waits("csp", e), NEW f, Fits("csp", f), f.state \notin {"FORWARDING", "CLOSED"},
         f.inner = << >>, NEW ot \in Outer, Talk("csp", f, ot), ~gone => InStepAt("csp", f, g),
         ot.got = o.got, ot.sent = o.sent, ot.over = o.over, ot.sin = << >>, ot.told = o.told,
         \A l, h \in Nat : Run(e.tx, l, h) => Run(f.tx, l, h),
         \A l, h \in Nat : Run(e.out, l, h) => Run(f.out, l, h)
  PROVE  SideInv("csp", f, ot, g, p, gone)
<1>1. e.state \notin {"FORWARDING", "CLOSED"} /\ e.inner = << >>
  BY DEF Waits, Early, Unused
<1>2. o \in Outer /\ Talk("csp", e, o) /\ Flow(o, e, g, p, gone) /\ Flow(p, g, e, o, gone)
  BY DEF SideInv
<1>3. o.sent = 0
  BY <1>1, <1>2 DEF Talk, ClientTalk, Begun
<1>4. ASSUME NEW l \in Nat, Supplies(o, e, l)
      PROVE  Supplies(ot, f, l)
  <2>1. PICK t \in Nat, i \in Nat, h \in Nat :
          /\ Run(e.tx, l, t) /\ t <= o.sent /\ Run(e.inner, t, i) /\ Run(o.sin, i, h)
          /\ h <= o.sent
    BY <1>1, <1>4 DEF Supplies
  <2>2. i <= h /\ i = 0
    BY <1>3, <2>1, RunUp
  <2>3. Run(f.tx, l, t) /\ Run(f.inner, t, i)
    BY <1>1, <2>1
  <2>4. Run(ot.sin, i, i)
    BY RunEmpty
  <2> QED BY <1>3, <2>1, <2>2, <2>3, <2>4 DEF Supplies
<1>5. Flow(ot, f, g, p, gone)
  BY <1>2, <1>3, <1>4, FlowFrom
<1>6. Flow(p, g, f, ot, gone)
  BY <1>1, <1>2, FlowTo
<1>7. Told(f, ot)
  BY DEF Told, SideInv
<1> QED BY <1>5, <1>6, <1>7 DEF SideInv

(* A greeting is read: answered, or the handler closes.                     *)
LEMMA GreetingKeeps ==
  ASSUME NEW e, NEW o, NEW g, NEW p, NEW gone, SideInv("csp", e, o, g, p, gone),
         e.state = "READ_SOCKS5_GREETING", o.sin # << >>,
         NEW f, Mode("csp", f), Waits("csp", f), f.state = "READ_SOCKS5_CONNECT_REQ",
         f.out = Append(e.out, Frame("hello")),
         NEW ot \in Outer, ot.got = o.got, ot.sent = o.sent, ot.asked = o.asked,
         ot.over = o.over, ot.sin = << >>, ot.told = o.told
  PROVE  SideInv("csp", f, ot, g, p, gone)
<1>1. /\ Fits("csp", e) /\ Talk("csp", e, o) /\ (~gone => InStepAt("csp", e, g))
  BY DEF SideInv
<1>2. e \in End /\ Waits("csp", e) /\ e.tx = << >>
  BY <1>1 DEF Fits, Mode, Opens, Opening, Forwards, Ended, Waits
<1>3. /\ o.got = << >> /\ e.out = << >> /\ o.asked # "nothing" /\ o.sent = 0
  BY <1>1 DEF Talk, ClientTalk, Begun
<1>4. Fits("csp", f) /\ f.inner = << >> /\ f.tx = << >>
  BY DEF Fits, RelayHalves, Forwards, DataOnly, Waits, Unused
<1>5. Lacks(f.out, "granted")
  <2>1. Frame("hello").type = "hello"
    BY FrameUnit
  <2>2. f.out = << Frame("hello") >>
    BY <1>3
  <2> QED BY <2>1, <2>2 DEF Lacks
<1>6. Talk("csp", f, ot)
  <2>1. Lacks(ot.got, "granted")
    BY <1>3 DEF Lacks
  <2> QED BY <1>3, <1>5, <2>1 DEF Talk, ClientTalk
<1>7. ~gone => InStepAt("csp", f, g)
  BY <1>1, <1>2, AnsweringInStep
<1>8. \A l, h \in Nat : Run(e.out, l, h) => Run(f.out, l, h)
  <2>1. Frame("hello") \in Unit /\ Frame("hello").type # "DATA" /\ e.out \in Seq(Unit)
    BY <1>2, FrameUnit DEF End
  <2> QED BY <2>1, RunSkip
<1>9. \A l, h \in Nat : Run(e.tx, l, h) => Run(f.tx, l, h)
  BY <1>2, <1>4
<1> QED BY <1>2, <1>4, <1>6, <1>7, <1>8, <1>9, EarlyKeeps

(* A request is read: a stream is asked for, or the handler closes.         *)
LEMMA RequestKeeps ==
  ASSUME NEW e, NEW o, NEW g, NEW p, NEW gone, SideInv("csp", e, o, g, p, gone), Fits("ssp", g),
         e.state = "READ_SOCKS5_CONNECT_REQ", o.sin # << >>,
         NEW f, Mode("csp", f), Opens("csp", f), f.tx = << Frame("SYN_STREAM") >>, f.out = e.out,
         NEW ot \in Outer, ot.got = o.got, ot.sent = o.sent, ot.asked = o.asked,
         ot.over = o.over, ot.sin = << >>, ot.told = o.told
  PROVE  SideInv("csp", f, ot, g, p, gone)
<1>1. /\ Fits("csp", e) /\ Talk("csp", e, o) /\ (~gone => InStepAt("csp", e, g)) /\ o \in Outer
  BY DEF SideInv
<1>2. e \in End /\ Waits("csp", e) /\ e.tx = << >>
  BY <1>1 DEF Fits, Mode, Opens, Opening, Forwards, Ended, Waits
<1>3. /\ Lacks(o.got, "granted") /\ Lacks(e.out, "granted") /\ o.asked = "granted" /\ o.sent = 0
  BY <1>1 DEF Talk, ClientTalk, Begun, Outer
<1>4. Fits("csp", f) /\ f.inner = << >> /\ f.state = "CREATE_BUFLO_STREAM"
  BY DEF Fits, RelayHalves, Forwards, DataOnly, Opens, Opening, Unused
<1>5. Talk("csp", f, ot)
  BY <1>3, <1>4 DEF Talk, ClientTalk
<1>6. ~gone => InStepAt("csp", f, g)
  BY <1>1, <1>2, OpeningInStep
<1>7. \A l, h \in Nat : Run(e.tx, l, h) => Run(f.tx, l, h)
  <2>1. Frame("SYN_STREAM") \in Unit /\ Frame("SYN_STREAM").type # "DATA"
    BY FrameUnit
  <2>2. f.tx = Append(e.tx, Frame("SYN_STREAM")) /\ e.tx \in Seq(Unit)
    BY <1>2
  <2> QED BY <2>1, <2>2, RunSkip
<1> QED BY <1>2, <1>4, <1>5, <1>6, <1>7, EarlyKeeps

(* Data is read, in any state of the handler.                               *)
LEMMA ReadDataKeeps ==
  ASSUME RelayIInv, NEW s \in Sides, ReadData(s), \A c \in Confs : ~c.splits
  PROVE  RelayIInv'
<1> DEFINE e == end[s]
           o == outer[s]
           g == end[Peer(s)]
           p == outer[Peer(s)]
           ot == [o EXCEPT !.sin = << >>]
           f == NewInput(e, o.sin)
<1>1. ~conf.splits
  BY DEF RelayIInv, RelayTypeOK
<1>2. /\ end' = [end EXCEPT ![s] = f] /\ conf' = conf /\ broken' = broken
      /\ e.chan /\ o.sin # << >>
  BY <1>1 DEF ReadData
<1>3. outer' = [outer EXCEPT ![s] = ot]
  BY DEF ReadData, RelayIInv, RelayTypeOK
<1>4. /\ e \in End /\ o \in Outer /\ Fits(s, e) /\ Mode(s, e) /\ Talk(s, e, o)
      /\ e.state \notin {"NONE", "CLOSED"} /\ g \in End
      /\ SideInv(s, e, o, g, p, broken) /\ Told(e, o)
  BY <1>2, SideHas DEF SideInv
<1>5. Fits(Peer(s), g)
  BY BothSides, SideHas
<1>6. s = "csp" => Peer(s) = "ssp"
  BY DEF Peer
<1> HIDE DEF g, p
<1>7. /\ ot \in Outer /\ ot.got = o.got /\ ot.sent = o.sent /\ ot.asked = o.asked
      /\ ot.over = o.over /\ ot.sin = << >> /\ ot.told = o.told
  <2> HIDE DEF o
  <2>1. << >> \in Seq(Unit)
    OBVIOUS
  <2> QED BY <1>4, <2>1 DEF Outer
<1>8. o.sin \in Seq(Unit) /\ e.bad = "no" /\ DataOnly(e.inner)
  BY <1>4, OuterTypes, SideFits
<1> HIDE DEF e, o, ot
<1>9. SideInv(s, f, ot, g, p, broken)
  <2>1. ASSUME Shuts(e, f)
        PROVE  SideInv(s, f, ot, g, p, broken)
    <3>1. Works(s, e, o.sin, f)
      BY <1>4, <1>8, <2>1, ShutsWorks
    <3>2. Told(f, ot)
      BY <1>4, <1>7, <2>1 DEF Told, Shuts, Ended
    <3> QED BY <1>4, <1>7, <3>1, <3>2, WorkKeeps
  <2>2. CASE e.state = "READ_SOCKS5_GREETING"
    <3>1. s = "csp"
      BY <1>4, <2>2 DEF Mode, Waits, Early, Opens, Opening, Forwards, Ended, Sides
    <3>2. f = Greeting(e, Head(o.sin).type)
      BY <2>2 DEF NewInput
    <3> QED BY <1>2, <1>4, <1>7, <2>1, <2>2, <3>1, <3>2, GreetingAnswers, GreetingKeeps
  <2>3. CASE e.state = "READ_SOCKS5_CONNECT_REQ"
    <3>1. s = "csp"
      BY <1>4, <2>3 DEF Mode, Waits, Early, Opens, Opening, Forwards, Ended, Sides
    <3>2. f = Request(e, Head(o.sin).type)
      BY <2>3 DEF NewInput
    <3>3. Fits("ssp", g)
      BY <1>5, <1>6, <3>1
    <3> QED BY <1>2, <1>4, <1>7, <2>1, <2>3, <3>1, <3>2, <3>3, RequestOpens, RequestKeeps
  <2>4. CASE e.state = "FORWARDING"
    <3>1. f = WriteBuffer(e, o.sin)
      BY <2>4 DEF NewInput
    <3>2. DataOnly(o.sin)
      BY <1>4, <2>4 DEF Talk, ClientTalk, TargetTalk
    <3>3. Works(s, e, o.sin, f) /\ (Forwards(f) => f.weof = e.weof)
      BY <1>4, <1>8, <2>4, <3>1, <3>2, WriteBufferWorks
    <3>4. Told(f, ot)
      <4>1. f.state = "FORWARDING" => Forwards(f)
        BY <3>3, ForwardingMode DEF Works
      <4>2. ~e.weof
        BY <1>2, <1>4, <2>4 DEF Told
      <4>3. Forwards(f) => ~f.weof /\ ~f.shutW
        BY <3>3, <4>2 DEF Works, RelayHalves
      <4> QED BY <1>4, <1>7, <4>1, <4>3 DEF Told
    <3> QED BY <1>4, <1>7, <3>3, <3>4, WorkKeeps
  <2>5. e.state \in {"READ_SOCKS5_GREETING", "READ_SOCKS5_CONNECT_REQ", "FORWARDING"}
    <3>1. CASE s = "csp"
      <4>1. e.state # "CREATE_BUFLO_STREAM"
        BY <1>2, <1>4, <3>1 DEF Talk, ClientTalk
      <4> QED BY <1>4, <3>1, <4>1 DEF Mode, Waits, Early, Opens, Opening, Forwards, Ended
    <3>2. CASE s = "ssp"
      <4>1. Begun(e)
        BY <1>2, <1>4, <3>2 DEF Talk, TargetTalk
      <4> QED BY <1>4, <4>1 DEF Begun
    <3> QED BY <3>1, <3>2 DEF Sides
  <2> QED BY <2>2, <2>3, <2>4, <2>5
<1> QED BY <1>2, <1>3, <1>9, LocalStep DEF e, o, g, p, ot

-----------------------------------------------------------------------------
(* The socket of one side: output.                                          *)
LEMMA TakenOut ==
  ASSUME NEW e \in End, NEW rest \in Seq(Unit)
  PROVE  LET r == [e EXCEPT !.out = rest]
         IN  /\ r \in End /\ r.out = rest
             /\ \A k \in {"state", "buflo", "chan", "half", "stream", "obs", "weof", "tx",
                          "inner", "shutR", "shutW", "bad"} : r[k] = e[k]
BY DEF End

(* Writing a part of the output leaves the rest.                            *)
LEMMA RestFits ==
  ASSUME NEW s \in Sides, NEW e, Fits(s, e), e.state # "CLOSED", NEW rest \in Seq(Unit),
         NEW r, r = [e EXCEPT !.out = rest]
  PROVE  /\ Fits(s, r) /\ r.state = e.state /\ r.out = rest /\ r.tx = e.tx /\ r.inner = e.inner
         /\ r.weof = e.weof /\ r.shutR = e.shutR /\ r.shutW = e.shutW /\ r.half = e.half
<1>1. e \in End /\ e.bad = "no" /\ Mode(s, e) /\ RelayHalves(e) /\ DataOnly(e.inner)
  BY SideFits
<1>2. /\ r \in End /\ r.out = rest
      /\ \A k \in {"state", "buflo", "chan", "half", "stream", "obs", "weof", "tx",
                   "inner", "shutR", "shutW", "bad"} : r[k] = e[k]
  BY <1>1, TakenOut
<1>3. /\ r.state = e.state /\ r.buflo = e.buflo /\ r.chan = e.chan /\ r.half = e.half
      /\ r.stream = e.stream /\ r.obs = e.obs /\ r.weof = e.weof /\ r.tx = e.tx
      /\ r.inner = e.inner /\ r.shutR = e.shutR /\ r.shutW = e.shutW /\ r.bad = e.bad
  BY <1>2
<1>4. Waits(s, e) \/ Opens(s, e) \/ Forwards(e)
  BY <1>1 DEF Mode, Ended
<1>5. Waits(s, r) \/ Opens(s, r) \/ Forwards(r)
  BY <1>3, <1>4 DEF Waits, Opens, Forwards, Unused
<1>6. Mode(s, r)
  BY <1>1, <1>2, <1>3, <1>5 DEF Mode
<1>7. RelayHalves(r)
  BY <1>1, <1>3 DEF RelayHalves, Forwards
<1> QED BY <1>1, <1>2, <1>3, <1>6, <1>7 DEF Fits

(* What is written has moved to the program, and nothing is lost.           *)
LEMMA WrittenFlow ==
  ASSUME NEW o, NEW d, NEW e \in End, NEW p, NEW gone, Flow(o, d, e, p, gone), e.state # "CLOSED",
         NEW n \in 1..Len(e.out), p.got \in Seq(Unit), o.sent \in Nat,
         NEW r, r.state = e.state, r.out = SubSeq(e.out, n + 1, Len(e.out)),
         NEW pt, pt.over = p.over,
         pt.got = IF p.over = "no" THEN p.got \o SubSeq(e.out, 1, n) ELSE p.got
  PROVE  Flow(o, d, r, pt, gone)
<1>1. PICK g \in Nat :
        /\ Run(p.got, 0, g) /\ g <= o.sent
        /\ \E l \in Nat : /\ l <= o.sent
                          /\ p.over = "no" => Run(e.out, g, l)
                          /\ ~gone => Supplies(o, d, l)
  BY DEF Flow
<1>2. PICK l \in Nat : /\ l <= o.sent
                       /\ p.over = "no" => Run(e.out, g, l)
                       /\ ~gone => Supplies(o, d, l)
  BY <1>1
<1>3. CASE p.over # "no"
  <2>1. pt.got = p.got /\ pt.over # "no"
    BY <1>3
  <2> QED BY <1>1, <1>2, <2>1 DEF Flow
<1>4. CASE p.over = "no"
  <2>1. e.out \in Seq(Unit) /\ n \in 0..Len(e.out) /\ Len(e.out) \in Nat
    BY DEF End
  <2>2. PICK m \in g..l : Run(SubSeq(e.out, 1, n), g, m) /\ Run(SubSeq(e.out, n + 1, Len(e.out)), m, l)
    BY <1>2, <1>4, <2>1, RunSplit
  <2>3. SubSeq(e.out, 1, n) \in Seq(Unit)
    BY <2>1
  <2>4. m \in Nat /\ m <= o.sent
    BY <1>2, <2>2
  <2>5. Run(p.got \o SubSeq(e.out, 1, n), 0, m)
    <3> DEFINE w == SubSeq(e.out, 1, n)
    <3>1. w \in Seq(Unit) /\ Run(w, g, m) /\ 0 \in Nat /\ p.got \in Seq(Unit) /\ Run(p.got, 0, g)
      BY <1>1, <2>2, <2>3
    <3> HIDE DEF w
    <3>2. Run(p.got \o w, 0, m)
      BY <2>4, <3>1, RunConcat
    <3> QED BY <3>2 DEF w
  <2>6. Run(pt.got, 0, m) /\ Run(r.out, m, l)
    BY <1>4, <2>2, <2>5
  <2> QED BY <1>2, <1>4, <2>4, <2>6 DEF Flow
<1> QED BY <1>3, <1>4

(* The socket writes, and the stream may be over with the last of it.       *)
LEMMA WriteKeeps ==
  ASSUME RelayIInv, NEW s \in Sides, Write(s)
  PROVE  RelayIInv'
<1> DEFINE e == end[s]
           o == outer[s]
           g == end[Peer(s)]
           p == outer[Peer(s)]
<1>1. /\ e.chan /\ e.out # << >> /\ conf' = conf /\ broken' = broken
  BY DEF Write
<1>2. /\ e \in End /\ o \in Outer /\ Fits(s, e) /\ Mode(s, e) /\ Talk(s, e, o)
      /\ e.state \notin {"NONE", "CLOSED"} /\ g \in End
      /\ SideInv(s, e, o, g, p, broken) /\ Told(e, o)
  BY <1>1, SideHas DEF SideInv
<1>3. CASE outer' = outer /\ end' = [end EXCEPT ![s] = OnError(e)]
  <2> DEFINE f == OnError(e)
  <2>1. Shuts(e, f) /\ Works(s, e, << >>, f)
    BY <1>2, OnErrorShuts
  <2>2. outer' = [outer EXCEPT ![s] = o]
    BY <1>3 DEF RelayIInv, RelayTypeOK
  <2>3. end' = [end EXCEPT ![s] = f]
    BY <1>3
  <2> HIDE DEF f
  <2>4. Told(f, o)
    BY <1>2, <2>1 DEF Told, Shuts, Ended
  <2> HIDE DEF e, o, g, p
  <2>5. SideInv(s, f, o, g, p, broken)
    BY <1>2, <2>1, <2>4, WorkKeeps
  <2> QED BY <1>1, <2>2, <2>3, <2>5, LocalStep DEF g, p
<1>4. ASSUME NEW n \in 1..Len(e.out),
             LET rest == [e EXCEPT !.out = SubSeq(@, n + 1, Len(@))] IN
             end' = [end EXCEPT ![s] = IF rest.out = << >> THEN OnWritten(rest) ELSE rest],
             outer' = [outer EXCEPT ![s].got =
                         IF outer[s].over = "no" THEN @ \o SubSeq(e.out, 1, n) ELSE @]
      PROVE  RelayIInv'
  <2> DEFINE rest == SubSeq(e.out, n + 1, Len(e.out))
             part == SubSeq(e.out, 1, n)
             got == IF o.over = "no" THEN o.got \o part ELSE o.got
             r == [e EXCEPT !.out = rest]
             ot == [o EXCEPT !.got = got]
             f == IF rest = << >> THEN OnWritten(r) ELSE r
  <2>1. e.out \in Seq(Unit) /\ o.got \in Seq(Unit)
    BY <1>2, OuterTypes DEF End
  <2>2. Len(e.out) \in Nat /\ rest \in Seq(Unit) /\ part \in Seq(Unit)
    BY <2>1
  <2>3. got \in Seq(Unit)
    BY <2>1, <2>2
  <2>4. outer' = [outer EXCEPT ![s] = ot]
    BY <1>4 DEF RelayIInv, RelayTypeOK
  <2>5. end' = [end EXCEPT ![s] = f]
    <3>1. r.out = rest
      BY <1>2 DEF End
    <3> QED BY <1>4, <3>1
  <2>6. ASSUME s = "csp", e.state # "FORWARDING", Lacks(o.got, "granted"), Lacks(e.out, "granted")
        PROVE  Lacks(got, "granted") /\ Lacks(rest, "granted")
    <3>1. /\ DOMAIN rest = 1..(Len(e.out) - n) /\ \A i \in 1..(Len(e.out) - n) : rest[i] = e.out[n + i]
          /\ DOMAIN part = 1..n /\ \A i \in 1..n : part[i] = e.out[i]
          /\ DOMAIN e.out = 1..Len(e.out)
      BY <2>1, <2>2
    <3>2. Lacks(rest, "granted") /\ Lacks(part, "granted")
      <4>1. \A i \in 1..(Len(e.out) - n) : n + i \in 1..Len(e.out)
        BY <2>2
      <4>2. \A i \in 1..n : i \in 1..Len(e.out)
        BY <2>2
      <4> HIDE DEF rest, part, e
      <4> QED BY <2>6, <3>1, <4>1, <4>2 DEF Lacks
    <3>3. Lacks(o.got \o part, "granted")
      <4> DEFINE a == o.got
      <4>1. a \in Seq(Unit) /\ part \in Seq(Unit) /\ Lacks(a, "granted")
        BY <2>1, <2>2, <2>6
      <4> HIDE DEF a, part
      <4>2. ASSUME NEW i \in DOMAIN (a \o part)
            PROVE  \/ i \in DOMAIN a /\ (a \o part)[i] = a[i]
                   \/ i - Len(a) \in DOMAIN part /\ (a \o part)[i] = part[i - Len(a)]
        BY <4>1
      <4> QED BY <3>2, <4>1, <4>2 DEF Lacks, a
    <3> QED BY <2>6, <3>2, <3>3
  <2> HIDE DEF got, rest, part
  <2>7. /\ Fits(s, r) /\ r.state = e.state /\ r.out = rest /\ r.tx = e.tx /\ r.inner = e.inner
        /\ r.weof = e.weof /\ r.shutR = e.shutR /\ r.shutW = e.shutW /\ r.half = e.half
    BY <1>2, <2>2, RestFits
  <2>8. /\ ot \in Outer /\ ot.got = got /\ ot.sent = o.sent /\ ot.asked = o.asked
        /\ ot.over = o.over /\ ot.sin = o.sin /\ ot.told = o.told
    <3> HIDE DEF o
    <3> QED BY <1>2, <2>3 DEF Outer
  <2> HIDE DEF r, ot
  <2>9. Talk(s, r, ot)
    <3>1. CASE s = "csp"
      <4>1. e.state # "READ_SOCKS5_GREETING"
        BY <1>1, <1>2, <3>1 DEF Talk, ClientTalk
      <4> QED BY <1>2, <2>6, <2>7, <2>8, <3>1, <4>1 DEF Talk, ClientTalk, Begun
    <3>2. CASE s = "ssp"
      BY <1>2, <2>7, <2>8, <3>2 DEF Talk, TargetTalk, Begun
    <3> QED BY <3>1, <3>2 DEF Sides
  <2>10. SideInv(s, r, ot, g, p, broken)
    <3>1. Told(r, ot)
      BY <1>2, <2>7, <2>8 DEF Told
    <3>2. ~broken => InStepAt(s, r, g)
      <4>1. r.tx = e.tx /\ r.state = e.state /\ r.shutR = e.shutR /\ r.shutW = e.shutW
        BY <2>7
      <4>2. ~broken => InStepAt(s, e, g)
        BY <1>2 DEF SideInv
      <4> HIDE DEF e, g
      <4> QED BY <4>1, <4>2 DEF InStepAt, InStep, ToSsp, ToCsp, OneEnd, Begun
    <3>3. Flow(ot, r, g, p, broken)
      <4>1. \A l \in Nat : Supplies(o, e, l) => Supplies(ot, r, l)
        <5> HIDE DEF e, o
        <5> QED BY <2>7, <2>8 DEF Supplies
      <4>2. o.sent \in Nat /\ ot.sent \in Nat /\ o.sent <= ot.sent
        BY <1>2, <2>8, OuterTypes
      <4>3. Flow(o, e, g, p, broken)
        BY <1>2 DEF SideInv
      <4> HIDE DEF e, o, g, p
      <4> QED BY <4>1, <4>2, <4>3, FlowFrom
    <3>4. Flow(p, g, r, ot, broken)
      <4>1. Flow(p, g, e, o, broken)
        BY <1>2 DEF SideInv
      <4>2. r.out = SubSeq(e.out, n + 1, Len(e.out))
        BY <2>7 DEF rest
      <4>3. ot.got = IF o.over = "no" THEN o.got \o SubSeq(e.out, 1, n) ELSE o.got
        BY <2>8 DEF got, part
      <4>4. p.sent \in Nat
        BY BothSides, OuterTypes DEF RelayIInv, SideInv
      <4> HIDE DEF e, o, g, p
      <4> QED BY <1>2, <2>1, <2>7, <2>8, <4>1, <4>2, <4>3, <4>4, WrittenFlow
    <3> QED BY <2>7, <2>8, <2>9, <3>1, <3>2, <3>3, <3>4 DEF SideInv
  <2>11. SideInv(s, f, ot, g, p, broken)
    <3>1. CASE f = r
      BY <2>10, <3>1
    <3>2. CASE f # r
      <4>1. f = BeDone(r, FALSE) /\ r.state = "FORWARDING"
        BY <3>2 DEF OnWritten
      <4>2. r \in End /\ r.bad = "no" /\ Mode(s, r) /\ DataOnly(r.inner)
        BY <2>7, SideFits
      <4>3. Shuts(r, f)
        BY <4>1, <4>2, ForwardingMode, BeDoneShuts
      <4> HIDE DEF f
      <4>4. << >> \in Seq(Unit)
        OBVIOUS
      <4>5. Works(s, r, << >>, f)
        BY <4>2, <4>3, <4>4, ShutsWorks
      <4>6. Told(f, ot)
        BY <2>10, <4>3 DEF Told, Shuts, Ended, SideInv
      <4> HIDE DEF e, o, g, p
      <4> QED BY <1>2, <2>7, <2>8, <2>10, <4>5, <4>6, WorkKeeps
    <3> QED BY <3>1, <3>2
  <2> HIDE DEF f, ot, e, o
  <2> QED BY <1>1, <2>4, <2>5, <2>11, LocalStep DEF g, p
<1> QED BY <1>3, <1>4 DEF Write

-----------------------------------------------------------------------------
(* The channel is lost, and what the target's connection says.              *)
LEMMA FlowBroken ==
  ASSUME NEW o, NEW e, NEW f, NEW p, Flow(o, e, f, p, FALSE)
  PROVE  Flow(o, e, f, p, TRUE)
BY DEF Flow

(* The connection of the channel breaks.                                    *)
LEMMA BreakChannelKeeps ==
  ASSUME RelayIInv, BreakChannel
  PROVE  RelayIInv'
<1>1. end' = end /\ outer' = outer /\ conf' = conf /\ broken = FALSE /\ broken' = TRUE
  BY DEF BreakChannel, RelayIInv, RelayTypeOK
<1>2. RelayTypeOK'
  BY <1>1 DEF RelayIInv, RelayTypeOK
<1>3. ASSUME NEW s \in Sides
      PROVE  SideInv(s, end[s], outer[s], end[Peer(s)], outer[Peer(s)], TRUE)
  <2>1. SideInv(s, end[s], outer[s], end[Peer(s)], outer[Peer(s)], FALSE)
    BY <1>1 DEF RelayIInv
  <2> QED BY <2>1, FlowBroken DEF SideInv
<1> QED BY <1>1, <1>2, <1>3 DEF RelayIInv

(* The target is connected.                                                 *)
LEMMA ConnectedKeeps ==
  ASSUME RelayIInv, OnConnected
  PROVE  RelayIInv'
<1> DEFINE e == end["ssp"]
           o == outer["ssp"]
           g == end[Peer("ssp")]
           p == outer[Peer("ssp")]
           f == HandOff(SetStreamConnected(e))
<1>1. /\ end' = [end EXCEPT !["ssp"] = f] /\ outer' = outer
      /\ conf' = conf /\ broken' = broken /\ e.state = "CONNECTING_TARGET" /\ "ssp" \in Sides
  BY DEF OnConnected, Sides
<1>2. /\ e \in End /\ o \in Outer /\ Fits("ssp", e) /\ Mode("ssp", e) /\ Talk("ssp", e, o)
      /\ SideInv("ssp", e, o, g, p, broken)
  BY <1>1, SideHas
<1>3. Opens("ssp", e) /\ e.bad = "no"
  BY <1>1, <1>2 DEF Mode, Waits, Early, Forwards, Ended
<1>4. /\ f \in End /\ Forwards(f) /\ f.bad = "no" /\ f.out = e.out
      /\ f.tx = Append(e.tx, Frame("SYN_REPLY")) /\ Unused(f)
  BY <1>2, <1>3, ConnectedForwards
<1>5. outer' = [outer EXCEPT !["ssp"] = o]
  BY <1>1 DEF RelayIInv, RelayTypeOK
<1> HIDE DEF f, e, o
<1>6. Fits("ssp", f)
  <2>1. f.half = FALSE /\ f.shutR = FALSE /\ f.shutW = FALSE
    BY <1>4 DEF Unused, End
  <2>2. RelayHalves(f)
    BY <2>1 DEF RelayHalves
  <2>3. Mode("ssp", f)
    BY <1>4 DEF Mode
  <2>4. DataOnly(f.inner)
    BY <1>4 DEF Unused, DataOnly
  <2> QED BY <2>2, <2>3, <2>4 DEF Fits
<1>7. Talk("ssp", f, o)
  BY <1>2, <1>4 DEF Talk, TargetTalk, Begun, Forwards
<1>8. Told(f, o)
  BY <1>2, <1>4 DEF Told, Unused, SideInv
<1>9. ~broken => InStepAt("ssp", f, g)
  <2>1. Fits("csp", g)
    <3>1. Peer("ssp") = "csp" /\ "csp" \in Sides
      BY DEF Peer, Sides
    <3> QED BY <3>1, SideHas
  <2> HIDE DEF g, p
  <2> QED BY <1>2, <1>3, <1>4, <2>1, ConnectingInStep DEF SideInv
<1> HIDE DEF g, p
<1>10. Flow(o, f, g, p, broken)
  <2>1. \A l, h \in Nat : Run(e.tx, l, h) => Run(f.tx, l, h)
    <3>1. Frame("SYN_REPLY") \in Unit /\ Frame("SYN_REPLY").type # "DATA" /\ e.tx \in Seq(Unit)
      BY <1>2, FrameUnit DEF End
    <3> QED BY <1>4, <3>1, RunSkip
  <2>2. f.inner = e.inner /\ e.state # "CLOSED" /\ f.state # "CLOSED"
    BY <1>3, <1>4 DEF Unused, Opens, Opening, Forwards
  <2>3. \A l \in Nat : Supplies(o, e, l) => Supplies(o, f, l)
    BY <2>1, <2>2 DEF Supplies
  <2> QED BY <1>2, <2>3, OuterTypes, FlowFrom DEF SideInv
<1>11. Flow(p, g, f, o, broken)
  <2>1. e.state # "CLOSED"
    BY <1>3 DEF Opens, Opening
  <2> QED BY <1>2, <1>4, <2>1, FlowTo DEF SideInv
<1>12. SideInv("ssp", f, o, g, p, broken)
  BY <1>2, <1>6, <1>7, <1>8, <1>9, <1>10, <1>11 DEF SideInv
<1> QED BY <1>1, <1>5, <1>12, LocalStep DEF g, p

(* The channel is gone, and the stream with it.                             *)
LEMMA Destroyed ==
  ASSUME NEW s \in Sides, NEW e, Fits(s, e),
         NEW f, f = [Close(e) EXCEPT !.stream = "destroyed", !.obs = "none", !.tx = << >>]
  PROVE  Fits(s, f) /\ Ended(f)
<1>1. Mode(s, e) /\ DataOnly(e.inner) /\ e.bad = "no"
  BY SideFits
<1> DEFINE c == Close(e)
<1>2. Shuts(e, c)
  BY <1>1, CloseShuts
<1>3. f = [c EXCEPT !.stream = "destroyed", !.obs = "none", !.tx = << >>]
  OBVIOUS
<1> HIDE DEF c
<1>4. c \in End /\ Ended(c) /\ c.bad = "no" /\ c.inner = e.inner
  BY <1>1, <1>2 DEF Shuts
<1>5. << >> \in Seq(Unit)
  OBVIOUS
<1>6. f \in End /\ Ended(f) /\ f.bad = "no" /\ f.inner = e.inner
  <2>1. f \in End /\ f.stream = "destroyed" /\ f.obs = "none" /\ f.tx = << >>
    BY <1>3, <1>4, <1>5 DEF End, StreamStates
  <2>2. f.state = c.state /\ f.bad = c.bad /\ f.inner = c.inner
        /\ f.chan = c.chan /\ f.out = c.out
    BY <1>3, <1>4 DEF End
  <2> QED BY <1>4, <2>1, <2>2 DEF Ended
<1> QED BY <1>1, <1>6 DEF Fits, Mode, RelayHalves, Ended, Forwards

(* Both sides are told that the channel is closed.                          *)
LEMMA ChannelClosedKeeps ==
  ASSUME RelayIInv, NEW s \in Sides, ChannelClosed(s)
  PROVE  RelayIInv'
<1> DEFINE e == end[s]
           o == outer[s]
           g == end[Peer(s)]
           p == outer[Peer(s)]
           f == [Close(e) EXCEPT !.stream = "destroyed", !.obs = "none", !.tx = << >>]
<1>1. /\ end' = [end EXCEPT ![s] = f] /\ outer' = outer
      /\ conf' = conf /\ broken' = broken /\ broken = TRUE
  BY DEF ChannelClosed, RelayIInv, RelayTypeOK
<1>2. /\ o \in Outer /\ Fits(s, e) /\ Talk(s, e, o)
      /\ SideInv(s, e, o, g, p, broken)
  BY SideHas
<1>3. Fits(s, f) /\ Ended(f)
  BY <1>2, Destroyed
<1>4. outer' = [outer EXCEPT ![s] = o]
  BY <1>1 DEF RelayIInv, RelayTypeOK
<1> HIDE DEF f, e, o, g, p
<1>5. f.state = "CLOSED"
  BY <1>3 DEF Ended
<1>6. Talk(s, f, o)
  BY <1>2, <1>5, KeepsTalk
<1>7. Told(f, o)
  BY <1>2, <1>5 DEF Told, SideInv
<1>8. Flow(o, f, g, p, broken)
  <2>1. Flow(o, e, g, p, broken) /\ o.sent \in Nat /\ o.sent <= o.sent
    BY <1>2, OuterTypes DEF SideInv
  <2>2. \A l \in Nat : ~broken /\ l <= o.sent /\ Supplies(o, e, l) => Supplies(o, f, l)
    BY <1>1
  <2> QED BY <2>1, <2>2, FlowFrom
<1>9. Flow(p, g, f, o, broken)
  BY <1>2, <1>5, FlowTo DEF SideInv
<1>10. SideInv(s, f, o, g, p, broken)
  BY <1>1, <1>2, <1>3, <1>6, <1>7, <1>8, <1>9 DEF SideInv
<1> QED BY <1>1, <1>4, <1>10, LocalStep DEF g, p

-----------------------------------------------------------------------------
(* A frame crosses the channel.                                             *)
LEMMA SenderFits ==
  ASSUME NEW s \in Sides, NEW d, Fits(s, d), d.tx # << >>,
         NEW r, r = [d EXCEPT !.tx = Tail(@)]
  PROVE  /\ Fits(s, r) /\ r.tx = Tail(d.tx) /\ r.state = d.state /\ r.out = d.out
         /\ r.inner = d.inner /\ r.weof = d.weof /\ r.shutW = d.shutW
<1>1. d \in End /\ d.bad = "no" /\ Mode(s, d) /\ RelayHalves(d) /\ DataOnly(d.inner)
  BY SideFits
<1>2. /\ r \in End /\ r.tx = Tail(d.tx)
      /\ \A k \in {"state", "buflo", "chan", "out", "half", "stream", "obs", "weof",
                   "inner", "shutR", "shutW", "bad"} : r[k] = d[k]
  BY <1>1, FirstFrame
<1>3. /\ r.state = d.state /\ r.buflo = d.buflo /\ r.chan = d.chan /\ r.half = d.half
      /\ r.stream = d.stream /\ r.obs = d.obs /\ r.weof = d.weof /\ r.out = d.out
      /\ r.inner = d.inner /\ r.shutR = d.shutR /\ r.shutW = d.shutW /\ r.bad = d.bad
  BY <1>2
<1>4. Opens(s, d) \/ Forwards(d) \/ Ended(d)
  BY <1>1 DEF Mode, Waits
<1>5. Opens(s, r) \/ Forwards(r) \/ Ended(r)
  BY <1>3, <1>4 DEF Opens, Forwards, Ended, Unused
<1>6. Mode(s, r)
  BY <1>1, <1>2, <1>3, <1>5 DEF Mode
<1>7. RelayHalves(r)
  BY <1>1, <1>3 DEF RelayHalves, Forwards
<1> QED BY <1>1, <1>2, <1>3, <1>6, <1>7 DEF Fits

(* What the receiver is afterwards, and was.                                *)
LEMMA TakenState ==
  ASSUME NEW s \in Sides, NEW e, Fits(s, e), NEW u, CanTake(s, e, u), NEW f, Takes(s, e, u, f)
  PROVE  \/ f = e /\ (u.type = "DATA" => e.state = "CLOSED")
         \/ /\ s = "ssp" /\ e.state = "NONE" /\ f.state = "CONNECTING_TARGET"
            /\ f.out = e.out /\ u.type # "DATA"
         \/ /\ s = "csp" /\ e.state = "CREATE_BUFLO_STREAM" /\ f.state = "FORWARDING"
            /\ f.out = Append(e.out, Frame("granted")) /\ ~f.weof /\ f.inner = << >>
            /\ u.type # "DATA"
         \/ /\ u.type = "DATA" /\ e.state = "FORWARDING" /\ f.state = "FORWARDING"
            /\ f.out = Append(e.out, u) /\ f.weof = e.weof
         \/ /\ u.type # "DATA" /\ e.state = "FORWARDING" /\ f.state = "FORWARDING"
            /\ f.out = e.out /\ f.weof = e.weof
         \/ f.state = "CLOSED"
<1>1. Mode(s, e)
  BY SideFits
<1>2. CASE f = e /\ ~Live(e) /\ u.type # "SYN_STREAM"
  <2>1. u.type = "DATA" => e.state = "CLOSED"
    <3>1. e.state = "FORWARDING" => Live(e)
      BY <1>1, ForwardingMode DEF Forwards, Live
    <3> QED BY <1>2, <3>1 DEF CanTake, Begun
  <2> QED BY <1>2, <2>1
<1>3. CASE u.type = "SYN_STREAM" /\ Waits(s, e) /\ Opens(s, f) /\ f.out = e.out
  BY <1>3 DEF CanTake, Opens, Opening
<1>4. CASE /\ u.type = "SYN_REPLY" /\ Opens(s, e) /\ Forwards(f) /\ Unused(f)
           /\ f.out = Append(e.out, Frame("granted"))
  BY <1>4 DEF CanTake, Opens, Opening, Forwards, Unused
<1>5. CASE /\ u.type = "DATA" /\ Forwards(e) /\ Forwards(f) /\ f.out = Append(e.out, u)
           /\ f.shutR = e.shutR /\ f.weof = e.weof
  BY <1>5 DEF Forwards
<1>6. CASE /\ u.type = "FIN" /\ Forwards(e) /\ Forwards(f) /\ f.out = e.out
           /\ f.shutR /\ f.weof = e.weof
  BY <1>6 DEF Forwards
<1>7. CASE u.type \in {"FIN", "RST"} /\ Live(e) /\ Ended(f)
  BY <1>7 DEF Ended
<1> QED BY <1>2, <1>3, <1>4, <1>5, <1>6, <1>7 DEF Takes

(* Taking a frame keeps the dialogue,                                       *)
LEMMA TakenTalk ==
  ASSUME NEW s \in Sides, NEW e, Fits(s, e), NEW u, CanTake(s, e, u), NEW f, Takes(s, e, u, f),
         NEW o, Talk(s, e, o), Told(e, o)
  PROVE  Talk(s, f, o) /\ Told(f, o)
<1>1. \/ f = e
      \/ s = "ssp" /\ e.state = "NONE" /\ f.state = "CONNECTING_TARGET"
      \/ s = "csp" /\ e.state = "CREATE_BUFLO_STREAM" /\ f.state = "FORWARDING" /\ ~f.weof
           /\ f.inner = << >>
      \/ e.state = "FORWARDING" /\ f.state = "FORWARDING" /\ f.weof = e.weof
      \/ f.state = "CLOSED"
  BY TakenState
<1>2. Told(f, o)
  <2>1. f.shutW = e.shutW /\ f.inner = e.inner
    BY DEF Takes
  <2> QED BY <1>1, <2>1 DEF Told
<1>3. CASE f = e \/ f.state = "CLOSED"
  <2>1. Talk(s, e, o) => Talk(s, f, o)
    BY <1>3 DEF Talk, ClientTalk, TargetTalk, Begun
  <2> QED BY <1>2, <2>1
<1>4. CASE s = "ssp" /\ f.state \in {"CONNECTING_TARGET", "FORWARDING"}
           /\ e.state \in {"NONE", "FORWARDING"} /\ (e.state = "FORWARDING" => f.state = "FORWARDING")
  BY <1>2, <1>4 DEF Talk, TargetTalk, Begun
<1>5. CASE s = "csp" /\ f.state = "FORWARDING" /\ e.state \in {"CREATE_BUFLO_STREAM", "FORWARDING"}
  <2>1. << >> = o.sin => DataOnly(o.sin)
    BY DEF DataOnly
  <2>2. ClientTalk(e, o)
    BY <1>5 DEF Talk
  <2>3. o.asked = "granted" /\ DataOnly(o.sin)
    BY <1>5, <2>1, <2>2 DEF ClientTalk
  <2>4. ClientTalk(f, o)
    BY <1>5, <2>3 DEF ClientTalk, Begun
  <2> QED BY <1>2, <1>5, <2>4 DEF Talk
<1> QED BY <1>1, <1>2, <1>3, <1>4, <1>5 DEF Sides

(* and the flow: the unit has moved from the way to the output.             *)
LEMMA TakenFlow ==
  ASSUME NEW s \in Sides, NEW e, Fits(s, e), NEW d \in End, d.tx # << >>,
         CanTake(s, e, Head(d.tx)), NEW f, Takes(s, e, Head(d.tx), f),
         NEW o, NEW p, p.sent \in Nat, Flow(p, d, e, o, FALSE),
         NEW r, r.tx = Tail(d.tx), r.inner = d.inner, r.state = d.state
  PROVE  Flow(p, r, f, o, FALSE)
<1> DEFINE u == Head(d.tx)
<1>1. PICK g \in Nat :
        /\ Run(o.got, 0, g) /\ g <= p.sent
        /\ e.state # "CLOSED" =>
             \E l \in Nat : /\ l <= p.sent
                            /\ o.over = "no" => Run(e.out, g, l)
                            /\ Supplies(p, d, l)
  BY DEF Flow
<1>2. /\ CanTake(s, e, u) /\ Takes(s, e, u, f) /\ e \in End /\ u \in Unit
      /\ d.tx \in Seq(Unit) /\ e.out \in Seq(Unit)
  <2>1. e \in End
    BY SideFits
  <2> QED BY <2>1 DEF CanTake, End
<1>3. ASSUME f.state # "CLOSED"
      PROVE  \E l \in Nat : /\ l <= p.sent
                            /\ o.over = "no" => Run(f.out, g, l)
                            /\ Supplies(p, r, l)
  <2>1. /\ e.state # "CLOSED"
        /\ u.type # "DATA" => f.out = e.out \/ f.out = Append(e.out, Frame("granted"))
        /\ u.type = "DATA" => f.out = Append(e.out, u)
    <3> HIDE DEF u
    <3> QED BY <1>2, <1>3, TakenState
  <2>2. PICK l \in Nat : /\ l <= p.sent
                         /\ o.over = "no" => Run(e.out, g, l)
                         /\ Supplies(p, d, l)
    BY <1>1, <2>1
  <2>3. PICK t \in Nat, i \in Nat, h \in Nat :
          /\ Run(d.tx, l, t) /\ t <= p.sent
          /\ d.state # "CLOSED" =>
               /\ Run(d.inner, t, i) /\ Run(p.sin, i, h) /\ h <= p.sent
               /\ p.over # "error" => h = p.sent
    BY <2>2 DEF Supplies
  <2>4. /\ u.type # "DATA" => Run(r.tx, l, t)
        /\ u.type = "DATA" => l + 1 <= t /\ u.data = l + 1 /\ Run(r.tx, l + 1, t)
    BY <1>2, <2>3, RunTake
  <2> HIDE DEF u
  <2>5. CASE u.type # "DATA"
    <3>1. Supplies(p, r, l)
      BY <2>3, <2>4, <2>5 DEF Supplies
    <3>2. Frame("granted") \in Unit /\ Frame("granted").type # "DATA"
      BY FrameUnit
    <3>3. o.over = "no" => Run(f.out, g, l)
      BY <1>2, <2>1, <2>2, <2>5, <3>2, RunSkip
    <3> QED BY <2>2, <3>1, <3>3
  <2>6. CASE u.type = "DATA"
    <3>1. l + 1 \in Nat /\ l + 1 <= p.sent
      BY <2>3, <2>4, <2>6
    <3>2. Supplies(p, r, l + 1)
      BY <2>3, <2>4, <2>6, <3>1 DEF Supplies
    <3>3. o.over = "no" => Run(f.out, g, l + 1)
      BY <1>2, <2>1, <2>2, <2>4, <2>6, RunAppend
    <3> QED BY <3>1, <3>2, <3>3
  <2> QED BY <2>5, <2>6
<1> QED BY <1>1, <1>3 DEF Flow

(* A side receives a frame.                                                 *)
LEMMA MuxRecvKeeps ==
  ASSUME RelayIInv, NEW s \in Sides, MuxRecv(s)
  PROVE  RelayIInv'
<1> DEFINE q == Peer(s)
           e == end[s]
           o == outer[s]
           d == end[q]
           p == outer[q]
           r == [d EXCEPT !.tx = Tail(@)]
           f == Recv(e, Head(d.tx))
<1>1. q \in Sides /\ q # s /\ Peer(q) = s /\ \A t \in Sides : t = s \/ t = q
  BY BothSides
<1>2. /\ broken = FALSE /\ d.tx # << >> /\ outer' = outer /\ conf' = conf /\ broken' = FALSE
      /\ end \in [Sides -> End] /\ outer \in [Sides -> Outer]
  BY DEF MuxRecv, RelayIInv, RelayTypeOK
<1>3. end'[s] = f /\ end'[q] = r /\ end' \in [Sides -> {f, r}]
  <2>1. end' = [end EXCEPT ![q].tx = Tail(@), ![s] = Recv(@, Head(end[q].tx))]
    BY DEF MuxRecv
  <2> QED BY <1>1, <1>2, <2>1
<1>4. /\ SideInv(s, e, o, d, p, FALSE) /\ Fits(s, e) /\ Talk(s, e, o) /\ o \in Outer
      /\ SideInv(q, d, p, e, o, FALSE) /\ Fits(q, d) /\ Talk(q, d, p) /\ p \in Outer
      /\ e \in End /\ d \in End
  <2>1. /\ SideInv(s, e, o, d, p, FALSE) /\ Fits(s, e) /\ Talk(s, e, o) /\ o \in Outer
        /\ e \in End
    BY <1>2, SideHas
  <2> HIDE DEF q
  <2>2. /\ SideInv(q, end[q], outer[q], end[Peer(q)], outer[Peer(q)], broken)
        /\ end[q] \in End /\ outer[q] \in Outer /\ Fits(q, end[q]) /\ Talk(q, end[q], outer[q])
    BY <1>1, SideHas
  <2>3. Peer(q) = s /\ broken = FALSE
    BY <1>1, <1>2
  <2> QED BY <2>1, <2>2, <2>3
<1>5. /\ Told(e, o) /\ Told(d, p) /\ InStepAt(s, e, d)
      /\ Flow(o, e, d, p, FALSE) /\ Flow(p, d, e, o, FALSE)
  BY <1>4 DEF SideInv
<1>6. CanTake(s, e, Head(d.tx))
  BY <1>2, <1>4, <1>5, HeadFits
<1>7. Takes(s, e, Head(d.tx), f)
  BY <1>4, <1>6, RecvTakes
<1> HIDE DEF f
<1>8. InStepAt(s, f, r)
  BY <1>2, <1>4, <1>5, <1>6, <1>7, TakingInStep
<1>9. Talk(s, f, o) /\ Told(f, o)
  BY <1>4, <1>5, <1>6, <1>7, TakenTalk
<1>10. /\ Fits(q, r) /\ r.tx = Tail(d.tx) /\ r.state = d.state /\ r.out = d.out
       /\ r.inner = d.inner /\ r.weof = d.weof /\ r.shutW = d.shutW
  <2> HIDE DEF d
  <2> QED BY <1>1, <1>2, <1>4, SenderFits
<1>11. /\ Fits(s, f) /\ f.tx = e.tx /\ f.inner = e.inner
       /\ f.state # "CLOSED" => e.state # "CLOSED"
  <2>1. f.state # "CLOSED" => e.state # "CLOSED"
    BY <1>4, <1>6, <1>7, TakenState
  <2> QED BY <1>7, <2>1 DEF Takes
<1> HIDE DEF r, e, d, o, p
<1>12. Talk(q, r, p) /\ Told(r, p)
  <2>1. Talk(q, r, p)
    BY <1>1, <1>4, <1>10, KeepsTalk
  <2> QED BY <1>5, <1>10, <2>1 DEF Told
<1>13. Flow(p, r, f, o, FALSE)
  <2>1. p.sent \in Nat
    BY <1>4, OuterTypes
  <2> QED BY <1>2, <1>4, <1>5, <1>6, <1>7, <1>10, <2>1, TakenFlow
<1>14. Flow(o, f, r, p, FALSE)
  <2>1. Flow(o, e, r, p, FALSE)
    BY <1>5, <1>10, FlowTo
  <2>2. \A l \in Nat : Supplies(o, e, l) => Supplies(o, f, l)
    BY <1>11 DEF Supplies
  <2>3. o.sent \in Nat /\ o.sent <= o.sent
    BY <1>4, OuterTypes
  <2> QED BY <2>1, <2>2, <2>3, FlowFrom
<1> HIDE DEF q
<1>15. InStepAt(q, r, f)
  BY <1>1, <1>8, InStepSame DEF q
<1>16. SideInv(s, f, o, r, p, FALSE)
  BY <1>4, <1>8, <1>9, <1>11, <1>13, <1>14 DEF SideInv
<1>17. SideInv(q, r, p, f, o, FALSE)
  BY <1>4, <1>10, <1>12, <1>13, <1>14, <1>15 DEF SideInv
<1>18. RelayTypeOK'
  <2>1. f \in End /\ r \in End
    BY <1>1, <1>10, <1>11, SideFits
  <2> QED BY <1>2, <1>3, <2>1 DEF RelayIInv, RelayTypeOK
<1>19. outer'[s] = o /\ outer'[q] = p
  BY <1>2 DEF o, p
<1>20. \A t \in Sides : SideInv(t, end'[t], outer'[t], end'[Peer(t)], outer'[Peer(t)], broken')
  <2> SUFFICES ASSUME NEW t \in Sides
               PROVE  SideInv(t, end'[t], outer'[t], end'[Peer(t)], outer'[Peer(t)], broken')
    OBVIOUS
  <2>1. CASE t = s
    <3>1. Peer(t) = q
      BY <2>1 DEF q
    <3> QED BY <1>2, <1>3, <1>16, <1>19, <2>1, <3>1
  <2>2. CASE t = q
    <3>1. Peer(t) = s
      BY <1>1, <2>2
    <3> QED BY <1>2, <1>3, <1>17, <1>19, <2>2, <3>1
  <2> QED BY <1>1, <2>1, <2>2
<1> QED BY <1>18, <1>20 DEF RelayIInv

-----------------------------------------------------------------------------
(* The invariant holds at first, and every step keeps it.                   *)

(* A read does not split a SOCKS5 message; and in Shadow a socket that is   *)
(* read again after its end of input reports an error or nothing.           *)
SocketsAsRead == \A c \in Confs : ~c.splits /\ (c.shadow => c.after # "eof")

(* At first nothing flows,                                                  *)
LEMMA EmptyFlow ==
  ASSUME NEW o, NEW e, NEW f, NEW p, o.sent = 0, o.sin = << >>, e.tx = << >>, e.inner = << >>,
         f.out = << >>, p.got = << >>
  PROVE  Flow(o, e, f, p, FALSE)
<1>1. Run(<< >>, 0, 0)
  BY RunEmpty
<1>2. Supplies(o, e, 0)
  BY <1>1 DEF Supplies
<1> QED BY <1>1, <1>2 DEF Flow

(* and both sides wait.                                                     *)
LEMMA NewSides ==
  ASSUME NEW s \in Sides, NEW first, first = IF s = "csp" THEN "READ_SOCKS5_GREETING" ELSE "NONE",
         NEW e, e = NewEnd(first)
  PROVE  /\ e \in End /\ Fits(s, e) /\ Waits(s, e) /\ e.state = first /\ e.out = << >>
         /\ e.tx = << >> /\ e.inner = << >> /\ ~e.weof
<1>1. << >> \in Seq(Unit)
  OBVIOUS
<1>2. first \in HandlerStates /\ (first # "NONE") = (s = "csp") /\ first \in Early(s)
  BY DEF HandlerStates, Early, Sides
<1>3. e \in End
  <2>1. first \in HandlerStates /\ (first # "NONE") \in BOOLEAN
    BY <1>2
  <2>2. "no" \in Failures \cup {"no"}
    OBVIOUS
  <2> QED BY <1>1, <2>1, <2>2 DEF End, NewEnd, StreamStates
<1>4. /\ e.state = first /\ e.buflo = TRUE /\ e.chan = (s = "csp") /\ e.out = << >>
      /\ e.half = FALSE /\ e.stream = "none" /\ e.obs = "none" /\ e.weof = FALSE
      /\ e.inner = << >> /\ e.shutR = FALSE /\ e.shutW = FALSE /\ e.tx = << >> /\ e.bad = "no"
  BY <1>2 DEF NewEnd
<1> HIDE DEF NewEnd
<1>5. Waits(s, e) /\ ~Forwards(e)
  BY <1>2, <1>4 DEF Waits, Unused, Forwards
<1>6. Mode(s, e)
  BY <1>3, <1>4, <1>5 DEF Mode
<1> QED BY <1>3, <1>4, <1>5, <1>6 DEF Fits, RelayHalves, DataOnly

(* The invariant holds at first.                                            *)
LEMMA RelayInitInv ==
  ASSUME RelayInit
  PROVE  RelayIInv
<1> DEFINE first(s) == IF s = "csp" THEN "READ_SOCKS5_GREETING" ELSE "NONE"
<1>1. /\ conf \in Confs /\ broken = FALSE
      /\ \A s \in Sides : end[s] = NewEnd(first(s)) /\ outer[s] = NewOuter
      /\ DOMAIN end = Sides /\ DOMAIN outer = Sides
      /\ end \in [Sides -> {end[s] : s \in Sides}] /\ outer \in [Sides -> {NewOuter}]
  BY DEF RelayInit
<1>2. /\ NewOuter \in Outer /\ NewOuter.sin = << >> /\ NewOuter.over = "no" /\ NewOuter.sent = 0
      /\ NewOuter.asked = "nothing" /\ NewOuter.got = << >> /\ NewOuter.told = FALSE
  <2>1. << >> \in Seq(Unit) /\ 0 \in 0..MaxUnits
    BY RelayAssumption
  <2> QED BY <2>1 DEF NewOuter, Outer
<1>3. ASSUME NEW s \in Sides
      PROVE  /\ end[s] \in End /\ Fits(s, end[s]) /\ Waits(s, end[s])
             /\ end[s].state = first(s) /\ end[s].out = << >> /\ end[s].tx = << >>
             /\ end[s].inner = << >> /\ ~end[s].weof
  BY <1>1, NewSides
<1>4. RelayTypeOK
  BY <1>1, <1>2, <1>3 DEF RelayTypeOK
<1> HIDE DEF NewOuter
<1>5. ASSUME NEW s \in Sides
      PROVE  SideInv(s, end[s], outer[s], end[Peer(s)], outer[Peer(s)], FALSE)
  <2> DEFINE e == end[s]
             o == outer[s]
             f == end[Peer(s)]
             p == outer[Peer(s)]
  <2>1. Peer(s) \in Sides /\ (s = "csp" <=> Peer(s) # "csp")
    BY BothSides
  <2>2. /\ Fits(s, e) /\ Waits(s, e) /\ e.state = first(s) /\ e.out = << >> /\ e.tx = << >>
        /\ e.inner = << >> /\ ~e.weof /\ o = NewOuter
    BY <1>1, <1>3
  <2>3. /\ Waits(Peer(s), f) /\ f.state = first(Peer(s)) /\ f.out = << >> /\ f.tx = << >>
        /\ f.inner = << >> /\ p = NewOuter
    BY <1>1, <1>3, <2>1
  <2> HIDE DEF e, o, f, p
  <2>4. Talk(s, e, o)
    BY <1>2, <2>2 DEF Talk, ClientTalk, TargetTalk, Begun, Lacks, DataOnly
  <2>5. Told(e, o)
    BY <1>2, <2>2 DEF Told
  <2>6. InStepAt(s, e, f)
    <3>1. DOMAIN e.tx = {} /\ DOMAIN f.tx = {}
      BY <2>2, <2>3
    <3>2. OneEnd(e, f) /\ OneEnd(f, e)
      BY <2>1, <2>2, <2>3, <3>1 DEF OneEnd
    <3>3. CASE s = "csp"
      BY <2>1, <2>2, <2>3, <3>1, <3>2, <3>3 DEF InStepAt, InStep, ToSsp, ToCsp
    <3>4. CASE s # "csp"
      BY <2>1, <2>2, <2>3, <3>1, <3>2, <3>4 DEF InStepAt, InStep, ToSsp, ToCsp
    <3> QED BY <3>3, <3>4
  <2>7. Flow(o, e, f, p, FALSE) /\ Flow(p, f, e, o, FALSE)
    BY <1>2, <2>2, <2>3, EmptyFlow
  <2>8. SideInv(s, e, o, f, p, FALSE)
    BY <1>2, <2>2, <2>4, <2>5, <2>6, <2>7 DEF SideInv
  <2> QED BY <2>8 DEF e, o, f, p
<1> QED BY <1>1, <1>4, <1>5 DEF RelayIInv

(* Every step keeps it.                                                     *)
LEMMA RelayNextInv ==
  ASSUME SocketsAsRead, RelayIInv, [RelayNext]_relayVars
  PROVE  RelayIInv'
<1>1. ASSUME NEW s \in Sides, ReadData(s)
      PROVE  RelayIInv'
  BY <1>1, ReadDataKeeps DEF SocketsAsRead
<1>2. ASSUME NEW s \in Sides, ReadEnd(s)
      PROVE  RelayIInv'
  BY <1>2, ReadEndKeeps DEF SocketsAsRead
<1>3. ASSUME NEW s \in Sides, Write(s)
      PROVE  RelayIInv'
  BY <1>3, WriteKeeps
<1>4. ASSUME NEW s \in Sides, MuxRecv(s)
      PROVE  RelayIInv'
  BY <1>4, MuxRecvKeeps
<1>5. ASSUME NEW s \in Sides, ChannelClosed(s)
      PROVE  RelayIInv'
  BY <1>5, ChannelClosedKeeps
<1>6. ASSUME NEW s \in Sides, Send(s)
      PROVE  RelayIInv'
  BY <1>6, SendKeeps
<1>7. ASSUME NEW s \in Sides, Leave(s)
      PROVE  RelayIInv'
  BY <1>7, LeaveKeeps
<1>8. CASE OnConnected
  BY <1>8, ConnectedKeeps
<1>9. CASE OnConnectFailed
  BY <1>9, ConnectFailedKeeps
<1>10. CASE ClientAsks
  BY <1>10, ClientAsksKeeps
<1>11. CASE BreakChannel
  BY <1>11, BreakChannelKeeps
<1>12. CASE UNCHANGED relayVars
  <2>1. end' = end /\ outer' = outer /\ conf' = conf /\ broken' = broken
    BY <1>12 DEF relayVars
  <2> QED BY <2>1 DEF RelayIInv, RelayTypeOK
<1> QED BY <1>1, <1>2, <1>3, <1>4, <1>5, <1>6, <1>7, <1>8, <1>9, <1>10, <1>11, <1>12 DEF RelayNext

(* It implies the first safety property,                                    *)
LEMMA InvIsSafe ==
  ASSUME RelayIInv
  PROVE  RelayIsSafe
<1>1. RelayTypeOK /\ \A s \in Sides : Mode(s, end[s])
  BY SideHas DEF RelayIInv
<1>2. ChecksHold
  BY <1>1 DEF ChecksHold, Runs, Mode
<1>3. ASSUME NEW s \in Sides, end[s].obs # "none"
      PROVE  /\ Live(end[s]) /\ end[s].state # "CLOSED"
             /\ end[s].obs = "ioh" <=> end[s].state = "FORWARDING"
  <2>1. Opens(s, end[s]) \/ Forwards(end[s])
    BY <1>1, <1>3 DEF Mode, Waits, Ended
  <2> QED BY <2>1 DEF Opens, Opening, Forwards, Live
<1> QED BY <1>1, <1>2, <1>3 DEF RelayIsSafe, ObserversAlive

(* and the second.                                                          *)
LEMMA InvDelivers ==
  ASSUME RelayIInv
  PROVE  Delivery
<1>1. ASSUME NEW s \in Sides
      PROVE  \E n \in 0..outer[Peer(s)].sent : Carries(outer[s].got, n)
  <2>1. /\ Flow(outer[Peer(s)], end[Peer(s)], end[s], outer[s], broken)
        /\ outer[s] \in Outer
    BY SideHas DEF SideInv
  <2>2. outer[s].got \in Seq(Unit) /\ outer[Peer(s)].sent \in Nat
    BY BothSides, SideHas, OuterTypes
  <2>3. PICK g \in Nat : Run(outer[s].got, 0, g) /\ g <= outer[Peer(s)].sent
    BY <2>1 DEF Flow
  <2>4. Carries(outer[s].got, g)
    BY <2>2, <2>3, RunCarries
  <2> QED BY <2>2, <2>3, <2>4
<1>2. ASSUME \A s \in Sides : end[s].state = "FORWARDING" /\ outer[s].over = "no",
             ~broken, NEW s \in Sides
      PROVE  Carries(outer[Peer(s)].got \o end[Peer(s)].out
                       \o end[s].tx \o end[s].inner \o outer[s].sin,
                     outer[s].sent)
  <2> DEFINE e == end[s]
             o == outer[s]
             f == end[Peer(s)]
             p == outer[Peer(s)]
  <2>1. Peer(s) \in Sides
    BY BothSides
  <2>2. /\ Flow(o, e, f, p, broken) /\ e.state # "CLOSED" /\ f.state # "CLOSED"
        /\ p.over = "no" /\ o.over = "no" /\ ~broken
    BY <1>2, <2>1, SideHas DEF SideInv
  <2>3. /\ p.got \in Seq(Unit) /\ f.out \in Seq(Unit) /\ e.tx \in Seq(Unit)
        /\ e.inner \in Seq(Unit) /\ o.sin \in Seq(Unit) /\ o.sent \in Nat
    BY <2>1, SideHas, OuterTypes DEF End
  <2> HIDE DEF e, o, f, p
  <2>4. PICK g \in Nat, l \in Nat : Run(p.got, 0, g) /\ Run(f.out, g, l) /\ Supplies(o, e, l)
    BY <2>2 DEF Flow
  <2>5. PICK t \in Nat, i \in Nat :
          Run(e.tx, l, t) /\ Run(e.inner, t, i) /\ Run(o.sin, i, o.sent)
    BY <2>2, <2>4 DEF Supplies
  <2> DEFINE a == p.got \o f.out
             b == a \o e.tx
             c == b \o e.inner
             d == c \o o.sin
  <2>6. a \in Seq(Unit) /\ Run(a, 0, l)
    BY <2>3, <2>4, RunOn
  <2> HIDE DEF a
  <2>7. b \in Seq(Unit) /\ Run(b, 0, t)
    BY <2>3, <2>5, <2>6, RunOn
  <2> HIDE DEF b
  <2>8. c \in Seq(Unit) /\ Run(c, 0, i)
    BY <2>3, <2>5, <2>7, RunOn
  <2> HIDE DEF c
  <2>9. d \in Seq(Unit) /\ Run(d, 0, o.sent)
    BY <2>3, <2>5, <2>8, RunOn
  <2> HIDE DEF d
  <2>10. Carries(d, o.sent)
    BY <2>3, <2>9, RunCarries
  <2> QED BY <2>10 DEF a, b, c, d, e, o, f, p
<1> QED BY <1>1, <1>2 DEF Delivery, NothingLost, InOrder

(* So it always holds.                                                      *)
LEMMA RelayInvAlways ==
  ASSUME SocketsAsRead
  PROVE  RelaySpec => []RelayIInv
<1>1. RelayInit => RelayIInv
  BY RelayInitInv
<1>2. RelayIInv /\ [RelayNext]_relayVars => RelayIInv'
  BY RelayNextInv
<1> QED BY <1>1, <1>2, PTL DEF RelaySpec

(* No check of the client handler, the server handler or                   *)
(* InnerOuterHandler fails, and a stream never calls a handler that is      *)
(* gone: whatever the programs send, whenever they leave, and whenever the  *)
(* channel breaks.  The assumption leaves out the two kinds of sockets that *)
(* do fail a check, whatever the handlers do: those of Shadow that report   *)
(* their end again at each poll, and reads that split a SOCKS5 message.     *)
THEOREM RelayStaysSafe ==
  ASSUME SocketsAsRead
  PROVE  RelaySpec => []RelayIsSafe
<1>1. RelayIInv => RelayIsSafe
  BY InvIsSafe
<1> QED BY <1>1, RelayInvAlways, PTL

(* What a program has received is what the other sent, from the first unit  *)
(* on, each once and in order: write_buffer, the data provider, the mux and *)
(* the socket's output lose, repeat and swap nothing; and while both sides  *)
(* forward, what is not received yet is all on the way.                     *)
THEOREM RelayDelivers ==
  ASSUME SocketsAsRead
  PROVE  RelaySpec => []Delivery
<1>1. RelayIInv => Delivery
  BY InvDelivers
<1> QED BY <1>1, RelayInvAlways, PTL

-----------------------------------------------------------------------------
(* Hanging up.                                                              *)
HangsUp ==
  /\ conf.shadow /\ ~broken /\ outer["csp"].over = "no"
  /\ end["csp"].state = "FORWARDING" /\ end'["csp"].state = "CLOSED"
  /\ end["ssp"].state = "FORWARDING"

Served(got) == outer["ssp"].over = "eof" /\ Carries(got, outer["ssp"].sent)

(* A list without data carries none.                                        *)
LEMMA RunNothing ==
  ASSUME NEW q, Lacks(q, "DATA"), NEW l \in Nat, NEW h \in Nat, Run(q, l, h)
  PROVE  l = h
<1>1. ASSUME l < h
      PROVE  FALSE
  <2>1. l + 1 \in (l + 1)..h
    BY <1>1
  <2> QED BY <2>1 DEF Run, DataAt, Lacks
<1>2. l <= h
  BY RunUp
<1> QED BY <1>1, <1>2

(* Two sides that forward, on a channel that is up.                         *)
LEMMA BothForward ==
  ASSUME RelayIInv, ~broken, end["csp"].state = "FORWARDING", end["ssp"].state = "FORWARDING",
         outer["csp"].over = "no"
  PROVE  /\ Fits("csp", end["csp"]) /\ Forwards(end["csp"]) /\ end["csp"] \in End
         /\ ~end["csp"].weof /\ ~end["csp"].shutW /\ outer["csp"] \in Outer
         /\ Fits("ssp", end["ssp"]) /\ Forwards(end["ssp"]) /\ end["ssp"] \in End
         /\ outer["ssp"] \in Outer /\ Told(end["ssp"], outer["ssp"])
         /\ Flow(outer["ssp"], end["ssp"], end["csp"], outer["csp"], FALSE)
         /\ InStepAt("csp", end["csp"], end["ssp"])
<1>1. "csp" \in Sides /\ "ssp" \in Sides /\ Peer("csp") = "ssp" /\ broken = FALSE
  BY DEF Sides, Peer, RelayIInv, RelayTypeOK
<1> DEFINE e == end["csp"]
           o == outer["csp"]
           g == end["ssp"]
           p == outer["ssp"]
<1>2. /\ SideInv("csp", e, o, g, p, FALSE) /\ e \in End /\ o \in Outer /\ Fits("csp", e)
      /\ g \in End /\ p \in Outer /\ Fits("ssp", g) /\ Mode("csp", e) /\ Mode("ssp", g)
  BY <1>1, SideHas
<1>3. Told(g, p)
  BY <1>1, SideHas DEF SideInv
<1>4. e.state = "FORWARDING" /\ g.state = "FORWARDING" /\ o.over = "no"
  OBVIOUS
<1> HIDE DEF e, o, g, p
<1>5. Forwards(e) /\ Forwards(g)
  BY <1>1, <1>2, <1>4, ForwardingMode
<1>6. Told(e, o) /\ Flow(p, g, e, o, FALSE) /\ InStepAt("csp", e, g)
  BY <1>2 DEF SideInv
<1>7. ~e.weof
  BY <1>4, <1>6 DEF Told
<1>8. ~e.shutW
  BY <1>2, <1>5, <1>7 DEF Fits, RelayHalves
<1> QED BY <1>2, <1>3, <1>5, <1>6, <1>7, <1>8 DEF e, o, g, p

(* The other side has ended its direction, and nothing is on the way.       *)
LEMMA DrainedServed ==
  ASSUME RelayIInv, ~broken, end["csp"].state = "FORWARDING", end["ssp"].state = "FORWARDING",
         outer["csp"].over = "no", end["csp"].half
  PROVE  Served(outer["csp"].got \o end["csp"].out)
<1> DEFINE e == end["csp"]
           o == outer["csp"]
           g == end["ssp"]
           p == outer["ssp"]
<1>1. /\ Fits("csp", e) /\ Forwards(e) /\ e \in End /\ o \in Outer
      /\ Fits("ssp", g) /\ Forwards(g) /\ p \in Outer /\ Told(g, p)
      /\ Flow(p, g, e, o, FALSE) /\ InStepAt("csp", e, g)
  BY BothForward
<1>2. e.half /\ o.over = "no"
  OBVIOUS
<1> HIDE DEF e, o, g, p
<1>3. e.shutR /\ e.state = "FORWARDING" /\ g.state = "FORWARDING"
  BY <1>1, <1>2 DEF Fits, RelayHalves, Forwards
<1>4. g.shutW /\ Lacks(g.tx, "DATA")
  BY <1>1, <1>3 DEF InStepAt, InStep, OneEnd
<1>5. g.weof
  BY <1>1, <1>4 DEF Fits, RelayHalves
<1>6. p.over = "eof" /\ p.sin = << >> /\ g.inner = << >>
  BY <1>1, <1>3, <1>4, <1>5 DEF Told
<1>7. PICK k \in Nat, l \in Nat : Run(o.got, 0, k) /\ Run(e.out, k, l) /\ Supplies(p, g, l)
  BY <1>1, <1>2, <1>3 DEF Flow
<1>8. PICK t \in Nat, i \in Nat, h \in Nat :
        Run(g.tx, l, t) /\ Run(g.inner, t, i) /\ Run(p.sin, i, h) /\ h = p.sent
  BY <1>3, <1>6, <1>7 DEF Supplies
<1>9. Lacks(<< >>, "DATA")
  BY DEF Lacks
<1>10. l = t /\ t = i /\ i = h
  BY <1>4, <1>6, <1>8, <1>9, RunNothing
<1>11. o.got \in Seq(Unit) /\ e.out \in Seq(Unit)
  BY <1>1, OuterTypes DEF End
<1> DEFINE q == o.got \o e.out
<1>12. q \in Seq(Unit) /\ Run(q, 0, l)
  BY <1>7, <1>11, RunOn
<1> HIDE DEF q
<1>13. Carries(q, p.sent)
  BY <1>8, <1>10, <1>12, RunCarries
<1> QED BY <1>6, <1>13 DEF Served, e, o, p, q

(* A handler that hangs up because its last write is done.                  *)
LEMMA WriteServes ==
  ASSUME RelayIInv, Write("csp"), HangsUp
  PROVE  Served(outer'["csp"].got)
<1> DEFINE e == end["csp"]
           o == outer["csp"]
<1>1. /\ ~broken /\ e.state = "FORWARDING" /\ end["ssp"].state = "FORWARDING" /\ o.over = "no"
      /\ end'["csp"].state = "CLOSED"
  BY DEF HangsUp
<1>2. e \in End /\ o \in Outer /\ Fits("csp", e) /\ "csp" \in Sides
  BY <1>1, BothForward DEF Sides
<1>3. end \in [Sides -> End] /\ outer \in [Sides -> Outer]
  BY DEF RelayIInv, RelayTypeOK
<1>4. PICK n \in 1..Len(e.out) :
        LET rest == [e EXCEPT !.out = SubSeq(@, n + 1, Len(@))] IN
        /\ end' = [end EXCEPT !["csp"] = IF rest.out = << >> THEN OnWritten(rest) ELSE rest]
        /\ outer' = [outer EXCEPT !["csp"].got =
                       IF outer["csp"].over = "no" THEN @ \o SubSeq(e.out, 1, n) ELSE @]
  BY <1>1 DEF Write
<1>5. e.out \in Seq(Unit)
  BY <1>2 DEF End
<1> DEFINE left == SubSeq(e.out, n + 1, Len(e.out))
<1>6. PICK r : r = [e EXCEPT !.out = left]
  OBVIOUS
<1>7. r.out = left /\ r.state = e.state /\ r.half = e.half
  BY <1>2, <1>6 DEF End
<1>8. end'["csp"] = IF left = << >> THEN OnWritten(r) ELSE r
  BY <1>2, <1>3, <1>4, <1>6, <1>7
<1>9. outer'["csp"].got = o.got \o SubSeq(e.out, 1, n)
  <2>1. outer' = [outer EXCEPT !["csp"].got = o.got \o SubSeq(e.out, 1, n)]
    BY <1>1, <1>4
  <2> QED BY <1>2, <1>3, <2>1 DEF Outer
<1>10. left = << >> /\ e.half
  BY <1>1, <1>7, <1>8 DEF OnWritten
<1>11. SubSeq(e.out, 1, n) = e.out
  <2> DEFINE q == e.out
  <2>1. q \in Seq(Unit) /\ n \in 1..Len(q) /\ Len(q) \in Nat
    BY <1>5
  <2>2. Len(left) = Len(q) - n
    BY <2>1
  <2>3. n = Len(q)
    <3> HIDE DEF left, q
    <3>1. Len(left) = 0
      BY <1>10
    <3> QED BY <2>1, <2>2, <3>1
  <2> HIDE DEF q
  <2>4. SubSeq(q, 1, Len(q)) = q
    BY <2>1
  <2> QED BY <2>3, <2>4 DEF q
<1>12. Served(o.got \o e.out)
  BY <1>1, <1>10, DrainedServed
<1> QED BY <1>9, <1>11, <1>12

(* A frame does not end a side that has not ended its own direction.        *)
LEMMA FrameKeepsOpen ==
  ASSUME NEW e, NEW g, Fits("csp", e), Forwards(e), ~e.shutW, Fits("ssp", g),
         g.state = "FORWARDING", InStepAt("csp", e, g), g.tx # << >>
  PROVE  Recv(e, Head(g.tx)).state = "FORWARDING"
<1>1. "csp" \in Sides /\ "ssp" \in Sides /\ Peer("csp") = "ssp"
  BY DEF Sides, Peer
<1> DEFINE u == Head(g.tx)
           f == Recv(e, u)
<1>2. CanTake("csp", e, u)
  BY <1>1, HeadFits
<1>3. Takes("csp", e, u, f)
  BY <1>1, <1>2, RecvTakes
<1>4. 1 \in DOMAIN g.tx /\ g.tx[1] = u
  BY <1>1, FirstFrame, SideFits
<1>5. u.type # "RST"
  BY <1>4 DEF InStepAt, InStep, OneEnd
<1>6. CASE u.type = "FIN"
  <2>1. e.obs = "ioh" /\ e.obs # "handler" /\ ~e.half /\ Live(e) /\ e \in End
    BY <1>1, <1>2, <1>6, SideFits DEF CanTake, Forwards, RelayHalves, Live
  <2>2. f = RecvFin(e)
    BY <1>6, <2>1 DEF Recv
  <2>3. Check(e, e.obs # "handler" /\ ~e.half, "end_not_expected") = e
    BY <2>1, CheckHolds
  <2>4. RecvFin(e) = [e EXCEPT !.half = (e.obs = "ioh"), !.shutR = TRUE]
    BY <2>3 DEF RecvFin
  <2>5. RecvFin(e).state = e.state
    BY <2>1, <2>4 DEF End
  <2> QED BY <2>2, <2>5 DEF Forwards
<1>7. CASE u.type # "FIN"
  <2> HIDE DEF u, f
  <2>1. f.state = "FORWARDING"
    BY <1>3, <1>5, <1>7 DEF Takes, Forwards, Waits, Early, Opens, Opening
  <2> QED BY <2>1 DEF u, f
<1> QED BY <1>6, <1>7

(* Whatever step hangs up, its program has all there was.                   *)
LEMMA HangsUpServed ==
  ASSUME SocketsAsRead, RelayIInv, [RelayNext]_relayVars, HangsUp
  PROVE  Served(outer'["csp"].got)
<1> DEFINE e == end["csp"]
           o == outer["csp"]
<1>1. /\ ~broken /\ e.state = "FORWARDING" /\ end["ssp"].state = "FORWARDING" /\ o.over = "no"
      /\ end'["csp"].state = "CLOSED"
  BY DEF HangsUp
<1>2. /\ Fits("csp", e) /\ Forwards(e) /\ e \in End /\ ~e.weof /\ ~e.shutW /\ o \in Outer
      /\ Fits("ssp", end["ssp"]) /\ InStepAt("csp", e, end["ssp"])
  BY <1>1, BothForward
<1>3. end \in [Sides -> End] /\ Sides = {"csp", "ssp"} /\ Peer("csp") = "ssp" /\ Peer("ssp") = "csp"
  BY DEF RelayIInv, RelayTypeOK, Sides, Peer
<1>4. ASSUME end'["csp"].state = e.state
      PROVE  FALSE
  BY <1>1, <1>4
<1>5. ASSUME NEW f, end' = [end EXCEPT !["ssp"] = f]
      PROVE  FALSE
  <2>1. end'["csp"] = e
    BY <1>3, <1>5
  <2> QED BY <1>4, <2>1
<1>6. CASE ReadData("csp")
  <2> DEFINE f == WriteBuffer(e, o.sin)
  <2>1. ~conf.splits
    BY DEF SocketsAsRead, RelayIInv, RelayTypeOK
  <2>2. end'["csp"] = f
    BY <1>1, <1>3, <1>6, <2>1 DEF ReadData, NewInput
  <2>3. o.sin \in Seq(Unit) /\ e.bad = "no"
    BY <1>2, <1>3, OuterTypes, SideFits
  <2>4. PICK d \in End : SameHandler(e, d) /\ Passes(d, f)
    BY <1>2, <2>3, WriteBufferPasses
  <2> HIDE DEF f
  <2>5. f.state = e.state
    BY <1>2, <2>4 DEF SameHandler, Passes
  <2> QED BY <1>4, <2>2, <2>5
<1>7. CASE ReadEnd("csp")
  BY <1>1, <1>7 DEF ReadEnd
<1>8. CASE Write("csp")
  BY <1>8, WriteServes
<1>9. CASE MuxRecv("csp")
  <2>1. end'["csp"] = Recv(e, Head(end["ssp"].tx)) /\ end["ssp"].tx # << >>
    BY <1>3, <1>9 DEF MuxRecv
  <2> QED BY <1>1, <1>2, <2>1, FrameKeepsOpen
<1>10. ASSUME NEW s \in Sides, ChannelClosed(s)
       PROVE  FALSE
  BY <1>1, <1>10 DEF ChannelClosed
<1>11. CASE ReadData("ssp")
  BY <1>5, <1>11 DEF ReadData
<1>12. CASE ReadEnd("ssp")
  BY <1>5, <1>12 DEF ReadEnd
<1>13. CASE Write("ssp")
  BY <1>5, <1>13 DEF Write
<1>14. CASE MuxRecv("ssp")
  <2>1. end' = [end EXCEPT !["csp"].tx = Tail(@), !["ssp"] = Recv(@, Head(end["csp"].tx))]
    BY <1>3, <1>14 DEF MuxRecv
  <2>2. end'["csp"] = [e EXCEPT !.tx = Tail(@)]
    BY <1>3, <2>1
  <2>3. end'["csp"].state = e.state
    BY <1>2, <2>2 DEF End
  <2> QED BY <1>4, <2>3
<1>15. ASSUME NEW s \in Sides, Send(s) \/ Leave(s)
       PROVE  FALSE
  BY <1>4, <1>15 DEF Send, Leave
<1>16. CASE OnConnected \/ OnConnectFailed
  BY <1>5, <1>16 DEF OnConnected, OnConnectFailed
<1>17. CASE ClientAsks \/ BreakChannel \/ UNCHANGED relayVars
  BY <1>4, <1>17 DEF ClientAsks, BreakChannel, relayVars
<1> QED
  BY <1>3, <1>6, <1>7, <1>8, <1>9, <1>10, <1>11, <1>12, <1>13, <1>14, <1>15, <1>16, <1>17
     DEF RelayNext

(* The client handler closes on its program, while the channel is up and    *)
(* the other side forwards, only when the target ended its data and the     *)
(* program has been given all of it: _maybe_be_done and the write-complete  *)
(* callback never close too early.                                          *)
THEOREM RelayHangsUpWhenServed ==
  ASSUME SocketsAsRead
  PROVE  RelaySpec => HangsUpWhenServed
<1>1. RelayIInv /\ [RelayNext]_relayVars =>
        [( /\ conf.shadow /\ ~broken /\ outer["csp"].over = "no"
           /\ end["csp"].state = "FORWARDING" /\ end["csp"].state' = "CLOSED"
           /\ end["ssp"].state = "FORWARDING" )
         => /\ outer["ssp"].over = "eof"
            /\ Carries(outer["csp"].got', outer["ssp"].sent)]_relayVars
  BY HangsUpServed DEF HangsUp, Served
<1> QED BY <1>1, RelayInvAlways, PTL DEF RelaySpec, HangsUpWhenServed

-----------------------------------------------------------------------------
(* THE TUNNEL                                                              *)

(* The reap timer runs only over a channel that is READY, or was closed by *)
(* the server, after which no channel is made.                             *)
ReaperPlace == reap => state \in {"READY", "INITIAL"}

(* Outside Shadow a promise is made only by arming a channel as it becomes *)
(* READY, and it holds until that channel sends or is stopped.             *)
PromiseArmed ==
  promised /\ ~options.shadow =>
    options.auto /\ (state = "READY" => ch.send = "PENDING")

(* The inductive invariant.                                                *)
TunnelInv == TunnelIsSafe /\ StatsExact /\ ReaperPlace /\ PromiseArmed

USE DEF Running

-----------------------------------------------------------------------------
(* What the record of a channel is, before and after a step changes it.    *)
LEMMA ChannelFacts ==
  ASSUME TunnelInv
  PROVE  /\ NoChannel \notin ReadyChannel
         /\ Up => ch \in ReadyChannel /\ ch.bytes \in 0..MaxBytes /\ ch.bytes + soFar = carried
         /\ ~Up => soFar = carried
         /\ state = "READY" => Up
         /\ soFar \in Nat /\ carried \in Nat /\ MaxBytes \in Nat
<1>1. NoChannel \notin ReadyChannel
  BY DEF NoChannel, ReadyChannel
<1>2. TunnelTypeOK /\ StatsExact
  BY DEF TunnelInv, TunnelIsSafe
<1>3. soFar \in Nat /\ carried \in Nat /\ MaxBytes \in Nat
  BY <1>2, TunnelAssumption DEF TunnelTypeOK
<1>4. Up => ch \in ReadyChannel
  BY <1>2 DEF TunnelTypeOK, Up
<1>5. Up => ch.bytes \in 0..MaxBytes
  BY <1>4 DEF ReadyChannel
<1>6. Up => ch.bytes + soFar = carried
  BY <1>2, <1>3, <1>5 DEF StatsExact
<1>7. ~Up => soFar = carried
  BY <1>2, <1>3 DEF StatsExact
<1> QED
  BY <1>1, <1>2, <1>3, <1>4, <1>5, <1>6, <1>7 DEF TunnelTypeOK

(* The initial state.                                                      *)
LEMMA TunnelInitInv == TunnelInit => TunnelInv
<1> SUFFICES ASSUME TunnelInit PROVE TunnelInv
  OBVIOUS
<1>1. TunnelTypeOK
  <2>1. DOMAIN handlers = {}
    BY DEF TunnelInit, NoHandlers
  <2>2. 0 \in 0..MaxChannels /\ 0 \in 0..MaxBytes
    BY TunnelAssumption
  <2> QED
    BY <2>1, <2>2 DEF TunnelInit, TunnelTypeOK, Up
<1>2. ClientsOnLiveChannel /\ ReaperInTurn /\ PromiseKeptOutside
  BY DEF TunnelInit, ClientsOnLiveChannel, ReaperInTurn, PromiseKeptOutside, NoHandlers
<1>3. StatsExact /\ ReaperPlace /\ PromiseArmed
  BY DEF TunnelInit, StatsExact, ReaperPlace, PromiseArmed, Up
<1> QED
  BY <1>1, <1>2, <1>3 DEF TunnelInv, TunnelIsSafe

-----------------------------------------------------------------------------
(* The process ends: everything but the reason stays.                      *)
LEMMA ExitsInv ==
  ASSUME TunnelInv, exited' # "timer running",
         UNCHANGED << options, state, ch, made, reap, listening, handlers, soFar,
                      carried, promised, undefended, told >>
  PROVE  TunnelInv'
  BY DEF TunnelInv, TunnelIsSafe, TunnelTypeOK, ClientsOnLiveChannel, ReaperInTurn,
         PromiseKeptOutside, StatsExact, ReaperPlace, PromiseArmed, Up

(* Only the channel's record changes, and neither its identity nor its     *)
(* bytes: what is left to show is that a promise stays armed.              *)
LEMMA SameBytesInv ==
  ASSUME TunnelInv, Up, ch' \in ReadyChannel, ch'.id = ch.id, ch'.bytes = ch.bytes,
         UNCHANGED << options, state, made, reap, listening, handlers, soFar,
                      carried, undefended >>,
         exited' # "timer running",
         PromiseArmed'
  PROVE  TunnelInv'
<1> USE ChannelFacts
<1>1. Up'
  BY DEF Up, NoChannel, ReadyChannel
<1>2. TunnelTypeOK'
  BY <1>1 DEF TunnelInv, TunnelIsSafe, TunnelTypeOK
<1>3. ClientsOnLiveChannel' /\ ReaperInTurn' /\ PromiseKeptOutside' /\ ReaperPlace'
  BY <1>1 DEF TunnelInv, TunnelIsSafe, ClientsOnLiveChannel, ReaperInTurn,
              PromiseKeptOutside, ReaperPlace
<1>4. StatsExact'
  BY <1>1 DEF TunnelInv, StatsExact
<1> QED
  BY <1>2, <1>3, <1>4 DEF TunnelInv, TunnelIsSafe

(* A byte is carried, and counted by the channel.                          *)
LEMMA ByteInv ==
  ASSUME TunnelInv, state = "READY", carried < MaxBytes,
         ch' \in [id : {ch.id}, bytes : {ch.bytes + 1}, out : BOOLEAN, old : BOOLEAN,
                  send : {"NONE", "PENDING", "ACTIVE"}, stop : BOOLEAN,
                  recvDone : BOOLEAN],
         carried' = carried + 1,
         UNCHANGED << options, state, made, reap, listening, handlers, soFar, exited >>,
         PromiseKeptOutside', PromiseArmed'
  PROVE  TunnelInv'
<1> USE ChannelFacts
<1>1. ch.id \in 1..MaxChannels /\ ch.bytes + 1 \in 0..MaxBytes
  BY DEF ReadyChannel
<1>2. ch' \in ReadyChannel /\ ch'.id = ch.id /\ ch'.bytes = ch.bytes + 1
  BY <1>1 DEF ReadyChannel
<1>3. Up'
  BY <1>2 DEF Up, NoChannel, ReadyChannel
<1>4. TunnelTypeOK'
  BY <1>2, <1>3 DEF TunnelInv, TunnelIsSafe, TunnelTypeOK
<1>5. ClientsOnLiveChannel' /\ ReaperInTurn' /\ ReaperPlace'
  BY <1>2, <1>3 DEF TunnelInv, TunnelIsSafe, ClientsOnLiveChannel, ReaperInTurn, ReaperPlace
<1>6. StatsExact'
  BY <1>2, <1>3 DEF StatsExact
<1> QED
  BY <1>4, <1>5, <1>6 DEF TunnelInv, TunnelIsSafe

(* A channel is destroyed: its bytes are added, its clients gone, and the  *)
(* timer stays only where no channel will follow.                          *)
LEMMA DestroyInv ==
  ASSUME TunnelInv, Up, NEW next \in {"INITIAL", "CONNECTING"},
         UpdateStats, ResetToInitial(next),
         reap' \in BOOLEAN, reap' => next = "INITIAL",
         promised' => promised,
         UNCHANGED << options, made, listening, carried, undefended, exited >>
  PROVE  TunnelInv'
<1> USE ChannelFacts
<1>1. ~Up' /\ state' = next /\ DOMAIN handlers' = {}
  BY DEF ResetToInitial, Up, NoHandlers
<1>2. soFar' = carried
  BY DEF UpdateStats
<1>3. TunnelTypeOK'
  BY <1>1, <1>2 DEF TunnelInv, TunnelIsSafe, TunnelTypeOK, ResetToInitial
<1>4. ClientsOnLiveChannel' /\ ReaperInTurn' /\ PromiseKeptOutside' /\ ReaperPlace'
  BY <1>1 DEF TunnelInv, TunnelIsSafe, ClientsOnLiveChannel, ReaperInTurn,
              PromiseKeptOutside, ReaperPlace
<1>5. StatsExact'
  BY <1>1, <1>2 DEF StatsExact
<1>6. PromiseArmed'
  BY <1>1 DEF TunnelInv, PromiseArmed
<1> QED
  BY <1>3, <1>4, <1>5, <1>6 DEF TunnelInv, TunnelIsSafe

(* Only the clients change, and each is on the channel in place.           *)
LEMMA HandlersInv ==
  ASSUME TunnelInv, DOMAIN handlers' \subseteq Client, ClientsOnLiveChannel',
         UNCHANGED << options, state, ch, made, reap, listening, soFar, carried,
                      promised, undefended, told, exited >>
  PROVE  TunnelInv'
  BY DEF TunnelInv, TunnelIsSafe, TunnelTypeOK, ReaperInTurn, PromiseKeptOutside,
         StatsExact, ReaperPlace, PromiseArmed, Up

-----------------------------------------------------------------------------
LEMMA SocketConnectedInv == TunnelInv /\ SocketConnected => TunnelInv'
<1> SUFFICES ASSUME TunnelInv, SocketConnected PROVE TunnelInv'
  OBVIOUS
<1> USE ChannelFacts
<1>1. made \in 0..MaxChannels /\ MaxChannels \in Nat /\ made < MaxChannels
  BY TunnelAssumption DEF TunnelInv, TunnelIsSafe, TunnelTypeOK, SocketConnected
<1>2. made' \in 1..MaxChannels /\ ch' \in ReadyChannel /\ ch'.bytes = 0
  BY <1>1 DEF SocketConnected, NewChannel, ReadyChannel
<1>3. Up' /\ ~Up /\ ~reap /\ handlers' = handlers
  BY <1>2 DEF Up, NoChannel, ReadyChannel, SocketConnected, TunnelInv, TunnelIsSafe, TunnelTypeOK,
              ReaperPlace
<1>4. TunnelTypeOK'
  BY <1>1, <1>2, <1>3 DEF TunnelInv, TunnelIsSafe, TunnelTypeOK, SocketConnected
<1>5. ClientsOnLiveChannel' /\ ReaperInTurn' /\ PromiseKeptOutside' /\ ReaperPlace'
  BY <1>3 DEF TunnelInv, TunnelIsSafe, ClientsOnLiveChannel, ReaperInTurn,
              PromiseKeptOutside, ReaperPlace, SocketConnected
<1>6. StatsExact'
  BY <1>2, <1>3 DEF StatsExact, SocketConnected
<1>7. PromiseArmed'
  BY DEF TunnelInv, PromiseArmed, SocketConnected
<1> QED
  BY <1>4, <1>5, <1>6, <1>7 DEF TunnelInv, TunnelIsSafe

(* The timer is not running when a channel becomes READY, so its CHECK     *)
(* holds.                                                                  *)
LEMMA ChannelReadyInv == TunnelInv /\ ChannelReady => TunnelInv'
<1> SUFFICES ASSUME TunnelInv, ChannelReady PROVE TunnelInv'
  OBVIOUS
<1> USE ChannelFacts
<1>1. ~reap /\ Up
  BY DEF TunnelInv, TunnelIsSafe, TunnelTypeOK, ReaperPlace, ChannelReady
<1>2. /\ state' = "READY" /\ reap' = TRUE /\ listening' = TRUE
      /\ UNCHANGED << options, made, handlers, soFar, carried, undefended, exited >>
  BY <1>1 DEF ChannelReady
<1>3. /\ ch' \in ReadyChannel /\ ch'.id = ch.id /\ ch'.bytes = ch.bytes
      /\ IF options.auto /\ ~options.shadow THEN ch'.send = "PENDING" ELSE promised' = promised
  BY <1>1 DEF ChannelReady, ReadyChannel
<1>4. Up'
  BY <1>3 DEF Up, NoChannel, ReadyChannel
<1>5. TunnelTypeOK'
  BY <1>2, <1>3, <1>4 DEF TunnelInv, TunnelIsSafe, TunnelTypeOK
<1>6. ClientsOnLiveChannel'
  BY <1>2, <1>3 DEF TunnelInv, TunnelIsSafe, ClientsOnLiveChannel, ChannelReady
<1>7. ReaperInTurn' /\ PromiseKeptOutside' /\ ReaperPlace'
  BY <1>2 DEF TunnelInv, TunnelIsSafe, ReaperInTurn, PromiseKeptOutside, ReaperPlace
<1>8. StatsExact'
  BY <1>1, <1>2, <1>3, <1>4 DEF TunnelInv, StatsExact
<1>9. PromiseArmed'
  BY <1>2, <1>3 DEF TunnelInv, PromiseArmed
<1> QED
  BY <1>5, <1>6, <1>7, <1>8, <1>9 DEF TunnelInv, TunnelIsSafe

LEMMA ClientsInv ==
  ASSUME TunnelInv, NEW c \in Client, ClientConnects(c) \/ ClientDone(c) \/ ClientSends(c)
  PROVE  TunnelInv'
<1> USE ChannelFacts
<1>1. CASE ClientConnects(c)
  <2>1. DOMAIN handlers' \subseteq Client
    BY <1>1 DEF ClientConnects, TunnelInv, TunnelIsSafe, TunnelTypeOK
  <2>2. ClientsOnLiveChannel'
    BY <1>1 DEF ClientConnects, TunnelInv, TunnelIsSafe, ClientsOnLiveChannel
  <2> QED
    BY <1>1, <2>1, <2>2, HandlersInv DEF ClientConnects
<1>2. CASE ClientDone(c)
  <2>1. DOMAIN handlers' \subseteq Client
    BY <1>2 DEF ClientDone, TunnelInv, TunnelIsSafe, TunnelTypeOK
  <2>2. ClientsOnLiveChannel'
    BY <1>2 DEF ClientDone, TunnelInv, TunnelIsSafe, ClientsOnLiveChannel
  <2> QED
    BY <1>2, <2>1, <2>2, HandlersInv DEF ClientDone
<1>3. CASE ClientSends(c)
  <2>1. Up
    BY <1>3 DEF ClientSends, TunnelInv, TunnelIsSafe, ClientsOnLiveChannel
  <2>2. /\ ch' \in ReadyChannel /\ ch'.id = ch.id /\ ch'.bytes = ch.bytes
        /\ ch'.send = ch.send
    BY <1>3, <2>1 DEF ClientSends, ReadyChannel
  <2>3. PromiseArmed'
    BY <1>3, <2>2 DEF ClientSends, TunnelInv, PromiseArmed
  <2>4. exited' # "timer running"
    BY <1>3 DEF ClientSends, TunnelInv, TunnelIsSafe, ReaperInTurn
  <2> QED
    BY <1>3, <2>1, <2>2, <2>3, <2>4, SameBytesInv DEF ClientSends
<1> QED
  BY <1>1, <1>2, <1>3

(* A write starts a pending session, so a promised send is defended        *)
(* outside Shadow; in any case a byte is counted.                          *)
LEMMA BytesInv == TunnelInv /\ (ChannelWrites \/ ChannelReads) => TunnelInv'
<1> SUFFICES ASSUME TunnelInv, ChannelWrites \/ ChannelReads PROVE TunnelInv'
  OBVIOUS
<1> USE ChannelFacts
<1>1. CASE ChannelWrites
  <2>1. Up /\ ch \in ReadyChannel
    BY <1>1 DEF ChannelWrites
  <2>2. ch' \in [id : {ch.id}, bytes : {ch.bytes + 1}, out : BOOLEAN, old : BOOLEAN,
                 send : {"NONE", "PENDING", "ACTIVE"}, stop : BOOLEAN,
                 recvDone : BOOLEAN]
    BY <1>1, <2>1 DEF ChannelWrites, ReadyChannel
  <2>3. PromiseKeptOutside'
    BY <1>1 DEF ChannelWrites, TunnelInv, TunnelIsSafe, PromiseKeptOutside, PromiseArmed
  <2>4. PromiseArmed'
    BY <1>1 DEF ChannelWrites, PromiseArmed
  <2> QED
    BY <1>1, <2>2, <2>3, <2>4, ByteInv DEF ChannelWrites
<1>2. CASE ChannelReads
  <2>1. Up /\ ch \in ReadyChannel
    BY <1>2 DEF ChannelReads
  <2>2. ch' \in [id : {ch.id}, bytes : {ch.bytes + 1}, out : BOOLEAN, old : BOOLEAN,
                 send : {"NONE", "PENDING", "ACTIVE"}, stop : BOOLEAN,
                 recvDone : BOOLEAN]
    BY <1>2, <2>1 DEF ChannelReads, ReadyChannel
  <2>3. ch'.send = ch.send
    BY <1>2, <2>1 DEF ChannelReads, ReadyChannel
  <2>4. PromiseKeptOutside' /\ PromiseArmed'
    BY <1>2, <2>3 DEF ChannelReads, TunnelInv, TunnelIsSafe, PromiseKeptOutside, PromiseArmed
  <2> QED
    BY <1>2, <2>2, <2>4, ByteInv DEF ChannelReads
<1> QED
  BY <1>1, <1>2

(* The steps that change the state of the defense, or the age, only.       *)
LEMMA DefenseInv ==
  TunnelInv /\ (SendDone \/ RecvDone \/ GrowsOld \/ StopDefense) => TunnelInv'
<1> SUFFICES ASSUME TunnelInv, SendDone \/ RecvDone \/ GrowsOld \/ StopDefense PROVE TunnelInv'
  OBVIOUS
<1> USE ChannelFacts
<1>1. Up /\ ch \in ReadyChannel /\ state = "READY"
  BY DEF SendDone, RecvDone, GrowsOld, StopDefense
<1>2. ch' \in ReadyChannel /\ ch'.id = ch.id /\ ch'.bytes = ch.bytes
  <2>1. CASE SendDone
    BY <1>1, <2>1 DEF SendDone, DirectionDone, ReadyChannel
  <2>2. CASE RecvDone
    BY <1>1, <2>2 DEF RecvDone, DirectionDone, ReadyChannel
  <2>3. CASE GrowsOld
    BY <1>1, <2>3 DEF GrowsOld, ReadyChannel
  <2>4. CASE StopDefense
    BY <1>1, <2>4 DEF StopDefense, ReadyChannel
  <2> QED
    BY <2>1, <2>2, <2>3, <2>4
<1>3. UNCHANGED << options, state, made, reap, listening, handlers, soFar, carried, undefended >>
  BY DEF SendDone, RecvDone, GrowsOld, StopDefense, DirectionDone
<1>4. exited' # "timer running"
  BY DEF SendDone, RecvDone, GrowsOld, StopDefense, DirectionDone
<1>5. PromiseArmed'
  <2>1. CASE SendDone
    BY <1>1, <2>1 DEF SendDone, DirectionDone, TunnelInv, PromiseArmed
  <2>2. CASE RecvDone
    BY <1>1, <2>2 DEF RecvDone, DirectionDone, TunnelInv, PromiseArmed, ReadyChannel
  <2>3. CASE GrowsOld
    BY <1>1, <2>3 DEF GrowsOld, TunnelInv, PromiseArmed, ReadyChannel
  <2>4. CASE StopDefense
    BY <2>4 DEF StopDefense, PromiseArmed
  <2> QED
    BY <2>1, <2>2, <2>3, <2>4
<1> QED
  BY <1>1, <1>2, <1>3, <1>4, <1>5, SameBytesInv

LEMMA SetAutoStartInv == TunnelInv /\ SetAutoStart => TunnelInv'
<1> SUFFICES ASSUME TunnelInv, SetAutoStart PROVE TunnelInv'
  OBVIOUS
<1> USE ChannelFacts
<1>1. CASE Exits("set_auto_start CHECK")
  BY <1>1, ExitsInv DEF Exits
<1>2. CASE ~Exits("set_auto_start CHECK")
  <2>1. /\ Up /\ ch \in ReadyChannel /\ options.shadow
        /\ ch' = [ch EXCEPT !.send = "PENDING"]
        /\ UNCHANGED << options, state, made, reap, listening, handlers, soFar,
                        carried, undefended, exited >>
    BY <1>2 DEF SetAutoStart
  <2>2. ch' \in ReadyChannel /\ ch'.id = ch.id /\ ch'.bytes = ch.bytes
    BY <2>1 DEF ReadyChannel
  <2>3. PromiseArmed' /\ exited' # "timer running"
    BY <2>1 DEF PromiseArmed, SetAutoStart
  <2> QED
    BY <2>1, <2>2, <2>3, SameBytesInv
<1> QED
  BY <1>1, <1>2

LEMMA DestroyedInv == TunnelInv /\ (TunnelCloses \/ ReapFires) => TunnelInv'
<1> SUFFICES ASSUME TunnelInv, TunnelCloses \/ ReapFires PROVE TunnelInv'
  OBVIOUS
<1>1. CASE TunnelCloses /\ ~options.shadow
  BY <1>1, ExitsInv DEF TunnelCloses, Exits
<1>2. CASE TunnelCloses /\ options.shadow
  <2>1. reap' \in BOOLEAN
    BY <1>2 DEF TunnelCloses, TunnelInv, TunnelIsSafe, TunnelTypeOK
  <2> QED
    BY <1>2, <2>1, DestroyInv DEF TunnelCloses
<1>3. CASE ReapFires
  BY <1>3, DestroyInv DEF ReapFires
<1> QED
  BY <1>1, <1>2, <1>3

-----------------------------------------------------------------------------
(* Every step preserves the invariant.                                     *)
LEMMA TunnelNextInv == TunnelInv /\ [TunnelNext]_tunnelVars => TunnelInv'
<1> SUFFICES ASSUME TunnelInv, [TunnelNext]_tunnelVars PROVE TunnelInv'
  OBVIOUS
<1>1. CASE SocketConnected
  BY <1>1, SocketConnectedInv
<1>2. CASE ConnectFails \/ SessionExpires
  BY <1>2, ExitsInv DEF ConnectFails, SessionExpires, Exits
<1>3. CASE ChannelReady
  BY <1>3, ChannelReadyInv
<1>4. CASE TunnelCloses \/ ReapFires
  BY <1>4, DestroyedInv
<1>5. CASE \E c \in Client : ClientConnects(c) \/ ClientDone(c) \/ ClientSends(c)
  BY <1>5, ClientsInv
<1>6. CASE CloseAllStreams
  <2>1. DOMAIN handlers' = {}
    BY <1>6 DEF CloseAllStreams, NoHandlers
  <2>2. ClientsOnLiveChannel'
    BY <2>1 DEF ClientsOnLiveChannel
  <2> QED
    BY <1>6, <2>1, <2>2, HandlersInv DEF CloseAllStreams
<1>7. CASE ChannelWrites \/ ChannelReads
  BY <1>7, BytesInv
<1>8. CASE SendDone \/ RecvDone \/ GrowsOld \/ StopDefense
  BY <1>8, DefenseInv
<1>9. CASE SetAutoStart
  BY <1>9, SetAutoStartInv
<1>10. CASE UNCHANGED tunnelVars
  BY <1>10 DEF tunnelVars, TunnelInv, TunnelIsSafe, TunnelTypeOK, ClientsOnLiveChannel, ReaperInTurn,
               PromiseKeptOutside, StatsExact, ReaperPlace, PromiseArmed, Up
<1> QED
  BY <1>1, <1>2, <1>3, <1>4, <1>5, <1>6, <1>7, <1>8, <1>9, <1>10 DEF TunnelNext

(* The invariant of the tunnel's states, timer, promises and counters.     *)
THEOREM TunnelInvHolds == TunnelSpec => []TunnelInv
<1>1. TunnelSpec => TunnelInit /\ [][TunnelNext]_tunnelVars
  BY PTL DEF TunnelSpec
<1> QED
  BY <1>1, TunnelInitInv, TunnelNextInv, PTL

(* Through any number of channels, reaped or closed at any point by        *)
(* _reap_buflo_channel_timer_fired and _on_buflo_channel_status, every     *)
(* byte is counted once by _update_stats and the getters.                  *)
THEOREM TunnelCounts == TunnelSpec => []StatsExact
  BY TunnelInvHolds, PTL DEF TunnelInv

(* No client handler is left on a channel that is gone, READY finds the    *)
(* reap timer at rest, and outside Shadow no promised send goes out        *)
(* undefended.                                                             *)
THEOREM TunnelKeepsOrder == TunnelSpec => []TunnelIsSafe
  BY TunnelInvHolds, PTL DEF TunnelInv

==============================================================================
