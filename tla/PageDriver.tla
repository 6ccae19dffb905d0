------------------------------ MODULE PageDriver ------------------------------
(***************************************************************************)
(* The browser driver loading page after page: its states, its three       *)
(* timers, its calls to the renderer and to the transport proxy, and the   *)
(* renderer as RendererProtocol describes it.  One channel in each         *)
(* direction carries the renderer's messages and replies in order; the     *)
(* proxy has a channel of its own, so its calls are not ordered with the   *)
(* renderer's.  An action is a whole handler.  A CHECK that fails, a       *)
(* LOG(FATAL) or exit() ends the process: over.                            *)
(***************************************************************************)
EXTENDS RendererProtocol, Integers, Sequences, FiniteSets

CONSTANTS Confs,      \* see DriverAssumption
          MaxLoads,   \* bound on page loads
          MaxReqs     \* bound on requests of one load

(* A configuration: built IN_SHADOW or not; using_tproxy_; and whether the *)
(* proxy's channel is ready before the renderer's.                         *)
ASSUME DriverAssumption ==
  /\ Confs \subseteq [shadow : BOOLEAN, proxy : BOOLEAN, first : BOOLEAN]
  /\ MaxLoads \in Nat \ {0} /\ MaxReqs \in Nat \ {0} /\ MaxOpen = MaxReqs

VARIABLES conf,    \* the configuration, in Confs
          d,       \* the driver, a record
          ready,   \* IPC channels that are READY
          toR,     \* calls on their way to the renderer
          toD,     \* the renderer's messages and replies
          toP,     \* calls the proxy has not yet handled
          rload,   \* the renderer's current_load_id_
          reqs,    \* requests of this load
          armed,   \* the proxy has handled this load's SetAutoStart
          early,   \* a request was sent before that
          over     \* "no", or how the driver process ended

vars == << conf, d, ready, toR, toD, toP, rload, reqs, armed, early, over, phase, open >>
renderer == << conf, rload, phase, open, reqs, armed, early >>

NewInfo == [status |-> "NONE", pending |-> 0, dom |-> FALSE, clamped |-> FALSE]

Init ==
  /\ RInit
  /\ conf \in Confs
  /\ d = [state |-> "INITIAL", load |-> 0, info |-> NewInfo, wait |-> FALSE,
          timeout |-> FALSE, think |-> FALSE, reports |-> 0, stops |-> 0]
  /\ ready = {}
  /\ toR = << >> /\ toD = << >> /\ toP = << >>
  /\ rload = 0 /\ reqs = 0 /\ armed = FALSE /\ early = FALSE
  /\ over = "no"

Running == over = "no"
UseProxy == conf.proxy

Msg(t, id) == [type |-> t, load |-> id]

-----------------------------------------------------------------------------
(* Calls of the driver.                                                    *)

(* _tproxy_stop_defense and _tproxy_set_auto_start_defense_on_next_send;   *)
(* the channel must be ready.                                              *)
CallProxy(call) == IF UseProxy THEN Append(toP, call) ELSE toP

ProxyMissing == UseProxy /\ "proxy" \notin ready

CountStop(v) == IF UseProxy THEN [v EXCEPT !.stops = @ + 1] ELSE v

(* A load is over: its result is reported, its information cleared, and    *)
(* the renderer reset; outside Shadow the process exits (how).             *)
EndLoad(v, how) ==
  /\ over' = IF conf.shadow THEN "no" ELSE how
  /\ d' = [v EXCEPT !.reports = @ + 1, !.info = NewInfo, !.state = "RESET_RENDERER"]
  /\ toR' = Append(toR, [type |-> "Reset", load |-> 0])

Dies(why) == over' = why /\ UNCHANGED << d, toR, toP >>

-----------------------------------------------------------------------------
(* The channels come up.                                                   *)
ProxyReady ==
  /\ Running /\ UseProxy /\ "proxy" \notin ready
  /\ ready' = ready \cup {"proxy"}
  /\ UNCHANGED << d, toR, toD, toP, over, renderer >>

RendererReady ==
  /\ Running /\ "renderer" \notin ready
  /\ UseProxy /\ conf.first => "proxy" \in ready
  /\ ready' = ready \cup {"renderer"}
  /\ d' = [d EXCEPT !.state = "RESET_RENDERER"]
  /\ toR' = Append(toR, [type |-> "Reset", load |-> 0])
  /\ UNCHANGED << toD, toP, over, renderer >>

-----------------------------------------------------------------------------
(* The renderer.                                                           *)

(* The main resource is announced before the call is answered.             *)
HandleLoadPage ==
  /\ Running /\ toR # << >> /\ Head(toR).type = "LoadPage"
  /\ Begin
  /\ toD' = toD \o << Msg("RequestWillBeSent", Head(toR).load),
                  Msg("LoadPageResp", Head(toR).load) >>
  /\ rload' = Head(toR).load
  /\ toR' = Tail(toR)
  /\ reqs' = 1 /\ early' = (early \/ (UseProxy /\ ~armed))
  /\ UNCHANGED << conf, d, ready, toP, armed, over >>

HandleReset ==
  /\ Running /\ toR # << >> /\ Head(toR).type = "Reset"
  /\ Forget
  /\ toD' = Append(toD, Msg("ResetResp", 0))
  /\ rload' = 0
  /\ toR' = Tail(toR)
  /\ UNCHANGED << conf, d, ready, toP, reqs, armed, early, over >>

Says(t) ==
  /\ toD' = Append(toD, Msg(t, rload))
  /\ UNCHANGED << conf, d, ready, toR, toP, rload, armed, early, over >>

SendsRequest ==
  /\ Running /\ Work /\ open' = open + 1
  /\ reqs < MaxReqs /\ reqs' = reqs + 1
  /\ Says("RequestWillBeSent")

EndsRequest == Running /\ Work /\ open' = open - 1 /\ Says("RequestFinished") /\ UNCHANGED reqs

PageLoads == Running /\ Loaded /\ open' = open /\ Says("PageLoaded") /\ UNCHANGED reqs

PageFails == Running /\ Failed /\ Says("PageLoadFailed") /\ UNCHANGED reqs

-----------------------------------------------------------------------------
(* The proxy handles its calls in order.                                   *)
ProxyHandles ==
  /\ Running /\ toP # << >>
  /\ armed' = (Head(toP) = "SetAutoStart")
  /\ toP' = Tail(toP)
  /\ UNCHANGED << conf, d, ready, toR, toD, rload, reqs, early, over, phase, open >>

-----------------------------------------------------------------------------
(* The driver's handlers of the renderer's messages.                       *)
Receives(t) ==
  /\ Running /\ toD # << >> /\ Head(toD).type = t
  /\ toD' = Tail(toD)
  /\ UNCHANGED << ready, renderer >>

RequestWillBeSent ==
  /\ Receives("RequestWillBeSent")
  /\ d' = [d EXCEPT !.info.pending = @ + 1, !.wait = FALSE]
  /\ UNCHANGED << toR, toP, over >>

(* A count below zero is set to zero.  With the load event fired and no    *)
(* request left the wait begins anew.                                      *)
RequestFinished ==
  /\ Receives("RequestFinished")
  /\ LET n == IF d.info.pending > 0 THEN d.info.pending - 1 ELSE 0
     IN  d' = [d EXCEPT !.info.pending = n,
                        !.info.clamped = @ \/ d.info.pending = 0,
                        !.wait = @ \/ (d.info.dom /\ n = 0)]
  /\ UNCHANGED << toR, toP, over >>

(* One that arrives when the driver no longer loads is ignored.  Starting  *)
(* a timer that is running would end the process.                          *)
PageLoaded ==
  /\ Receives("PageLoaded")
  /\ IF Head(toD).load # d.load THEN Dies("CHECK")
     ELSE IF d.state # "LOADING_PAGE" THEN UNCHANGED << d, toR, toP, over >>
     ELSE IF ProxyMissing \/ (d.info.pending = 0 /\ d.wait) THEN Dies("CHECK")
     ELSE /\ d' = CountStop([d EXCEPT
                    !.state = "WAIT_FOR_MORE_REQUESTS",
                    !.info.dom = TRUE, !.info.status = "OK",
                    !.wait = @ \/ d.info.pending = 0])
          /\ toP' = CallProxy("StopDefense")
          /\ UNCHANGED << toR, over >>

PageLoadFailed ==
  /\ Receives("PageLoadFailed")
  /\ IF Head(toD).load # d.load THEN Dies("CHECK")
     ELSE IF d.state # "LOADING_PAGE" THEN UNCHANGED << d, toR, toP, over >>
     ELSE IF d.info.status # "PENDING" \/ ProxyMissing THEN Dies("CHECK")
     ELSE /\ EndLoad(CountStop([d EXCEPT !.timeout = FALSE]), "untested")
          /\ toP' = CallProxy("StopDefense")

(* _renderer_load_page.                                                    *)
LoadPage(v) ==
  IF v.state \notin {"THINKING", "DONE_RESET_RENDERER"} \/ ProxyMissing THEN Dies("CHECK")
  ELSE /\ d' = [v EXCEPT !.state = "LOADING_PAGE", !.load = @ + 1, !.wait = FALSE,
                         !.info = [NewInfo EXCEPT !.status = "PENDING"], !.stops = 0]
       /\ toP' = CallProxy("SetAutoStart")
       /\ toR' = Append(toR, [type |-> "LoadPage", load |-> v.load + 1])
       /\ UNCHANGED over

(* The first page is loaded at once, later ones after thinking.            *)
ResetResp ==
  /\ Receives("ResetResp")
  /\ d.load < MaxLoads
  /\ IF d.state # "RESET_RENDERER" THEN Dies("CHECK")
     ELSE IF d.load = 0 THEN LoadPage([d EXCEPT !.state = "DONE_RESET_RENDERER"])
     ELSE d' = [d EXCEPT !.state = "THINKING", !.think = TRUE] /\ UNCHANGED << toR, toP, over >>

LoadPageResp_KeepsTimer ==
  /\ Receives("LoadPageResp")
  /\ IF d.state # "LOADING_PAGE" THEN Dies("CHECK")
     ELSE UNCHANGED << d, toR, toP, over >>

LoadPageResp ==
  /\ Receives("LoadPageResp")
  /\ IF d.state # "LOADING_PAGE" THEN Dies("CHECK")
     ELSE d' = [d EXCEPT !.timeout = TRUE] /\ UNCHANGED << toR, toP, over >>

-----------------------------------------------------------------------------
(* The driver's timers.                                                    *)
WaitFires ==
  /\ Running /\ d.wait
  /\ IF d.state # "WAIT_FOR_MORE_REQUESTS" \/ d.info.status = "PENDING" THEN Dies("CHECK")
     ELSE EndLoad([d EXCEPT !.wait = FALSE, !.timeout = FALSE], "exit") /\ UNCHANGED toP
  /\ UNCHANGED << ready, toD, renderer >>

PageTimeout_NoReset ==
  /\ Running /\ d.timeout
  /\ IF ProxyMissing THEN Dies("CHECK")
     ELSE /\ d' = CountStop([d EXCEPT !.timeout = FALSE, !.wait = FALSE,
                                      !.reports = @ + 1, !.state = "THINKING", !.think = TRUE])
          /\ toP' = CallProxy("StopDefense")
          /\ UNCHANGED << toR, over >>
  /\ UNCHANGED << ready, toD, renderer >>

(* _on_page_load_timeout, before the load event or after it.               *)
PageTimeout ==
  /\ Running /\ d.timeout
  /\ IF \/ ~d.info.dom /\ (d.state # "LOADING_PAGE" \/ d.info.status # "PENDING")
        \/ ProxyMissing
       THEN Dies("CHECK")
       ELSE /\ EndLoad(CountStop([d EXCEPT !.timeout = FALSE, !.wait = FALSE]), "untested")
            /\ toP' = CallProxy("StopDefense")
  /\ UNCHANGED << ready, toD, renderer >>

ThinkFires ==
  /\ Running /\ d.think
  /\ LoadPage([d EXCEPT !.think = FALSE])
  /\ armed' = FALSE
  /\ UNCHANGED << conf, ready, toD, phase, open, rload, reqs, early >>

(* A renderer call, or a StopDefense, not answered in time is fatal; a     *)
(* SetAutoStart is only warned about.                                      *)
CallTimesOut ==
  /\ Running
  /\ \/ d.state = "RESET_RENDERER"
     \/ d.state = "LOADING_PAGE" /\ ~d.timeout
     \/ \E i \in DOMAIN toP : toP[i] = "StopDefense"
  /\ over' = "call timed out"
  /\ UNCHANGED << d, ready, toR, toD, toP, renderer >>

Handlers ==
  RequestWillBeSent \/ RequestFinished \/ PageLoaded \/ PageLoadFailed \/ ResetResp \/ LoadPageResp

Next ==
  \/ ProxyReady \/ RendererReady \/ HandleLoadPage \/ HandleReset
  \/ SendsRequest \/ EndsRequest \/ PageLoads \/ PageFails \/ ProxyHandles
  \/ RequestWillBeSent \/ RequestFinished \/ PageLoaded \/ PageLoadFailed
  \/ ResetResp \/ LoadPageResp
  \/ WaitFires \/ PageTimeout \/ ThinkFires \/ CallTimesOut

(* Channels deliver, both processes run and timers fire; nothing is asked  *)
(* of the page itself.                                                     *)
Fairness ==
  /\ WF_vars(ProxyReady) /\ WF_vars(RendererReady) /\ WF_vars(HandleLoadPage)
  /\ WF_vars(HandleReset)
  /\ WF_vars(Handlers) /\ WF_vars(ProxyHandles)
  /\ WF_vars(WaitFires) /\ WF_vars(PageTimeout) /\ WF_vars(ThinkFires)

Spec == Init /\ [][Next]_vars /\ Fairness

-----------------------------------------------------------------------------
Loading == d.state \in {"LOADING_PAGE", "WAIT_FOR_MORE_REQUESTS"}
InFlight(t) == Cardinality({i \in DOMAIN toD : toD[i].type = t})

(* Type correctness.                                                       *)
TypeOK ==
  /\ d.state \in {"INITIAL", "RESET_RENDERER", "DONE_RESET_RENDERER", "THINKING",
                  "LOADING_PAGE", "WAIT_FOR_MORE_REQUESTS"}
  /\ d.load \in 0..MaxLoads /\ d.info.pending \in 0..MaxReqs
  /\ phase \in {"idle", "loading", "loaded", "failed"} /\ open \in 0..MaxOpen
  /\ over \in {"no", "CHECK", "exit", "untested", "call timed out"}

(* No CHECK of the driver fails: messages of a load that timed out are     *)
(* recognised, no timer is started twice or fires in another state, and    *)
(* replies find the driver in the state it called from.                    *)
ChecksHold == over # "CHECK"

(* Whatever the renderer says reaches the load it is about: while a page   *)
(* is loading nothing of an earlier one is on its way, so the driver's     *)
(* count of pending requests is the renderer's but for messages in flight, *)
(* and never has to be set to zero.                                        *)
PendingExact ==
  Running /\ Loading /\ phase # "failed" =>
    /\ \A i \in DOMAIN toD : toD[i].load = d.load
    /\ d.info.pending + InFlight("RequestWillBeSent") = open + InFlight("RequestFinished")
    /\ ~d.info.clamped

(* Every load is reported once, when it is over.                           *)
OneReportPerLoad == d.reports = d.load - (IF Loading THEN 1 ELSE 0)

(* The driver waits for more requests only after the load event and with   *)
(* none pending.                                                           *)
WaitsWhenQuiet ==
  d.wait => d.state = "WAIT_FOR_MORE_REQUESTS" /\ d.info.pending = 0 /\ d.info.dom

(* What the driver believes of the page and of the renderer is true, and   *)
(* every load is reported once, whichever of its timers and messages races *)
(* which.                                                                  *)
DriverIsSafe ==
  TypeOK /\ ChecksHold /\ PendingExact /\ OneReportPerLoad /\ WaitsWhenQuiet

(* Whatever the page does, its load ends and the next one begins, unless   *)
(* the process ends.                                                       *)
LoadsGoOn ==
  \A n \in 0..(MaxLoads - 1) : (d.load = n) ~> (d.load = n + 1 \/ ~Running)

(* A session is asked to stop once per load: request_stop() CHECKs that it *)
(* has not been asked before.                                              *)
OneStopPerLoad == d.stops <= 1

(* "whenever there are pending requests, we are patient and continue to    *)
(* wait": after the load event a load is not ended with requests pending.  *)
PatientWait == [][d.info.dom /\ d.info.pending > 0 => d'.reports = d.reports]_vars

(* set_auto_start_defense_session_on_next_send() CHECKs that nothing has   *)
(* been sent: the proxy is armed before the page's first request.          *)
ArmedFirst == ~early
===============================================================================
