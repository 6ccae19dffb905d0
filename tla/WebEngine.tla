------------------------------- MODULE WebEngine -------------------------------
(***************************************************************************)
(* The renderer's web engine loading one page after another: Webengine     *)
(* itself, its Document and HTMLDocumentParser, the Resources and their    *)
(* ResourceFetcher, and the DOM timers scripts start.  One event loop runs *)
(* every handler to its end, so an action is a whole handler; the IO       *)
(* process answers requests in any order, and answers to the requests of a *)
(* page that was reset may still be on their way.                          *)
(*                                                                         *)
(* The page model is a constant: the document's size, its elements by end  *)
(* byte offset, and which resources each scope of its scripts and style    *)
(* sheets fetches.  What a scope computes otherwise, how long it takes,    *)
(* and the bytes of resources other than the document are left out.        *)
(***************************************************************************)
EXTENDS Naturals, Sequences, FiniteSets

CONSTANTS Page,       \* see PageAssumption
          Main,       \* the main resource, the document itself
          CanFail,    \* resources whose requests can fail
          PumpLimit,  \* bytes parsed in one pump, 10000 in the code
          Chunk,      \* bytes of the document in one message
          MaxLoads    \* bound on page loads

Res == DOMAIN Page.chain
Elem == 1..Len(Page.elems)
NoRes == "none"

(* An element is an "img", a blocking style sheet "css", the "body", or a  *)
(* "script", which blocks the parser, and which may have to be executed    *)
(* immediately ("inline!").  at is its end byte offset, 0-based; fetches   *)
(* is what its run scope fetches, timer whether it starts a DOM timer.     *)
(* chain is the length of a resource's redirect chain, checked are those   *)
(* the load event waits for, and the other fields are the resources each   *)
(* kind of scope fetches; sheets are those it adds as blocking sheets.     *)
ASSUME PageAssumption ==
  /\ IsFiniteSet(Res) /\ NoRes \notin Res /\ Main \in Res /\ CanFail \subseteq Res
  /\ Page.checked \subseteq Res /\ Page.sheets \subseteq Res
  /\ Page.chain \in [Res -> Nat \ {0}] /\ Page.size \in Nat
  /\ Page.elems \in Seq([at : Nat, kind : {"img", "css", "body", "script", "inline!"},
                         res : Res \cup {NoRes}, fetches : SUBSET Res, timer : BOOLEAN])
  /\ \A i, j \in Elem : i < j => Page.elems[i].at < Page.elems[j].at
  /\ \A i \in Elem : Page.elems[i].at < Page.size
  /\ PumpLimit \in Nat \ {0} /\ Chunk \in Nat \ {0} /\ MaxLoads \in Nat \ {0}

VARIABLES w,      \* the engine, a record
          load,   \* current_load_id_, or the last one
          stale,  \* requests of earlier loads the IO process may still answer
          msgs,   \* how the page stands to the driver: its last message
          open    \* requests announced to the driver and not yet finished

vars == << w, load, stale, msgs, open >>

Idle ==
  [ state   |-> "IDLE",                      \* state_
    model   |-> FALSE,                       \* page_model_ is set
    loading |-> {}, finished |-> {},         \* load_state_, else INITIAL
    left    |-> [r \in Res |-> Page.chain[r] - 1], \* later entries of the chain
    errored |-> {},                          \* resources with errored_
    pending |-> {},                          \* pending_requests_
    count   |-> 0,                           \* requestCount_
    recvd   |-> 0, parsed |-> 0, scanned |-> 0,
    eof     |-> FALSE,                       \* done_received_
    next    |-> 1,                           \* element_loc_idx_, from 1
    block   |-> 0,                           \* parser_blocking_script_
    watch   |-> {},                          \* resources the parser is client of
    delayed |-> FALSE,                       \* m_endWasDelayed
    resume  |-> FALSE,                       \* timer_to_resume_ is running
    done    |-> FALSE,                       \* done_parsing_
    sheets  |-> {},                          \* pendingStylesheets_
    exec    |-> FALSE,                       \* executeScriptsWaiting... timer
    check   |-> FALSE,                       \* checkCompleted_timer_
    sched   |-> FALSE,                       \* the initial render scope is due
    timers  |-> {},                          \* dom_timers_ that are running
    ran     |-> << >>,                       \* scripts run, in order
    loaded  |-> FALSE,                       \* PageLoaded was sent
    died    |-> "no" ]

Init == w = Idle /\ load = 0 /\ stale = {} /\ msgs = "idle" /\ open = 0

Kind(i) == Page.elems[i].kind
ResOf(i) == Page.elems[i].res
Scripts == {i \in Elem : Kind(i) \in {"script", "inline!"}}

-----------------------------------------------------------------------------
(* Resources.                                                              *)

(* _load_next_chain_entry: a request to the IO process.                    *)
LoadNextEntry(v, r) ==
  [v EXCEPT !.left[r] = @ - 1, !.pending = @ \cup {<< load, r >>}]

(* Resource::load of those that are neither loading nor finished, which is *)
(* every caller's guard: each is counted if the load event waits for it,   *)
(* and the first entry of its chain is requested.                          *)
LoadAll(v, R) ==
  LET new == (R \cap Res) \ (v.loading \cup v.finished)
  IN  [v EXCEPT !.loading = @ \cup new,
                !.count   = @ + Cardinality(new \cap Page.checked),
                !.pending = @ \cup {<< load, r >> : r \in new}]

(* execute_scope: it fetches resources, and adds link elements for those   *)
(* that are blocking style sheets.                                         *)
ExecuteScope(v, R) ==
  LET u == LoadAll(v, R)
  IN  [u EXCEPT !.sheets = @ \cup ((R \cap Page.sheets) \ u.finished)]

CheckCompleted(v) ==
  IF v.state = "PAGE_LOADING" /\ v.count = 0 THEN [v EXCEPT !.check = TRUE] ELSE v

-----------------------------------------------------------------------------
(* The parser.                                                             *)

Ready(v, i) ==
  v.sheets = {} /\ (ResOf(i) # NoRes => ResOf(i) \in v.finished)

(* executeParsingBlockingScript: a script that is not ready fails a CHECK; *)
(* one that is runs its scope, which may start a timer.                    *)
RunScript(v, i) ==
  IF ~Ready(v, i) THEN [v EXCEPT !.died = "script not ready"]
  ELSE LET u == ExecuteScope([v EXCEPT !.block = 0, !.ran = Append(@, i)],
                             Page.elems[i].fetches)
       IN  IF Page.elems[i].timer THEN [u EXCEPT !.timers = @ \cup {i}] ELSE u

SetBlockingScript_InlineRuns(v, i) ==
  IF ResOf(i) = NoRes \/ Ready(v, i) THEN RunScript(v, i)
  ELSE [v EXCEPT !.block = i,
                 !.watch = IF ResOf(i) \notin v.finished THEN @ \cup {ResOf(i)} ELSE @]

(* set_parser_blocking_script; a resource that failed is not FINISHED.     *)
SetBlockingScript(v, i) ==
  IF Kind(i) = "inline!" \/ Ready(v, i) THEN RunScript(v, i)
  ELSE [v EXCEPT !.block = i,
                 !.watch = IF ResOf(i) # NoRes /\ ResOf(i) \notin v.finished
                             THEN @ \cup {ResOf(i)} ELSE @]

Insert(v, i) ==
  CASE i \in Scripts -> SetBlockingScript(v, i)
    [] Kind(i) = "css" ->
         IF ResOf(i) \notin v.finished THEN [v EXCEPT !.sheets = @ \cup {i}] ELSE v
    [] Kind(i) = "body" -> [v EXCEPT !.sched = TRUE]
    [] Kind(i) = "img" -> v

(* Document::add_elem: the element loads its resource.  From here on what  *)
(* a handler may make of the engine is a set: of one, but where the order  *)
(* of a resource's clients matters.                                        *)
AddElem(v, i) == {Insert(u, i) : u \in {LoadAll(v, {ResOf(i)})}}

(* _do_preload_scanning loads what elements beyond the blocked parser      *)
(* refer to.                                                               *)
PreloadScan(v) ==
  LET from == IF v.scanned > v.parsed THEN v.scanned ELSE v.parsed
      new  == {i \in Elem : from <= Page.elems[i].at /\ Page.elems[i].at < v.recvd}
  IN  [LoadAll(v, {ResOf(i) : i \in new} \ {NoRes}) EXCEPT !.scanned = v.recvd]

(* One turn of the parsing loop, up to limit.                              *)
ParseElem(v, limit) ==
  IF v.parsed >= limit \/ v.block # 0 \/ v.died # "no" THEN {v}
  ELSE IF v.next > Len(Page.elems) \/ Page.elems[v.next].at + 1 > limit
    THEN {[v EXCEPT !.parsed = limit]}
    ELSE AddElem([v EXCEPT !.parsed = Page.elems[v.next].at + 1, !.next = @ + 1], v.next)

ParseAll(S, limit) == UNION {ParseElem(u, limit) : u \in S}

(* The loop: an element a turn, and what is left up to the limit.          *)
Parse(v, limit) ==
  LET turns == Len(Page.elems) + 1
      after[n \in 0..turns] == IF n = 0 THEN {v} ELSE ParseAll(after[n - 1], limit)
  IN  after[turns]

(* pumpTokenizer: inside it an end is only noted; a pump that stops at its *)
(* limit schedules another.                                                *)
StopPump(v) ==
  CASE v.parsed = v.recvd /\ v.eof /\ v.block # 0 -> [v EXCEPT !.died = "blocked at end"]
    [] v.parsed = v.recvd /\ v.eof /\ v.block = 0 -> [v EXCEPT !.delayed = TRUE]
    [] v.parsed < v.recvd /\ v.block = 0 -> [v EXCEPT !.resume = TRUE]
    [] OTHER -> v

PumpTokenizer(v) ==
  LET limit == IF v.parsed + PumpLimit < v.recvd THEN v.parsed + PumpLimit ELSE v.recvd
  IN  {IF u.block # 0 THEN PreloadScan(u) ELSE u : u \in {StopPump(t) : t \in Parse(v, limit)}}

PumpIfPossible(v) == IF v.done \/ v.block # 0 THEN {v} ELSE PumpTokenizer(v)

ShouldDelayEnd(v) == v.block # 0 \/ v.parsed < v.recvd \/ v.resume

(* end and Document::finishedParsing.                                      *)
End(v) ==
  CheckCompleted(ExecuteScope([v EXCEPT !.done = TRUE, !.delayed = FALSE], Page.onParsed))

EndIfDelayed(v) == IF ~v.delayed \/ ShouldDelayEnd(v) THEN v ELSE End(v)

ResumeParsing_NoEnd(v) == PumpIfPossible(v)

ResumeParsing(v) == {EndIfDelayed(u) : u \in PumpIfPossible(v)}

AttemptToEnd(v) == IF ShouldDelayEnd(v) THEN [v EXCEPT !.delayed = TRUE] ELSE End(v)

(* Scripts the parser waits for run when they are ready, and parsing goes  *)
(* on.                                                                     *)
ExecuteScripts(v) ==
  UNION {IF u.block = 0 THEN ResumeParsing(u) ELSE {u} :
           u \in {IF v.block # 0 /\ Ready(v, v.block) THEN RunScript(v, v.block) ELSE v}}

-----------------------------------------------------------------------------
(* A sheet of the document is named by its element, one that a scope added *)
(* by its resource.                                                        *)
SheetRes(s) == IF s \in Elem THEN ResOf(s) ELSE s

(* A resource's clients are told in the order of a set of pointers.        *)
Clients(v, r) ==
  {<< "fetcher", r >>}
    \cup (IF r \in v.watch THEN {<< "parser", r >>} ELSE {})
    \cup (IF r = Main THEN {<< "document", r >>} ELSE {})
    \cup {<< "sheet", s >> : s \in {t \in v.sheets : SheetRes(t) = r}}

(* HTMLLinkElement::notifyFinished, Document::removePendingSheet.          *)
RemoveSheet(v, i) ==
  LET rest == v.sheets \ {i}
  IN  [v EXCEPT !.sheets = rest, !.exec = @ \/ rest = {}]

NotifyFinished(v, c, ok) ==
  CASE c[1] = "fetcher" -> {CheckCompleted(v)}
    [] c[1] = "parser" /\ v.block = 0 -> {[v EXCEPT !.died = "no blocking script"]}
    [] c[1] = "parser" /\ v.block # 0 /\ ok -> ExecuteScripts(v)
    [] c[1] = "parser" /\ v.block # 0 /\ ~ok -> {[v EXCEPT !.died = "script failed"]}
    [] c[1] = "document" -> {AttemptToEnd([v EXCEPT !.eof = TRUE])}
    [] c[1] = "sheet" -> {RemoveSheet(v, c[2])}

NotifyEach(S, c, ok) == UNION {NotifyFinished(u, c, ok) : u \in S}

NotifyAll(v, order, ok) ==
  LET after[n \in 0..Len(order)] ==
        IF n = 0 THEN {v} ELSE NotifyEach(after[n - 1], order[n], ok)
  IN  after[Len(order)]

Orders(S) ==
  {order \in [1..Cardinality(S) -> S] :
     \A i, j \in 1..Cardinality(S) : i # j => order[i] # order[j]}

(* Resource::_notify_finished: the count first, then the clients.          *)
NotifyFinishedAll(v, r, ok) ==
  LET u == IF r \in Page.checked THEN [v EXCEPT !.count = @ - 1] ELSE v
  IN  UNION {NotifyAll(u, order, ok) : order \in Orders(Clients(u, r))}

Finished(v, r) == [v EXCEPT !.loading = @ \ {r}, !.finished = @ \cup {r}]

Finish_Counted(v, r, ok) ==
  IF ok THEN IF v.left[r] > 0 THEN {LoadNextEntry(v, r)}
             ELSE NotifyFinishedAll(ExecuteScope(Finished(v, r), Page.fetches[r]), r, TRUE)
  ELSE UNION {NotifyAll([v EXCEPT !.errored = @ \cup {r}], order, FALSE) :
                order \in Orders(Clients(v, r))}

(* Resource::finish, its outcomes: on a redirect the next entry of the     *)
(* chain is requested; a style sheet that succeeded runs its parse scope;  *)
(* a failure leaves the state LOADING.                                     *)
Finish(v, r, ok) ==
  CASE r \notin v.loading -> {[v EXCEPT !.died = "finish CHECK"]}
    [] r \in v.loading /\ ok /\ v.left[r] > 0 -> {LoadNextEntry(v, r)}
    [] r \in v.loading /\ ok /\ v.left[r] = 0 ->
         NotifyFinishedAll(ExecuteScope(Finished(v, r), Page.fetches[r]),
                           r, TRUE)
    [] r \in v.loading /\ ~ok ->
         NotifyFinishedAll([v EXCEPT !.errored = @ \cup {r}], r, FALSE)

(* _do_end_of_task_work.                                                   *)
EndOfTask(v) ==
  IF v.sched THEN ExecuteScope([v EXCEPT !.sched = FALSE], Page.render) ELSE v

(* _maybe_load_unloaded_resources: with nothing else going on, what has    *)
(* not been loaded is.                                                     *)
MaybeLoadUnloaded(v) ==
  IF v.state = "IDLE" /\ v.timers = {} /\ v.pending = {} /\ ~v.check /\ v.model
    THEN LoadAll(v, Res) ELSE v

-----------------------------------------------------------------------------
(* The messages to the driver: a request is announced when it is sent and  *)
(* reported when it ends.                                                  *)
Announced(v, u) == Cardinality(v.pending \ u.pending)

Become(S) == \E u \in S : w' = u /\ open' = open + Announced(u, w)

Alive == w.died = "no"

(* handle_LoadPage; the driver resets the renderer between two loads.      *)
LoadPage ==
  /\ Alive /\ msgs = "idle" /\ load < MaxLoads
  /\ load' = load + 1
  /\ Become({[Idle EXCEPT !.state = "PAGE_LOADING", !.model = TRUE,
                          !.loading = {Main},
                          !.count = Cardinality({Main} \cap Page.checked),
                          !.pending = {<< load + 1, Main >>}]})
  /\ msgs' = "loading"
  /\ UNCHANGED stale

Reset_KeepsRequests ==
  /\ Alive /\ msgs # "idle"
  /\ w' = [Idle EXCEPT !.pending = w.pending]
  /\ UNCHANGED << load, stale >>
  /\ msgs' = "idle" /\ open' = 0

(* handle_Reset: the engine forgets all; requests may still be answered.   *)
Reset ==
  /\ Alive /\ msgs # "idle"
  /\ w' = Idle
  /\ stale' = stale \cup w.pending
  /\ msgs' = "idle" /\ open' = 0
  /\ UNCHANGED load

(* handle_DataReceived, for the document.                                  *)
DataReceived ==
  /\ Alive /\ << load, Main >> \in w.pending /\ w.left[Main] = 0
  /\ w.recvd < Page.size
  /\ LET u == [w EXCEPT !.recvd = IF @ + Chunk < Page.size THEN @ + Chunk ELSE Page.size]
         t == IF u.block # 0 THEN PreloadScan(u) ELSE u
     IN  Become({EndOfTask(x) : x \in UNION {PumpIfPossible(y) : y \in ResumeParsing(t)}})
  /\ UNCHANGED << load, stale, msgs >>

(* handle_ReceivedResponse, and handle_DataReceived for other resources:   *)
(* of these only the end-of-task work changes what is modelled.            *)
ReceivedResponse ==
  /\ Alive /\ w.pending # {} /\ w.sched
  /\ Become({EndOfTask(w)})
  /\ UNCHANGED << load, stale, msgs >>

(* handle_RequestComplete.  The document has been received whole.          *)
RequestComplete(q, ok) ==
  LET r == q[2]
      u == [w EXCEPT !.pending = @ \ {q}]
  IN  /\ Alive /\ q \in w.pending
      /\ ok \/ r \in CanFail
      /\ ok /\ r = Main /\ w.left[Main] = 0 => w.recvd = Page.size
      /\ IF r = Main /\ ~ok
           THEN /\ w' = Idle /\ msgs' = "failed"
                /\ stale' = stale \cup u.pending
                /\ open' = 0
           ELSE /\ \E x \in Finish(u, r, ok) : \E v \in {MaybeLoadUnloaded(EndOfTask(x))} :
                     w' = v /\ open' = open - 1 + Announced(v, u)
                /\ UNCHANGED << stale, msgs >>
      /\ UNCHANGED load

(* An answer to a request that was forgotten is ignored.                   *)
StaleAnswer(q) ==
  /\ Alive /\ q \in stale
  /\ stale' = stale \ {q}
  /\ UNCHANGED << w, load, msgs, open >>

-----------------------------------------------------------------------------
(* The engine's timers.                                                    *)
ResumeTimerFires ==
  /\ Alive /\ w.resume
  /\ Become(ResumeParsing([w EXCEPT !.resume = FALSE]))
  /\ UNCHANGED << load, stale, msgs >>

(* More sheets may have been added since the timer was started.            *)
ExecTimerFires ==
  /\ Alive /\ w.exec
  /\ LET u == [w EXCEPT !.exec = FALSE]
     IN  Become(IF u.sheets = {} THEN ExecuteScripts(u) ELSE {u})
  /\ UNCHANGED << load, stale, msgs >>

(* A DOM timer runs its scope.                                             *)
DomTimerFires(i) ==
  /\ Alive /\ i \in w.timers
  /\ Become({EndOfTask(u) : u \in {ExecuteScope([w EXCEPT !.timers = @ \ {i}], Page.onTimer)}})
  /\ UNCHANGED << load, stale, msgs >>

CheckTimerFires_WhileParsing ==
  /\ Alive /\ w.check
  /\ LET u == [w EXCEPT !.check = FALSE]
     IN  IF u.state # "PAGE_LOADING" \/ u.count # 0
           THEN w' = u /\ UNCHANGED << msgs, open >>
           ELSE /\ Become({MaybeLoadUnloaded([u EXCEPT !.state = "IDLE", !.loaded = TRUE])})
                /\ msgs' = "loaded"
  /\ UNCHANGED << load, stale >>

(* checkCompleted_timer_fired: the document must be parsed and no counted  *)
(* request be left; then the load event's scopes run and the driver is     *)
(* told.                                                                   *)
CheckTimerFires ==
  /\ Alive /\ w.check
  /\ LET u == [w EXCEPT !.check = FALSE]
     IN  IF u.state # "PAGE_LOADING" \/ ~u.done \/ u.count # 0
           THEN w' = u /\ UNCHANGED << msgs, open >>
           ELSE /\ Become({MaybeLoadUnloaded(x) : x \in {[ExecuteScope(u, Page.onLoad)
                                                    EXCEPT !.state = "IDLE", !.loaded = TRUE]}})
                /\ msgs' = "loaded"
  /\ UNCHANGED << load, stale >>

Completions == \E q \in w.pending : \E ok \in BOOLEAN : RequestComplete(q, ok)

Next ==
  \/ LoadPage \/ Reset \/ DataReceived \/ ReceivedResponse \/ Completions
  \/ \E q \in stale : StaleAnswer(q)
  \/ ResumeTimerFires \/ ExecTimerFires \/ CheckTimerFires
  \/ \E i \in w.timers : DomTimerFires(i)

(* The IO process answers and timers fire.  The driver resets at will, but *)
(* for the properties of a load that is left alone it does so finitely     *)
(* often: loads are bounded.                                               *)
Fairness ==
  /\ WF_vars(DataReceived) /\ \A r \in Res : WF_vars(\E q \in w.pending :
                                   q[2] = r /\ \E ok \in BOOLEAN : RequestComplete(q, ok))
  /\ WF_vars(ResumeTimerFires) /\ WF_vars(ExecTimerFires) /\ WF_vars(CheckTimerFires)
  /\ WF_vars(\E i \in w.timers : DomTimerFires(i))

Spec == Init /\ [][Next]_vars /\ Fairness

-----------------------------------------------------------------------------
(* Type correctness.                                                       *)
TypeOK ==
  /\ w.state \in {"IDLE", "PAGE_LOADING"}
  /\ w.loading \cup w.finished \subseteq Res /\ w.loading \cap w.finished = {}
  /\ w.parsed <= w.recvd /\ w.scanned <= w.recvd /\ w.recvd <= Page.size
  /\ w.block \in Elem \cup {0} /\ w.sheets \subseteq Elem \cup Page.sheets
  /\ w.count \in 0..Cardinality(Res)
  /\ load \in 0..MaxLoads /\ open \in 0..Cardinality(Res)

(* requestCount_ counts the resources the load event waits for that are    *)
(* still being loaded, redirects and failures included; it never goes      *)
(* below zero (CHECK_GE), and no request of a page that was reset ends up  *)
(* in the next one.                                                        *)
CountExact ==
  /\ w.count = Cardinality((w.loading \cap Page.checked) \ w.errored)
  /\ w.died # "finish CHECK"

(* Parser-blocking scripts run once, in the order of the document, and     *)
(* never before their resource or with a style sheet pending; no later     *)
(* element is added while one blocks.                                      *)
ScriptsInOrder ==
  /\ w.died \notin {"script not ready", "no blocking script"}
  /\ Alive => /\ \A m, n \in DOMAIN w.ran : m < n => w.ran[m] < w.ran[n]
              /\ {w.ran[n] : n \in DOMAIN w.ran} =
                   {i \in Scripts : i < w.next /\ i # w.block}

(* PageLoaded is sent when the whole document is parsed, every script has  *)
(* run and everything the elements refer to, and is waited for, has ended. *)
LoadedMeansLoaded ==
  w.loaded =>
    /\ w.parsed = Page.size /\ w.next = Len(Page.elems) + 1 /\ w.block = 0
    /\ \A i \in Elem : ResOf(i) \in Page.checked =>
         ResOf(i) \in w.finished \cup w.errored

(* What the driver is told of requests adds up: those announced and not    *)
(* reported finished are those the IO process is still to answer.          *)
DriverSeesPending == Alive => open = Cardinality(w.pending)

(* Requests are counted exactly: towards the load event and for the driver, *)
(* through redirects, failures, resets and late answers.                   *)
EngineIsSafe == TypeOK /\ CountExact /\ DriverSeesPending

(* What the driver is told follows the renderer's protocol: one outcome to *)
(* a load, requests only while the page is there, nothing after a failure. *)
Protocol == INSTANCE RendererProtocol WITH phase <- msgs, MaxOpen <- Cardinality(Res)
FollowsProtocol == Protocol!RSpec

(* A load ends, by the load event, a failure or a reset, and no CHECK ends  *)
(* the process meanwhile.                                                  *)
LoadEnds == (msgs = "loading") ~> (msgs # "loading")

(* After the load event, what no scope has loaded is loaded too.           *)
UnloadedLoaded ==
  w.loaded ~> (~w.loaded \/ ~Alive \/ w.loading \cup w.finished = Res)

(* A script to be executed immediately is executed "irrespective of any    *)
(* blocking css stylesheets".                                              *)
ImmediateScriptsRun == w.died # "script not ready"

(* "we should not be blocked by script right now" at the end of parsing.   *)
NotBlockedAtEnd == w.died # "blocked at end"

(* "if the script resource fails to load then we move on": parsing ends    *)
(* although a script that was preloaded failed.                            *)
MovesOn == w.eof ~> (w.done \/ ~w.eof \/ ~Alive)
================================================================================
