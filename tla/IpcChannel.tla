------------------------------ MODULE IpcChannel ------------------------------
(***************************************************************************)
(* A GenericIpcChannel at its client and at its server, over a message     *)
(* channel that delivers whole messages in order.  The client calls: a     *)
(* call carries an id, and the reply carries it back.  A call may have a   *)
(* timer, whose expiry races the reply; a late reply must be swallowed,    *)
(* because a message with an id that is not being waited for is taken for  *)
(* a call from the server, which a client refuses with a CHECK.            *)
(*                                                                         *)
(* A callback may make the next call before it returns, as the driver does *)
(* (reset answered, so load the page).                                     *)
(***************************************************************************)
EXTENDS Integers, Sequences, FiniteSets, Functions

CONSTANTS MaxCalls,    \* bound on calls made
          Timed        \* ids of the calls made with a time limit

ASSUME IpcAssumption == MaxCalls \in Nat /\ Timed \subseteq Nat

(* Ids 1, 3, 5, ...: the client's first id is 1 and each call adds 2.      *)
CallId == {2 * i - 1 : i \in 1..MaxCalls}

VARIABLES nextId,     \* next_call_msg_id_
          pending,    \* keys of pending_calls_
          timedOut,   \* timed_out_call_ids_
          calls,      \* ids on their way to the server
          replies,    \* ids on their way to the client, 0 for a message
          serving,    \* calls the server has been given and not answered
          outcome,    \* per id, the statuses its callback was called with
          up,         \* the connection is up
          checkOk     \* every CHECK so far held

vars == << nextId, pending, timedOut, calls, replies, serving, outcome, up, checkOk >>

Init ==
  /\ nextId = 1
  /\ pending = {} /\ timedOut = {}
  /\ calls = << >> /\ replies = << >> /\ serving = {}
  /\ outcome = [c \in CallId |-> << >>]
  /\ up = TRUE /\ checkOk = TRUE

CanCall == up /\ nextId < 2 * MaxCalls

(* call(): pend is what pending_calls_ holds besides.                      *)
CallWith(pend) ==
  /\ nextId' = nextId + 2
  /\ pending' = pend \union {nextId}
  /\ calls' = Append(calls, nextId)

NoCallWith(pend) ==
  /\ pending' = pend
  /\ UNCHANGED << nextId, calls >>

-----------------------------------------------------------------------------
MakeCall ==
  /\ CanCall /\ checkOk
  /\ CallWith(pending)
  /\ UNCHANGED << timedOut, replies, serving, outcome, up, checkOk >>

RunCallback_KeepsEntry(id, st, again) ==
  /\ outcome' = [outcome EXCEPT ![id] = Append(@, st)]
  /\ IF again THEN CanCall /\ CallWith(pending) ELSE NoCallWith(pending)

(* The callback of id runs with this status; it may call again.            *)
RunCallback(id, st, again) ==
  /\ outcome' = [outcome EXCEPT ![id] = Append(@, st)]
  /\ IF again THEN CanCall /\ CallWith(pending \ {id}) ELSE NoCallWith(pending \ {id})

(* onRecvMsg at the client: the answer to a call being waited for.         *)
RecvReply(again) ==
  /\ up /\ checkOk /\ replies # << >>
  /\ Head(replies) \in pending
  /\ RunCallback(Head(replies), "RECV", again)
  /\ replies' = Tail(replies)
  /\ UNCHANGED << timedOut, serving, up, checkOk >>

(* ... the answer to a call that has timed out is swallowed.               *)
RecvLateReply ==
  /\ up /\ checkOk /\ replies # << >>
  /\ Head(replies) \in timedOut \ pending
  /\ timedOut' = timedOut \ {Head(replies)}
  /\ replies' = Tail(replies)
  /\ UNCHANGED << nextId, pending, calls, serving, outcome, up, checkOk >>

(* ... any other id is a call, and only servers take calls; id 0 is a      *)
(* message of its own.                                                     *)
RecvOther ==
  /\ up /\ checkOk /\ replies # << >>
  /\ Head(replies) \notin pending \union timedOut
  /\ checkOk' = (Head(replies) = 0)
  /\ replies' = Tail(replies)
  /\ UNCHANGED << nextId, pending, timedOut, calls, serving, outcome, up >>

TimeOut_KeepsNoId(id, again) ==
  /\ checkOk
  /\ id \in pending \intersect Timed
  /\ RunCallback(id, "TIMEDOUT", again)
  /\ UNCHANGED << timedOut, replies, serving, up, checkOk >>

(* _on_timeout_waiting_resp: the timer lives in the pending call, so it    *)
(* fires only while the call is pending.  It fires even when the           *)
(* connection is down.                                                     *)
TimeOut(id, again) ==
  /\ checkOk
  /\ id \in pending \intersect Timed
  /\ RunCallback(id, "TIMEDOUT", again)
  /\ timedOut' = timedOut \union {id}
  /\ UNCHANGED << replies, serving, up, checkOk >>

(* The server: called_cb_ is given the call, reply() answers it, and       *)
(* sendMsg() sends a message that is no reply.                             *)
ServerRecv ==
  /\ up /\ calls # << >>
  /\ serving' = serving \union {Head(calls)}
  /\ calls' = Tail(calls)
  /\ UNCHANGED << nextId, pending, timedOut, replies, outcome, up, checkOk >>

Reply(id) ==
  /\ up
  /\ id \in serving
  /\ serving' = serving \ {id}
  /\ replies' = Append(replies, id)
  /\ UNCHANGED << nextId, pending, timedOut, calls, outcome, up, checkOk >>

ServerSend ==
  /\ up
  /\ 0 \notin Range(replies)
  /\ replies' = Append(replies, 0)
  /\ UNCHANGED << nextId, pending, timedOut, calls, serving, outcome, up, checkOk >>

(* onEOF, onError: the owner is told CLOSED; pending calls stay.           *)
Close ==
  /\ up /\ up' = FALSE
  /\ UNCHANGED << nextId, pending, timedOut, calls, replies, serving, outcome, checkOk >>

Next ==
  \/ MakeCall
  \/ \E again \in BOOLEAN : RecvReply(again)
  \/ RecvLateReply \/ RecvOther
  \/ \E id \in CallId, again \in BOOLEAN : TimeOut(id, again)
  \/ ServerRecv \/ (\E id \in CallId : Reply(id)) \/ ServerSend
  \/ Close

(* A running timer fires in the end, unless it is destroyed first.         *)
Fairness == \A id \in CallId : WF_vars(\E again \in BOOLEAN : TimeOut(id, again))

Spec == Init /\ [][Next]_vars /\ Fairness

-----------------------------------------------------------------------------
(* Type correctness.                                                       *)
TypeOK ==
  /\ nextId \in Nat
  /\ pending \subseteq CallId /\ timedOut \subseteq CallId /\ serving \subseteq CallId
  /\ calls \in Seq(CallId) /\ replies \in Seq(CallId \union {0})
  /\ outcome \in [CallId -> Seq({"RECV", "TIMEDOUT"})]
  /\ up \in BOOLEAN /\ checkOk \in BOOLEAN

(* A client is never taken for a server (CHECK(!is_client_), l.157): every *)
(* reply, however late, finds its call pending or its id remembered.       *)
NeverTakenForCall == checkOk

(* An id is in one place: on its way to the server, with the server, or on *)
(* its way back; and while it is in one of them the client waits for it or *)
(* remembers that it timed out, so what timed_out_call_ids_ holds is       *)
(* bounded by what the server still owes.                                  *)
OneCopyPerCall ==
  up => \A c \in CallId :
    LET copies == Cardinality({i \in DOMAIN calls : calls[i] = c})
                  + Cardinality({i \in DOMAIN replies : replies[i] = c})
                  + (IF c \in serving THEN 1 ELSE 0)
    IN  copies = IF c \in pending \union timedOut THEN 1 ELSE 0

(* Ids are kept as long as a reply to them may come, and no longer.        *)
CallsAreSafe == TypeOK /\ NeverTakenForCall /\ OneCopyPerCall

StatusOf(c) ==
  IF outcome[c] # << >> THEN
    IF Len(outcome[c]) = 1 /\ c \notin pending THEN Head(outcome[c]) ELSE "twice"
  ELSE IF c \in pending THEN "waiting" ELSE "unmade"

(* Seen by the caller, the reply and the timer that race for a call end it *)
(* exactly once, whatever the callback does, and a call with a time limit  *)
(* ends even when the server never answers or the connection is lost.      *)
Table == INSTANCE CallTable
  WITH Call <- CallId, Timed <- Timed \intersect CallId,
       status <- [c \in CallId |-> StatusOf(c)]

ImplementsCallTable == Table!Spec
===============================================================================
