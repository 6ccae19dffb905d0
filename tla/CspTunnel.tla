------------------------------- MODULE CspTunnel -------------------------------
(***************************************************************************)
(* ClientSideProxy: the life of its tunnel to the server-side proxy.  It   *)
(* connects (ChannelSetup has the steps), hands the socket to a            *)
(* BufloMuxChannel, accepts clients while that is READY, arms and stops    *)
(* defense sessions when told to, replaces a channel that has grown old,   *)
(* and keeps statistics over all its channels.                             *)
(*                                                                         *)
(* There are two builds.  In Shadow main() sets no status callback, the    *)
(* driver arms and stops sessions over IPC, and a channel that closes      *)
(* resets the proxy.  Outside, main() sets s_on_buflo_channel_ready, which *)
(* may arm each new channel, signals close streams and stop sessions, and  *)
(* a channel that closes ends the process.                                 *)
(*                                                                         *)
(* What a defense session does is in BufloDefense; here it is its state in *)
(* the two directions.                                                     *)
(***************************************************************************)
EXTENDS Naturals, FiniteSets

CONSTANTS Options,      \* builds and their options: [shadow, auto, exit]
          Client,       \* connections of proxy clients
          MaxChannels,  \* bound on channels
          MaxBytes      \* bound on bytes counted over all channels

ASSUME TunnelAssumption ==
  /\ Options \subseteq [shadow : BOOLEAN, auto : BOOLEAN, exit : BOOLEAN]
  /\ MaxChannels \in Nat \ {0} /\ MaxBytes \in Nat

VARIABLES options,    \* build and options of this process
          state,      \* state_; CONNECTING stands for the transport's states
          ch,         \* buflo_ch_, or NoChannel
          made,       \* channels made so far
          reap,       \* reap_buflo_channel_timer_ is running
          listening,  \* stream_server_ is accepting
          handlers,   \* client_handlers_: the channel each client is on
          soFar,      \* all_*_byte_count_so_far_
          carried,    \* bytes all channels really carried
          promised,   \* set_auto_start said yes, and no session since
          undefended, \* a send went out undefended although promised
          told,       \* what the status callback last said
          exited      \* why the process ended, or "no"

tunnelVars == << options, state, ch, made, reap, listening, handlers, soFar,
                 carried, promised, undefended, told, exited >>

NoChannel == [id |-> 0]

NewChannel(n) == [id |-> n, bytes |-> 0, out |-> FALSE, old |-> FALSE,
                  send |-> "NONE", stop |-> FALSE, recvDone |-> TRUE]

NoHandlers == [c \in {} |-> 0]

Running == exited = "no"
Up == ch # NoChannel

(* establish_tunnel has been called by main() before the event loop runs.  *)
TunnelInit ==
  /\ options \in Options
  /\ state = "CONNECTING" /\ ch = NoChannel /\ made = 0
  /\ reap = FALSE /\ listening = FALSE /\ handlers = NoHandlers
  /\ soFar = 0 /\ carried = 0
  /\ promised = FALSE /\ undefended = FALSE /\ told = "nothing"
  /\ exited = "no"

Exits(why) ==
  /\ exited' = why
  /\ UNCHANGED << options, state, ch, made, reap, listening, handlers, soFar,
                  carried, promised, undefended, told >>

-----------------------------------------------------------------------------
(* _update_stats, before a channel is destroyed.                           *)
UpdateStats == soFar' = soFar + (IF Up THEN ch.bytes ELSE 0)

ResetToInitial_KeepsClients(next) ==
  /\ ch' = NoChannel
  /\ state' = next
  /\ UNCHANGED handlers

(* _reset_to_initial destroys every client handler, then the channel;      *)
(* _establish_tunnel_internal then starts connecting.                      *)
ResetToInitial(next) ==
  /\ handlers' = NoHandlers
  /\ ch' = NoChannel
  /\ state' = next

(* The channel, once the transport is connected.                           *)
SocketConnected ==
  /\ Running /\ state = "CONNECTING" /\ made < MaxChannels
  /\ state' = "SETTING_UP_BUFLO_CHANNEL"
  /\ made' = made + 1
  /\ ch' = NewChannel(made + 1)
  /\ UNCHANGED << options, reap, listening, handlers, soFar, carried, promised,
                  undefended, told, exited >>

(* onConnectError, onConnectTimeout, and any other result of the proxy.    *)
ConnectFails == Running /\ state = "CONNECTING" /\ Exits("connect failed")

ChannelReady_NoTimer ==
  /\ Running /\ state = "SETTING_UP_BUFLO_CHANNEL"
  /\ state' = "READY" /\ listening' = TRUE
  /\ told' = IF options.shadow THEN told ELSE "ready"
  /\ IF options.auto /\ ~options.shadow
       THEN ch' = [ch EXCEPT !.send = "PENDING"] /\ promised' = TRUE
       ELSE UNCHANGED << ch, promised >>
  /\ UNCHANGED << options, made, reap, handlers, soFar, carried, undefended,
                  exited >>

(* The channel is READY: the reap timer starts, which CHECKs that it is    *)
(* not running, and clients are accepted.  The callback of the build       *)
(* outside Shadow arms the new channel.                                    *)
ChannelReady ==
  /\ Running /\ state = "SETTING_UP_BUFLO_CHANNEL"
  /\ IF reap THEN Exits("timer running")
     ELSE /\ state' = "READY" /\ reap' = TRUE /\ listening' = TRUE
          /\ told' = IF options.shadow THEN told ELSE "ready"
          /\ IF options.auto /\ ~options.shadow
               THEN ch' = [ch EXCEPT !.send = "PENDING"] /\ promised' = TRUE
               ELSE UNCHANGED << ch, promised >>
          /\ UNCHANGED << options, made, handlers, soFar, carried, undefended,
                          exited >>

TunnelCloses_Uncounted ==
  /\ Running /\ Up
  /\ IF ~options.shadow THEN Exits("channel closed")
     ELSE /\ ResetToInitial("INITIAL") /\ promised' = FALSE
          /\ UNCHANGED << options, made, reap, listening, soFar, carried,
                          undefended, told, exited >>

(* CLOSED: outside Shadow the process exits.  The callback would be told,  *)
(* but Shadow's main() has set none; with the tunnel known to be down,     *)
(* nothing is promised of the next send.                                   *)
TunnelCloses ==
  /\ Running /\ Up
  /\ IF ~options.shadow THEN Exits("channel closed")
     ELSE /\ UpdateStats /\ ResetToInitial("INITIAL")
          /\ promised' = FALSE
          /\ UNCHANGED << options, made, reap, listening, carried, undefended,
                          told, exited >>

-----------------------------------------------------------------------------
(* onAccepted: a client that comes while the tunnel is not READY is        *)
(* dropped at once.                                                        *)
ClientConnects(c) ==
  /\ Running /\ listening /\ c \notin DOMAIN handlers
  /\ state = "READY"
  /\ handlers' = [d \in DOMAIN handlers \cup {c} |->
                    IF d = c THEN ch.id ELSE handlers[d]]
  /\ UNCHANGED << options, state, ch, made, reap, listening, soFar, carried,
                  promised, undefended, told, exited >>

(* _on_client_handler_done.                                                *)
ClientDone(c) ==
  /\ Running /\ c \in DOMAIN handlers
  /\ handlers' = [d \in DOMAIN handlers \ {c} |-> handlers[d]]
  /\ UNCHANGED << options, state, ch, made, reap, listening, soFar, carried,
                  promised, undefended, told, exited >>

(* SIGUSR1, outside Shadow only.                                           *)
CloseAllStreams ==
  /\ Running /\ ~options.shadow
  /\ handlers' = NoHandlers
  /\ UNCHANGED << options, state, ch, made, reap, listening, soFar, carried,
                  promised, undefended, told, exited >>

(* A client's data is handed to the channel its handler points to.         *)
ClientSends(c) ==
  /\ Running /\ c \in DOMAIN handlers /\ ~ch.out
  /\ ch' = [ch EXCEPT !.out = TRUE]
  /\ UNCHANGED << options, state, made, reap, listening, handlers, soFar,
                  carried, promised, undefended, told, exited >>

-----------------------------------------------------------------------------
(* The channel on its own.                                                 *)

(* Its socket is writable: a pending session starts with this send.        *)
ChannelWrites ==
  /\ Running /\ state = "READY" /\ ch.out /\ carried < MaxBytes
  /\ ch' = [ch EXCEPT !.out = FALSE, !.bytes = @ + 1,
                      !.send = IF @ = "PENDING" THEN "ACTIVE" ELSE @,
                      !.recvDone = @ /\ ch.send # "PENDING"]
  /\ carried' = carried + 1
  /\ undefended' = (undefended \/ (promised /\ ch.send = "NONE"))
  /\ promised' = FALSE
  /\ UNCHANGED << options, state, made, reap, listening, handlers, soFar, told,
                  exited >>

ChannelReads ==
  /\ Running /\ state = "READY" /\ carried < MaxBytes
  /\ ch' = [ch EXCEPT !.bytes = @ + 1]
  /\ carried' = carried + 1
  /\ UNCHANGED << options, state, made, reap, listening, handlers, soFar,
                  promised, undefended, told, exited >>

(* A direction of the session is done; when both are, the owner is told,   *)
(* and outside Shadow the process may exit.                                *)
DirectionDone(e) ==
  /\ ch' = e
  /\ exited' = IF e.send = "NONE" /\ e.recvDone /\ options.exit /\ ~options.shadow
               THEN "exit" ELSE exited
  /\ UNCHANGED << options, state, made, reap, listening, handlers, soFar,
                  carried, promised, undefended, told >>

SendDone ==
  /\ Running /\ Up /\ state = "READY" /\ ch.send = "ACTIVE" /\ ch.stop
  /\ DirectionDone([ch EXCEPT !.send = "NONE", !.stop = FALSE])

RecvDone ==
  /\ Running /\ Up /\ state = "READY" /\ ~ch.recvDone
  /\ DirectionDone([ch EXCEPT !.recvDone = TRUE])

(* The client's own time limit passes in a session nobody stopped.         *)
SessionExpires ==
  /\ Running /\ Up /\ state = "READY" /\ ch.send = "ACTIVE" /\ ~ch.stop
  /\ Exits("session expired")

GrowsOld ==
  /\ Running /\ Up /\ state = "READY" /\ ~ch.old
  /\ ch' = [ch EXCEPT !.old = TRUE]
  /\ UNCHANGED << options, state, made, reap, listening, handlers, soFar,
                  carried, promised, undefended, told, exited >>

-----------------------------------------------------------------------------
(* The owner: the driver over IPC in Shadow.                               *)
SetAutoStart ==
  /\ Running /\ options.shadow /\ state = "READY"
  /\ IF ch.send # "NONE" \/ ch.out THEN Exits("set_auto_start CHECK")
     ELSE /\ ch' = [ch EXCEPT !.send = "PENDING"]
          /\ promised' = TRUE
          /\ UNCHANGED << options, state, made, reap, listening, handlers,
                          soFar, carried, undefended, told, exited >>

(* StopDefense over IPC, or SIGUSR2: a session that is not ACTIVE is       *)
(* forgotten.                                                              *)
StopDefense ==
  /\ Running /\ state = "READY"
  /\ ch' = IF ch.send = "ACTIVE" THEN [ch EXCEPT !.stop = TRUE]
           ELSE [ch EXCEPT !.send = "NONE"]
  /\ promised' = FALSE
  /\ UNCHANGED << options, state, made, reap, listening, handlers, soFar,
                  carried, undefended, told, exited >>

-----------------------------------------------------------------------------
(* is_defense_in_progress() \/ has_pending_bytes().                        *)
Busy == ch.send = "ACTIVE" \/ ~ch.recvDone \/ ch.out

(* The reap timer fires on a channel old enough and idle.  (On any other,  *)
(* and with no channel, it does nothing.)                                  *)
ReapFires ==
  /\ Running /\ reap /\ Up /\ ch.old /\ ~Busy
  /\ reap' = FALSE
  /\ UpdateStats /\ ResetToInitial("CONNECTING")
  /\ UNCHANGED << options, made, listening, carried, promised, undefended, told,
                  exited >>

TunnelNext ==
  \/ SocketConnected \/ ConnectFails \/ ChannelReady \/ TunnelCloses
  \/ \E c \in Client : ClientConnects(c) \/ ClientDone(c) \/ ClientSends(c)
  \/ CloseAllStreams
  \/ ChannelWrites \/ ChannelReads \/ SendDone \/ RecvDone \/ SessionExpires
  \/ GrowsOld \/ SetAutoStart \/ StopDefense \/ ReapFires

(* The event loop dispatches: connecting ends one way or another (there is *)
(* a timeout of 5 seconds), the peer answers, channels age, writable       *)
(* sockets are written, and the reap timer fires every 5 seconds.  A       *)
(* session ends once it is stopped, in both directions.                    *)
TunnelFairness ==
  /\ WF_tunnelVars(SocketConnected) /\ WF_tunnelVars(ChannelReady)
  /\ WF_tunnelVars(GrowsOld)
  /\ WF_tunnelVars(ChannelWrites) /\ WF_tunnelVars(SendDone) /\ WF_tunnelVars(RecvDone)
  /\ WF_tunnelVars(ReapFires)

TunnelSpec == TunnelInit /\ [][TunnelNext]_tunnelVars /\ TunnelFairness

-----------------------------------------------------------------------------
ReadyChannel == [id : 1..MaxChannels, bytes : 0..MaxBytes, out : BOOLEAN,
                 old : BOOLEAN, send : {"NONE", "PENDING", "ACTIVE"},
                 stop : BOOLEAN, recvDone : BOOLEAN]

(* Type correctness; a channel exists exactly while it is set up or READY. *)
TunnelTypeOK ==
  /\ options \in Options
  /\ state \in {"INITIAL", "CONNECTING", "SETTING_UP_BUFLO_CHANNEL", "READY"}
  /\ ch \in ReadyChannel \cup {NoChannel}
  /\ Up <=> state \in {"SETTING_UP_BUFLO_CHANNEL", "READY"}
  /\ made \in 0..MaxChannels /\ soFar \in 0..MaxBytes /\ carried \in 0..MaxBytes
  /\ reap \in BOOLEAN /\ listening \in BOOLEAN
  /\ DOMAIN handlers \subseteq Client

(* all_*_byte_count_so_far(): every byte of every channel is counted, and  *)
(* once, though channels are reaped and closed at any point.               *)
StatsExact == soFar + (IF Up THEN ch.bytes ELSE 0) = carried

(* No client handler outlives its channel: each points to the channel in   *)
(* place, which is READY.                                                  *)
ClientsOnLiveChannel ==
  \A c \in DOMAIN handlers : state = "READY" /\ handlers[c] = ch.id

(* The reaper never finds a channel that is not yet established (it has no *)
(* time stamp then), and READY never starts a timer that is running, which *)
(* would end the process.                                                  *)
ReaperInTurn ==
  /\ reap /\ Up => state = "READY"
  /\ exited # "timer running"

(* Outside Shadow, a send that was promised a session is sent in one,      *)
(* although the channel that was armed may have been reaped meanwhile:     *)
(* the callback arms its successor before any client can send.             *)
PromiseKeptOutside == undefended => options.shadow

(* Channels may be reaped, closed and replaced at any point: no handler    *)
(* and no timer is left over from the last one, and outside Shadow no      *)
(* promise to defend is lost with it.                                      *)
TunnelIsSafe ==
  TunnelTypeOK /\ ClientsOnLiveChannel /\ ReaperInTurn /\ PromiseKeptOutside

(* An old channel with nothing going on is replaced, and its successor     *)
(* becomes READY, again and again, unless the process ends or the server   *)
(* closes the channel.                                                     *)
OldChannelReplaced ==
  []<>(\/ ~Running \/ state = "INITIAL" \/ made = MaxChannels
       \/ state = "READY" /\ (~ch.old \/ Busy))

(* "user wants to be defended, but only once he next actually has useful   *)
(* activity", in Shadow too.                                               *)
PromiseKept == ~undefended

(* The log of a channel that closes in Shadow: "we're resetting to initial *)
(* state and then notify user".                                            *)
CloseIsNotified == state = "INITIAL" ~> (told = "closed" \/ ~Running)
================================================================================
