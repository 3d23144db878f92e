---------------------------------- MODULE Sdk ----------------------------------
(***************************************************************************)
(* A bot's reports on their way to its agent: the library adapters         *)
(* (packages/adapter-discordjs, adapter-eris), the runtime and its socket  *)
(* client (packages/runtime-sdk/src/runtime.ts, socket-client.ts) and the  *)
(* agent's local server (apps/agent/src/local-ipc.ts) with the relay to    *)
(* the control plane (apps/agent/src/index.ts).  Messages are numbered in  *)
(* the order of the calls of send.  The bot calls start once.              *)
(***************************************************************************)
EXTENDS Naturals, Sequences

CONSTANTS
  Libraries,     \* "discordjs", "eris"
  MaxQueueSize,  \* maxQueueSize, 100 in the code
  MaxSends,      \* bound on messages
  MaxOutages     \* bound on failures of the agent and of its link

ASSUME SdkAssumption ==
  /\ Libraries \subseteq {"discordjs", "eris"}
  /\ MaxQueueSize \in Nat \ {0} /\ MaxSends \in Nat /\ MaxOutages \in Nat

VARIABLES
  client,    \* the AgentSocketClient: its fields and its pending timer
  sock,      \* the socket it created last, and what is on its way to the agent
  up,        \* does the agent accept connections?
  linked,    \* is the agent connected to the control plane?
  sent,      \* messages sent so far
  relayed,   \* the last message relayed to the control plane
  adapter,   \* library, attached?, number of ready events, heartbeat intervals
  stopped,   \* number of the bot.stopped message, or 0
  outages

sdkVars == <<client, sock, up, linked, sent, relayed, adapter, stopped, outages>>

NoSocket == [st |-> "none", wire |-> <<>>]

SdkInit ==
  /\ client = [started |-> FALSE, closed |-> FALSE, connected |-> FALSE, hasSocket |-> FALSE,
               queue |-> <<>>, timer |-> FALSE]
  /\ sock = NoSocket
  /\ up \in BOOLEAN /\ linked \in BOOLEAN
  /\ sent = 0 /\ relayed = 0 /\ stopped = 0 /\ outages = 0
  /\ \E lib \in Libraries : adapter = [lib |-> lib, attached |-> TRUE, readies |-> 0, beats |-> 0]

-----------------------------------------------------------------------------
(* The socket client *)

(* attemptConnect: a new socket; nothing is left of the one before. *)
AttemptConnect(c) ==
  /\ client' = [c EXCEPT !.hasSocket = TRUE]
  /\ sock' = [st |-> "connecting", wire |-> <<>>]

Start ==
  /\ ~client.started
  /\ AttemptConnect([client EXCEPT !.started = TRUE])
  /\ UNCHANGED <<up, linked, sent, relayed, adapter, stopped, outages>>

(* What was written to a socket that is not open any more is lost. *)
Written(s, messages) == IF s.st = "open" THEN [s EXCEPT !.wire = @ \o messages] ELSE s

(* Mutant of OnConnect: the queue is flushed but not emptied. *)
OnConnectKeepsQueue ==
  /\ sock.st \in {"connecting", "ending"} /\ up
  /\ client' = [client EXCEPT !.connected = TRUE]
  /\ sock' = Written([sock EXCEPT !.st = IF @ = "connecting" THEN "open" ELSE "ended"],
                     client.queue)
  /\ UNCHANGED <<up, linked, sent, relayed, adapter, stopped, outages>>

(* onConnect: the socket is open, or half closed already if close was called. *)
OnConnect ==
  /\ sock.st \in {"connecting", "ending"} /\ up
  /\ client' = [client EXCEPT !.connected = TRUE, !.queue = <<>>]
  /\ sock' = Written([sock EXCEPT !.st = IF @ = "connecting" THEN "open" ELSE "ended"],
                     client.queue)
  /\ UNCHANGED <<up, linked, sent, relayed, adapter, stopped, outages>>

(* Mutant of OnClose: no new attempt unless there was a connection. *)
OnCloseOnce ==
  /\ \/ sock.st \in {"connecting", "ending"} /\ ~up
     \/ sock.st = "broken"
     \/ sock.st = "ended" /\ sock.wire = <<>>
  /\ client' = [client EXCEPT !.connected = FALSE, !.hasSocket = FALSE,
                              !.timer = ~client.closed /\ client.connected]
  /\ sock' = NoSocket
  /\ UNCHANGED <<up, linked, sent, relayed, adapter, stopped, outages>>

(* onClose: the attempt failed, the agent is gone, or our end is complete. *)
OnClose ==
  /\ \/ sock.st \in {"connecting", "ending"} /\ ~up
     \/ sock.st = "broken"
     \/ sock.st = "ended" /\ sock.wire = <<>>
  /\ client' = [client EXCEPT !.connected = FALSE, !.hasSocket = FALSE,
                              !.timer = ~client.closed]
  /\ sock' = NoSocket
  /\ UNCHANGED <<up, linked, sent, relayed, adapter, stopped, outages>>

TimerFires ==
  /\ client.timer /\ ~client.closed
  /\ AttemptConnect([client EXCEPT !.timer = FALSE])
  /\ UNCHANGED <<up, linked, sent, relayed, adapter, stopped, outages>>

(* Mutant of Enqueued: the newest message is dropped. *)
EnqueuedUnlessFull(queue, m) ==
  IF Len(queue) < MaxQueueSize THEN Append(queue, m) ELSE queue

Enqueued(queue, m) ==
  LET q == Append(queue, m) IN IF Len(q) > MaxQueueSize THEN Tail(q) ELSE q

(* end: what was written is still delivered; a connecting socket ends later. *)
Ended(s) ==
  [s EXCEPT !.st = IF @ = "open" THEN "ended" ELSE IF @ = "connecting" THEN "ending" ELSE @]

(* send of the next message *)
Send ==
  /\ sent < MaxSends /\ sent' = sent + 1
  /\ IF client.connected /\ client.hasSocket
     THEN sock' = Written(sock, <<sent + 1>>) /\ UNCHANGED client
     ELSE client' = [client EXCEPT !.queue = Enqueued(@, sent + 1)] /\ UNCHANGED sock

(* gracefulShutdown: send(bot.stopped) and close. *)
GracefulShutdown ==
  /\ client.started /\ ~client.closed
  /\ sent < MaxSends /\ sent' = sent + 1 /\ stopped' = sent + 1
  /\ LET c == [client EXCEPT !.closed = TRUE, !.timer = FALSE] IN
       IF client.connected /\ client.hasSocket
       THEN client' = c /\ sock' = Ended(Written(sock, <<sent + 1>>))
       ELSE client' = [c EXCEPT !.queue = Enqueued(@, sent + 1)] /\ sock' = Ended(sock)
  /\ UNCHANGED <<up, linked, relayed, adapter, outages>>

-----------------------------------------------------------------------------
(* The adapters: every event they listen to sends a message. *)

(* ready: a report, and an interval for heartbeats *)
Ready ==
  /\ adapter.attached
  /\ Send
  /\ adapter' = [adapter EXCEPT !.readies = @ + 1, !.beats = @ + 1]
  /\ UNCHANGED <<up, linked, relayed, stopped, outages>>

(* discord.js is attached with once, Eris with on: another ready event       *)
(* overwrites the handle of the first interval.                              *)
DiscordReady == adapter.lib = "discordjs" /\ adapter.readies = 0 /\ Ready
ErisReady == adapter.lib = "eris" /\ Ready

Heartbeat ==
  /\ adapter.beats > 0
  /\ Send
  /\ UNCHANGED <<up, linked, relayed, adapter, stopped, outages>>

(* Shard events, warnings and errors, the crash report *)
Event ==
  /\ adapter.attached
  /\ Send
  /\ UNCHANGED <<up, linked, relayed, adapter, stopped, outages>>

DiscordEvent == adapter.lib = "discordjs" /\ Event
ErisEvent == adapter.lib = "eris" /\ Event

(* Mutant of Detach: the interval goes on. *)
DetachListeners ==
  /\ adapter.attached
  /\ adapter' = [adapter EXCEPT !.attached = FALSE]
  /\ UNCHANGED <<client, sock, up, linked, sent, relayed, stopped, outages>>

(* detach: the listeners and the interval whose handle is known. *)
Detach ==
  /\ adapter.attached
  /\ adapter' = [adapter EXCEPT !.attached = FALSE, !.beats = IF @ > 0 THEN @ - 1 ELSE 0]
  /\ UNCHANGED <<client, sock, up, linked, sent, relayed, stopped, outages>>

DiscordDetach == adapter.lib = "discordjs" /\ Detach
ErisDetach == adapter.lib = "eris" /\ Detach

-----------------------------------------------------------------------------
(* The agent *)

(* What is relayed of message m: nothing when the agent is not connected or  *)
(* the payload does not fit its schema (a crash report too long, say).       *)
ForwardBotMessage(m) == relayed' \in (IF linked THEN {m, relayed} ELSE {relayed})

HandleLine ==
  /\ sock.st \in {"open", "ended"} /\ sock.wire # <<>>
  /\ sock' = [sock EXCEPT !.wire = Tail(@)]
  /\ ForwardBotMessage(Head(sock.wire))
  /\ UNCHANGED <<client, up, linked, sent, adapter, stopped, outages>>

(* The agent exits: what it has not read is lost. *)
AgentDown ==
  /\ up /\ outages < MaxOutages /\ outages' = outages + 1
  /\ up' = FALSE /\ linked' = FALSE
  /\ sock' = IF sock.st \in {"open", "ended"} THEN [st |-> "broken", wire |-> <<>>] ELSE sock
  /\ UNCHANGED <<client, sent, relayed, adapter, stopped>>

AgentUp ==
  /\ ~up /\ up' = TRUE
  /\ UNCHANGED <<client, sock, linked, sent, relayed, adapter, stopped, outages>>

(* Its WebSocket to the control plane opens or closes. *)
LinkChanges ==
  /\ up
  /\ linked' = ~linked
  /\ IF linked THEN outages < MaxOutages /\ outages' = outages + 1 ELSE UNCHANGED outages
  /\ UNCHANGED <<client, sock, up, sent, relayed, adapter, stopped>>

SdkNext ==
  \/ Start \/ OnConnect \/ OnClose \/ TimerFires \/ GracefulShutdown
  \/ DiscordReady \/ DiscordEvent \/ DiscordDetach
  \/ ErisReady \/ ErisEvent \/ ErisDetach \/ Heartbeat
  \/ HandleLine \/ AgentDown \/ AgentUp \/ LinkChanges

(* Node delivers socket events and timers. *)
SdkFairness == WF_sdkVars(OnConnect) /\ WF_sdkVars(OnClose) /\ WF_sdkVars(TimerFires)

SdkSpec == SdkInit /\ [][SdkNext]_sdkVars /\ SdkFairness

-----------------------------------------------------------------------------

SdkTypeOK ==
  /\ client \in [started : BOOLEAN, closed : BOOLEAN, connected : BOOLEAN, hasSocket : BOOLEAN,
                 queue : Seq(1 .. MaxSends), timer : BOOLEAN]
  /\ sock.st \in {"none", "connecting", "open", "ending", "ended", "broken"}
  /\ sock.wire \in Seq(1 .. MaxSends)
  /\ up \in BOOLEAN /\ linked \in BOOLEAN
  /\ sent \in 0 .. MaxSends /\ relayed \in 0 .. MaxSends /\ stopped \in 0 .. MaxSends
  /\ adapter.beats \in 0 .. adapter.readies /\ outages \in 0 .. MaxOutages

(* The reports that reach the control plane's connection are a subsequence of *)
(* the reports sent, in order and without repetition, through any number of   *)
(* reconnects, queue overflows and failures of the agent.                     *)
Channel == INSTANCE LossyChannel WITH submitted <- sent, last <- relayed
ReportsInOrder == Channel!ChannelSpec

(* socket-client.ts:19-21: what waits for a connection is the newest messages *)
(* ("oldest dropped first"), without a gap, and no more than maxQueueSize.    *)
NewestKept ==
  LET q == client.queue IN
  /\ Len(q) <= MaxQueueSize
  /\ \A i \in DOMAIN q : q[i] = sent - Len(q) + i

(* A client that is started, and not closed, of an agent that stays up, is    *)
(* connected eventually and for good, whatever failed before.                 *)
Recovers == <>[](up /\ client.started /\ ~client.closed) => <>[]client.connected

(* adapter-discordjs/src/index.ts:14-16: after detach and gracefulShutdown    *)
(* a discord.js bot reports nothing more, so bot.stopped is its last message. *)
(* An Eris bot may go on with heartbeats: its adapter listens to every ready  *)
(* event and loses the handle of the earlier interval (adapter-eris/src/      *)
(* index.ts:37).                                                              *)
DiscordStoppedIsLast ==
  [][stopped > 0 /\ ~adapter.attached /\ adapter.lib = "discordjs" => sent' = sent]_sdkVars

=============================================================================
