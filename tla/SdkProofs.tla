-------------------------------- MODULE SdkProofs --------------------------------
(***************************************************************************)
(* The socket client keeps the newest messages and implements the lossy    *)
(* channel, for any size of the queue and any number of messages, outages  *)
(* and reconnects.                                                         *)
(***************************************************************************)
EXTENDS Sdk, SequenceTheorems, TLAPS

Clients ==
  [started : BOOLEAN, closed : BOOLEAN, connected : BOOLEAN, hasSocket : BOOLEAN,
   queue : Seq(Nat), timer : BOOLEAN]
Sockets == [st : {"none", "connecting", "open", "ending", "ended", "broken"}, wire : Seq(Nat)]

Ordered(w) == \A i, j \in 1 .. Len(w) : i < j => w[i] < w[j]
Within(w, lo, hi) == \A i \in 1 .. Len(w) : lo < w[i] /\ w[i] <= hi

(* The queue q holds the newest of n messages, and none of the first lo. *)
Newest(q, n, lo) ==
  /\ Len(q) <= MaxQueueSize /\ Len(q) <= n - lo
  /\ \A i \in 1 .. Len(q) : q[i] = n - Len(q) + i

TypesOK == client \in Clients /\ sock \in Sockets /\ sent \in Nat /\ relayed \in Nat

(* The client's flags and the socket agree; a queue waits for a connection. *)
Lifecycle ==
  /\ client.connected => client.queue = <<>>
  /\ sock.st # "none" => client.started /\ client.hasSocket /\ ~client.timer
  /\ sock.st \in {"none", "connecting", "ending"} <=> ~client.connected
  /\ sock.st \in {"none", "connecting", "ending", "broken"} => sock.wire = <<>>
  /\ client.timer => client.started

Reports ==
  /\ relayed <= sent
  /\ Ordered(sock.wire) /\ Within(sock.wire, relayed, sent)
  /\ Newest(client.queue, sent, relayed)

SdkInv == TypesOK /\ Lifecycle /\ Reports

-----------------------------------------------------------------------------
(* Queues and wires *)

(* socket-client.ts:66-76: one more message, the oldest dropped when full *)
LEMMA EnqueuedNewest ==
  ASSUME NEW q \in Seq(Nat), NEW n \in Nat, NEW lo \in Nat, lo <= n, Newest(q, n, lo)
  PROVE  Enqueued(q, n + 1) \in Seq(Nat) /\ Newest(Enqueued(q, n + 1), n + 1, lo)
<1> DEFINE a == Append(q, n + 1)
<1>1. /\ a \in Seq(Nat) /\ Len(a) = Len(q) + 1 /\ Len(q) \in Nat /\ a # <<>>
      /\ \A i \in 1 .. Len(a) : a[i] = IF i <= Len(q) THEN q[i] ELSE n + 1
  <2>1. Len(q) \in Nat /\ n + 1 \in Nat
    OBVIOUS
  <2> QED BY <2>1, AppendProperties
<1> HIDE DEF a
<1>2. ASSUME NEW i \in 1 .. Len(a) PROVE a[i] = (n + 1) - Len(a) + i
  <2>1. CASE i <= Len(q)
    <3>1. a[i] = q[i] /\ i \in 1 .. Len(q)
      BY <1>1, <2>1
    <3>2. q[i] = n - Len(q) + i
      BY <3>1 DEF Newest
    <3> QED BY <1>1, <3>1, <3>2
  <2>2. CASE i = Len(a)
    BY <1>1, <2>2
  <2> QED BY <1>1, <2>1, <2>2
<1>3. MaxQueueSize \in Nat /\ MaxQueueSize > 0
  BY SdkAssumption
<1>4. CASE Len(a) > MaxQueueSize
  <2>1. Enqueued(q, n + 1) = Tail(a)
    BY <1>4 DEF Enqueued, a
  <2>2. /\ Tail(a) \in Seq(Nat) /\ Len(Tail(a)) = Len(a) - 1
        /\ \A i \in 1 .. Len(Tail(a)) : Tail(a)[i] = a[i + 1]
    BY <1>1
  <2>3. Len(Tail(a)) <= MaxQueueSize /\ Len(Tail(a)) <= (n + 1) - lo
    BY <1>1, <1>3, <2>2 DEF Newest
  <2>4. ASSUME NEW i \in 1 .. Len(Tail(a)) PROVE Tail(a)[i] = (n + 1) - Len(Tail(a)) + i
    <3>1. i + 1 \in 1 .. Len(a)
      BY <1>1, <2>2
    <3>2. a[i + 1] = (n + 1) - Len(a) + (i + 1)
      BY <1>2, <3>1
    <3>3. /\ Tail(a)[i] = a[i + 1] /\ i \in Nat
          /\ Len(Tail(a)) = Len(a) - 1 /\ Len(a) \in Nat /\ Len(a) > 0
      BY <1>1, <2>2
    <3>4. (n + 1) - Len(a) + (i + 1) = (n + 1) - (Len(a) - 1) + i
      BY <3>3
    <3> QED BY <3>2, <3>3, <3>4
  <2>5. Newest(Tail(a), n + 1, lo)
    BY <2>3, <2>4 DEF Newest
  <2> QED BY <2>1, <2>2, <2>5
<1>5. CASE ~(Len(a) > MaxQueueSize)
  <2>1. Enqueued(q, n + 1) = a
    BY <1>5 DEF Enqueued, a
  <2>2. Newest(a, n + 1, lo)
    BY <1>1, <1>2, <1>3, <1>5 DEF Newest
  <2> QED BY <1>1, <2>1, <2>2
<1> QED BY <1>4, <1>5

(* Writing to an open socket *)
LEMMA AppendOrdered ==
  ASSUME NEW w \in Seq(Nat), NEW n \in Nat, NEW lo \in Nat, lo <= n,
         Ordered(w), Within(w, lo, n)
  PROVE  /\ w \o <<n + 1>> \in Seq(Nat)
         /\ Ordered(w \o <<n + 1>>) /\ Within(w \o <<n + 1>>, lo, n + 1)
<1> DEFINE a == w \o <<n + 1>>
<1>1. /\ a \in Seq(Nat) /\ Len(a) = Len(w) + 1 /\ Len(w) \in Nat
      /\ \A i \in 1 .. Len(a) : a[i] = IF i <= Len(w) THEN w[i] ELSE n + 1
  <2>1. Len(w) \in Nat /\ n + 1 \in Nat
    OBVIOUS
  <2>2. a = Append(w, n + 1)
    BY <2>1, AppendIsConcat
  <2> QED BY <2>1, <2>2, AppendProperties
<1>2. \A i \in 1 .. Len(w) : w[i] \in Nat
  BY ElementOfSeq
<1> HIDE DEF a
<1>3. ASSUME NEW i \in 1 .. Len(a) PROVE lo < a[i] /\ a[i] <= n + 1
  <2>1. CASE i <= Len(w)
    <3>1. a[i] = w[i] /\ i \in 1 .. Len(w)
      BY <1>1, <2>1
    <3>2. lo < w[i] /\ w[i] <= n
      BY <3>1 DEF Within
    <3> QED BY <1>2, <3>1, <3>2
  <2>2. CASE ~(i <= Len(w))
    BY <1>1, <2>2
  <2> QED BY <2>1, <2>2
<1>4. ASSUME NEW i \in 1 .. Len(a), NEW j \in 1 .. Len(a), i < j PROVE a[i] < a[j]
  <2>1. i \in 1 .. Len(w) /\ a[i] = w[i] /\ w[i] \in Nat /\ w[i] <= n
    BY <1>1, <1>2, <1>4 DEF Within
  <2>2. CASE j <= Len(w)
    <3>1. j \in 1 .. Len(w) /\ a[j] = w[j]
      BY <1>1, <2>2
    <3> QED BY <1>4, <2>1, <3>1 DEF Ordered
  <2>3. CASE ~(j <= Len(w))
    BY <1>1, <2>1, <2>3
  <2> QED BY <2>2, <2>3
<1>5. Ordered(a) /\ Within(a, lo, n + 1)
  BY <1>3, <1>4 DEF Ordered, Within
<1> QED BY <1>1, <1>5 DEF a

(* socket-client.ts:78-84: the queue is written to a new connection *)
LEMMA FlushOrdered ==
  ASSUME NEW q \in Seq(Nat), NEW n \in Nat, NEW lo \in Nat, Newest(q, n, lo)
  PROVE  <<>> \o q = q /\ Ordered(q) /\ Within(q, lo, n)
<1>1. Len(q) \in Nat /\ <<>> \o q = q
  OBVIOUS
<1> QED BY <1>1 DEF Newest, Ordered, Within

(* The agent reads a line. *)
LEMMA TailOrdered ==
  ASSUME NEW w \in Seq(Nat), w # <<>>, NEW n \in Nat, NEW lo \in Nat,
         Ordered(w), Within(w, lo, n)
  PROVE  /\ Tail(w) \in Seq(Nat) /\ Ordered(Tail(w))
         /\ Head(w) \in Nat /\ lo < Head(w) /\ Head(w) <= n
         /\ Within(Tail(w), lo, n) /\ Within(Tail(w), Head(w), n)
<1>1. /\ Tail(w) \in Seq(Nat) /\ Len(w) \in Nat /\ Len(w) > 0 /\ Len(Tail(w)) = Len(w) - 1
      /\ \A i \in 1 .. Len(Tail(w)) : Tail(w)[i] = w[i + 1]
      /\ Head(w) = w[1]
  OBVIOUS
<1>2. \A i \in 1 .. Len(w) : w[i] \in Nat
  OBVIOUS
<1>3. Ordered(Tail(w))
  BY <1>1, <1>2 DEF Ordered
<1>4. Within(Tail(w), lo, n)
  BY <1>1, <1>2 DEF Within
<1>5. Within(Tail(w), Head(w), n)
  BY <1>1, <1>2 DEF Ordered, Within
<1> QED BY <1>1, <1>2, <1>3, <1>4, <1>5 DEF Within

(* The empty sequence is ordered, and within any bounds. *)
LEMMA EmptyOK ==
  ASSUME NEW n, NEW lo
  PROVE  <<>> \in Seq(Nat) /\ Ordered(<<>>) /\ Within(<<>>, lo, n)
BY DEF Ordered, Within

(* It is also the newest part of what was sent. *)
LEMMA EmptyNewest ==
  ASSUME NEW n \in Nat, NEW lo \in Nat, lo <= n
  PROVE  Newest(<<>>, n, lo)
<1>1. Len(<<>>) = 0 /\ MaxQueueSize \in Nat
  BY SdkAssumption
<1> QED BY <1>1 DEF Newest

-----------------------------------------------------------------------------
(* The invariant, one action after the other *)

(* socket-client.ts:38-41: a connection attempt leaves the queue alone. *)
LEMMA AttemptStep ==
  ASSUME SdkInv, NEW c \in Clients, AttemptConnect(c), sock.st = "none",
         c.started, ~c.timer, ~c.connected, c.queue = client.queue,
         sent' = sent, relayed' = relayed
  PROVE  SdkInv'
<1> USE DEF SdkInv
<1>1. /\ client' \in Clients /\ client'.started /\ client'.hasSocket /\ ~client'.timer
      /\ ~client'.connected /\ client'.queue = client.queue
  BY DEF AttemptConnect, Clients
<1>2. sock' \in Sockets /\ sock'.st = "connecting" /\ sock'.wire = <<>>
  BY EmptyOK DEF AttemptConnect, Sockets
<1>3. TypesOK' /\ Lifecycle'
  BY <1>1, <1>2 DEF TypesOK, Lifecycle
<1>4. Ordered(sock'.wire) /\ Within(sock'.wire, relayed', sent')
  BY <1>2, EmptyOK
<1>5. Reports'
  BY <1>1, <1>4 DEF Reports
<1> QED BY <1>3, <1>5

(* socket-client.ts: the client starts, or its reconnect timer fires. *)
LEMMA StartStep == ASSUME SdkInv, Start \/ TimerFires PROVE SdkInv'
<1> USE DEF SdkInv
<1>1. CASE Start
  <2> DEFINE c == [client EXCEPT !.started = TRUE]
  <2>1. c \in Clients /\ c.started /\ c.queue = client.queue /\ c.timer = client.timer
        /\ c.connected = client.connected
    BY DEF TypesOK, Clients
  <2>2. sock.st = "none" /\ ~client.connected /\ ~client.timer
    BY <1>1 DEF Start, Lifecycle
  <2>3. AttemptConnect(c) /\ sent' = sent /\ relayed' = relayed
    BY <1>1 DEF Start
  <2> HIDE DEF c
  <2> QED BY <2>1, <2>2, <2>3, AttemptStep
<1>2. CASE TimerFires
  <2> DEFINE c == [client EXCEPT !.timer = FALSE]
  <2>1. c \in Clients /\ c.started = client.started /\ c.queue = client.queue /\ ~c.timer
        /\ c.connected = client.connected
    BY DEF TypesOK, Clients
  <2>2. sock.st = "none" /\ ~client.connected /\ client.started
    BY <1>2 DEF TimerFires, Lifecycle
  <2>3. AttemptConnect(c) /\ sent' = sent /\ relayed' = relayed
    BY <1>2 DEF TimerFires
  <2> HIDE DEF c
  <2> QED BY <2>1, <2>2, <2>3, AttemptStep
<1> QED BY <1>1, <1>2

(* socket-client.ts: a connect flushes the queue in order. *)
LEMMA OnConnectStep == ASSUME SdkInv, OnConnect PROVE SdkInv'
<1> USE DEF SdkInv
<1> DEFINE st == IF sock.st = "connecting" THEN "open" ELSE "ended"
           t == [sock EXCEPT !.st = st]
<1>1. /\ client' \in Clients /\ client'.connected /\ client'.queue = <<>>
      /\ client'.started = client.started /\ client'.hasSocket = client.hasSocket
      /\ client'.timer = client.timer
  BY EmptyOK DEF OnConnect, TypesOK, Clients
<1>2. sock.wire = <<>> /\ client.started /\ client.hasSocket /\ ~client.timer
  BY DEF OnConnect, Lifecycle
<1>3. t \in Sockets /\ t.st = st /\ t.wire = <<>> /\ st \in {"open", "ended"}
  BY <1>2 DEF TypesOK, Sockets
<1>4. sock' = Written(t, client.queue) /\ sent' = sent /\ relayed' = relayed
  BY DEF OnConnect
<1>5. /\ client.queue \in Seq(Nat) /\ sent \in Nat /\ relayed \in Nat /\ relayed <= sent
      /\ Newest(client.queue, sent, relayed)
  BY DEF TypesOK, Clients, Reports
<1>6. /\ <<>> \o client.queue = client.queue
      /\ Ordered(client.queue) /\ Within(client.queue, relayed, sent)
  BY <1>5, FlushOrdered
<1> HIDE DEF st, t
<1>7. sock' \in Sockets /\ sock'.st = st /\ sock'.wire \in {<<>>, client.queue}
  BY <1>3, <1>4, <1>5, <1>6 DEF Written, Sockets
<1>8. TypesOK' /\ Lifecycle'
  BY <1>1, <1>2, <1>3, <1>4, <1>7 DEF TypesOK, Lifecycle
<1>9. Reports'
  BY <1>1, <1>4, <1>5, <1>6, <1>7, EmptyOK, EmptyNewest DEF Reports
<1> QED BY <1>8, <1>9

(* socket-client.ts: a close schedules a reconnect. *)
LEMMA OnCloseStep == ASSUME SdkInv, OnClose PROVE SdkInv'
<1> USE DEF SdkInv
<1>1. /\ client' \in Clients /\ ~client'.connected /\ client'.queue = client.queue
      /\ client'.started = client.started
  BY DEF OnClose, TypesOK, Clients
<1>2. client.started
  BY DEF OnClose, Lifecycle
<1>3. sock' \in Sockets /\ sock'.st = "none" /\ sock'.wire = <<>>
  BY EmptyOK DEF OnClose, NoSocket, Sockets
<1>4. sent' = sent /\ relayed' = relayed
  BY DEF OnClose
<1>5. TypesOK' /\ Lifecycle'
  BY <1>1, <1>2, <1>3, <1>4 DEF TypesOK, Lifecycle
<1>6. Reports'
  BY <1>1, <1>3, <1>4, EmptyOK DEF Reports
<1> QED BY <1>5, <1>6

(* A message is written to the connection or queued, before the client is     *)
(* closed, if it is: the part the calls of send share.                        *)
LEMMA SentReports ==
  ASSUME SdkInv, sent' = sent + 1, relayed' = relayed, client' \in Clients, sock' \in Sockets,
         \/ /\ client.connected /\ client'.queue = client.queue
            /\ sock'.wire \in {sock.wire, sock.wire \o <<sent + 1>>}
         \/ /\ client'.queue = Enqueued(client.queue, sent + 1)
            /\ sock'.wire = sock.wire
  PROVE  TypesOK' /\ Reports'
<1> USE DEF SdkInv
<1>1. /\ client.queue \in Seq(Nat) /\ sock.wire \in Seq(Nat)
      /\ sent \in Nat /\ relayed \in Nat /\ relayed <= sent
      /\ Ordered(sock.wire) /\ Within(sock.wire, relayed, sent)
      /\ Newest(client.queue, sent, relayed)
  BY DEF TypesOK, Clients, Sockets, Reports
<1>2. relayed' <= sent' /\ sent' \in Nat
  BY <1>1
<1>3. Ordered(sock.wire) /\ Within(sock.wire, relayed, sent + 1)
  <2>1. \A i \in 1 .. Len(sock.wire) : sock.wire[i] \in Nat
    BY <1>1, ElementOfSeq
  <2> QED BY <1>1, <2>1 DEF Within
<1>4. /\ Ordered(sock.wire \o <<sent + 1>>)
      /\ Within(sock.wire \o <<sent + 1>>, relayed, sent + 1)
  BY <1>1, AppendOrdered
<1>5. Newest(Enqueued(client.queue, sent + 1), sent + 1, relayed)
  BY <1>1, EnqueuedNewest
<1>6. client.connected => client.queue = <<>>
  BY DEF Lifecycle
<1>7. Newest(<<>>, sent + 1, relayed)
  BY <1>1, <1>2, EmptyNewest
<1>8. /\ Ordered(sock'.wire) /\ Within(sock'.wire, relayed', sent')
      /\ Newest(client'.queue, sent', relayed')
  BY <1>3, <1>4, <1>5, <1>6, <1>7
<1> QED BY <1>1, <1>2, <1>8 DEF TypesOK, Reports

(* socket-client.ts:78-84: a write adds its message at the end of the wire, *)
(* or drops it.                                                             *)
LEMMA WrittenOK ==
  ASSUME NEW s \in Sockets, NEW n \in Nat
  PROVE  LET w == Written(s, <<n + 1>>)
         IN w \in Sockets /\ w.st = s.st /\ w.wire \in {s.wire, s.wire \o <<n + 1>>}
                 /\ (s.st # "open" => w.wire = s.wire)
<1>1. s.wire \o <<n + 1>> \in Seq(Nat)
  <2>1. s.wire \in Seq(Nat) /\ n + 1 \in Nat
    BY DEF Sockets
  <2> QED BY <2>1, AppendIsConcat, AppendProperties
<1> QED BY <1>1 DEF Written, Sockets

(* socket-client.ts:66-76: the queue stays a sequence of messages. *)
LEMMA QueuedOK ==
  ASSUME SdkInv
  PROVE  Enqueued(client.queue, sent + 1) \in Seq(Nat)
BY EnqueuedNewest DEF SdkInv, TypesOK, Clients, Reports

(* socket-client.ts, send: a message is written or queued. *)
LEMMA SendStep == ASSUME SdkInv, Send, relayed' = relayed PROVE SdkInv'
<1> USE DEF SdkInv
<1>1. sent' = sent + 1 /\ sent \in Nat /\ sock \in Sockets /\ client \in Clients
  BY DEF Send, TypesOK
<1>2. CASE client.connected /\ client.hasSocket
  <2>1. sock' = Written(sock, <<sent + 1>>) /\ client' = client
    BY <1>2 DEF Send
  <2>2. /\ sock' \in Sockets /\ sock'.st = sock.st
        /\ sock'.wire \in {sock.wire, sock.wire \o <<sent + 1>>}
        /\ sock.st # "open" => sock'.wire = sock.wire
    BY <1>1, <2>1, WrittenOK
  <2>3. TypesOK' /\ Reports'
    BY <1>1, <1>2, <2>1, <2>2, SentReports
  <2>4. Lifecycle'
    BY <2>1, <2>2 DEF Lifecycle
  <2> QED BY <2>3, <2>4
<1>3. CASE ~(client.connected /\ client.hasSocket)
  <2>1. client' = [client EXCEPT !.queue = Enqueued(client.queue, sent + 1)] /\ sock' = sock
    BY <1>3 DEF Send
  <2>2. /\ client' \in Clients /\ client'.queue = Enqueued(client.queue, sent + 1)
        /\ client'.connected = client.connected /\ client'.started = client.started
        /\ client'.hasSocket = client.hasSocket /\ client'.timer = client.timer
    BY <1>1, <2>1, QueuedOK DEF Clients
  <2>3. TypesOK' /\ Reports'
    BY <1>1, <2>1, <2>2, SentReports
  <2>4. ~client.connected
    BY <1>3 DEF Lifecycle, TypesOK, Sockets
  <2>5. Lifecycle'
    BY <2>1, <2>2, <2>4 DEF Lifecycle
  <2> QED BY <2>3, <2>5
<1> QED BY <1>2, <1>3

(* socket-client.ts:86-91: ending a socket takes nothing from the wire. *)
LEMMA EndedOK ==
  ASSUME NEW s \in Sockets
  PROVE  /\ Ended(s) \in Sockets /\ Ended(s).wire = s.wire
         /\ Ended(s).st = IF s.st = "open" THEN "ended"
                          ELSE IF s.st = "connecting" THEN "ending" ELSE s.st
BY DEF Ended, Sockets

(* runtime.ts:127-131: bot.stopped is sent and the client closed. *)
LEMMA ShutdownStep == ASSUME SdkInv, GracefulShutdown PROVE SdkInv'
<1> USE DEF SdkInv
<1> DEFINE c == [client EXCEPT !.closed = TRUE, !.timer = FALSE]
<1>1. /\ sent' = sent + 1 /\ relayed' = relayed /\ sent \in Nat
      /\ sock \in Sockets /\ client \in Clients
  BY DEF GracefulShutdown, TypesOK
<1>2. /\ c \in Clients /\ c.queue = client.queue /\ c.connected = client.connected
      /\ c.started = client.started /\ c.hasSocket = client.hasSocket /\ ~c.timer
  BY <1>1 DEF Clients
<1>3. CASE client.connected /\ client.hasSocket
  <2> DEFINE w == Written(sock, <<sent + 1>>)
  <2>1. client' = c /\ sock' = Ended(w)
    BY <1>3 DEF GracefulShutdown
  <2>2. /\ w \in Sockets /\ w.st = sock.st
        /\ w.wire \in {sock.wire, sock.wire \o <<sent + 1>>}
        /\ sock.st # "open" => w.wire = sock.wire
    BY <1>1, WrittenOK
  <2> HIDE DEF w, c
  <2>3. /\ sock' \in Sockets /\ sock'.wire = w.wire
        /\ sock'.st = IF w.st = "open" THEN "ended"
                      ELSE IF w.st = "connecting" THEN "ending" ELSE w.st
    BY <2>1, <2>2, EndedOK
  <2>4. TypesOK' /\ Reports'
    BY <1>1, <1>2, <1>3, <2>1, <2>2, <2>3, SentReports
  <2>5. Lifecycle'
    BY <1>2, <1>3, <2>1, <2>2, <2>3 DEF Lifecycle
  <2> QED BY <2>4, <2>5
<1>4. CASE ~(client.connected /\ client.hasSocket)
  <2>1. client' = [c EXCEPT !.queue = Enqueued(client.queue, sent + 1)] /\ sock' = Ended(sock)
    BY <1>2, <1>4 DEF GracefulShutdown
  <2> HIDE DEF c
  <2>2. /\ client' \in Clients /\ client'.queue = Enqueued(client.queue, sent + 1)
        /\ client'.connected = client.connected /\ client'.started = client.started
        /\ client'.hasSocket = client.hasSocket /\ ~client'.timer
    BY <1>2, <2>1, QueuedOK DEF Clients
  <2>3. /\ sock' \in Sockets /\ sock'.wire = sock.wire
        /\ sock'.st = IF sock.st = "open" THEN "ended"
                      ELSE IF sock.st = "connecting" THEN "ending" ELSE sock.st
    BY <1>1, <2>1, EndedOK
  <2>4. TypesOK' /\ Reports'
    BY <1>1, <2>2, <2>3, SentReports
  <2>5. ~client.connected
    BY <1>1, <1>4 DEF Lifecycle, Sockets
  <2>6. Lifecycle'
    BY <2>2, <2>3, <2>5 DEF Lifecycle
  <2> QED BY <2>4, <2>6
<1> QED BY <1>3, <1>4

(* The agent relays the line at the head of the wire, or drops it. *)
LEMMA LineStep ==
  ASSUME SdkInv, HandleLine
  PROVE  SdkInv' /\ sent' = sent /\ (relayed' = relayed \/ relayed' \in (relayed + 1) .. sent)
<1> USE DEF SdkInv
<1>1. /\ client' = client /\ sent' = sent /\ sock.wire # <<>> /\ sock.st \in {"open", "ended"}
      /\ sock' = [sock EXCEPT !.wire = Tail(sock.wire)]
      /\ relayed' \in {Head(sock.wire), relayed}
  BY DEF HandleLine, ForwardBotMessage
<1>2. /\ sock \in Sockets /\ sock.wire \in Seq(Nat) /\ sent \in Nat /\ relayed \in Nat
      /\ Ordered(sock.wire) /\ Within(sock.wire, relayed, sent)
  BY DEF TypesOK, Sockets, Reports
<1>3. /\ Tail(sock.wire) \in Seq(Nat) /\ Ordered(Tail(sock.wire))
      /\ Head(sock.wire) \in Nat /\ relayed < Head(sock.wire) /\ Head(sock.wire) <= sent
      /\ Within(Tail(sock.wire), relayed, sent)
      /\ Within(Tail(sock.wire), Head(sock.wire), sent)
  BY <1>1, <1>2, TailOrdered
<1>4. sock' \in Sockets /\ sock'.st = sock.st /\ sock'.wire = Tail(sock.wire)
  BY <1>1, <1>2, <1>3 DEF Sockets
<1>5. client.connected /\ client.queue = <<>>
  BY <1>1 DEF Lifecycle
<1>6. relayed' \in Nat /\ relayed' <= sent' /\ sent' \in Nat
  BY <1>1, <1>2, <1>3 DEF Reports
<1>7. TypesOK' /\ Lifecycle'
  BY <1>1, <1>4, <1>5, <1>6 DEF TypesOK, Lifecycle
<1>8. Newest(client'.queue, sent', relayed')
  BY <1>1, <1>5, <1>6, EmptyNewest
<1>9. Reports'
  BY <1>1, <1>3, <1>4, <1>6, <1>8 DEF Reports
<1> QED BY <1>1, <1>2, <1>3, <1>7, <1>9

(* The agent goes down with its sockets. *)
LEMMA AgentDownStep == ASSUME SdkInv, AgentDown PROVE SdkInv'
<1> USE DEF SdkInv
<1>1. client' = client /\ sent' = sent /\ relayed' = relayed
  BY DEF AgentDown
<1>2. CASE sock.st \in {"open", "ended"}
  <2>1. sock' \in Sockets /\ sock'.st = "broken" /\ sock'.wire = <<>>
    BY <1>2, EmptyOK DEF AgentDown, Sockets
  <2>2. TypesOK' /\ Lifecycle'
    BY <1>1, <1>2, <2>1 DEF TypesOK, Lifecycle
  <2>3. Reports'
    BY <1>1, <2>1, EmptyOK DEF Reports
  <2> QED BY <2>2, <2>3
<1>3. CASE sock.st \notin {"open", "ended"}
  <2>1. sock' = sock
    BY <1>3 DEF AgentDown
  <2> QED BY <1>1, <2>1 DEF TypesOK, Lifecycle, Reports
<1> QED BY <1>2, <1>3

-----------------------------------------------------------------------------
(* The theorems *)

(* Every step keeps the invariant and is a step of the channel. *)
LEMMA SdkStep ==
  ASSUME SdkInv, [SdkNext]_sdkVars
  PROVE  SdkInv' /\ [Channel!ChannelNext]_<<sent, relayed>>
<1> USE DEF Channel!ChannelNext, Channel!Submit, Channel!Receive
<1>1. ASSUME Send, relayed' = relayed PROVE SdkInv' /\ Channel!ChannelNext
  BY <1>1, SendStep DEF Send
<1>2. CASE Start \/ TimerFires
  BY <1>2, StartStep DEF Start, TimerFires
<1>3. CASE OnConnect
  BY <1>3, OnConnectStep DEF OnConnect
<1>4. CASE OnClose
  BY <1>4, OnCloseStep DEF OnClose
<1>5. CASE GracefulShutdown
  BY <1>5, ShutdownStep DEF GracefulShutdown
<1>6. CASE DiscordReady \/ ErisReady \/ DiscordEvent \/ ErisEvent \/ Heartbeat
  <2>1. Send /\ relayed' = relayed
    BY <1>6 DEF DiscordReady, ErisReady, Ready, DiscordEvent, ErisEvent, Event, Heartbeat
  <2> QED BY <1>1, <2>1
<1>7. CASE HandleLine
  BY <1>7, LineStep
<1>8. CASE AgentDown
  BY <1>8, AgentDownStep DEF AgentDown
<1>9. CASE DiscordDetach \/ ErisDetach \/ AgentUp \/ LinkChanges \/ UNCHANGED sdkVars
  <2>1. UNCHANGED <<client, sock, sent, relayed>>
    BY <1>9 DEF DiscordDetach, ErisDetach, Detach, AgentUp, LinkChanges, sdkVars
  <2> QED BY <2>1 DEF SdkInv, TypesOK, Lifecycle, Reports
<1> QED
  BY <1>2, <1>3, <1>4, <1>5, <1>6, <1>7, <1>8, <1>9 DEF SdkNext

(* Nothing is sent to begin with, in the client and in the channel. *)
LEMMA SdkInitially == SdkInit => SdkInv /\ Channel!ChannelInit
<1> SUFFICES ASSUME SdkInit PROVE SdkInv /\ Channel!ChannelInit
  OBVIOUS
<1>1. /\ client \in Clients /\ ~client.connected /\ ~client.timer /\ client.queue = <<>>
      /\ sock \in Sockets /\ sock.st = "none" /\ sock.wire = <<>>
  BY EmptyOK DEF SdkInit, NoSocket, Clients, Sockets
<1>2. sent = 0 /\ relayed = 0
  BY DEF SdkInit
<1>3. TypesOK /\ Lifecycle
  BY <1>1, <1>2 DEF TypesOK, Lifecycle
<1>4. Reports
  BY <1>1, <1>2, EmptyOK, EmptyNewest DEF Reports
<1> QED BY <1>2, <1>3, <1>4 DEF SdkInv, Channel!ChannelInit

(* The invariant holds throughout. *)
LEMMA SdkInvariant == SdkSpec => []SdkInv
BY SdkInitially, SdkStep, PTL DEF SdkSpec

(* socket-client.ts:19-21: what waits for a connection is the newest messages *)
(* without a gap, at most maxQueueSize of them, for every size of the queue.  *)
THEOREM NewestKeptTheorem == SdkSpec => []NewestKept
<1>1. SdkInv => NewestKept
  <2> SUFFICES ASSUME SdkInv PROVE NewestKept
    OBVIOUS
  <2>1. client.queue \in Seq(Nat) /\ Newest(client.queue, sent, relayed)
    BY DEF SdkInv, TypesOK, Clients, Reports
  <2>2. DOMAIN client.queue = 1 .. Len(client.queue)
    BY <2>1
  <2> QED BY <2>1, <2>2 DEF Newest, NewestKept
<1> QED BY <1>1, SdkInvariant, PTL

(* The SDK, the local socket and the agent's relay implement the lossy        *)
(* channel: reports come out in order, none is invented and none is repeated, *)
(* through every reconnect, overflow and outage.                              *)
THEOREM ReportsInOrderTheorem == SdkSpec => ReportsInOrder
<1>1. SdkInv /\ [SdkNext]_sdkVars => [Channel!ChannelNext]_<<sent, relayed>>
  BY SdkStep
<1> QED
  BY <1>1, SdkInitially, SdkInvariant, PTL DEF SdkSpec, ReportsInOrder, Channel!ChannelSpec

-----------------------------------------------------------------------------
(* The last message *)

Adapters == [lib : Libraries, attached : BOOLEAN, readies : Nat, beats : Nat]

(* A client that has sent bot.stopped is closed, and a detached adapter whose *)
(* ready fired at most once has no interval left.                             *)
Quietened ==
  /\ adapter \in Adapters /\ adapter.beats <= adapter.readies
  /\ ~adapter.attached /\ adapter.readies <= 1 => adapter.beats = 0
  /\ stopped \in Nat /\ (stopped > 0 => client.closed)

(* No adapter is ready and nothing has stopped to begin with. *)
LEMMA QuietenedInit == SdkInit => Quietened
BY DEF SdkInit, Quietened, Adapters

(* index.ts of the adapters: detach clears the one interval there is *)
LEMMA DetachQuietens ==
  ASSUME Quietened, Detach
  PROVE  adapter' \in Adapters /\ adapter'.beats <= adapter'.readies
         /\ (~adapter'.attached /\ adapter'.readies <= 1 => adapter'.beats = 0)
<1> DEFINE n == adapter.beats
           m == IF n > 0 THEN n - 1 ELSE 0
<1>1. adapter \in Adapters /\ n \in Nat /\ adapter.readies \in Nat /\ n <= adapter.readies
  BY DEF Quietened, Adapters
<1>2. m \in Nat /\ m <= adapter.readies /\ (adapter.readies <= 1 => m = 0)
  BY <1>1
<1>3. adapter' = [adapter EXCEPT !.attached = FALSE, !.beats = m]
  BY DEF Detach
<1> HIDE DEF m, n
<1>4. adapter' \in Adapters /\ adapter'.beats = m /\ adapter'.readies = adapter.readies
  BY <1>1, <1>2, <1>3 DEF Adapters
<1> QED BY <1>2, <1>4

(* Every ready event adds an interval, as far as the counts go. *)
LEMMA ReadyCounts ==
  ASSUME Quietened, Ready
  PROVE  adapter' \in Adapters /\ adapter'.attached /\ adapter'.beats <= adapter'.readies
<1>1. /\ adapter \in Adapters /\ adapter.beats \in Nat /\ adapter.readies \in Nat
      /\ adapter.beats <= adapter.readies /\ adapter.attached
  BY DEF Quietened, Adapters, Ready
<1>2. PICK n \in Nat, m \in Nat : n = adapter.readies + 1 /\ m = adapter.beats + 1
  BY <1>1
<1>3. adapter' = [adapter EXCEPT !.readies = n, !.beats = m]
  BY <1>2 DEF Ready
<1>4. adapter' \in Adapters /\ adapter'.readies = n /\ adapter'.beats = m /\ adapter'.attached
  BY <1>1, <1>3 DEF Adapters
<1> QED BY <1>1, <1>2, <1>4

(* A client that was closed is not opened again. *)
LEMMA ClosedForGood ==
  ASSUME SdkInv, SdkNext
  PROVE  client'.closed \in BOOLEAN /\ (client.closed => client'.closed)
<1>1. client \in Clients
  BY DEF SdkInv, TypesOK
<1> QED BY <1>1 DEF SdkNext, Start, TimerFires, AttemptConnect, OnConnect, OnClose,
     GracefulShutdown, DiscordReady, ErisReady, Ready, DiscordEvent, ErisEvent, Event, Heartbeat,
     Send, DiscordDetach, ErisDetach, Detach, HandleLine, AgentDown, AgentUp, LinkChanges, Clients

(* Every step keeps the client closed and a detached adapter quiet. *)
LEMMA QuietenedStep ==
  ASSUME SdkInv, Quietened, [SdkNext]_sdkVars
  PROVE  Quietened'
<1>1. CASE UNCHANGED sdkVars
  BY <1>1 DEF sdkVars, Quietened
<1>2. CASE SdkNext
  <2>1. stopped' \in Nat /\ (stopped' > 0 => client'.closed)
    <3>1. CASE GracefulShutdown
      <4>1. client \in Clients /\ sent \in Nat
        BY DEF SdkInv, TypesOK
      <4>2. stopped' = sent + 1
        BY <3>1 DEF GracefulShutdown
      <4>3. client'.closed
        BY <3>1, <4>1 DEF GracefulShutdown, Clients
      <4> QED BY <4>1, <4>2, <4>3
    <3>2. CASE stopped' = stopped
      BY <1>2, <3>2, ClosedForGood DEF Quietened
    <3> QED BY <1>2, <3>1, <3>2 DEF SdkNext, Start, TimerFires, OnConnect, OnClose,
          DiscordReady, ErisReady, Ready, DiscordEvent, ErisEvent, Event, Heartbeat,
          DiscordDetach, ErisDetach, Detach, HandleLine, AgentDown, AgentUp, LinkChanges
  <2>2. /\ adapter' \in Adapters /\ adapter'.beats <= adapter'.readies
        /\ ~adapter'.attached /\ adapter'.readies <= 1 => adapter'.beats = 0
    <3>1. CASE Detach
      BY <3>1, DetachQuietens
    <3>2. CASE Ready
      BY <3>2, ReadyCounts
    <3>3. CASE adapter' = adapter
      BY <3>3 DEF Quietened
    <3> QED BY <1>2, <3>1, <3>2, <3>3 DEF SdkNext, Start, TimerFires, OnConnect, OnClose,
          GracefulShutdown, DiscordReady, ErisReady, DiscordEvent, ErisEvent, Event, Heartbeat,
          DiscordDetach, ErisDetach, HandleLine, AgentDown, AgentUp, LinkChanges
  <2> QED BY <2>1, <2>2 DEF Quietened
<1> QED BY <1>1, <1>2

(* adapter-discordjs listens to ready with once. *)
ReadyOnce == adapter.lib = "discordjs" => adapter.readies <= 1

(* discord.js's ready event starts one interval at most. *)
LEMMA ReadyOnceStep ==
  ASSUME Quietened, ReadyOnce, [SdkNext]_sdkVars
  PROVE  ReadyOnce'
<1>1. adapter \in Adapters
  BY DEF Quietened
<1>2. CASE DiscordReady
  BY <1>1, <1>2 DEF DiscordReady, Ready, ReadyOnce, Adapters
<1>3. CASE ErisReady
  BY <1>1, <1>3 DEF ErisReady, Ready, ReadyOnce, Adapters
<1>4. CASE Detach
  BY <1>1, <1>4 DEF Detach, ReadyOnce, Adapters
<1>5. CASE adapter' = adapter
  BY <1>5 DEF ReadyOnce
<1> QED BY <1>2, <1>3, <1>4, <1>5 DEF sdkVars, SdkNext, Start, TimerFires, OnConnect, OnClose,
      GracefulShutdown, DiscordEvent, ErisEvent, Event, Heartbeat,
      DiscordDetach, ErisDetach, HandleLine, AgentDown, AgentUp, LinkChanges

(* adapter-discordjs/src/index.ts:14-16: after detach and gracefulShutdown a  *)
(* discord.js bot sends nothing more, whatever the socket, the agent and the  *)
(* timers do.                                                                 *)
THEOREM DiscordStoppedIsLastTheorem == SdkSpec => DiscordStoppedIsLast
<1> DEFINE last == stopped > 0 /\ ~adapter.attached /\ adapter.lib = "discordjs" => sent' = sent
<1>1. ASSUME Quietened, ReadyOnce, [SdkNext]_sdkVars PROVE [last]_sdkVars
  <2> SUFFICES ASSUME SdkNext, stopped > 0, ~adapter.attached, adapter.lib = "discordjs"
               PROVE  sent' = sent
    BY <1>1
  <2>1. client.closed /\ adapter.beats = 0
    BY <1>1 DEF Quietened, ReadyOnce
  <2> QED BY <2>1 DEF SdkNext, Start, TimerFires, OnConnect, OnClose, GracefulShutdown,
        DiscordReady, ErisReady, Ready, DiscordEvent, ErisEvent, Event, Heartbeat,
        DiscordDetach, ErisDetach, Detach, HandleLine, AgentDown, AgentUp, LinkChanges
<1>2. SdkSpec => []Quietened
  BY QuietenedInit, QuietenedStep, SdkInvariant, PTL DEF SdkSpec
<1>3. SdkInit => ReadyOnce
  BY DEF SdkInit, ReadyOnce
<1>4. SdkSpec => []ReadyOnce
  BY <1>2, <1>3, ReadyOnceStep, PTL DEF SdkSpec
<1> QED BY <1>1, <1>2, <1>4, PTL DEF SdkSpec, DiscordStoppedIsLast

-----------------------------------------------------------------------------
(* The types *)

(* How far the counters go, and the state of the agent. *)
SendsBounded ==
  /\ up \in BOOLEAN /\ linked \in BOOLEAN /\ sent <= MaxSends /\ stopped \in 0 .. MaxSends
  /\ outages \in 0 .. MaxOutages

(* A sequence of elements of another set is a sequence over that set. *)
LEMMA SeqOver ==
  ASSUME NEW S, NEW T, NEW s \in Seq(S), \A i \in 1 .. Len(s) : s[i] \in T
  PROVE  s \in Seq(T)
OBVIOUS

(* What waits and what is on its way is numbered as it was sent. *)
LEMMA SdkTypesHold == SdkInv /\ Quietened /\ SendsBounded => SdkTypeOK
<1> SUFFICES ASSUME SdkInv, Quietened, SendsBounded PROVE SdkTypeOK
  OBVIOUS
<1>1. /\ client \in Clients /\ sock \in Sockets /\ sent \in 0 .. MaxSends
      /\ relayed \in 0 .. MaxSends /\ MaxSends \in Nat
  BY SdkAssumption DEF SdkInv, TypesOK, Reports, SendsBounded
<1>2. client.queue \in Seq(1 .. MaxSends)
  <2>1. client.queue \in Seq(Nat) /\ Newest(client.queue, sent, relayed)
    BY <1>1 DEF Clients, SdkInv, Reports
  <2>2. PICK q : q = client.queue
    OBVIOUS
  <2>3. ASSUME NEW i \in 1 .. Len(q) PROVE q[i] \in 1 .. MaxSends
    <3>1. q[i] = sent - Len(q) + i /\ Len(q) <= sent - relayed /\ Len(q) \in Nat
      BY <2>1, <2>2 DEF Newest
    <3> QED BY <1>1, <3>1
  <2> QED BY <2>1, <2>2, <2>3, SeqOver
<1>3. sock.wire \in Seq(1 .. MaxSends)
  <2>1. sock.wire \in Seq(Nat) /\ Within(sock.wire, relayed, sent)
    BY <1>1 DEF Sockets, SdkInv, Reports
  <2>2. PICK q : q = sock.wire
    OBVIOUS
  <2>3. ASSUME NEW i \in 1 .. Len(q) PROVE q[i] \in 1 .. MaxSends
    <3>1. q[i] \in Nat /\ relayed < q[i] /\ q[i] <= sent
      BY <2>1, <2>2 DEF Within
    <3> QED BY <1>1, <3>1
  <2> QED BY <2>1, <2>2, <2>3, SeqOver
<1>4. client \in [started : BOOLEAN, closed : BOOLEAN, connected : BOOLEAN, hasSocket : BOOLEAN,
                  queue : Seq(1 .. MaxSends), timer : BOOLEAN]
  BY <1>1, <1>2 DEF Clients
<1>5. sock.st \in {"none", "connecting", "open", "ending", "ended", "broken"}
  BY <1>1 DEF Sockets
<1>6. adapter.beats \in 0 .. adapter.readies
  BY DEF Quietened, Adapters
<1> QED BY <1>1, <1>3, <1>4, <1>5, <1>6 DEF SendsBounded, SdkTypeOK

(* Nothing is sent, nothing has failed. *)
LEMMA SendsInit == SdkInit => SendsBounded
BY SdkAssumption DEF SdkInit, SendsBounded

(* Every step counts to its bound. *)
LEMMA SendsStep == SdkInv /\ SendsBounded /\ [SdkNext]_sdkVars => SendsBounded'
<1> SUFFICES ASSUME SdkInv, SendsBounded, [SdkNext]_sdkVars PROVE SendsBounded'
  OBVIOUS
<1>1. sent \in Nat /\ MaxSends \in Nat /\ MaxOutages \in Nat
  BY SdkAssumption DEF SdkInv, TypesOK
<1>2. CASE Start \/ OnConnect \/ OnClose \/ TimerFires \/ DiscordDetach \/ ErisDetach \/ HandleLine
  BY <1>2 DEF Start, OnConnect, OnClose, TimerFires, DiscordDetach, ErisDetach, Detach, HandleLine,
              SendsBounded
<1>3. CASE DiscordReady \/ DiscordEvent \/ ErisReady \/ ErisEvent \/ Heartbeat
  <2>1. Send /\ UNCHANGED <<up, linked, stopped, outages>>
    BY <1>3 DEF DiscordReady, DiscordEvent, ErisReady, ErisEvent, Heartbeat, Ready, Event
  <2>2. sent' <= MaxSends
    BY <1>1, <2>1 DEF Send
  <2> QED BY <2>1, <2>2 DEF SendsBounded
<1>4. CASE GracefulShutdown
  <2>1. /\ sent < MaxSends /\ sent' = sent + 1 /\ stopped' = sent + 1
        /\ UNCHANGED <<up, linked, outages>>
    BY <1>4 DEF GracefulShutdown
  <2> QED BY <1>1, <2>1 DEF SendsBounded
<1>5. CASE AgentDown
  <2>1. /\ outages < MaxOutages /\ outages' = outages + 1 /\ up' = FALSE /\ linked' = FALSE
        /\ UNCHANGED <<sent, stopped>>
    BY <1>5 DEF AgentDown
  <2>2. outages' \in 0 .. MaxOutages
    BY <1>1, <2>1 DEF SendsBounded
  <2> QED BY <2>1, <2>2 DEF SendsBounded
<1>6. CASE AgentUp
  BY <1>6 DEF AgentUp, SendsBounded
<1>7. CASE LinkChanges
  <2>1. /\ linked' = ~linked /\ UNCHANGED <<up, sent, stopped>>
        /\ (outages < MaxOutages /\ outages' = outages + 1) \/ outages' = outages
    BY <1>7 DEF LinkChanges
  <2>2. outages' \in 0 .. MaxOutages
    BY <1>1, <2>1 DEF SendsBounded
  <2> QED BY <2>1, <2>2 DEF SendsBounded
<1>8. CASE UNCHANGED sdkVars
  BY <1>8 DEF sdkVars, SendsBounded
<1> QED BY <1>2, <1>3, <1>4, <1>5, <1>6, <1>7, <1>8 DEF SdkNext

=============================================================================
