--------------------------- MODULE StreamFeedProofs ---------------------------
(***************************************************************************)
(* For any set of clients, any queue bound and any number of chunks: what  *)
(* a client is given is in order, so a session implements ClientFeed, and  *)
(* without gaps as long as its queue was never found full.                 *)
(***************************************************************************)
EXTENDS StreamSessionProofs

-------------------------------------------------------------------------------
\* The order of a queue q behind the last chunk l that was given.

Sorted(q, l) ==
    /\ \A i, j \in 1..Len(q) : i < j /\ q[i] \in Nat /\ q[j] \in Nat => q[i] < q[j]
    /\ \A i \in 1..Len(q) : q[i] \in Nat => l < q[i]

\* Every chunk is older than n.
Below(q, l, n) == l < n /\ \A i \in 1..Len(q) : q[i] \in Nat => q[i] < n

\* The chunk in hand has not been put into this queue yet.
Awaits(c) ==
    \/ pc[Source] = "snapshot"
    \/ pc[Source] \in {"put", "trim", "reput"} /\ c \in todo[Source]
    \/ pc[Source] \in {"trim", "reput"} /\ c = cur[Source]

\* Chunks wait in the order they were read, the one in hand is newer than all in
\* a queue it is still meant for, and a queue is served once.
Order ==
    /\ \A c \in Clients :
          /\ Sorted(queue[c], last[c]) /\ Below(queue[c], last[c], produced + 1)
          /\ Awaits(c) => Below(queue[c], last[c], produced)
    /\ pc[Source] \in {"trim", "reput"} => cur[Source] \notin todo[Source]

\* Items are chunks or marks.
LEMMA ItemFacts ==
  /\ \A x \in Items : x \in Nat \/ x \in Marks
  /\ \A x \in Marks : x \notin Nat /\ x \in Items
  /\ \A x \in Items : x \in Nat => x \in 1..MaxChunks
BY MarkAssumption, BoundAssumption DEF Items, Marks

\* The indices of a longer queue.
LEMMA AppendAt ==
  ASSUME NEW q \in Seq(Items), NEW x \in Items
  PROVE  /\ Append(q, x) \in Seq(Items) /\ Len(q) \in Nat /\ Len(Append(q, x)) = Len(q) + 1
         /\ \A i \in 1..Len(q) : Append(q, x)[i] = q[i]
         /\ Append(q, x)[Len(q) + 1] = x
BY AppendProperties, LenProperties

\* The indices of a shorter one.
LEMMA TailAt ==
  ASSUME NEW q \in Seq(Items), q # <<>>
  PROVE  /\ Tail(q) \in Seq(Items) /\ Len(q) \in Nat \ {0} /\ Len(Tail(q)) = Len(q) - 1
         /\ \A i \in 1..Len(Tail(q)) : Tail(q)[i] = q[i + 1]
         /\ Head(q) = q[1] /\ q[1] \in Items
BY HeadTailProperties, LenProperties, ElementOfSeq, EmptySeq

\* A newer chunk at the back.
LEMMA PutOrder ==
  ASSUME NEW q \in Seq(Items), NEW l \in Nat, NEW n \in Nat, n \in Items,
         Sorted(q, l), Below(q, l, n)
  PROVE  Sorted(Append(q, n), l) /\ Below(Append(q, n), l, n + 1)
<1> DEFINE r == Append(q, n)
<1>1. /\ Len(q) \in Nat /\ Len(r) = Len(q) + 1 /\ r[Len(q) + 1] = n
      /\ \A i \in 1..Len(q) : r[i] = q[i]
  BY AppendAt
<1> HIDE DEF r
<1>2. \A i \in 1..Len(r) : i \in 1..Len(q) \/ i = Len(q) + 1
  BY <1>1
<1>3. Sorted(r, l)
  <2>1. \A i \in 1..Len(r) : r[i] \in Nat => l < r[i]
    BY <1>1, <1>2 DEF Sorted, Below
  <2>2. ASSUME NEW i \in 1..Len(r), NEW j \in 1..Len(r), i < j, r[i] \in Nat, r[j] \in Nat
        PROVE  r[i] < r[j]
    <3>1. i \in 1..Len(q) /\ r[i] = q[i]
      BY <1>1, <1>2, <2>2
    <3>2. CASE j \in 1..Len(q)
      <4>1. r[j] = q[j]
        BY <1>1, <3>2
      <4> QED
        BY <2>2, <3>1, <3>2, <4>1 DEF Sorted
    <3>3. CASE j = Len(q) + 1
      <4>1. r[j] = n
        BY <1>1, <3>3
      <4> QED
        BY <2>2, <3>1, <4>1 DEF Below
    <3> QED
      BY <1>2, <3>2, <3>3
  <2> QED
    BY <2>1, <2>2 DEF Sorted
<1>4. Below(r, l, n + 1)
  BY <1>1, <1>2 DEF Below
<1> QED
  BY <1>3, <1>4 DEF r

\* A mark at the back.
LEMMA MarkOrder ==
  ASSUME NEW q \in Seq(Items), NEW l, NEW n, NEW x \in Marks
  PROVE  /\ Sorted(q, l) => Sorted(Append(q, x), l)
         /\ Below(q, l, n) => Below(Append(q, x), l, n)
<1> DEFINE r == Append(q, x)
<1>1. /\ Len(q) \in Nat /\ Len(r) = Len(q) + 1 /\ r[Len(q) + 1] \notin Nat
      /\ \A i \in 1..Len(q) : r[i] = q[i]
  BY AppendAt, ItemFacts
<1> HIDE DEF r
<1>2. \A i \in 1..Len(r) : i \in 1..Len(q) \/ i = Len(q) + 1
  BY <1>1
<1>3. Sorted(q, l) => Sorted(r, l)
  BY <1>1, <1>2 DEF Sorted
<1>4. Below(q, l, n) => Below(r, l, n)
  BY <1>1, <1>2 DEF Below
<1> QED
  BY <1>3, <1>4 DEF r

\* The front leaves: thrown away, or given to the client.
LEMMA DropOrder ==
  ASSUME NEW q \in Seq(Items), q # <<>>, NEW l, NEW n, Sorted(q, l)
  PROVE  /\ Sorted(Tail(q), l)
         /\ Below(q, l, n) => Below(Tail(q), l, n)
         /\ Head(q) \in Nat =>
               /\ Sorted(Tail(q), Head(q)) /\ l < Head(q)
               /\ Below(q, l, n) => Below(Tail(q), Head(q), n) /\ Head(q) < n
<1> DEFINE r == Tail(q)
           h == Head(q)
<1>1. /\ Len(q) \in Nat \ {0} /\ Len(r) = Len(q) - 1 /\ h = q[1]
      /\ \A i \in 1..Len(r) : r[i] = q[i + 1]
  BY TailAt
<1> HIDE DEF r, h
<1>2. 1 \in 1..Len(q) /\ \A i \in 1..Len(r) : i + 1 \in 1..Len(q) /\ 1 < i + 1
  BY <1>1
<1>3. ASSUME NEW i \in 1..Len(r), NEW j \in 1..Len(r), i < j
      PROVE  i + 1 < j + 1 /\ i + 1 \in 1..Len(q) /\ j + 1 \in 1..Len(q)
  BY <1>2, <1>3
<1>4. Sorted(r, l)
  BY <1>1, <1>2, <1>3 DEF Sorted
<1>5. Below(q, l, n) => Below(r, l, n)
  BY <1>1, <1>2 DEF Below
<1>6. ASSUME h \in Nat
      PROVE  /\ Sorted(r, h) /\ l < h
             /\ Below(q, l, n) => Below(r, h, n) /\ h < n
  <2>1. \A i \in 1..Len(r) : r[i] \in Nat => h < r[i]
    BY <1>1, <1>2, <1>6 DEF Sorted
  <2>2. l < h
    BY <1>1, <1>2, <1>6 DEF Sorted
  <2>3. Below(q, l, n) => h < n
    BY <1>1, <1>2, <1>6 DEF Below
  <2> QED
    BY <1>4, <1>5, <2>1, <2>2, <2>3 DEF Sorted, Below
<1> QED
  BY <1>4, <1>5, <1>6 DEF r, h

-------------------------------------------------------------------------------
\* What a step does to the queues and to what the clients were given.

\* Nothing: a chunk may be read, and fewer queues await the one in hand.
Untouched ==
    /\ queue' = queue /\ last' = last
    /\ \/ produced' = produced + 1
       \/ produced' = produced /\ \A c \in Clients : Awaits(c)' => Awaits(c)

\* The chunk in hand goes to a queue that awaits it.
Served(c) ==
    /\ PutItem(c, produced) /\ ~Full(c) /\ Awaits(c)
    /\ last' = last /\ produced' = produced
    /\ \A d \in Clients : Awaits(d)' => Awaits(d) /\ d # c

Marking(c, x) ==
    /\ PutItem(c, x) /\ ~Full(c)
    /\ last' = last /\ produced' = produced
    /\ \A d \in Clients : Awaits(d)' => Awaits(d)

Taking(c) ==
    /\ ~Empty(c) /\ DropHead(c) /\ produced' = produced
    /\ \A d \in Clients : Awaits(d)' => Awaits(d)
    /\ \/ last' = last
       \/ Head(queue[c]) \notin Marks /\ last' = [last EXCEPT ![c] = Head(queue[c])]

Effect ==
    \/ Untouched
    \/ \E c \in Clients : Served(c)
    \/ \E c \in Clients, x \in Marks : Marking(c, x)
    \/ \E c \in Clients : Taking(c)

\* A broadcast serves a queue once.
OnceEach == pc[Source] \in {"trim", "reput"} => cur[Source] \notin todo[Source]

\* A chunk is put, or the queue is found full.
LEMMA PutEffect ==
  ASSUME TypeInv, OnceEach, NEW c \in Clients, Put(c)
  PROVE  Effect /\ OnceEach'
<1> USE ThreadAssumption
<1>1. /\ pc[Source] = "put" /\ c \in todo[Source] /\ todo'[Source] = todo[Source] \ {c}
      /\ produced' = produced /\ last' = last
  BY DEF Put, clientVars, TypeInv, TypeOK, Threads
<1>2. CASE Full(c)
  <2>1. queue' = queue /\ pc'[Source] = "trim" /\ cur'[Source] = c
    BY <1>2 DEF Put, Goto, TypeInv, TypeOK, Threads
  <2> QED
    BY <1>1, <2>1 DEF Effect, Untouched, Awaits, OnceEach
<1>3. CASE ~Full(c)
  <2>1. PutItem(c, produced) /\ pc'[Source] = "put"
    BY <1>1, <1>3 DEF Put
  <2>2. Served(c)
    BY <1>1, <1>3, <2>1 DEF Served, Awaits
  <2> QED
    BY <1>1, <2>1, <2>2 DEF Effect, OnceEach
<1> QED
  BY <1>2, <1>3

\* A full queue loses its oldest item, or turns out to be empty.
LEMMA TrimEffect ==
  ASSUME TypeInv, OnceEach, Trim
  PROVE  Effect /\ OnceEach'
<1> USE ThreadAssumption
<1>1. /\ pc[Source] = "trim" /\ todo' = todo /\ produced' = produced /\ last' = last
      /\ cur[Source] \in Clients
  BY DEF Trim, clientVars, TypeInv, InHand
<1>2. CASE Empty(cur[Source])
  <2>1. queue' = queue /\ pc'[Source] = "put"
    BY <1>2 DEF Trim, Goto, TypeInv, TypeOK, Threads
  <2> QED
    BY <1>1, <2>1 DEF Effect, Untouched, Awaits, OnceEach
<1>3. CASE ~Empty(cur[Source])
  <2>1. DropHead(cur[Source]) /\ pc'[Source] = "reput" /\ cur' = cur
    BY <1>3 DEF Trim, Goto, TypeInv, TypeOK, Threads
  <2>2. Taking(cur[Source])
    BY <1>1, <1>3, <2>1 DEF Taking, Awaits
  <2> QED
    BY <1>1, <2>1, <2>2 DEF Effect, OnceEach
<1> QED
  BY <1>2, <1>3

\* The second put.
LEMMA ReputEffect ==
  ASSUME TypeInv, OnceEach, Reput
  PROVE  Effect /\ OnceEach'
<1> USE ThreadAssumption
<1>1. /\ pc[Source] = "reput" /\ pc'[Source] = "put" /\ todo' = todo
      /\ produced' = produced /\ last' = last
      /\ cur[Source] \in Clients /\ cur[Source] \notin todo[Source]
  BY DEF Reput, Advance, Goto, clientVars, TypeInv, TypeOK, InHand, Threads, OnceEach
<1>2. CASE Full(cur[Source])
  <2>1. queue' = queue
    BY <1>2 DEF Reput
  <2> QED
    BY <1>1, <2>1 DEF Effect, Untouched, Awaits, OnceEach
<1>3. CASE ~Full(cur[Source])
  <2>1. PutItem(cur[Source], produced)
    BY <1>3 DEF Reput
  <2>2. Served(cur[Source])
    BY <1>1, <1>3, <2>1 DEF Served, Awaits
  <2> QED
    BY <1>1, <2>2 DEF Effect, OnceEach
<1> QED
  BY <1>2, <1>3

\* The other steps of the source.
LEMMA SourceEffect ==
  ASSUME TypeInv, OnceEach,
         \/ ReadChunk \/ Snapshot \/ BroadcastDone \/ EvictDone \/ EndOfFile
         \/ Restarted \/ RestartFailed \/ BroadcastError \/ \E c \in Clients : Evict(c)
  PROVE  Effect /\ OnceEach'
<1> USE ThreadAssumption
<1>1. queue' = queue /\ last' = last /\ pc'[Source] \notin {"trim", "reput"}
  BY DEF ReadChunk, Snapshot, BroadcastDone, EvictDone, EndOfFile, Restarted, RestartFailed,
         BroadcastError, Evict, clientVars, Advance, Goto, TypeInv, TypeOK, Threads
<1>2. OnceEach'
  BY <1>1 DEF OnceEach
<1>3. CASE ReadChunk
  BY <1>1, <1>2, <1>3 DEF ReadChunk, Effect, Untouched
<1>4. CASE Snapshot
  BY <1>1, <1>2, <1>4 DEF Snapshot, Advance, Effect, Untouched, Awaits
<1>5. CASE ~ReadChunk /\ ~Snapshot
  <2>1. produced' = produced
    BY <1>5 DEF BroadcastDone, EvictDone, EndOfFile, Restarted, RestartFailed, BroadcastError, Evict
  <2>2. pc'[Source] \notin {"snapshot", "put"}
    BY <1>5 DEF BroadcastDone, EvictDone, EndOfFile, Restarted, RestartFailed,
         BroadcastError, Evict, Advance, Goto, TypeInv, TypeOK, Threads
  <2> QED
    BY <1>1, <1>2, <2>1, <2>2 DEF Effect, Untouched, Awaits
<1> QED
  BY <1>2, <1>3, <1>4, <1>5

\* The steps of a close and of a signal.
LEMMA CloseEffect ==
  ASSUME TypeInv, OnceEach, NEW t \in Threads, CloseStep(t)
  PROVE  Effect /\ OnceEach'
<1> USE ThreadAssumption
<1>1. /\ pc[t] \notin {"snapshot", "put", "trim", "reput"}
      /\ pc'[t] \notin {"snapshot", "put", "trim", "reput"}
      /\ \A u \in Threads \ {t} : pc'[u] = pc[u] /\ todo'[u] = todo[u] /\ cur'[u] = cur[u]
      /\ last' = last /\ produced' = produced
  <2>1. /\ \E l \in {"close", "signal", "flush", "resignal", "evict", "exited"} : pc' = [pc EXCEPT ![t] = l]
        /\ pc[t] \in {"close", "signal", "flush", "resignal"}
        /\ todo' = todo \/ \E S : todo' = [todo EXCEPT ![t] = S]
        /\ cur' = cur \/ \E d : cur' = [cur EXCEPT ![t] = d]
        /\ last' = last /\ produced' = produced
    <3>1. CASE CloseSubscribers(t)
      BY <3>1 DEF CloseSubscribers, Goto, clientVars
    <3>2. CASE \E c \in Clients : Signal(t, c)
      <4>1. PICK c \in Clients : Signal(t, c)
        BY <3>2
      <4>2. pc[t] = "signal" /\ pc = [pc EXCEPT ![t] = "signal"]
        BY <4>1 DEF Signal, TypeInv, TypeOK
      <4> QED
        BY <4>1, <4>2 DEF Signal, Goto, clientVars
    <3>3. CASE Flush(t)
      <4>1. pc[t] = "flush" /\ pc = [pc EXCEPT ![t] = "flush"]
        BY <3>3 DEF Flush, TypeInv, TypeOK
      <4> QED
        BY <3>3, <4>1 DEF Flush, Goto, clientVars
    <3>4. CASE Resignal(t)
      BY <3>4 DEF Resignal, Advance, Goto, clientVars
    <3>5. CASE SignalDone(t)
      <4>1. phase \in {"evict", "error", "close"}
        BY DEF TypeInv, TypeOK
      <4> QED
        BY <3>5, <4>1 DEF SignalDone, Goto, clientVars
    <3> QED
      BY <3>1, <3>2, <3>3, <3>4, <3>5 DEF CloseStep
  <2> QED
    BY <2>1 DEF TypeInv, TypeOK
<1>2. \A c \in Clients : Awaits(c)' => Awaits(c)
  <2>1. CASE t = Source
    BY <1>1, <2>1 DEF Awaits
  <2>2. CASE t # Source
    <3>1. pc'[Source] = pc[Source] /\ todo'[Source] = todo[Source] /\ cur'[Source] = cur[Source]
      BY <1>1, <2>2 DEF Threads
    <3> QED
      BY <3>1 DEF Awaits
  <2> QED
    BY <2>1, <2>2
<1>3. OnceEach'
  BY <1>1 DEF OnceEach, Threads
<1>4. CASE queue' = queue
  BY <1>1, <1>2, <1>3, <1>4 DEF Effect, Untouched
<1>5. CASE queue' # queue
  <2>1. \/ \E c \in Clients : Signal(t, c) /\ ~Full(c) /\ PutItem(c, MarkOf(t))
        \/ Flush(t) /\ ~Empty(cur[t]) /\ DropHead(cur[t])
        \/ Resignal(t) /\ ~Full(cur[t]) /\ PutItem(cur[t], MarkOf(t))
    BY <1>5 DEF CloseStep, CloseSubscribers, SignalDone, Signal, Flush, Resignal
  <2>2. MarkOf(t) \in Marks
    BY DEF MarkOf, Marks
  <2>3. Flush(t) \/ Resignal(t) => cur[t] \in Clients
    BY DEF Flush, Resignal, Advance, TypeInv, InHand, Threads
  <2> QED
    BY <1>1, <1>2, <1>3, <2>1, <2>2, <2>3 DEF Effect, Marking, Taking
<1> QED
  BY <1>4, <1>5

\* The steps of the clients, and the rest.
LEMMA ClientEffect ==
  ASSUME TypeInv, OnceEach, (\E c \in Clients : ClientStep(c)) \/ Kill \/ UNCHANGED vars
  PROVE  Effect /\ OnceEach'
<1> USE ThreadAssumption
<1>1. /\ pc'[Source] = pc[Source] /\ todo' = todo /\ cur' = cur /\ produced' = produced
  BY DEF ClientStep, Subscribe, Get, IterateTimeout, Disconnect, StopReading, Unsubscribe, Kill,
         Advance, Goto, vars, TypeInv, TypeOK, Threads
<1>2. OnceEach' /\ \A c \in Clients : Awaits(c)' => Awaits(c)
  BY <1>1 DEF OnceEach, Awaits
<1>3. ASSUME NEW c \in Clients, Get(c) PROVE Effect
  <2>1. ~Empty(c) /\ DropHead(c)
    BY <1>3 DEF Get
  <2>2. last' = last \/ (Head(queue[c]) \notin Marks /\ last' = [last EXCEPT ![c] = Head(queue[c])])
    BY <1>3 DEF Get
  <2> QED
    BY <1>1, <1>2, <2>1, <2>2 DEF Effect, Taking
<1>4. CASE ~\E c \in Clients : Get(c)
  <2>1. queue' = queue /\ last' = last
    BY <1>4 DEF ClientStep, Subscribe, IterateTimeout, Disconnect, StopReading, Unsubscribe, Kill,
                clientVars, vars
  <2> QED
    BY <1>1, <1>2, <2>1 DEF Effect, Untouched
<1> QED
  BY <1>2, <1>3, <1>4

\* Every step is one of these.
LEMMA StepEffect ==
  ASSUME TypeInv, OnceEach, [Next]_vars
  PROVE  Effect /\ OnceEach'
BY PutEffect, TrimEffect, ReputEffect, SourceEffect, CloseEffect, ClientEffect
   DEF Next, BroadcastStep, PipeStep

-------------------------------------------------------------------------------
\* Every step keeps the order.

\* One queue changes.
LEMMA OneQueue ==
  ASSUME TypeInv, NEW c \in Clients, NEW r, queue' = [queue EXCEPT ![c] = r]
  PROVE  queue'[c] = r /\ \A d \in Clients : d # c => queue'[d] = queue[d]
BY DEF TypeInv, TypeOK

\* What the type invariant says of a queue.
LEMMA QueueType ==
  ASSUME TypeInv, NEW c \in Clients
  PROVE  queue[c] \in Seq(Items) /\ last[c] \in Nat /\ produced \in Nat /\ produced <= MaxChunks
BY BoundAssumption DEF TypeInv, TypeOK

\* A chunk in hand is an item.
LEMMA InHandItem ==
  ASSUME TypeInv, NEW c \in Clients, Awaits(c)
  PROVE  produced \in Items
BY BoundAssumption DEF TypeInv, TypeOK, InHand, Awaits, Items

Ordered(c) ==
    /\ Sorted(queue[c], last[c]) /\ Below(queue[c], last[c], produced + 1)
    /\ Awaits(c) => Below(queue[c], last[c], produced)

\* The order of the items is kept by every step.
LEMMA StepOrder ==
  ASSUME TypeInv, Order, [Next]_vars
  PROVE  Order'
<1>1. Effect /\ OnceEach'
  BY StepEffect DEF Order, OnceEach
<1>2. \A c \in Clients : Ordered(c)
  BY DEF Order, Ordered
<1>3. SUFFICES \A c \in Clients : Ordered(c)'
  BY <1>1 DEF Order, OnceEach, Ordered
<1>4. CASE Untouched
  <2> TAKE c \in Clients
  <2>1. Below(queue[c], last[c], produced + 1) /\ produced \in Nat
    BY <1>2, QueueType DEF Ordered
  <2>2. CASE produced' = produced + 1
    <3>1. Below(queue[c], last[c], produced') /\ Below(queue[c], last[c], produced' + 1)
      BY <2>1, <2>2, QueueType DEF Below
    <3> QED
      BY <1>2, <1>4, <3>1 DEF Untouched, Ordered
  <2>3. CASE produced' # produced + 1
    BY <1>2, <1>4, <2>3 DEF Untouched, Ordered
  <2> QED
    BY <2>2, <2>3
<1>5. ASSUME NEW c \in Clients, Served(c) PROVE \A d \in Clients : Ordered(d)'
  <2> DEFINE r == Append(queue[c], produced)
  <2>1. queue' = [queue EXCEPT ![c] = r] /\ last' = last /\ produced' = produced
    BY <1>5 DEF Served, PutItem
  <2>2. Sorted(r, last[c]) /\ Below(r, last[c], produced + 1)
    <3>1. produced \in Items
      BY <1>5, InHandItem DEF Served
    <3> QED
      BY <1>2, <1>5, <3>1, PutOrder, QueueType DEF Ordered, Served
  <2> HIDE DEF r
  <2>3. queue'[c] = r /\ \A d \in Clients : d # c => queue'[d] = queue[d]
    BY <2>1, OneQueue
  <2>4. \A d \in Clients : Awaits(d)' => Awaits(d) /\ d # c
    BY <1>5 DEF Served
  <2> QED
    BY <1>2, <2>1, <2>2, <2>3, <2>4 DEF Ordered
<1>6. ASSUME NEW c \in Clients, NEW x \in Marks, Marking(c, x) PROVE \A d \in Clients : Ordered(d)'
  <2> DEFINE r == Append(queue[c], x)
  <2>1. queue' = [queue EXCEPT ![c] = r] /\ last' = last /\ produced' = produced
    BY <1>6 DEF Marking, PutItem
  <2>2. /\ Sorted(r, last[c]) /\ Below(r, last[c], produced + 1)
        /\ Awaits(c) => Below(r, last[c], produced)
    BY <1>2, MarkOrder, QueueType DEF Ordered
  <2> HIDE DEF r
  <2>3. queue'[c] = r /\ \A d \in Clients : d # c => queue'[d] = queue[d]
    BY <2>1, OneQueue
  <2>4. \A d \in Clients : Awaits(d)' => Awaits(d)
    BY <1>6 DEF Marking
  <2> QED
    BY <1>2, <2>1, <2>2, <2>3, <2>4 DEF Ordered
<1>7. ASSUME NEW c \in Clients, Taking(c) PROVE \A d \in Clients : Ordered(d)'
  <2> DEFINE q == queue[c]
             r == Tail(q)
             h == Head(q)
  <2>1. /\ queue' = [queue EXCEPT ![c] = r] /\ produced' = produced
        /\ last' = last \/ (h \notin Marks /\ last' = [last EXCEPT ![c] = h])
    BY <1>7 DEF Taking, DropHead
  <2>2. q \in Seq(Items) /\ q # <<>> /\ h \in Items
    BY <1>7, QueueType, TailAt DEF Taking, Empty
  <2>3. /\ Sorted(r, last[c]) /\ Below(r, last[c], produced + 1)
        /\ Awaits(c) => Below(r, last[c], produced)
        /\ h \in Nat =>
              /\ Sorted(r, h) /\ Below(r, h, produced + 1)
              /\ Awaits(c) => Below(r, h, produced)
    BY <1>2, <2>2, DropOrder DEF Ordered
  <2>4. h \notin Marks => h \in Nat
    BY <2>2, ItemFacts
  <2> HIDE DEF r, h, q
  <2>5. queue'[c] = r /\ \A d \in Clients : d # c => queue'[d] = queue[d]
    BY <2>1, OneQueue
  <2>6. /\ \A d \in Clients : d # c => last'[d] = last[d]
        /\ last'[c] = last[c] \/ (h \in Nat /\ last'[c] = h)
    BY <2>1, <2>4 DEF TypeInv, TypeOK
  <2>7. \A d \in Clients : Awaits(d)' => Awaits(d)
    BY <1>7 DEF Taking
  <2>8. Ordered(c)'
    BY <2>1, <2>3, <2>5, <2>6, <2>7 DEF Ordered
  <2>9. \A d \in Clients : d # c => Ordered(d)'
    BY <1>2, <2>1, <2>5, <2>6, <2>7 DEF Ordered
  <2> QED
    BY <2>8, <2>9
<1> QED
  BY <1>1, <1>4, <1>5, <1>6, <1>7 DEF Effect

\* Empty queues are in order.
LEMMA InitOrder == Init => Order
<1> SUFFICES ASSUME Init PROVE Order
  OBVIOUS
<1>1. \A c \in Clients : queue[c] = <<>> /\ last[c] = 0 /\ produced = 0
  BY DEF Init
<1>2. pc[Source] = "read"
  BY ThreadAssumption DEF Init, Threads
<1>3. \A c \in Clients : \A i \in 1..Len(queue[c]) : FALSE
  <2> TAKE c \in Clients
  <2>1. Len(queue[c]) = 0
    BY <1>1, EmptySeq
  <2> QED
    BY <2>1
<1>4. \A c \in Clients : Sorted(queue[c], last[c])
  BY <1>3, Zenon DEF Sorted
<1>5. \A c \in Clients : last[c] < produced + 1
  <2> TAKE c \in Clients
  <2>1. last[c] = 0 /\ produced = 0
    BY DEF Init
  <2>2. 0 < 0 + 1
    OBVIOUS
  <2> QED
    BY <2>1, <2>2, Zenon
<1>6. \A c \in Clients : Below(queue[c], last[c], produced + 1)
  BY <1>3, <1>5, Zenon DEF Below
<1> QED
  BY <1>2, <1>4, <1>6 DEF Order, Awaits

-------------------------------------------------------------------------------
\* The session implements the feed.

\* The feed of a client changes only where its handler does.
LEMMA FeedKept ==
  ASSUME cpc' = cpc, last' = last, produced' = produced, closed' = closed
  PROVE  UNCHANGED Feed!feedVars
BY DEF Feed!feedVars, FeedOf

\* A session that starts is a feed that starts.
LEMMA FeedInits == Init => Feed!FeedInit
BY DEF Init, Feed!FeedInit, FeedOf

\* The handler of a client moves on.
LEMMA HandlerFeed ==
  ASSUME TypeInv, NEW c \in Clients, NEW l \in {"new", "reading", "leaving", "gone"},
         cpc' = [cpc EXCEPT ![c] = l]
  PROVE  [d \in Clients |-> FeedOf(d)]' = [[d \in Clients |-> FeedOf(d)] EXCEPT
             ![c] = IF l = "new" THEN "out" ELSE IF l = "reading" THEN "open" ELSE "over"]
BY DEF TypeInv, TypeOK, FeedOf

\* Every step of the session is a step of the feed, or leaves the feed as it is.
LEMMA StepFeed ==
  ASSUME TypeInv, Order, [Next]_vars
  PROVE  [Feed!FeedNext]_(Feed!feedVars)
<1> USE ThreadAssumption
<1>1. ASSUME NEW c \in Clients, Subscribe(c) PROVE Feed!FeedNext
  <2>1. CASE closed
    <3>1. Feed!Finish(c)
      <4>1. cpc' = [cpc EXCEPT ![c] = "gone"] /\ cpc[c] = "new" /\ UNCHANGED <<produced, last, closed>>
        BY <1>1, <2>1 DEF Subscribe
      <4> QED
        BY <4>1, HandlerFeed DEF Feed!Finish, FeedOf
    <3> QED
      BY <3>1 DEF Feed!FeedNext
  <2>2. CASE ~closed
    <3>1. Feed!Join(c)
      <4>1. cpc' = [cpc EXCEPT ![c] = "reading"] /\ cpc[c] = "new" /\ UNCHANGED <<produced, last, closed>>
        BY <1>1, <2>2 DEF Subscribe
      <4> QED
        BY <2>2, <4>1, HandlerFeed DEF Feed!Join, FeedOf
    <3> QED
      BY <3>1 DEF Feed!FeedNext
  <2> QED
    BY <2>1, <2>2
<1>2. ASSUME NEW c \in Clients, Get(c) PROVE Feed!FeedNext
  <2>1. cpc[c] = "reading" /\ produced' = produced /\ closed' = closed /\ queue[c] # <<>>
    BY <1>2 DEF Get, Empty
  <2>2. CASE Head(queue[c]) \in Marks
    <3>1. cpc' = [cpc EXCEPT ![c] = "leaving"] /\ last' = last
      BY <1>2, <2>2 DEF Get
    <3>2. Feed!Finish(c)
      BY <2>1, <3>1, HandlerFeed DEF Feed!Finish, FeedOf
    <3> QED
      BY <3>2 DEF Feed!FeedNext
  <2>3. CASE Head(queue[c]) \notin Marks
    <3> DEFINE h == Head(queue[c])
    <3>1. cpc' = cpc /\ last' = [last EXCEPT ![c] = h]
      BY <1>2, <2>3 DEF Get
    <3>2. h \in Items
      BY <2>1, TailAt, QueueType
    <3>3. h \in 1..MaxChunks
      BY <2>3, <3>2, ItemFacts
    <3>4. last[c] < h /\ h < produced + 1
      BY <2>1, <3>3, DropOrder, QueueType DEF Order
    <3> HIDE DEF h
    <3>5. h \in 1..produced /\ h > last[c]
      BY <3>3, <3>4, QueueType
    <3>6. [d \in Clients |-> FeedOf(d)]' = [d \in Clients |-> FeedOf(d)]
      BY <3>1 DEF FeedOf
    <3>7. Feed!Deliver(c)
      BY <2>1, <3>1, <3>5, <3>6 DEF Feed!Deliver, FeedOf
    <3> QED
      BY <3>7 DEF Feed!FeedNext
  <2> QED
    BY <2>2, <2>3
<1>3. ASSUME NEW c \in Clients, StopReading(c) PROVE Feed!FeedNext
  <2>1. /\ cpc[c] = "reading" /\ cpc' = [cpc EXCEPT ![c] = "leaving"]
        /\ last' = last /\ produced' = produced /\ closed' = closed
    BY <1>3 DEF StopReading
  <2>2. Feed!Finish(c)
    BY <2>1, HandlerFeed DEF Feed!Finish, FeedOf
  <2> QED
    BY <2>2 DEF Feed!FeedNext
<1>4. ASSUME NEW c \in Clients, Unsubscribe(c) PROVE UNCHANGED Feed!feedVars
  <2>1. /\ cpc[c] = "leaving" /\ cpc' = [cpc EXCEPT ![c] = "gone"]
        /\ last' = last /\ produced' = produced /\ closed' = closed
    BY <1>4 DEF Unsubscribe
  <2>2. \A d \in Clients : FeedOf(d)' = FeedOf(d)
    BY <2>1 DEF FeedOf, TypeInv, TypeOK
  <2> QED
    BY <2>1, <2>2 DEF Feed!feedVars
<1>5. CASE ReadChunk
  <2>1. produced' = produced + 1 /\ cpc' = cpc /\ last' = last /\ closed' = closed
    BY <1>5 DEF ReadChunk, clientVars
  <2>2. Feed!Publish
    BY <2>1 DEF Feed!Publish, FeedOf
  <2> QED
    BY <2>2 DEF Feed!FeedNext
<1>6. ASSUME NEW t \in Threads, CloseSubscribers(t) PROVE Feed!FeedNext \/ UNCHANGED Feed!feedVars
  <2>1. cpc' = cpc /\ last' = last /\ produced' = produced
    BY <1>6 DEF CloseSubscribers, clientVars
  <2>2. CASE closed
    <3>1. closed' = closed
      BY <1>6, <2>2 DEF CloseSubscribers
    <3> QED
      BY <2>1, <3>1, FeedKept
  <2>3. CASE ~closed
    <3>1. closed' = TRUE
      BY <1>6, <2>3, Zenon DEF CloseSubscribers
    <3>2. Feed!Shut
      BY <2>1, <3>1, Zenon DEF Feed!Shut, FeedOf
    <3> QED
      BY <3>2 DEF Feed!FeedNext
  <2> QED
    BY <2>2, <2>3
<1>7. ASSUME \/ Snapshot \/ Trim \/ Reput \/ BroadcastDone \/ EvictDone
             \/ \E c \in Clients : Put(c) \/ Evict(c)
             \/ EndOfFile \/ Restarted \/ RestartFailed \/ BroadcastError \/ Kill \/ UNCHANGED vars
      PROVE  UNCHANGED Feed!feedVars
  <2>1. cpc' = cpc /\ last' = last /\ produced' = produced /\ closed' = closed
    BY <1>7 DEF Snapshot, Trim, Reput, BroadcastDone, EvictDone, Put, Evict, EndOfFile, Restarted,
                RestartFailed, BroadcastError, Kill, vars, clientVars
  <2> QED
    BY <2>1, FeedKept
<1>8. ASSUME NEW t \in Threads,
             Flush(t) \/ Resignal(t) \/ SignalDone(t) \/ \E c \in Clients : Signal(t, c)
      PROVE  UNCHANGED Feed!feedVars
  <2>1. cpc' = cpc /\ last' = last /\ produced' = produced /\ closed' = closed
    BY <1>8 DEF Flush, Resignal, SignalDone, Signal, clientVars
  <2> QED
    BY <2>1, FeedKept
<1> QED
  BY <1>1, <1>2, <1>3, <1>4, <1>5, <1>6, <1>7, <1>8
     DEF Next, ClientStep, IterateTimeout, Disconnect, BroadcastStep, PipeStep, CloseStep

\* A stream session implements the feed: with any number of clients and whatever
\* the drain, the killer and the clients do to the queues, a client is given chunks
\* in the order they left the pipe, each at most once, none after its end; and
\* nobody joins a closed session.
THEOREM FeedImplemented == Spec => ImplementsClientFeed
<1>1. TypeInv /\ Order /\ [Next]_vars => [Feed!FeedNext]_(Feed!feedVars)
  BY StepFeed
<1>2. TypeInv /\ Order /\ [Next]_vars => Order'
  BY StepOrder
<1> QED
  BY <1>1, <1>2, InitOrder, FeedInits, InitTypeInv, StepTypeInv, PTL
     DEF Spec, ImplementsClientFeed, Feed!FeedSpec

-------------------------------------------------------------------------------
\* No gaps.

\* A queue q behind the last chunk l: neighbours are consecutive, and the front
\* follows what was given.
Consecutive(q, l) ==
    /\ \A i \in 1..(Len(q) - 1) : q[i] \in Nat /\ q[i + 1] \in Nat => q[i + 1] = q[i] + 1
    /\ q # <<>> /\ q[1] \in Nat /\ l # 0 => q[1] = l + 1

\* The newest chunk of the queue, or the last that was given, is n; it may have had
\* none, or end in a mark.
Newest(q, l, n) ==
    IF q = <<>> THEN l \in {0, n} ELSE q[Len(q)] \in Nat => q[Len(q)] = n

\* The chunk in hand is for this subscriber, and not in its queue yet.
Waits(c) ==
    \/ pc[Source] = "snapshot"
    \/ pc[Source] \in {"put", "trim", "reput"} /\ c \in todo[Source]

\* The chunks to come are for it.
Due(c) == c \in subscribers \/ (pc[Source] \in {"put", "trim", "reput"} /\ c \in todo[Source])

Reached(c) == IF Waits(c) THEN produced - 1 ELSE produced

Steady(c) ==
    /\ Consecutive(queue[c], last[c])
    /\ Due(c) => Newest(queue[c], last[c], Reached(c))

\* Nobody knows a client that has not subscribed yet.
Outside(c) ==
    /\ c \notin subscribers /\ queue[c] = <<>> /\ last[c] = 0
    /\ \A t \in Threads : c \notin todo[t]
    /\ pc[Source] \in {"trim", "reput", "flush", "resignal"} => cur[Source] # c
    /\ pc[Killer] \in {"flush", "resignal"} => cur[Killer] # c

Gapless ==
    /\ \A c \in Clients : Keeping(c) => Steady(c)
    /\ \A c \in Clients : cpc[c] = "new" => Outside(c)

\* The next chunk at the back.
LEMMA PutSteady ==
  ASSUME NEW q \in Seq(Items), NEW l \in Nat, NEW n \in Nat \ {0}, n \in Items,
         Consecutive(q, l), Newest(q, l, n - 1)
  PROVE  Consecutive(Append(q, n), l) /\ Newest(Append(q, n), l, n)
<1> DEFINE r == Append(q, n)
<1>1. /\ Len(q) \in Nat /\ Len(r) = Len(q) + 1 /\ r[Len(q) + 1] = n
      /\ \A i \in 1..Len(q) : r[i] = q[i]
      /\ (q = <<>> <=> Len(q) = 0) /\ r # <<>>
  BY AppendAt, EmptySeq
<1> HIDE DEF r
<1>2. \A i \in 1..(Len(r) - 1) : i \in 1..Len(q) /\ (i + 1 \in 1..Len(q) \/ i = Len(q))
  BY <1>1
<1>3. \A i \in 1..(Len(r) - 1) : r[i] \in Nat /\ r[i + 1] \in Nat => r[i + 1] = r[i] + 1
  <2> SUFFICES ASSUME NEW i \in 1..(Len(r) - 1), r[i] \in Nat, r[i + 1] \in Nat
               PROVE  r[i + 1] = r[i] + 1
    OBVIOUS
  <2>1. CASE i + 1 \in 1..Len(q)
    BY <1>1, <1>2, <2>1 DEF Consecutive
  <2>2. CASE i = Len(q)
    <3>1. q # <<>> /\ q[Len(q)] \in Nat
      BY <1>1, <1>2, <2>2
    <3> QED
      BY <1>1, <1>2, <2>2, <3>1 DEF Newest
  <2> QED
    BY <1>2, <2>1, <2>2
<1>4. r[1] \in Nat /\ l # 0 => r[1] = l + 1
  <2>1. CASE q = <<>>
    BY <1>1, <2>1 DEF Newest
  <2>2. CASE q # <<>>
    BY <1>1, <2>2 DEF Consecutive
  <2> QED
    BY <2>1, <2>2
<1>5. Consecutive(r, l)
  BY <1>3, <1>4 DEF Consecutive
<1>6. Newest(r, l, n)
  BY <1>1 DEF Newest
<1> QED
  BY <1>5, <1>6 DEF r

\* A mark at the back.
LEMMA MarkSteady ==
  ASSUME NEW q \in Seq(Items), NEW l, NEW x \in Marks, Consecutive(q, l), NEW n
  PROVE  Consecutive(Append(q, x), l) /\ Newest(Append(q, x), l, n)
<1> DEFINE r == Append(q, x)
<1>1. /\ Len(q) \in Nat /\ Len(r) = Len(q) + 1 /\ r[Len(q) + 1] \notin Nat
      /\ \A i \in 1..Len(q) : r[i] = q[i]
      /\ (q = <<>> <=> Len(q) = 0) /\ r # <<>>
  BY AppendAt, EmptySeq, ItemFacts
<1> HIDE DEF r
<1>2. \A i \in 1..(Len(r) - 1) : i \in 1..Len(q) /\ (i + 1 \in 1..Len(q) \/ i = Len(q))
  BY <1>1
<1>3. \A i \in 1..(Len(r) - 1) : r[i] \in Nat /\ r[i + 1] \in Nat => r[i + 1] = r[i] + 1
  <2> SUFFICES ASSUME NEW i \in 1..(Len(r) - 1), r[i] \in Nat, r[i + 1] \in Nat
               PROVE  r[i + 1] = r[i] + 1
    OBVIOUS
  <2>1. i + 1 \in 1..Len(q)
    BY <1>1, <1>2
  <2>2. r[i] = q[i] /\ r[i + 1] = q[i + 1] /\ i \in 1..(Len(q) - 1)
    BY <1>1, <1>2, <2>1
  <2> QED
    BY <2>2 DEF Consecutive
<1>4. r[1] \in Nat /\ l # 0 => r[1] = l + 1
  BY <1>1 DEF Consecutive
<1> QED
  BY <1>1, <1>3, <1>4 DEF Consecutive, Newest, r

\* The front is given.
LEMMA GetSteady ==
  ASSUME NEW q \in Seq(Items), q # <<>>, NEW l, Head(q) \in Nat \ {0}, Consecutive(q, l)
  PROVE  /\ Consecutive(Tail(q), Head(q))
         /\ \A n : Newest(q, l, n) => Newest(Tail(q), Head(q), n)
<1> DEFINE r == Tail(q)
           h == Head(q)
<1>1. /\ Len(q) \in Nat \ {0} /\ Len(r) = Len(q) - 1 /\ h = q[1] /\ h \in Nat \ {0}
      /\ \A i \in 1..Len(r) : r[i] = q[i + 1]
      /\ (r = <<>> <=> Len(r) = 0)
  BY TailAt, EmptySeq
<1> HIDE DEF r, h
<1>2. \A i \in 1..(Len(r) - 1) : r[i] \in Nat /\ r[i + 1] \in Nat => r[i + 1] = r[i] + 1
  <2> SUFFICES ASSUME NEW i \in 1..(Len(r) - 1), r[i] \in Nat, r[i + 1] \in Nat
               PROVE  r[i + 1] = r[i] + 1
    OBVIOUS
  <2>1. i \in 1..Len(r) /\ i + 1 \in 1..Len(r) /\ i + 1 \in 1..(Len(q) - 1)
    BY <1>1
  <2>2. r[i] = q[i + 1] /\ r[i + 1] = q[(i + 1) + 1]
    BY <1>1, <2>1
  <2> QED
    BY <2>1, <2>2 DEF Consecutive
<1>3. r # <<>> /\ r[1] \in Nat => r[1] = h + 1
  <2> SUFFICES ASSUME r # <<>>, r[1] \in Nat
               PROVE  r[1] = h + 1
    OBVIOUS
  <2>1. 1 \in 1..(Len(q) - 1) /\ 1 \in 1..Len(r)
    BY <1>1
  <2>2. r[1] = q[1 + 1]
    BY <1>1, <2>1
  <2> QED
    BY <1>1, <2>1, <2>2 DEF Consecutive
<1>4. ASSUME NEW n, Newest(q, l, n) PROVE Newest(r, h, n)
  <2>1. CASE r = <<>>
    <3>0. Len(q) = 1
      BY <1>1, <2>1
    <3>1. q[Len(q)] = h /\ q[Len(q)] \in Nat
      BY <1>1, <3>0
    <3>2. h = n
      BY <1>4, <3>1 DEF Newest
    <3> QED
      BY <2>1, <3>2 DEF Newest
  <2>2. CASE r # <<>>
    <3>1. r[Len(r)] = q[Len(q)]
      BY <1>1, <2>2
    <3> QED
      BY <1>4, <2>2, <3>1 DEF Newest
  <2> QED
    BY <2>1, <2>2
<1> QED
  BY <1>2, <1>3, <1>4 DEF Consecutive, r, h

\* A step that leaves a queue alone, and the newest chunk it should have.
LEMMA SteadyKept ==
  ASSUME NEW c \in Clients, Steady(c), queue'[c] = queue[c], last'[c] = last[c],
         Due(c)' => Due(c) /\ Reached(c)' = Reached(c)
  PROVE  Steady(c)'
BY DEF Steady

Broadcasting == {"snapshot", "put", "trim", "reput"}

\* A step outside of a broadcast.
LEMMA DueKept ==
  ASSUME produced' = produced, subscribers' \subseteq subscribers,
         \/ pc'[Source] = pc[Source] /\ todo'[Source] = todo[Source]
         \/ pc[Source] \notin Broadcasting /\ pc'[Source] \notin Broadcasting
  PROVE  \A c \in Clients : Due(c)' => Due(c) /\ Reached(c)' = Reached(c)
BY DEF Due, Reached, Waits, Broadcasting

\* A step that leaves the queues of those who keep up alone.
LEMMA AllSteady ==
  ASSUME Gapless,
         \A c \in Clients : Keeping(c)' =>
            /\ Keeping(c) /\ queue'[c] = queue[c] /\ last'[c] = last[c]
            /\ Due(c)' => Due(c) /\ Reached(c)' = Reached(c)
  PROVE  \A c \in Clients : Keeping(c)' => Steady(c)'
BY SteadyKept DEF Gapless

\* The steps of a client.
LEMMA ClientSteady ==
  ASSUME TypeInv, Gapless, NEW c \in Clients, ClientStep(c)
  PROVE  \A d \in Clients : Keeping(d)' => Steady(d)'
<1> USE ThreadAssumption
<1>1. CASE Subscribe(c)
  <2>1. UNCHANGED <<queue, pc, todo, produced, last, overrun>> /\ cpc[c] = "new"
    BY <1>1 DEF Subscribe
  <2>2. /\ \A d \in Clients : d # c => cpc'[d] = cpc[d]
        /\ subscribers' \subseteq subscribers \cup {c}
    BY <1>1 DEF Subscribe, TypeInv, TypeOK
  <2>3. queue[c] = <<>> /\ last[c] = 0
    BY <2>1 DEF Gapless, Outside
  <2>4. Steady(c)'
    <3>1. Consecutive(<<>>, 0)
      BY EmptySeq DEF Consecutive
    <3>2. \A n : Newest(<<>>, 0, n)
      BY DEF Newest
    <3>3. queue'[c] = <<>> /\ last'[c] = 0
      BY <2>1, <2>3
    <3> QED
      BY <3>1, <3>2, <3>3 DEF Steady
  <2>5. ASSUME NEW d \in Clients, d # c, Keeping(d)' PROVE Steady(d)'
    <3>1. Keeping(d) /\ (Due(d)' => Due(d)) /\ Reached(d)' = Reached(d)
      BY <2>1, <2>2, <2>5 DEF Keeping, Due, Reached, Waits
    <3>2. Steady(d)
      BY <3>1 DEF Gapless
    <3> QED
      BY <2>1, <3>1, <3>2, SteadyKept
  <2> QED
    BY <2>4, <2>5
<1>2. CASE Get(c)
  <2>1. /\ UNCHANGED <<subscribers, pc, todo, produced, overrun>> /\ cpc[c] = "reading"
        /\ queue[c] # <<>> /\ queue' = [queue EXCEPT ![c] = Tail(queue[c])]
    BY <1>2 DEF Get, DropHead, Empty
  <2>2. \A d \in Clients : Due(d)' = Due(d) /\ Reached(d)' = Reached(d)
    BY <2>1 DEF Due, Reached, Waits
  <2>3. ASSUME NEW d \in Clients, d # c, Keeping(d)' PROVE Steady(d)'
    <3>1. Keeping(d) /\ queue'[d] = queue[d] /\ last'[d] = last[d]
      BY <1>2, <2>1, <2>3 DEF Get, Keeping, TypeInv, TypeOK
    <3>2. Steady(d)
      BY <3>1 DEF Gapless
    <3> QED
      BY <2>2, <3>1, <3>2, SteadyKept
  <2>4. ASSUME Keeping(c)' PROVE Steady(c)'
    <3> DEFINE h == Head(queue[c])
    <3>1. h \notin Marks
      BY <1>2, <2>4 DEF Get, Keeping, TypeInv, TypeOK
    <3>2. last' = [last EXCEPT ![c] = h]
      BY <1>2, <3>1 DEF Get
    <3>3. last'[c] = h /\ queue'[c] = Tail(queue[c])
      BY <2>1, <3>2 DEF TypeInv, TypeOK
    <3>4. queue[c] \in Seq(Items) /\ h \in Items
      BY <2>1, QueueType, TailAt
    <3>5. h \in Nat \ {0}
      BY <3>1, <3>4, ItemFacts
    <3>6. Steady(c)
      BY <2>1, <2>4 DEF Keeping, Gapless
    <3>7. /\ Consecutive(Tail(queue[c]), h)
          /\ Due(c) => Newest(Tail(queue[c]), h, Reached(c))
      BY <2>1, <3>4, <3>5, <3>6, GetSteady DEF Steady
    <3> QED
      BY <2>2, <3>3, <3>7 DEF Steady
  <2> QED
    BY <2>3, <2>4
<1>3. CASE StopReading(c) \/ Unsubscribe(c)
  <2>1. /\ UNCHANGED <<queue, pc, todo, produced, last, overrun>> /\ subscribers' \subseteq subscribers
        /\ \A d \in Clients : cpc'[d] = "reading" => cpc[d] = "reading"
    BY <1>3 DEF StopReading, Unsubscribe, TypeInv, TypeOK
  <2> QED
    BY <2>1, DueKept, AllSteady DEF Keeping
<1> QED
  BY <1>1, <1>2, <1>3 DEF ClientStep, IterateTimeout, Disconnect

\* A chunk is read, and the subscribers are copied.
LEMMA ReadSteady ==
  ASSUME TypeInv, Gapless, ReadChunk \/ Snapshot
  PROVE  \A d \in Clients : Keeping(d)' => Steady(d)'
<1> USE ThreadAssumption
<1>1. UNCHANGED <<queue, cpc, last, subscribers, overrun>>
  BY DEF ReadChunk, Snapshot, clientVars
<1>2. CASE ReadChunk
  <2>1. pc[Source] = "read" /\ produced' = produced + 1 /\ produced \in Nat
    BY <1>2, BoundAssumption DEF ReadChunk, TypeInv, TypeOK
  <2>2. pc'[Source] = IF subscribers = {} THEN "read" ELSE "snapshot"
    BY <1>2 DEF ReadChunk, Goto, TypeInv, TypeOK, Threads
  <2>3. \A c \in Clients : Due(c)' => Due(c) /\ Reached(c)' = Reached(c)
    BY <1>1, <2>1, <2>2 DEF Due, Reached, Waits
  <2> QED
    BY <1>1, <2>3, AllSteady DEF Keeping
<1>3. CASE Snapshot
  <2>1. /\ pc[Source] = "snapshot" /\ produced' = produced
        /\ pc'[Source] = "put" /\ todo'[Source] = subscribers
    BY <1>3 DEF Snapshot, Advance, Goto, TypeInv, TypeOK, Threads
  <2>2. \A c \in Clients : Due(c)' => Due(c) /\ Reached(c)' = Reached(c)
    BY <1>1, <2>1 DEF Due, Reached, Waits
  <2> QED
    BY <1>1, <2>2, AllSteady DEF Keeping
<1> QED
  BY <1>2, <1>3

\* A queue with room gets the chunk in hand; who has none is not Keeping any more.
LEMMA PutsSteady ==
  ASSUME TypeInv, Gapless, NEW c \in Clients, Put(c)
  PROVE  \A d \in Clients : Keeping(d)' => Steady(d)'
<1> USE ThreadAssumption
<1>1. /\ UNCHANGED <<cpc, last, subscribers, produced>> /\ pc[Source] = "put"
      /\ c \in todo[Source] /\ todo'[Source] = todo[Source] \ {c}
  BY DEF Put, clientVars, TypeInv, TypeOK, Threads
<1>2. pc'[Source] \in {"put", "trim"}
  BY DEF Put, Goto, TypeInv, TypeOK, Threads
<1>3. \A d \in Clients : d # c => Due(d)' = Due(d) /\ Reached(d)' = Reached(d)
  BY <1>1, <1>2 DEF Due, Reached, Waits
<1>4. /\ \A d \in Clients : d # c => queue'[d] = queue[d]
      /\ \A d \in Clients : overrun[d] => overrun'[d]
  <2>1. CASE Full(c)
    BY <2>1, Zenon DEF Put, TypeInv, TypeOK
  <2>2. CASE ~Full(c)
    BY <2>2 DEF Put, PutItem, TypeInv, TypeOK
  <2> QED
    BY <2>1, <2>2
<1>5. ASSUME NEW d \in Clients, d # c, Keeping(d)' PROVE Steady(d)'
  <2>1. Keeping(d) /\ queue'[d] = queue[d] /\ last'[d] = last[d]
    BY <1>1, <1>4, <1>5 DEF Keeping
  <2>2. Steady(d)
    BY <2>1 DEF Gapless
  <2> QED
    BY <1>3, <1>5, <2>1, <2>2, SteadyKept
<1>6. ASSUME Keeping(c)' PROVE Steady(c)'
  <2>1. ~Full(c)
    <3>1. Full(c) => overrun'[c]
      BY Zenon DEF Put, TypeInv, TypeOK
    <3> QED
      BY <1>6, <3>1 DEF Keeping
  <2>2. queue'[c] = Append(queue[c], produced) /\ pc'[Source] = "put" /\ overrun' = overrun
    BY <1>1, <2>1 DEF Put, PutItem, TypeInv, TypeOK
  <2>3. produced \in Items /\ produced \in Nat \ {0}
    BY <1>1, BoundAssumption DEF TypeInv, TypeOK, InHand, Items
  <2>4. Steady(c)
    BY <1>1, <1>6, <2>2 DEF Keeping, Gapless
  <2>5. Newest(queue[c], last[c], produced - 1)
    BY <1>1, <2>4 DEF Steady, Due, Reached, Waits
  <2>6. /\ Consecutive(Append(queue[c], produced), last[c])
        /\ Newest(Append(queue[c], produced), last[c], produced)
    BY <2>3, <2>4, <2>5, PutSteady, QueueType DEF Steady
  <2>7. Reached(c)' = produced
    BY <1>1, <2>2 DEF Reached, Waits
  <2> QED
    BY <1>1, <2>2, <2>6, <2>7 DEF Steady
<1> QED
  BY <1>5, <1>6

\* The steps for queues that were found full.
LEMMA TrimSteady ==
  ASSUME TypeInv, MarkInv, Gapless, Trim \/ Reput
  PROVE  \A d \in Clients : Keeping(d)' => Steady(d)'
<1> USE ThreadAssumption
<1>1. /\ UNCHANGED <<cpc, last, subscribers, produced, overrun, todo>>
      /\ pc[Source] \in {"trim", "reput"} /\ pc'[Source] \in {"put", "reput"}
  BY DEF Trim, Reput, Advance, Goto, clientVars, TypeInv, TypeOK, Threads
<1>2. overrun[cur[Source]] /\ cur[Source] \in Clients
  BY <1>1 DEF MarkInv, OnlyFullTouched, TypeInv, InHand
<1>3. \A d \in Clients : d # cur[Source] => queue'[d] = queue[d]
  BY DEF Trim, Reput, DropHead, PutItem, TypeInv, TypeOK
<1>4. \A d \in Clients : Due(d)' = Due(d) /\ Reached(d)' = Reached(d)
  BY <1>1 DEF Due, Reached, Waits
<1> QED
  BY <1>1, <1>2, <1>3, <1>4, AllSteady DEF Keeping

\* The other steps of the source, and the kill.
LEMMA SourceSteady ==
  ASSUME TypeInv, MarkInv, Gapless,
         \/ BroadcastDone \/ EvictDone \/ EndOfFile
         \/ Restarted \/ RestartFailed \/ BroadcastError \/ Kill \/ UNCHANGED vars
         \/ \E c \in Clients : Evict(c)
  PROVE  \A d \in Clients : Keeping(d)' => Steady(d)'
<1> USE ThreadAssumption
<1>1. CASE BroadcastDone
  <2>1. /\ UNCHANGED <<queue, cpc, last, subscribers, produced, overrun, todo>>
        /\ pc[Source] = "put" /\ todo[Source] = {} /\ pc'[Source] \in {"read", "evict"}
    BY <1>1 DEF BroadcastDone, Goto, clientVars, TypeInv, TypeOK, Threads
  <2>2. \A d \in Clients : Due(d)' = Due(d) /\ Reached(d)' = Reached(d)
    BY <2>1 DEF Due, Reached, Waits
  <2> QED
    BY <2>1, <2>2, AllSteady DEF Keeping
<1>2. CASE EvictDone \/ EndOfFile \/ Restarted \/ RestartFailed \/ BroadcastError
  <2>1. /\ UNCHANGED <<queue, cpc, last, subscribers, produced, overrun>>
        /\ pc[Source] \notin Broadcasting /\ pc'[Source] \notin Broadcasting
    BY <1>2 DEF EvictDone, EndOfFile, Restarted, RestartFailed, BroadcastError, Advance, Goto,
                clientVars, TypeInv, TypeOK, Threads, Broadcasting
  <2> QED
    BY <2>1, DueKept, AllSteady DEF Keeping
<1>3. CASE Kill \/ UNCHANGED vars
  <2>1. /\ UNCHANGED <<queue, cpc, last, subscribers, produced, overrun, todo>>
        /\ pc'[Source] = pc[Source]
    BY <1>3 DEF Kill, Advance, Goto, clientVars, vars, TypeInv, TypeOK, Threads
  <2> QED
    BY <2>1, DueKept, AllSteady DEF Keeping
<1>4. ASSUME NEW c \in Clients, Evict(c)
      PROVE  \A d \in Clients : Keeping(d)' => Steady(d)'
  <2>1. /\ UNCHANGED <<queue, cpc, last, produced, overrun>> /\ subscribers' \subseteq subscribers
        /\ pc[Source] \notin Broadcasting /\ pc'[Source] \notin Broadcasting
    BY <1>4 DEF Evict, Goto, clientVars, TypeInv, TypeOK, Threads, Broadcasting
  <2> QED
    BY <2>1, DueKept, AllSteady DEF Keeping
<1> QED
  BY <1>1, <1>2, <1>3, <1>4

\* A close and a signal: a mark goes to the back, or the queue was found full.
LEMMA CloseSteady ==
  ASSUME TypeInv, MarkInv, Gapless, NEW t \in Threads, CloseStep(t)
  PROVE  \A d \in Clients : Keeping(d)' => Steady(d)'
<1> USE ThreadAssumption
<1>1. /\ UNCHANGED <<cpc, last, produced>> /\ subscribers' \subseteq subscribers
      /\ pc[t] \notin Broadcasting /\ pc'[t] \notin Broadcasting
      /\ \A u \in Threads \ {t} : pc'[u] = pc[u] /\ todo'[u] = todo[u]
  <2>1. CASE CloseSubscribers(t)
    BY <2>1 DEF CloseSubscribers, Goto, clientVars, TypeInv, TypeOK, Broadcasting
  <2>2. CASE \E c \in Clients : Signal(t, c)
    BY <2>2 DEF Signal, Goto, clientVars, TypeInv, TypeOK, Broadcasting
  <2>3. CASE Flush(t) \/ Resignal(t)
    BY <2>3 DEF Flush, Resignal, Advance, Goto, clientVars, TypeInv, TypeOK, Broadcasting
  <2>4. CASE SignalDone(t)
    <3>1. pc[t] = "signal" /\ \E l \in {"exited", "evict", "close"} : pc' = [pc EXCEPT ![t] = l]
      BY <2>4 DEF SignalDone, Goto, TypeInv, TypeOK
    <3> QED
      BY <2>4, <3>1 DEF SignalDone, clientVars, TypeInv, TypeOK, Broadcasting
  <2> QED
    BY <2>1, <2>2, <2>3, <2>4 DEF CloseStep
<1>2. \A d \in Clients : Due(d)' => Due(d) /\ Reached(d)' = Reached(d)
  <2>1. CASE t = Source
    BY <1>1, <2>1, DueKept
  <2>2. CASE t # Source
    <3>1. pc'[Source] = pc[Source] /\ todo'[Source] = todo[Source]
      BY <1>1, <2>2 DEF Threads
    <3> QED
      BY <1>1, <3>1, DueKept
  <2> QED
    BY <2>1, <2>2
<1>3. CASE CloseSubscribers(t) \/ SignalDone(t)
  <2>1. UNCHANGED <<queue, overrun>>
    BY <1>3 DEF CloseSubscribers, SignalDone
  <2> QED
    BY <1>1, <1>2, <2>1, AllSteady DEF Keeping
<1>4. CASE Flush(t) \/ Resignal(t)
  <2>1. pc[t] \in {"flush", "resignal"} /\ overrun' = overrun
    BY <1>4 DEF Flush, Resignal, Advance
  <2>2. overrun[cur[t]] /\ cur[t] \in Clients
    BY <2>1 DEF MarkInv, OnlyFullTouched, TypeInv, InHand, Threads
  <2>3. \A d \in Clients : d # cur[t] => queue'[d] = queue[d]
    BY <1>4 DEF Flush, Resignal, DropHead, PutItem, TypeInv, TypeOK
  <2> QED
    BY <1>1, <1>2, <2>1, <2>2, <2>3, AllSteady DEF Keeping
<1>5. ASSUME NEW c \in Clients, Signal(t, c)
      PROVE  \A d \in Clients : Keeping(d)' => Steady(d)'
  <2>1. CASE Full(c)
    <3>1. queue' = queue /\ overrun' = [overrun EXCEPT ![c] = TRUE]
      BY <1>5, <2>1, Zenon DEF Signal
    <3>2. \A d \in Clients : overrun[d] => overrun'[d]
      BY <3>1 DEF TypeInv, TypeOK
    <3> QED
      BY <1>1, <1>2, <3>1, <3>2, AllSteady DEF Keeping
  <2>2. CASE ~Full(c)
    <3> DEFINE x == MarkOf(t)
    <3>1. overrun' = overrun /\ queue' = [queue EXCEPT ![c] = Append(queue[c], x)] /\ x \in Marks
      BY <1>5, <2>2 DEF Signal, PutItem, MarkOf, Marks
    <3> HIDE DEF x
    <3>2. queue'[c] = Append(queue[c], x) /\ \A d \in Clients : d # c => queue'[d] = queue[d]
      BY <3>1 DEF TypeInv, TypeOK
    <3>3. \A d \in Clients : Keeping(d)' = Keeping(d)
      BY <1>1, <3>1 DEF Keeping
    <3>4. ASSUME NEW d \in Clients, d # c, Keeping(d)' PROVE Steady(d)'
      <4>1. Steady(d)
        BY <3>3, <3>4 DEF Gapless
      <4> QED
        BY <1>1, <1>2, <3>2, <3>4, <4>1, SteadyKept
    <3>5. ASSUME Keeping(c)' PROVE Steady(c)'
      <4>1. Consecutive(queue[c], last[c])
        BY <3>3, <3>5 DEF Gapless, Steady
      <4>2. /\ Consecutive(Append(queue[c], x), last[c])
            /\ \A n : Newest(Append(queue[c], x), last[c], n)
        BY <3>1, <4>1, MarkSteady, QueueType
      <4> QED
        BY <1>1, <3>2, <4>2 DEF Steady
    <3> QED
      BY <3>4, <3>5
  <2> QED
    BY <2>1, <2>2
<1> QED
  BY <1>3, <1>4, <1>5 DEF CloseStep

\* A client that has not subscribed stays unknown.
LEMMA StepOutside ==
  ASSUME TypeInv, Gapless, [Next]_vars, NEW c \in Clients, cpc'[c] = "new"
  PROVE  Outside(c)'
<1> USE ThreadAssumption
<1>1. ASSUME NEW d \in Clients, ClientStep(d) PROVE cpc[c] = "new" /\ Outside(c)'
  <2>1. cpc[c] = "new" /\ d # c
    BY <1>1 DEF ClientStep, Subscribe, Get, IterateTimeout, Disconnect, StopReading, Unsubscribe,
                TypeInv, TypeOK
  <2>2. /\ subscribers' \subseteq subscribers \cup {d} /\ queue'[c] = queue[c] /\ last'[c] = last[c]
        /\ UNCHANGED <<pc, todo, cur>>
    BY <1>1, <2>1 DEF ClientStep, Subscribe, Get, IterateTimeout, Disconnect, StopReading, Unsubscribe,
                DropHead, TypeInv, TypeOK
  <2>3. Outside(c)
    BY <2>1 DEF Gapless
  <2> QED
    BY <2>1, <2>2, <2>3 DEF Outside
<1>2. CASE cpc' = cpc
  <2>1. Outside(c)
    BY <1>2 DEF Gapless
  <2>2. CASE BroadcastStep
    <3>1. CASE Snapshot \/ BroadcastDone \/ EvictDone
      BY <2>1, <3>1 DEF Snapshot, BroadcastDone, EvictDone, Advance, Goto, clientVars, Outside,
                        TypeInv, TypeOK, Threads
    <3>2. CASE Trim \/ Reput
      BY <2>1, <3>2 DEF Trim, Reput, Advance, Goto, DropHead, PutItem, clientVars, Outside,
                        TypeInv, TypeOK, Threads
    <3>3. CASE \E d \in Clients : Put(d)
      BY <2>1, <3>3 DEF Put, Goto, PutItem, clientVars, Outside, TypeInv, TypeOK, Threads
    <3>4. CASE \E d \in Clients : Evict(d)
      BY <2>1, <3>4 DEF Evict, Goto, clientVars, Outside, TypeInv, TypeOK, Threads
    <3> QED
      BY <2>2, <3>1, <3>2, <3>3, <3>4 DEF BroadcastStep
  <2>3. CASE PipeStep \/ Kill \/ UNCHANGED vars
    BY <2>1, <2>3 DEF PipeStep, ReadChunk, EndOfFile, Restarted, RestartFailed, BroadcastError, Kill,
                      vars, Advance, Goto, clientVars, Outside, TypeInv, TypeOK, Threads
  <2>4. ASSUME NEW t \in Threads, CloseStep(t) PROVE Outside(c)'
    <3>1. CASE CloseSubscribers(t) \/ SignalDone(t)
      BY <2>1, <3>1 DEF CloseSubscribers, SignalDone, Goto, clientVars, Outside, TypeInv, TypeOK, Threads
    <3>2. CASE Flush(t) \/ Resignal(t)
      BY <2>1, <3>2 DEF Flush, Resignal, Advance, Goto, DropHead, PutItem, clientVars, Outside,
                        TypeInv, TypeOK, Threads
    <3>3. CASE \E d \in Clients : Signal(t, d)
      <4>1. PICK d \in Clients : Signal(t, d)
        BY <3>3
      <4>2. d # c /\ queue'[c] = queue[c] /\ last'[c] = last[c] /\ subscribers' = subscribers
        BY <2>1, <4>1 DEF Signal, PutItem, clientVars, Outside, TypeInv, TypeOK
      <4>3. \A s \in Threads : c \notin todo'[s]
        BY <2>1, <4>1, ZenonT(60) DEF Signal, Outside, TypeInv, TypeOK
      <4>4. /\ cur'[Source] # cur[Source] => cur'[Source] = d
            /\ cur'[Killer] # cur[Killer] => cur'[Killer] = d
        BY <4>1 DEF Signal, TypeInv, TypeOK, Threads
      <4>5. /\ pc'[Source] # pc[Source] => cur'[Source] = d
            /\ pc'[Killer] # pc[Killer] => cur'[Killer] = d
        BY <4>1 DEF Signal, Goto, TypeInv, TypeOK, Threads
      <4> QED
        BY <2>1, <4>2, <4>3, <4>4, <4>5 DEF Outside
    <3> QED
      BY <2>4, <3>1, <3>2, <3>3 DEF CloseStep
  <2> QED
    BY <1>1, <2>2, <2>3, <2>4 DEF Next
<1>3. CASE cpc' # cpc
  <2>1. \E d \in Clients : ClientStep(d)
    BY <1>3 DEF Next, BroadcastStep, Snapshot, Trim, Reput, BroadcastDone, EvictDone, Put, Evict,
                PipeStep, ReadChunk, EndOfFile, Restarted, RestartFailed, BroadcastError, Kill,
                CloseStep, CloseSubscribers, Flush, Resignal, SignalDone, Signal, vars, clientVars
  <2> QED
    BY <1>1, <2>1
<1> QED
  BY <1>2, <1>3

\* Gapless is kept by every step.
LEMMA StepGapless ==
  ASSUME TypeInv, MarkInv, Gapless, [Next]_vars
  PROVE  Gapless'
<1>1. \A d \in Clients : Keeping(d)' => Steady(d)'
  BY ClientSteady, ReadSteady, PutsSteady, TrimSteady, SourceSteady, CloseSteady
     DEF Next, BroadcastStep, PipeStep
<1> QED
  BY <1>1, StepOutside DEF Gapless

\* Gapless holds of an empty session.
LEMMA InitGapless == Init => Gapless
BY ThreadAssumption DEF Init, Gapless, Keeping, Outside, Threads

\* A client whose queue was never found full misses nothing: what it was given and
\* what waits for it are consecutive chunks, whoever else is trimmed, flushed or
\* evicted at the same time.
THEOREM NoGaps == Spec => []GapFree
<1>1. TypeInv /\ Gapless => GapFree
  <2> SUFFICES ASSUME TypeInv, Gapless, NEW c \in Clients, Keeping(c)
               PROVE  LET q == queue[c] IN
                      /\ \A i \in 1..(Len(q) - 1) :
                            q[i] \in Nat /\ q[i + 1] \in Nat => q[i + 1] = q[i] + 1
                      /\ q # <<>> /\ Head(q) \in Nat /\ last[c] # 0 => Head(q) = last[c] + 1
    BY DEF GapFree, Keeping
  <2>1. queue[c] # <<>> => Head(queue[c]) = queue[c][1]
    BY QueueType, TailAt
  <2> QED
    BY <2>1 DEF Gapless, Steady, Consecutive
<1> QED
  BY <1>1, InitTypeInv, StepTypeInv, InitMarkInv, StepMarkInv, InitGapless, StepGapless, PTL DEF Spec

===============================================================================
