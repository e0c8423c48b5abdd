------------------------- MODULE StreamSessionProofs -------------------------
(***************************************************************************)
(* For any set of clients, any queue bound and any number of chunks: the   *)
(* state of a stream session is well typed (so no queue outgrows           *)
(* queue_max), and no client is left reading a closed session without a    *)
(* sentinel unless its queue had been found full.                          *)
(***************************************************************************)
EXTENDS StreamSession, SequenceTheorems, TLAPS

\* What the type invariant needs to be inductive: a chunk is in hand while it is
\* broadcast, and a thread that deals with a full queue knows whose it is.
InHand ==
    /\ pc[Source] \in {"snapshot", "put", "trim", "reput"} => produced >= 1
    /\ pc[Source] \in {"trim", "reput", "flush", "resignal"} => cur[Source] \in Clients
    /\ pc[Killer] \in {"flush", "resignal"} => cur[Killer] \in Clients

TypeInv == TypeOK /\ InHand

\* Thread t still owes client c the sentinel of close_subscribers.
Owes(t, c) == Closing(t) /\ c \in todo[t]

\* Client c is reading and no writer has ever found its queue full.
Keeping(c) == cpc[c] = "reading" /\ ~overrun[c]

\* Such a client is subscribed until the close, and from then on has a sentinel
\* waiting or is owed one.
Marked ==
    /\ closed => subscribers = {}
    /\ \A c \in Clients : Keeping(c) =>
          IF closed THEN HasMark(c) \/ \E t \in Threads : Owes(t, c)
                    ELSE c \in subscribers

\* Only queues that were found full are trimmed, flushed or evicted.
OnlyFullTouched ==
    /\ \A c \in stale : overrun[c]
    /\ pc[Source] \in {"trim", "reput", "flush", "resignal"} => overrun[cur[Source]]
    /\ pc[Killer] \in {"flush", "resignal"} => overrun[cur[Killer]]

\* The strengthening of NoClientStranded.
MarkInv == Marked /\ OnlyFullTouched

IInv == TypeInv /\ MarkInv

-------------------------------------------------------------------------------
\* What one queue operation does to the items of a queue.

\* put_nowait: the item goes to the back, what was there stays.
LEMMA PutFacts ==
    ASSUME NEW q \in Seq(Items), NEW x \in Items
    PROVE  /\ Append(q, x) \in Seq(Items)
           /\ Len(Append(q, x)) = Len(q) + 1
           /\ (\E i \in 1..Len(q) : q[i] \in Marks)
                => \E i \in 1..Len(Append(q, x)) : Append(q, x)[i] \in Marks
           /\ x \in Marks => \E i \in 1..Len(Append(q, x)) : Append(q, x)[i] \in Marks
<1>1. /\ Append(q, x) \in Seq(Items)
      /\ Len(Append(q, x)) = Len(q) + 1
      /\ \A i \in 1..Len(q) : Append(q, x)[i] = q[i]
      /\ Append(q, x)[Len(q) + 1] = x
  BY AppendProperties
<1>2. Len(q) \in Nat
  BY LenProperties
<1>3. (\E i \in 1..Len(q) : q[i] \in Marks)
        => \E i \in 1..Len(Append(q, x)) : Append(q, x)[i] \in Marks
  BY <1>1, <1>2
<1>4. x \in Marks => \E i \in 1..Len(Append(q, x)) : Append(q, x)[i] \in Marks
  BY <1>1, <1>2
<1> QED
  BY <1>1, <1>3, <1>4

\* get_nowait: the item at the front leaves, a sentinel behind it stays.
LEMMA GetFacts ==
    ASSUME NEW q \in Seq(Items), q # <<>>
    PROVE  /\ Head(q) \in Items
           /\ Tail(q) \in Seq(Items)
           /\ Len(Tail(q)) = Len(q) - 1
           /\ Len(q) \in Nat
           /\ Head(q) \notin Marks /\ (\E i \in 1..Len(q) : q[i] \in Marks)
                => \E i \in 1..Len(Tail(q)) : Tail(q)[i] \in Marks
<1>1. /\ Head(q) \in Items
      /\ Tail(q) \in Seq(Items)
      /\ Len(Tail(q)) = Len(q) - 1
      /\ \A i \in 1..Len(Tail(q)) : Tail(q)[i] = q[i + 1]
  BY HeadTailProperties
<1>2. Len(q) \in Nat /\ Head(q) = q[1]
  BY LenProperties
<1>3. ASSUME Head(q) \notin Marks, NEW i \in 1..Len(q), q[i] \in Marks
      PROVE  \E j \in 1..Len(Tail(q)) : Tail(q)[j] \in Marks
  <2>1. i - 1 \in 1..Len(Tail(q))
    BY <1>1, <1>2, <1>3
  <2>2. Tail(q)[i - 1] = q[i]
    BY <1>1, <1>2, <2>1
  <2> QED
    BY <1>3, <2>1, <2>2
<1> QED
  BY <1>1, <1>2, <1>3

\* The queues have their type and their bound.
QueuesTyped ==
    /\ queue \in [Clients -> Seq(Items)]
    /\ \A c \in Clients : Len(queue[c]) <= QueueMax

\* put_nowait on a queue with room, seen from all the queues.
LEMMA PutQueues ==
    ASSUME QueuesTyped, NEW c \in Clients, NEW x \in Items, ~Full(c), PutItem(c, x)
    PROVE  /\ QueuesTyped'
           /\ \A d \in Clients : HasMark(d) => HasMark(d)'
           /\ x \in Marks => HasMark(c)'
<1> DEFINE q == queue[c]
<1>1. q \in Seq(Items) /\ Len(q) \in Nat
  BY LenProperties DEF QueuesTyped
<1>2. /\ Append(q, x) \in Seq(Items)
      /\ Len(Append(q, x)) = Len(q) + 1
      /\ (\E i \in 1..Len(q) : q[i] \in Marks)
           => \E i \in 1..Len(Append(q, x)) : Append(q, x)[i] \in Marks
      /\ x \in Marks => \E i \in 1..Len(Append(q, x)) : Append(q, x)[i] \in Marks
  <2> HIDE DEF q
  <2> QED
    BY <1>1, PutFacts
<1>3. queue' = [queue EXCEPT ![c] = Append(q, x)]
  BY DEF PutItem
<1>4. queue'[c] = Append(q, x) /\ \A d \in Clients \ {c} : queue'[d] = queue[d]
  BY <1>3 DEF QueuesTyped
<1>5. Len(q) + 1 <= QueueMax
  BY <1>1, QueueAssumption DEF Full
<1> HIDE DEF q
<1>6. queue' \in [Clients -> Seq(Items)]
  BY <1>2, <1>3 DEF QueuesTyped
<1>7. \A d \in Clients : Len(queue'[d]) <= QueueMax
  BY <1>2, <1>4, <1>5 DEF QueuesTyped
<1>8. \A d \in Clients \ {c} : HasMark(d) => HasMark(d)'
  BY <1>4 DEF HasMark
<1>9. (HasMark(c) => HasMark(c)') /\ (x \in Marks => HasMark(c)')
  BY <1>2, <1>4 DEF HasMark, q
<1> QED
  BY <1>6, <1>7, <1>8, <1>9 DEF QueuesTyped

\* get_nowait on a queue with an item, seen from all the queues.
LEMMA DropQueues ==
    ASSUME QueuesTyped, NEW c \in Clients, ~Empty(c), DropHead(c)
    PROVE  /\ QueuesTyped'
           /\ Head(queue[c]) \in Items
           /\ \A d \in Clients \ {c} : HasMark(d) => HasMark(d)'
           /\ Head(queue[c]) \notin Marks => (HasMark(c) => HasMark(c)')
<1> DEFINE q == queue[c]
<1>1. q \in Seq(Items) /\ q # <<>>
  BY DEF QueuesTyped, Empty
<1>2. /\ Head(q) \in Items
      /\ Tail(q) \in Seq(Items)
      /\ Len(Tail(q)) = Len(q) - 1
      /\ Len(q) \in Nat
      /\ Head(q) \notin Marks /\ (\E i \in 1..Len(q) : q[i] \in Marks)
           => \E i \in 1..Len(Tail(q)) : Tail(q)[i] \in Marks
  <2> HIDE DEF q
  <2> QED
    BY <1>1, GetFacts
<1>3. queue' = [queue EXCEPT ![c] = Tail(q)]
  BY DEF DropHead
<1>4. queue'[c] = Tail(q) /\ \A d \in Clients \ {c} : queue'[d] = queue[d]
  BY <1>3 DEF QueuesTyped
<1>5. Len(q) <= QueueMax
  BY DEF QueuesTyped
<1>6. Head(q) \notin Marks => (HasMark(c) => HasMark(c)')
  BY <1>2, <1>4 DEF HasMark
<1>7. Head(queue[c]) = Head(q)
  OBVIOUS
<1> HIDE DEF q
<1>8. queue' \in [Clients -> Seq(Items)]
  BY <1>2, <1>3 DEF QueuesTyped
<1>9. \A d \in Clients : Len(queue'[d]) <= QueueMax
  BY <1>2, <1>4, <1>5, QueueAssumption, SMTT(60) DEF QueuesTyped
<1>10. \A d \in Clients \ {c} : HasMark(d) => HasMark(d)'
  BY <1>4 DEF HasMark
<1> QED
  BY <1>2, <1>6, <1>7, <1>8, <1>9, <1>10 DEF QueuesTyped

-------------------------------------------------------------------------------
\* The type invariant.

\* The strengthened type invariant holds at first ...
LEMMA InitTypeInv == Init => TypeInv
<1> SUFFICES ASSUME Init PROVE TypeInv
  OBVIOUS
<1>1. \A c \in Clients : queue[c] = <<>> /\ Len(queue[c]) = 0
  BY DEF Init
<1>2. queue \in [Clients -> Seq(Items)]
  BY EmptySeq DEF Init
<1>3. \A c \in Clients : Len(queue[c]) <= QueueMax
  <2>1. 0 <= QueueMax
    BY QueueAssumption
  <2> QED
    BY <1>1, <2>1, Zenon
<1>4. /\ pc \in [Threads -> SourcePCs \cup KillerPCs]
      /\ pc[Source] = "read" /\ pc[Killer] = "idle"
  BY ThreadAssumption DEF Init, Threads, SourcePCs, KillerPCs
<1>5. produced \in 0..MaxChunks /\ last \in [Clients -> 0..MaxChunks]
  BY BoundAssumption DEF Init
<1>6. InHand
  BY <1>4 DEF InHand
<1>7. /\ todo \in [Threads -> SUBSET Clients]
      /\ cur \in [Threads -> Clients \cup {None}]
      /\ cpc \in [Clients -> {"new", "reading", "leaving", "gone"}]
      /\ overrun \in [Clients -> BOOLEAN]
      /\ ended \in [Clients -> Marks \cup {None}]
  BY DEF Init
<1>8. /\ subscribers \in SUBSET Clients /\ stale \in SUBSET Clients
      /\ failed \in SUBSET Clients /\ closed \in BOOLEAN
      /\ phase \in {"evict", "error", "close"}
  BY DEF Init
<1> QED
  BY <1>2, <1>3, <1>4, <1>5, <1>6, <1>7, <1>8 DEF TypeInv, TypeOK, SourcePCs, KillerPCs

\* ... and every step keeps it.
LEMMA StepTypeInv == TypeInv /\ [Next]_vars => TypeInv'
<1> SUFFICES ASSUME TypeInv, [Next]_vars PROVE TypeInv'
  OBVIOUS
<1> USE QueueAssumption, BoundAssumption, ThreadAssumption, MarkAssumption
<1>1. QueuesTyped
  BY DEF QueuesTyped, TypeInv, TypeOK
<1>2. ASSUME NEW c \in Clients, Subscribe(c) PROVE TypeInv'
  BY <1>2, ZenonT(60) DEF Subscribe, TypeInv, TypeOK, InHand
<1>3. ASSUME NEW c \in Clients, Get(c) PROVE TypeInv'
  <2>1. Head(queue[c]) \in Items /\ QueuesTyped'
    BY <1>1, <1>3, DropQueues DEF Get
  <2>2. /\ last \in [Clients -> 0..MaxChunks]
        /\ ended \in [Clients -> Marks \cup {None}]
        /\ cpc \in [Clients -> {"new", "reading", "leaving", "gone"}]
    BY DEF TypeInv, TypeOK
  <2>3. Head(queue[c]) \notin Marks => Head(queue[c]) \in 0..MaxChunks
    BY <2>1 DEF Items
  <2>4. /\ last' \in [Clients -> 0..MaxChunks]
        /\ ended' \in [Clients -> Marks \cup {None}]
        /\ cpc' \in [Clients -> {"new", "reading", "leaving", "gone"}]
    <3>1. CASE Head(queue[c]) \in Marks
      BY <1>3, <2>2, <3>1 DEF Get
    <3>2. CASE Head(queue[c]) \notin Marks
      BY <1>3, <2>2, <2>3, <3>2 DEF Get
    <3> QED
      BY <3>1, <3>2
  <2> QED
    BY <1>3, <2>1, <2>4 DEF Get, QueuesTyped, TypeInv, TypeOK, InHand
<1>4. ASSUME NEW c \in Clients, StopReading(c) PROVE TypeInv'
  BY <1>4 DEF StopReading, TypeInv, TypeOK, InHand
<1>5. ASSUME NEW c \in Clients, Unsubscribe(c) PROVE TypeInv'
  BY <1>5 DEF Unsubscribe, TypeInv, TypeOK, InHand
<1>6. CASE ReadChunk
  BY <1>6 DEF ReadChunk, Goto, clientVars, TypeInv, TypeOK, InHand, Threads, SourcePCs
<1>7. CASE Snapshot
  BY <1>7 DEF Snapshot, Advance, Goto, clientVars, TypeInv, TypeOK, InHand, Threads,
              SourcePCs
<1>8. ASSUME NEW c \in Clients, Put(c) PROVE TypeInv'
  <2>1. produced \in Items
    BY <1>8 DEF Put, TypeInv, TypeOK, InHand, Items
  <2>2. QueuesTyped'
    BY <1>1, <1>8, <2>1, PutQueues DEF Put, QueuesTyped
  <2>3. pc' \in [Threads -> SourcePCs \cup KillerPCs] /\ pc'[Source] \in {"put", "trim"}
        /\ pc'[Killer] = pc[Killer]
    BY <1>8 DEF Put, Goto, TypeInv, TypeOK, Threads, SourcePCs
  <2>4. /\ todo' \in [Threads -> SUBSET Clients]
        /\ cur' \in [Threads -> Clients \cup {None}]
    BY <1>8 DEF Put, TypeInv, TypeOK, Threads
  <2>6. overrun' \in [Clients -> BOOLEAN]
    <3>1. overrun' = [overrun EXCEPT ![c] = TRUE] \/ overrun' = overrun
      BY <1>8 DEF Put
    <3> QED
      BY <3>1 DEF TypeInv, TypeOK
  <2>5. InHand'
    BY <1>8, <2>3 DEF Put, Goto, TypeInv, TypeOK, InHand, Threads
  <2> QED
    BY <1>8, <2>2, <2>3, <2>4, <2>5, <2>6
       DEF QueuesTyped, Put, clientVars, TypeInv, TypeOK, SourcePCs
<1>9. CASE Trim
  <2>1. cur[Source] \in Clients
    BY <1>9 DEF Trim, TypeInv, InHand
  <2>2. QueuesTyped'
    BY <1>1, <1>9, <2>1, DropQueues DEF Trim, QueuesTyped
  <2> QED
    BY <1>9, <2>1, <2>2 DEF QueuesTyped, Trim, Goto, clientVars, TypeInv, TypeOK, InHand, Threads,
                            SourcePCs
<1>10. CASE Reput
  <2>1. cur[Source] \in Clients /\ produced \in Items
    BY <1>10 DEF Reput, Advance, TypeInv, TypeOK, InHand, Items
  <2>2. QueuesTyped'
    BY <1>1, <1>10, <2>1, PutQueues DEF Reput, QueuesTyped
  <2> QED
    BY <1>10, <2>1, <2>2 DEF QueuesTyped, Reput, Advance, Goto, clientVars, TypeInv, TypeOK, InHand,
                             Threads, SourcePCs
<1>11. CASE BroadcastDone
  BY <1>11 DEF BroadcastDone, Goto, clientVars, TypeInv, TypeOK, InHand, Threads, SourcePCs
<1>12. ASSUME NEW c \in Clients, Evict(c) PROVE TypeInv'
  BY <1>12 DEF Evict, Goto, clientVars, TypeInv, TypeOK, InHand, Threads, SourcePCs
<1>13. CASE EvictDone
  BY <1>13 DEF EvictDone, Advance, Goto, clientVars, TypeInv, TypeOK, InHand, Threads,
               SourcePCs
<1>14. CASE EndOfFile \/ Restarted \/ RestartFailed
  BY <1>14, SMTT(60) DEF EndOfFile, Restarted, RestartFailed, Advance, Goto, clientVars, TypeInv,
               TypeOK, InHand, Threads, SourcePCs
<1>15. CASE BroadcastError
  BY <1>15 DEF BroadcastError, Advance, Goto, clientVars, TypeInv, TypeOK, InHand,
               Threads, SourcePCs
<1>16. CASE Kill
  BY <1>16 DEF Kill, Advance, Goto, clientVars, TypeInv, TypeOK, InHand, Threads, KillerPCs
<1>17. ASSUME NEW t \in Threads, CloseSubscribers(t) PROVE TypeInv'
  <2>1. /\ pc' = [pc EXCEPT ![t] = "exited"] \/ pc' = [pc EXCEPT ![t] = "signal"]
        /\ cur' = cur /\ produced' = produced /\ queue' = queue
    BY <1>17 DEF CloseSubscribers, Goto
  <2>2. /\ pc' \in [Threads -> SourcePCs \cup KillerPCs]
        /\ pc'[Source] \in SourcePCs /\ pc'[Killer] \in KillerPCs
    BY <2>1 DEF TypeInv, TypeOK, Threads, SourcePCs, KillerPCs
  <2>3. InHand'
    BY <2>1 DEF TypeInv, TypeOK, InHand, Threads
  <2>4. /\ todo' \in [Threads -> SUBSET Clients] /\ subscribers' \in SUBSET Clients
        /\ phase' \in {"evict", "error", "close"}
    <3>1. \/ todo' = todo /\ subscribers' = subscribers /\ phase' = phase
          \/ /\ todo' = [todo EXCEPT ![t] = subscribers] /\ subscribers' = {}
             /\ phase' \in {"close", phase}
      BY <1>17 DEF CloseSubscribers
    <3> QED
      BY <3>1 DEF TypeInv, TypeOK
  <2>5. closed' \in BOOLEAN
    <3>1. CASE closed
      BY <1>17, <3>1, SMT DEF CloseSubscribers
    <3>2. CASE ~closed
      BY <1>17, <3>2, Zenon DEF CloseSubscribers
    <3> QED
      BY <3>1, <3>2
  <2> QED
    BY <1>17, <2>2, <2>3, <2>4, <2>5 DEF CloseSubscribers, clientVars, TypeInv, TypeOK
<1>18. ASSUME NEW t \in Threads, NEW c \in Clients, Signal(t, c) PROVE TypeInv'
  <2>1. MarkOf(t) \in Items
    BY DEF MarkOf, Items, Marks
  <2>2. QueuesTyped'
    BY <1>1, <1>18, <2>1, PutQueues DEF Signal, QueuesTyped
  <2>3. \/ pc' = pc /\ cur' = cur
        \/ pc' = [pc EXCEPT ![t] = "flush"] /\ cur' = [cur EXCEPT ![t] = c]
    BY <1>18 DEF Signal, Goto
  <2>4. /\ pc' \in [Threads -> SourcePCs \cup KillerPCs]
        /\ pc'[Source] \in SourcePCs /\ pc'[Killer] \in KillerPCs
    BY <2>3 DEF TypeInv, TypeOK, Threads, SourcePCs, KillerPCs
  <2>5. InHand'
    BY <1>18, <2>3 DEF Signal, TypeInv, TypeOK, InHand, Threads
  <2>6. /\ todo' \in [Threads -> SUBSET Clients]
        /\ cur' \in [Threads -> Clients \cup {None}]
    BY <1>18, <2>3 DEF Signal, TypeInv, TypeOK, Threads
  <2>7. overrun' \in [Clients -> BOOLEAN]
    <3>1. overrun' = [overrun EXCEPT ![c] = TRUE] \/ overrun' = overrun
      BY <1>18 DEF Signal
    <3> QED
      BY <3>1 DEF TypeInv, TypeOK
  <2> QED
    BY <1>18, <2>2, <2>4, <2>5, <2>6, <2>7 DEF QueuesTyped, Signal, clientVars, TypeInv, TypeOK
<1>19. ASSUME NEW t \in Threads, Flush(t) PROVE TypeInv'
  <2>1. cur[t] \in Clients
    BY <1>19 DEF Flush, TypeInv, InHand, Threads
  <2>2. QueuesTyped'
    BY <1>1, <1>19, <2>1, DropQueues DEF Flush, QueuesTyped
  <2> QED
    BY <1>19, <2>1, <2>2, SMTT(60) DEF QueuesTyped, Flush, Goto, clientVars, TypeInv, TypeOK, InHand, Threads,
                             SourcePCs, KillerPCs
<1>20. ASSUME NEW t \in Threads, Resignal(t) PROVE TypeInv'
  <2>1. cur[t] \in Clients /\ MarkOf(t) \in Items
    BY <1>20 DEF Resignal, Advance, TypeInv, InHand, Threads, MarkOf, Items, Marks
  <2>2. QueuesTyped'
    BY <1>1, <1>20, <2>1, PutQueues DEF Resignal, QueuesTyped
  <2> QED
    BY <1>20, <2>1, <2>2 DEF QueuesTyped, Resignal, Advance, Goto, clientVars, TypeInv, TypeOK, InHand,
                             Threads, SourcePCs, KillerPCs
<1>21. ASSUME NEW t \in Threads, SignalDone(t) PROVE TypeInv'
  BY <1>21 DEF SignalDone, Goto, clientVars, TypeInv, TypeOK, InHand, Threads, SourcePCs,
               KillerPCs
<1>22. CASE UNCHANGED vars
  BY <1>22 DEF vars, clientVars, TypeInv, TypeOK, InHand
<1> QED
  BY <1>2, <1>3, <1>4, <1>5, <1>6, <1>7, <1>8, <1>9, <1>10, <1>11, <1>12, <1>13, <1>14,
     <1>15, <1>16, <1>17, <1>18, <1>19, <1>20, <1>21, <1>22
     DEF Next, ClientStep, IterateTimeout, Disconnect, BroadcastStep, PipeStep, CloseStep

\* Every reachable state of the session is well typed; in particular no client's
\* queue ever holds more than queue_max items, whatever the two threads that write
\* to it do (_StreamSession.broadcast, _signal_queue).
THEOREM TypeCorrect == Spec => []TypeOK
<1>1. TypeInv => TypeOK
  BY DEF TypeInv
<1> QED
  BY <1>1, InitTypeInv, StepTypeInv, PTL DEF Spec

-------------------------------------------------------------------------------
\* No client is stranded.

\* A step that neither closes the session nor takes anything from a client that is
\* Keeping keeps Marked.
LEMMA MarkedKept ==
    ASSUME Marked, closed' = closed, subscribers' \subseteq subscribers,
           \A c \in Clients : Keeping(c)' =>
               /\ Keeping(c)
               /\ c \in subscribers => c \in subscribers'
               /\ HasMark(c) => HasMark(c)'
               /\ \A t \in Threads : Owes(t, c) => Owes(t, c)' \/ HasMark(c)'
    PROVE  Marked'
<1>1. closed' => subscribers' = {}
  BY DEF Marked
<1>2. ASSUME NEW c \in Clients, Keeping(c)'
      PROVE  IF closed' THEN HasMark(c)' \/ \E t \in Threads : Owes(t, c)'
                        ELSE c \in subscribers'
  <2>1. IF closed THEN HasMark(c) \/ \E t \in Threads : Owes(t, c)
                  ELSE c \in subscribers
    BY <1>2 DEF Marked
  <2> QED
    BY <1>2, <2>1
<1> QED
  BY <1>1, <1>2 DEF Marked

\* Nobody is owed an end mark at first ...
LEMMA InitMarkInv == Init => MarkInv
BY ThreadAssumption DEF Init, MarkInv, Marked, OnlyFullTouched, Keeping, Threads

\* ... and every step keeps what is owed.
LEMMA StepMarkInv == TypeInv /\ MarkInv /\ [Next]_vars => MarkInv'
<1> SUFFICES ASSUME TypeInv, MarkInv, [Next]_vars PROVE MarkInv'
  OBVIOUS
<1> USE ThreadAssumption
<1>1. QueuesTyped
  BY DEF QueuesTyped, TypeInv, TypeOK
<1>2. ASSUME NEW c \in Clients, Subscribe(c) PROVE MarkInv'
  <2>1. OnlyFullTouched'
    BY <1>2 DEF Subscribe, MarkInv, OnlyFullTouched
  <2>2. CASE closed
    <3>1. \A d \in Clients : Keeping(d)' => Keeping(d)
      BY <1>2, <2>2 DEF Subscribe, Keeping, TypeInv, TypeOK
    <3>2. Marked'
      BY <1>2, <2>2, <3>1, MarkedKept
         DEF Subscribe, MarkInv, HasMark, Owes, Closing
    <3> QED
      BY <2>1, <3>2 DEF MarkInv
  <2>3. CASE ~closed
    <3>1. Marked'
      BY <1>2, <2>3 DEF Subscribe, MarkInv, Marked, Keeping, TypeInv, TypeOK
    <3> QED
      BY <2>1, <3>1 DEF MarkInv
  <2> QED
    BY <2>2, <2>3
<1>3. ASSUME NEW c \in Clients, Get(c) PROVE MarkInv'
  <2>1. OnlyFullTouched'
    BY <1>3 DEF Get, MarkInv, OnlyFullTouched
  <2>2. /\ \A d \in Clients \ {c} : HasMark(d) => HasMark(d)'
        /\ Head(queue[c]) \notin Marks => (HasMark(c) => HasMark(c)')
    BY <1>1, <1>3, DropQueues DEF Get
  <2>3. \A d \in Clients : Keeping(d)' => Keeping(d)
    BY <1>3 DEF Get, Keeping, TypeInv, TypeOK
  <2>4. Head(queue[c]) \in Marks => ~Keeping(c)'
    BY <1>3 DEF Get, Keeping, TypeInv, TypeOK
  <2>5. Marked'
    BY <1>3, <2>2, <2>3, <2>4, MarkedKept DEF Get, MarkInv, Owes, Closing
  <2> QED
    BY <2>1, <2>5 DEF MarkInv
<1>4. ASSUME NEW c \in Clients, StopReading(c) PROVE MarkInv'
  <2>1. OnlyFullTouched'
    BY <1>4 DEF StopReading, MarkInv, OnlyFullTouched
  <2>2. \A d \in Clients : Keeping(d)' => Keeping(d)
    BY <1>4 DEF StopReading, Keeping, TypeInv, TypeOK
  <2>3. Marked'
    BY <1>4, <2>2, MarkedKept DEF StopReading, MarkInv, HasMark, Owes, Closing
  <2> QED
    BY <2>1, <2>3 DEF MarkInv
<1>5. ASSUME NEW c \in Clients, Unsubscribe(c) PROVE MarkInv'
  <2>1. OnlyFullTouched'
    BY <1>5 DEF Unsubscribe, MarkInv, OnlyFullTouched
  <2>2. \A d \in Clients : Keeping(d)' => Keeping(d) /\ d # c
    BY <1>5 DEF Unsubscribe, Keeping, TypeInv, TypeOK
  <2>3. Marked'
    BY <1>5, <2>2, MarkedKept DEF Unsubscribe, MarkInv, HasMark, Owes, Closing
  <2> QED
    BY <2>1, <2>3 DEF MarkInv
\* The steps of the source that touch neither queues nor subscriptions.
<1>6. ASSUME \/ ReadChunk \/ Snapshot \/ BroadcastDone \/ EvictDone \/ EndOfFile
             \/ Restarted \/ RestartFailed \/ BroadcastError
      PROVE  MarkInv'
  <2>1. /\ queue' = queue /\ cpc' = cpc /\ overrun' = overrun /\ stale' = stale
        /\ subscribers' = subscribers /\ closed' = closed /\ cur' = cur
    BY <1>6 DEF ReadChunk, Snapshot, BroadcastDone, EvictDone, EndOfFile, Restarted,
                RestartFailed, BroadcastError, clientVars
  <2>2. /\ ~Closing(Source) /\ todo'[Killer] = todo[Killer]
        /\ pc'[Source] \notin {"trim", "reput", "flush", "resignal"}
        /\ pc'[Killer] = pc[Killer]
    <3>1. CASE ReadChunk
      BY <3>1 DEF ReadChunk, Goto, clientVars, Closing, TypeInv, TypeOK, Threads
    <3>2. CASE Snapshot \/ BroadcastDone \/ EvictDone
      BY <3>2 DEF Snapshot, BroadcastDone, EvictDone, Advance, Goto, clientVars, Closing,
                  TypeInv, TypeOK, Threads
    <3>3. CASE EndOfFile \/ Restarted \/ RestartFailed
      BY <3>3 DEF EndOfFile, Restarted, RestartFailed, Advance, Goto, clientVars, Closing,
                  TypeInv, TypeOK, Threads
    <3>4. CASE BroadcastError
      BY <3>4 DEF BroadcastError, Advance, Goto, clientVars, Closing, TypeInv, TypeOK,
                  Threads
    <3> QED
      BY <1>6, <3>1, <3>2, <3>3, <3>4
  <2>3. Marked'
    BY <2>1, <2>2, MarkedKept DEF MarkInv, HasMark, Keeping, Owes, Closing, Threads
  <2>4. OnlyFullTouched'
    BY <2>1, <2>2 DEF MarkInv, OnlyFullTouched
  <2> QED
    BY <2>3, <2>4 DEF MarkInv
<1>7. CASE Kill
  <2>1. /\ queue' = queue /\ cpc' = cpc /\ overrun' = overrun /\ stale' = stale
        /\ subscribers' = subscribers /\ closed' = closed /\ cur' = cur
        /\ todo' = todo /\ phase' = phase
    BY <1>7 DEF Kill, clientVars
  <2>2. /\ pc'[Source] = pc[Source] /\ pc[Killer] = "idle" /\ pc'[Killer] = "close"
    BY <1>7 DEF Kill, Advance, Goto, TypeInv, TypeOK, Threads
  <2>3. Marked'
    BY <2>1, <2>2, MarkedKept DEF MarkInv, HasMark, Keeping, Owes, Closing, Threads
  <2>4. OnlyFullTouched'
    BY <2>1, <2>2 DEF MarkInv, OnlyFullTouched
  <2> QED
    BY <2>3, <2>4 DEF MarkInv
\* The source puts a chunk: a queue found full is recorded before it is trimmed.
<1>8. ASSUME NEW c \in Clients, Put(c) PROVE MarkInv'
  <2>1. /\ ~Closing(Source) /\ ~Closing(Source)' /\ pc'[Killer] = pc[Killer]
        /\ todo'[Killer] = todo[Killer] /\ cur'[Killer] = cur[Killer]
    BY <1>8 DEF Put, Goto, Closing, TypeInv, TypeOK, Threads
  <2>2. /\ \A d \in Clients : overrun[d] => overrun'[d]
        /\ pc'[Source] = "trim" => overrun'[cur'[Source]]
        /\ pc'[Source] \in {"put", "trim"}
    <3>1. CASE Full(c)
      BY <1>8, <3>1, ZenonT(60) DEF Put, Goto, TypeInv, TypeOK, Threads
    <3>2. CASE ~Full(c)
      BY <1>8, <3>2 DEF Put, Goto, TypeInv, TypeOK, Threads
    <3> QED
      BY <3>1, <3>2
  <2>3. \A d \in Clients : HasMark(d) => HasMark(d)'
    <3>1. CASE Full(c)
      BY <1>8, <3>1 DEF Put, HasMark
    <3>2. CASE ~Full(c)
      <4>1. produced \in Items
        BY <1>8 DEF Put, TypeInv, TypeOK, InHand, Items
      <4> QED
        BY <1>1, <1>8, <3>2, <4>1, PutQueues DEF Put
    <3> QED
      BY <3>1, <3>2
  <2>4. \A d \in Clients : Keeping(d)' => Keeping(d)
    BY <1>8, <2>2 DEF Put, Keeping, clientVars
  <2>5. \A d \in Clients, t \in Threads : Owes(t, d) => Owes(t, d)'
    BY <1>8, <2>1 DEF Put, Owes, Closing, Threads
  <2>6. Marked'
    BY <1>8, <2>3, <2>4, <2>5, MarkedKept DEF Put, MarkInv
  <2>7. OnlyFullTouched'
    BY <1>8, <2>1, <2>2 DEF Put, MarkInv, OnlyFullTouched, TypeInv, TypeOK, InHand
  <2> QED
    BY <2>6, <2>7 DEF MarkInv
<1>9. CASE Trim
  <2>1. /\ cur[Source] \in Clients /\ overrun[cur[Source]]
    BY <1>9 DEF Trim, TypeInv, InHand, MarkInv, OnlyFullTouched
  <2>2. /\ ~Closing(Source) /\ ~Closing(Source)' /\ pc'[Killer] = pc[Killer]
        /\ cur'[Killer] = cur[Killer]
        /\ pc'[Source] \in {"put", "reput"}
        /\ pc'[Source] = "reput" => cur' = cur
    <3>1. CASE Empty(cur[Source])
      BY <1>9, <3>1 DEF Trim, Goto, Closing, TypeInv, TypeOK, Threads
    <3>2. CASE ~Empty(cur[Source])
      BY <1>9, <3>2 DEF Trim, Goto, Closing, TypeInv, TypeOK, Threads
    <3> QED
      BY <3>1, <3>2
  <2>3. \A d \in Clients : ~overrun[d] => (HasMark(d) => HasMark(d)')
    <3>1. CASE Empty(cur[Source])
      BY <1>9, <3>1 DEF Trim, HasMark
    <3>2. CASE ~Empty(cur[Source])
      <4>1. DropHead(cur[Source])
        BY <1>9, <3>2 DEF Trim
      <4> QED
        BY <1>1, <2>1, <3>2, <4>1, DropQueues
    <3> QED
      BY <3>1, <3>2
  <2>4. \A d \in Clients, t \in Threads : Owes(t, d) => Owes(t, d)'
    BY <1>9, <2>2 DEF Trim, Owes, Closing, Threads
  <2>5. \A d \in Clients : Keeping(d)' => Keeping(d)
    BY <1>9 DEF Trim, Keeping, clientVars
  <2>6. Marked'
    BY <1>9, <2>3, <2>4, <2>5, MarkedKept DEF Trim, MarkInv, Keeping
  <2>7. OnlyFullTouched'
    <3>1. overrun' = overrun /\ stale' \subseteq stale \cup {cur[Source]}
      BY <1>9 DEF Trim
    <3>2. pc'[Source] = "reput" => overrun'[cur'[Source]]
      BY <2>1, <2>2, <3>1
    <3> QED
      BY <2>1, <2>2, <3>1, <3>2 DEF MarkInv, OnlyFullTouched
  <2> QED
    BY <2>6, <2>7 DEF MarkInv
<1>10. CASE Reput
  <2>1. /\ cur[Source] \in Clients /\ overrun[cur[Source]] /\ produced \in Items
    BY <1>10 DEF Reput, Advance, TypeInv, TypeOK, InHand, MarkInv, OnlyFullTouched, Items
  <2>2. /\ ~Closing(Source) /\ ~Closing(Source)' /\ pc'[Killer] = pc[Killer]
        /\ cur'[Killer] = cur[Killer] /\ pc'[Source] = "put"
    BY <1>10 DEF Reput, Advance, Goto, Closing, TypeInv, TypeOK, Threads
  <2>3. \A d \in Clients : HasMark(d) => HasMark(d)'
    <3>1. CASE Full(cur[Source])
      BY <1>10, <3>1 DEF Reput, HasMark
    <3>2. CASE ~Full(cur[Source])
      <4>1. PutItem(cur[Source], produced)
        BY <1>10, <3>2 DEF Reput
      <4> QED
        BY <1>1, <2>1, <3>2, <4>1, PutQueues
    <3> QED
      BY <3>1, <3>2
  <2>4. \A d \in Clients, t \in Threads : Owes(t, d) => Owes(t, d)'
    BY <1>10, <2>2 DEF Reput, Owes, Closing, Threads
  <2>5. \A d \in Clients : Keeping(d)' => Keeping(d)
    BY <1>10 DEF Reput, Keeping, clientVars
  <2>6. Marked'
    BY <1>10, <2>3, <2>4, <2>5, MarkedKept DEF Reput, MarkInv
  <2>7. OnlyFullTouched'
    BY <1>10, <2>1, <2>2 DEF Reput, MarkInv, OnlyFullTouched
  <2> QED
    BY <2>6, <2>7 DEF MarkInv
\* A stale queue was full, so its client is not Keeping.
<1>11. ASSUME NEW c \in Clients, Evict(c) PROVE MarkInv'
  <2>1. overrun[c]
    BY <1>11 DEF Evict, MarkInv, OnlyFullTouched
  <2>2. /\ ~Closing(Source) /\ ~Closing(Source)' /\ pc'[Killer] = pc[Killer]
        /\ todo'[Killer] = todo[Killer] /\ pc'[Source] \in {"evict", "signal"}
    BY <1>11 DEF Evict, Goto, Closing, TypeInv, TypeOK, Threads
  <2>3. \A d \in Clients, t \in Threads : Owes(t, d) => Owes(t, d)'
    BY <2>2 DEF Owes, Closing, Threads
  <2>4. subscribers' \in {subscribers, subscribers \ {c}}
    BY <1>11 DEF Evict
  <2>5. Marked'
    BY <1>11, <2>1, <2>3, <2>4, MarkedKept DEF Evict, MarkInv, Keeping, HasMark, clientVars
  <2>6. OnlyFullTouched'
    BY <1>11, <2>2 DEF Evict, MarkInv, OnlyFullTouched
  <2> QED
    BY <2>5, <2>6 DEF MarkInv
\* The close: whoever is Keeping was subscribed and is now owed a sentinel.
<1>12. ASSUME NEW t \in Threads, CloseSubscribers(t) PROVE MarkInv'
  <2>1. /\ cpc' = cpc /\ queue' = queue /\ overrun' = overrun /\ stale' = stale /\ cur' = cur
        /\ ~Closing(t) /\ pc'[t] \in {"signal", "exited"}
        /\ \A u \in Threads \ {t} : pc'[u] = pc[u]
    BY <1>12 DEF CloseSubscribers, Goto, clientVars, Closing, TypeInv, TypeOK, Threads
  <2>2. OnlyFullTouched'
    BY <2>1 DEF MarkInv, OnlyFullTouched, Threads
  <2>3. CASE closed
    <3>1. closed' = closed /\ subscribers' = subscribers /\ todo' = todo /\ phase' = phase
      BY <1>12, <2>3 DEF CloseSubscribers
    <3>2. Marked'
      BY <2>1, <3>1, MarkedKept DEF MarkInv, Keeping, HasMark, Owes, Closing, Threads
    <3> QED
      BY <2>2, <3>2 DEF MarkInv
  <2>4. CASE ~closed
    <3>1. /\ closed' /\ subscribers' = {} /\ todo'[t] = subscribers
          /\ pc'[t] = "signal" /\ (t = Source => phase' = "close")
      BY <1>12, <2>4 DEF CloseSubscribers, Goto, TypeInv, TypeOK
    <3>2. ASSUME NEW c \in Clients, Keeping(c)' PROVE Owes(t, c)'
      <4>1. c \in subscribers
        BY <2>1, <2>4, <3>2 DEF MarkInv, Marked, Keeping
      <4> QED
        BY <3>1, <4>1 DEF Owes, Closing
    <3>3. Marked'
      BY <3>1, <3>2 DEF Marked
    <3> QED
      BY <2>2, <3>3 DEF MarkInv
  <2> QED
    BY <2>3, <2>4
<1>13. ASSUME NEW t \in Threads, NEW c \in Clients, Signal(t, c) PROVE MarkInv'
  <2>1. /\ cpc' = cpc /\ closed' = closed /\ subscribers' = subscribers
        /\ stale' = stale /\ phase' = phase
    BY <1>13 DEF Signal, clientVars
  <2>2. CASE Full(c)
    <3>1. /\ queue' = queue /\ todo' = todo /\ pc'[t] = "flush" /\ pc[t] = "signal"
          /\ cur'[t] = c /\ overrun'[c] /\ \A d \in Clients : overrun[d] => overrun'[d]
          /\ \A u \in Threads \ {t} : pc'[u] = pc[u] /\ cur'[u] = cur[u]
      BY <1>13, <2>2 DEF Signal, Goto, TypeInv, TypeOK
    <3>2. Marked'
      BY <2>1, <3>1, MarkedKept DEF MarkInv, Keeping, HasMark, Owes, Closing, Threads
    <3>3. OnlyFullTouched'
      BY <2>1, <3>1 DEF MarkInv, OnlyFullTouched, Threads, TypeInv, TypeOK, InHand
    <3> QED
      BY <3>2, <3>3 DEF MarkInv
  <2>3. CASE ~Full(c)
    <3>1. /\ PutItem(c, MarkOf(t)) /\ overrun' = overrun /\ pc' = pc /\ cur' = cur
          /\ todo' = [todo EXCEPT ![t] = @ \ {c}]
      BY <1>13, <2>3 DEF Signal
    <3>2. MarkOf(t) \in Items /\ MarkOf(t) \in Marks
      BY DEF MarkOf, Items, Marks
    <3>3. (\A d \in Clients : HasMark(d) => HasMark(d)') /\ HasMark(c)'
      BY <1>1, <2>3, <3>1, <3>2, PutQueues
    <3>4. \A d \in Clients \ {c}, u \in Threads : Owes(u, d) => Owes(u, d)'
      BY <2>1, <3>1 DEF Owes, Closing, TypeInv, TypeOK
    <3>5. \A d \in Clients : Keeping(d)' => Keeping(d)
      BY <2>1, <3>1 DEF Keeping
    <3>6. Marked'
      BY <2>1, <3>3, <3>4, <3>5, MarkedKept DEF MarkInv
    <3>7. OnlyFullTouched'
      BY <2>1, <3>1 DEF MarkInv, OnlyFullTouched
    <3> QED
      BY <3>6, <3>7 DEF MarkInv
  <2> QED
    BY <2>2, <2>3
<1>14. ASSUME NEW t \in Threads, Flush(t) PROVE MarkInv'
  <2>1. /\ cur[t] \in Clients /\ overrun[cur[t]] /\ pc[t] = "flush"
    BY <1>14 DEF Flush, TypeInv, InHand, MarkInv, OnlyFullTouched, Threads
  <2>2. /\ cpc' = cpc /\ closed' = closed /\ subscribers' = subscribers /\ todo' = todo
        /\ stale' = stale /\ phase' = phase /\ overrun' = overrun /\ cur' = cur
        /\ pc'[t] \in {"flush", "resignal"} /\ \A u \in Threads \ {t} : pc'[u] = pc[u]
    BY <1>14, <2>1 DEF Flush, Goto, clientVars, TypeInv, TypeOK
  <2>3. \A d \in Clients : ~overrun[d] => (HasMark(d) => HasMark(d)')
    <3>1. CASE Empty(cur[t])
      BY <1>14, <3>1 DEF Flush, HasMark
    <3>2. CASE ~Empty(cur[t])
      <4>1. DropHead(cur[t])
        BY <1>14, <3>2 DEF Flush
      <4> QED
        BY <1>1, <2>1, <3>2, <4>1, DropQueues
    <3> QED
      BY <3>1, <3>2
  <2>4. \A d \in Clients, u \in Threads : Owes(u, d) => Owes(u, d)'
    BY <2>1, <2>2 DEF Owes, Closing
  <2>5. Marked'
    BY <2>2, <2>3, <2>4, MarkedKept DEF MarkInv, Keeping
  <2>6. OnlyFullTouched'
    BY <2>1, <2>2 DEF MarkInv, OnlyFullTouched, Threads
  <2> QED
    BY <2>5, <2>6 DEF MarkInv
<1>15. ASSUME NEW t \in Threads, Resignal(t) PROVE MarkInv'
  <2>1. /\ cur[t] \in Clients /\ overrun[cur[t]] /\ pc[t] = "resignal"
    BY <1>15 DEF Resignal, Advance, TypeInv, InHand, MarkInv, OnlyFullTouched, Threads
  <2>2. /\ cpc' = cpc /\ closed' = closed /\ subscribers' = subscribers /\ stale' = stale
        /\ phase' = phase /\ overrun' = overrun /\ todo' = [todo EXCEPT ![t] = @ \ {cur[t]}]
        /\ pc'[t] = "signal"
        /\ \A u \in Threads \ {t} : pc'[u] = pc[u] /\ cur'[u] = cur[u]
    BY <1>15 DEF Resignal, Advance, Goto, clientVars, TypeInv, TypeOK
  <2>3. \A d \in Clients : HasMark(d) => HasMark(d)'
    <3>1. CASE Full(cur[t])
      BY <1>15, <3>1 DEF Resignal, HasMark
    <3>2. CASE ~Full(cur[t])
      <4>1. PutItem(cur[t], MarkOf(t)) /\ MarkOf(t) \in Items
        BY <1>15, <3>2 DEF Resignal, MarkOf, Items, Marks
      <4> QED
        BY <1>1, <2>1, <3>2, <4>1, PutQueues
    <3> QED
      BY <3>1, <3>2
  <2>4. \A d \in Clients, u \in Threads : ~overrun[d] /\ Owes(u, d) => Owes(u, d)'
    BY <2>1, <2>2 DEF Owes, Closing, TypeInv, TypeOK
  <2>5. Marked'
    BY <2>2, <2>3, <2>4, MarkedKept DEF MarkInv, Keeping
  <2>6. OnlyFullTouched'
    BY <2>1, <2>2 DEF MarkInv, OnlyFullTouched, Threads
  <2> QED
    BY <2>5, <2>6 DEF MarkInv
<1>16. ASSUME NEW t \in Threads, SignalDone(t) PROVE MarkInv'
  <2>1. /\ cpc' = cpc /\ closed' = closed /\ subscribers' = subscribers /\ stale' = stale
        /\ phase' = phase /\ overrun' = overrun /\ cur' = cur /\ queue' = queue
        /\ todo' = todo /\ todo[t] = {}
    BY <1>16 DEF SignalDone, clientVars
  <2>2. /\ pc'[t] \in {"evict", "close", "exited"}
        /\ \A u \in Threads \ {t} : pc'[u] = pc[u]
    BY <1>16 DEF SignalDone, Goto, TypeInv, TypeOK
  <2>3. \A d \in Clients, u \in Threads : Owes(u, d) => Owes(u, d)'
    BY <2>1, <2>2 DEF Owes, Closing
  <2>4. Marked'
    BY <2>1, <2>3, MarkedKept DEF MarkInv, Keeping, HasMark
  <2>5. OnlyFullTouched'
    BY <2>1, <2>2 DEF MarkInv, OnlyFullTouched, Threads
  <2> QED
    BY <2>4, <2>5 DEF MarkInv
<1>17. CASE UNCHANGED vars
  BY <1>17 DEF vars, clientVars, MarkInv, Marked, OnlyFullTouched, Keeping, HasMark, Owes,
               Closing
<1> QED
  BY <1>2, <1>3, <1>4, <1>5, <1>6, <1>7, <1>8, <1>9, <1>10, <1>11, <1>12, <1>13, <1>14,
     <1>15, <1>16, <1>17
     DEF Next, ClientStep, IterateTimeout, Disconnect, BroadcastStep, PipeStep, CloseStep

\* close_subscribers leaves nobody behind: for any number of clients, however the
\* drain's broadcast, its own error and close signals and the killer's close are
\* interleaved, once the closing thread is through, a client that still reads and
\* whose queue was never found full has a sentinel waiting.
THEOREM NoStranding == Spec => []NoClientStranded
<1>1. MarkInv => NoClientStranded
  BY DEF MarkInv, Marked, NoClientStranded, Keeping, Owes
<1> QED
  BY <1>1, InitTypeInv, StepTypeInv, InitMarkInv, StepMarkInv, PTL DEF Spec
===============================================================================
