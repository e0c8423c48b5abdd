---------------------------- MODULE StreamSession ----------------------------
(***************************************************************************)
(* One _StreamSession of app/utils/ffmpeg_manager.py: the fan-out of       *)
(* FFmpeg's stdout to bounded per-client queues.                           *)
(*                                                                         *)
(*   Source  the stdout drain thread: reads chunks, broadcasts them, and   *)
(*           at end of file either hands over to a restarted process or    *)
(*           tells the clients that the source died;                       *)
(*   Killer  the thread that runs _kill_session (drop, reaper, shutdown)   *)
(*           and closes the subscribers while the drain may still run;     *)
(*   Clients one subscription each: the handler of GET /mpegts/<id>.       *)
(*                                                                         *)
(* A step is one queue operation or one critical section of sub_lock.      *)
(* Chunks are numbered in the order they leave the pipe.                   *)
(***************************************************************************)
EXTENDS Integers, Sequences

CONSTANTS Clients,          \* subscriptions (a queue is never reused)
          Source, Killer,   \* the two threads that write to the queues
          QueueMax,         \* queue_max: OPENACE_QUEUE_MAX_LIVE / _VOD
          MaxChunks,        \* bound: chunks the pipe produces
          End, Error,       \* _SENTINEL and _ERROR_SENTINEL
          None

ASSUME QueueAssumption  == QueueMax \in Nat \ {0}
ASSUME BoundAssumption  == MaxChunks \in Nat
ASSUME ThreadAssumption == Source # Killer
ASSUME MarkAssumption   == /\ End \notin Nat /\ Error \notin Nat /\ End # Error
                           /\ None \notin Clients /\ None \notin {End, Error}

Threads == {Source, Killer}
Marks   == {End, Error}
Items   == (1..MaxChunks) \cup Marks

VARIABLES queue,        \* queue[c]: the Queue handed out by subscribe
          cpc,          \* cpc[c]: where the client's request handler is
          subscribers,  \* session.subscribers
          closed,       \* session.closed
          pc,           \* pc[t]: where the two writer threads are
          todo,         \* todo[t]: rest of the snapshot a thread works through
          cur,          \* cur[t]: the client whose full queue t is dealing with
          phase,        \* why the source signals: "evict", "error" or "close"
          stale,        \* broadcast's list of queues that could not be trimmed
          produced,     \* chunks read from the pipe so far
          last,         \* last[c]: last chunk c was given (history)
          overrun,      \* overrun[c]: a writer found c's queue full (history)
          ended,        \* ended[c]: the sentinel that ended c's iteration (history)
          failed        \* clients the source meant to tell of its death (history)

clientVars == <<cpc, last, ended>>
vars == <<queue, cpc, subscribers, closed, pc, todo, cur, phase, stale,
          produced, last, overrun, ended, failed>>

SourcePCs == {"read", "snapshot", "put", "trim", "reput", "evict", "eof",
              "error", "close", "signal", "flush", "resignal", "exited"}
KillerPCs == {"idle", "close", "signal", "flush", "resignal", "exited"}

\* The type of every variable: queues hold at most queue_max items.
TypeOK ==
    /\ queue \in [Clients -> Seq(Items)]
    /\ \A c \in Clients : Len(queue[c]) <= QueueMax
    /\ cpc \in [Clients -> {"new", "reading", "leaving", "gone"}]
    /\ subscribers \in SUBSET Clients
    /\ closed \in BOOLEAN
    /\ pc \in [Threads -> SourcePCs \cup KillerPCs]
    /\ pc[Source] \in SourcePCs /\ pc[Killer] \in KillerPCs
    /\ todo \in [Threads -> SUBSET Clients]
    /\ cur \in [Threads -> Clients \cup {None}]
    /\ phase \in {"evict", "error", "close"}
    /\ stale \in SUBSET Clients
    /\ produced \in 0..MaxChunks
    /\ last \in [Clients -> 0..MaxChunks]
    /\ overrun \in [Clients -> BOOLEAN]
    /\ ended \in [Clients -> Marks \cup {None}]
    /\ failed \in SUBSET Clients

Init ==
    /\ queue = [c \in Clients |-> <<>>]
    /\ cpc = [c \in Clients |-> "new"]
    /\ subscribers = {}
    /\ closed = FALSE
    /\ pc = [t \in Threads |-> IF t = Source THEN "read" ELSE "idle"]
    /\ todo = [t \in Threads |-> {}]
    /\ cur = [t \in Threads |-> None]
    /\ phase = "close"
    /\ stale = {}
    /\ produced = 0
    /\ last = [c \in Clients |-> 0]
    /\ overrun = [c \in Clients |-> FALSE]
    /\ ended = [c \in Clients |-> None]
    /\ failed = {}

-------------------------------------------------------------------------------
\* Queue helpers.

Full(c)  == Len(queue[c]) >= QueueMax
Empty(c) == queue[c] = <<>>

PutItem(c, item) == queue' = [queue EXCEPT ![c] = Append(@, item)]
DropHead(c)      == queue' = [queue EXCEPT ![c] = Tail(@)]
HasMark(c)       == \E i \in 1..Len(queue[c]) : queue[c][i] \in Marks

Goto(t, l)       == pc' = [pc EXCEPT ![t] = l]
Advance(t, from, to) == pc[t] = from /\ Goto(t, to)

\* sub_lock is held over several steps only while broadcast evicts stale queues.
Evicting ==
    \/ pc[Source] = "evict"
    \/ pc[Source] \in {"signal", "flush", "resignal"} /\ phase = "evict"
SubLockFree == ~Evicting

MarkOf(t) == IF t = Source /\ phase = "error" THEN Error ELSE End

-------------------------------------------------------------------------------
\* Clients: subscribe_mpegts, iterate_mpegts, unsubscribe_mpegts.

\* Mutant: subscribe without its check of closed.
SubscribeUnchecked(c) ==
    /\ cpc[c] = "new"
    /\ SubLockFree
    /\ cpc' = [cpc EXCEPT ![c] = "reading"]
    /\ subscribers' = subscribers \cup {c}
    /\ UNCHANGED <<queue, closed, pc, todo, cur, phase, stale, produced, last,
                   overrun, ended, failed>>

\* _StreamSession.subscribe: a closed session hands out no queue.
Subscribe(c) ==
    /\ cpc[c] = "new"
    /\ SubLockFree
    /\ IF closed
       THEN cpc' = [cpc EXCEPT ![c] = "gone"] /\ UNCHANGED subscribers
       ELSE /\ cpc' = [cpc EXCEPT ![c] = "reading"]
            /\ subscribers' = subscribers \cup {c}
    /\ UNCHANGED <<queue, closed, pc, todo, cur, phase, stale, produced, last,
                   overrun, ended, failed>>

\* Mutant: the queue is a LifoQueue.
GetNewest(c) ==
    LET q == queue[c]  newest == q[Len(q)] IN
    /\ cpc[c] = "reading"
    /\ ~Empty(c)
    /\ queue' = [queue EXCEPT ![c] = SubSeq(q, 1, Len(q) - 1)]
    /\ IF newest \in Marks
       THEN /\ ended' = [ended EXCEPT ![c] = newest]
            /\ cpc' = [cpc EXCEPT ![c] = "leaving"]
            /\ UNCHANGED last
       ELSE /\ last' = [last EXCEPT ![c] = newest]
            /\ UNCHANGED <<ended, cpc>>
    /\ UNCHANGED <<subscribers, closed, pc, todo, cur, phase, stale, produced,
                   overrun, failed>>

\* iterate_mpegts: one q.get; either sentinel ends the iteration.
Get(c) ==
    /\ cpc[c] = "reading"
    /\ ~Empty(c)
    /\ DropHead(c)
    /\ IF Head(queue[c]) \in Marks
       THEN /\ ended' = [ended EXCEPT ![c] = Head(queue[c])]
            /\ cpc' = [cpc EXCEPT ![c] = "leaving"]
            /\ UNCHANGED last
       ELSE /\ last' = [last EXCEPT ![c] = Head(queue[c])]
            /\ UNCHANGED <<ended, cpc>>
    /\ UNCHANGED <<subscribers, closed, pc, todo, cur, phase, stale, produced,
                   overrun, failed>>

StopReading(c) ==
    /\ cpc[c] = "reading"
    /\ cpc' = [cpc EXCEPT ![c] = "leaving"]
    /\ UNCHANGED <<queue, subscribers, closed, pc, todo, cur, phase, stale,
                   produced, last, overrun, ended, failed>>

\* Mutant: q.get() without a timeout.
IterateForever(c) == FALSE /\ StopReading(c)

\* iterate_mpegts: q.get(timeout=ITERATE_TIMEOUT_S) raised Empty.
IterateTimeout(c) == Empty(c) /\ StopReading(c)

\* The HTTP client went away: the generator is closed and its finally runs.
Disconnect(c) == StopReading(c)

Unsubscribe(c) ==
    /\ cpc[c] = "leaving"
    /\ SubLockFree
    /\ cpc' = [cpc EXCEPT ![c] = "gone"]
    /\ subscribers' = subscribers \ {c}
    /\ UNCHANGED <<queue, closed, pc, todo, cur, phase, stale, produced, last,
                   overrun, ended, failed>>

-------------------------------------------------------------------------------
\* The stdout drain and broadcast.

\* os.read returned a chunk; without subscribers it is thrown away.
ReadChunk ==
    /\ pc[Source] = "read"
    /\ produced < MaxChunks
    /\ produced' = produced + 1
    /\ Goto(Source, IF subscribers = {} THEN "read" ELSE "snapshot")
    /\ UNCHANGED <<queue, clientVars, subscribers, closed, todo, cur, phase,
                   stale, overrun, failed>>

\* broadcast: copy the subscribers under sub_lock.
Snapshot ==
    /\ Advance(Source, "snapshot", "put")
    /\ todo' = [todo EXCEPT ![Source] = subscribers]
    /\ UNCHANGED <<queue, clientVars, subscribers, closed, cur, phase, stale,
                   produced, overrun, failed>>

\* Mutant: put_nowait on a queue without maxsize.
PutUnbounded(c) ==
    /\ pc[Source] = "put"
    /\ c \in todo[Source]
    /\ todo' = [todo EXCEPT ![Source] = @ \ {c}]
    /\ PutItem(c, produced)
    /\ UNCHANGED <<clientVars, subscribers, closed, pc, cur, phase, stale,
                   produced, overrun, failed>>

\* Mutant: the put after the trim runs whether or not there was a trim.
PutTwice(c) ==
    /\ pc[Source] = "put"
    /\ c \in todo[Source]
    /\ todo' = [todo EXCEPT ![Source] = @ \ {c}]
    /\ cur' = [cur EXCEPT ![Source] = c]
    /\ Goto(Source, IF Full(c) THEN "trim" ELSE "reput")
    /\ IF Full(c) THEN UNCHANGED queue ELSE PutItem(c, produced)
    /\ overrun' = [overrun EXCEPT ![c] = @ \/ Full(c)]
    /\ UNCHANGED <<clientVars, subscribers, closed, phase, stale, produced, failed>>

\* broadcast: put_nowait(chunk), queue by queue.
Put(c) ==
    /\ pc[Source] = "put"
    /\ c \in todo[Source]
    /\ todo' = [todo EXCEPT ![Source] = @ \ {c}]
    /\ IF Full(c)
       THEN /\ overrun' = [overrun EXCEPT ![c] = TRUE]
            /\ cur' = [cur EXCEPT ![Source] = c]
            /\ Goto(Source, "trim")
            /\ UNCHANGED queue
       ELSE /\ PutItem(c, produced)
            /\ UNCHANGED <<overrun, cur, pc>>
    /\ UNCHANGED <<clientVars, subscribers, closed, phase, stale, produced, failed>>

\* broadcast, the queue was full: get_nowait the oldest item; if the client
\* emptied the queue in between, the queue counts as stale.
Trim ==
    LET c == cur[Source] IN
    /\ pc[Source] = "trim"
    /\ IF Empty(c)
       THEN /\ stale' = stale \cup {c}
            /\ cur' = [cur EXCEPT ![Source] = None]
            /\ Goto(Source, "put")
            /\ UNCHANGED queue
       ELSE /\ DropHead(c)
            /\ Goto(Source, "reput")
            /\ UNCHANGED <<stale, cur>>
    /\ UNCHANGED <<clientVars, subscribers, closed, todo, phase, produced,
                   overrun, failed>>

\* broadcast, second put_nowait after the trim.
Reput ==
    LET c == cur[Source] IN
    /\ Advance(Source, "reput", "put")
    /\ cur' = [cur EXCEPT ![Source] = None]
    /\ IF Full(c)
       THEN stale' = stale \cup {c} /\ UNCHANGED queue
       ELSE PutItem(c, produced) /\ UNCHANGED stale
    /\ UNCHANGED <<clientVars, subscribers, closed, todo, phase, produced,
                   overrun, failed>>

\* broadcast: every queue served; stale ones are evicted under sub_lock.
BroadcastDone ==
    /\ pc[Source] = "put"
    /\ todo[Source] = {}
    /\ Goto(Source, IF stale = {} THEN "read" ELSE "evict")
    /\ UNCHANGED <<queue, clientVars, subscribers, closed, todo, cur, phase,
                   stale, produced, overrun, failed>>

\* broadcast, stale loop: drop the subscription and signal its queue.
Evict(c) ==
    /\ pc[Source] = "evict"
    /\ c \in stale
    /\ stale' = stale \ {c}
    /\ IF c \in subscribers
       THEN /\ subscribers' = subscribers \ {c}
            /\ todo' = [todo EXCEPT ![Source] = {c}]
            /\ phase' = "evict"
            /\ Goto(Source, "signal")
       ELSE UNCHANGED <<subscribers, todo, phase, pc>>
    /\ UNCHANGED <<queue, clientVars, closed, cur, produced, overrun, failed>>

EvictDone ==
    /\ Advance(Source, "evict", "read")
    /\ stale = {}
    /\ UNCHANGED <<queue, clientVars, subscribers, closed, todo, cur, phase,
                   stale, produced, overrun, failed>>

\* The pipe is at end of file: FFmpeg died or was terminated.
EndOfFile ==
    /\ Advance(Source, "read", "eof")
    /\ UNCHANGED <<queue, clientVars, subscribers, closed, todo, cur, phase,
                   stale, produced, overrun, failed>>

\* drain, finally: the restart succeeded and its drain goes on with the same
\* queues.  _restart_session refuses a session that is no longer registered,
\* which it is not once _kill_session runs.
Restarted ==
    /\ pc[Killer] = "idle"
    /\ Advance(Source, "eof", "read")
    /\ UNCHANGED <<queue, clientVars, subscribers, closed, todo, cur, phase,
                   stale, produced, overrun, failed>>

\* drain, finally: no restart; with clients left, a hard error comes first.
RestartFailed ==
    /\ Advance(Source, "eof", IF subscribers = {} THEN "close" ELSE "error")
    /\ UNCHANGED <<queue, clientVars, subscribers, closed, todo, cur, phase,
                   stale, produced, overrun, failed>>

\* broadcast_error: copy the subscribers and signal each of them.
BroadcastError ==
    /\ Advance(Source, "error", "signal")
    /\ todo' = [todo EXCEPT ![Source] = subscribers]
    /\ phase' = "error"
    /\ failed' = failed \cup subscribers
    /\ UNCHANGED <<queue, clientVars, subscribers, closed, cur, stale, produced,
                   overrun>>

-------------------------------------------------------------------------------
\* close_subscribers and _signal_queue, run by either thread.

\* _kill_session reaches close_subscribers.
Kill ==
    /\ Advance(Killer, "idle", "close")
    /\ UNCHANGED <<queue, clientVars, subscribers, closed, todo, cur, phase,
                   stale, produced, overrun, failed>>

\* close_subscribers, the part under sub_lock: only the first call signals.
CloseSubscribers(t) ==
    /\ pc[t] = "close"
    /\ SubLockFree
    /\ IF closed
       THEN /\ Goto(t, "exited")
            /\ UNCHANGED <<closed, subscribers, todo, phase>>
       ELSE /\ closed' = TRUE
            /\ todo' = [todo EXCEPT ![t] = subscribers]
            /\ subscribers' = {}
            /\ phase' = IF t = Source THEN "close" ELSE phase
            /\ Goto(t, "signal")
    /\ UNCHANGED <<queue, clientVars, cur, stale, produced, overrun, failed>>

\* _signal_queue: put_nowait(sentinel).
Signal(t, c) ==
    /\ pc[t] = "signal"
    /\ c \in todo[t]
    /\ IF Full(c)
       THEN /\ overrun' = [overrun EXCEPT ![c] = TRUE]
            /\ cur' = [cur EXCEPT ![t] = c]
            /\ Goto(t, "flush")
            /\ UNCHANGED <<queue, todo>>
       ELSE /\ PutItem(c, MarkOf(t))
            /\ todo' = [todo EXCEPT ![t] = @ \ {c}]
            /\ UNCHANGED <<overrun, cur, pc>>
    /\ UNCHANGED <<clientVars, subscribers, closed, phase, stale, produced, failed>>

\* _signal_queue, the queue was full: get_nowait until Empty.
Flush(t) ==
    /\ pc[t] = "flush"
    /\ IF Empty(cur[t])
       THEN Goto(t, "resignal") /\ UNCHANGED queue
       ELSE DropHead(cur[t]) /\ UNCHANGED pc
    /\ UNCHANGED <<clientVars, subscribers, closed, todo, cur, phase, stale,
                   produced, overrun, failed>>

\* _signal_queue: the second put_nowait gives up if the queue is full again.
Resignal(t) ==
    LET c == cur[t] IN
    /\ Advance(t, "resignal", "signal")
    /\ IF Full(c) THEN UNCHANGED queue ELSE PutItem(c, MarkOf(t))
    /\ todo' = [todo EXCEPT ![t] = @ \ {c}]
    /\ cur' = [cur EXCEPT ![t] = None]
    /\ UNCHANGED <<clientVars, subscribers, closed, phase, stale, produced,
                   overrun, failed>>

SignalDone(t) ==
    /\ pc[t] = "signal"
    /\ todo[t] = {}
    /\ Goto(t, IF t = Killer THEN "exited"
               ELSE CASE phase = "evict" -> "evict"
                      [] phase = "error" -> "close"
                      [] OTHER -> "exited")
    /\ UNCHANGED <<queue, clientVars, subscribers, closed, todo, cur, phase,
                   stale, produced, overrun, failed>>

-------------------------------------------------------------------------------
\* What the handler of /play/mpegts does for its client, from subscription to the end
\* of its generator.
ClientStep(c) ==
    \/ Subscribe(c) \/ Get(c) \/ IterateTimeout(c) \/ Disconnect(c)
    \/ Unsubscribe(c)

CloseStep(t) ==
    \/ CloseSubscribers(t) \/ Flush(t) \/ Resignal(t) \/ SignalDone(t)
    \/ \E c \in Clients : Signal(t, c)

BroadcastStep ==
    \/ Snapshot \/ Trim \/ Reput \/ BroadcastDone \/ EvictDone
    \/ \E c \in Clients : Put(c) \/ Evict(c)

PipeStep ==
    \/ ReadChunk \/ EndOfFile \/ Restarted \/ RestartFailed \/ BroadcastError

Next ==
    \/ \E c \in Clients : ClientStep(c)
    \/ BroadcastStep
    \/ PipeStep
    \/ Kill
    \/ \E t \in Threads : CloseStep(t)

Spec == Init /\ [][Next]_vars

\* Every thread and every client keeps running; nobody has to subscribe, to
\* disconnect or to kill the session, and the pipe may stay open for ever.
Fairness ==
    /\ \A c \in Clients : /\ WF_vars(Get(c))
                          /\ WF_vars(IterateTimeout(c))
                          /\ WF_vars(Unsubscribe(c))
    /\ WF_vars(BroadcastStep)
    /\ WF_vars(RestartFailed \/ Restarted)
    /\ WF_vars(BroadcastError)
    /\ \A t \in Threads : WF_vars(CloseStep(t))

FairSpec == Spec /\ Fairness

-------------------------------------------------------------------------------
\* Properties.

Closing(t) == pc[t] \in {"signal", "flush", "resignal"} /\ (t = Source => phase = "close")

\* Once the session is closed and the closing thread has worked through its
\* snapshot, a client still reading has a sentinel waiting, unless a writer once
\* found its queue full.  Relates subscribe's check of closed, the snapshot taken
\* by close_subscribers and the broadcast that may run between them.
NoClientStranded ==
    closed /\ (\A t \in Threads : ~Closing(t)) =>
        \A c \in Clients : cpc[c] = "reading" /\ ~overrun[c] => HasMark(c)

\* A client whose queue was never full misses nothing: what it was given and what
\* waits for it are consecutive chunks (broadcast, put order and trimming).
GapFree ==
    \A c \in Clients : cpc[c] = "reading" /\ ~overrun[c] =>
        LET q == queue[c] IN
        /\ \A i \in 1..(Len(q) - 1) :
              q[i] \in Nat /\ q[i + 1] \in Nat => q[i + 1] = q[i] + 1
        /\ q # <<>> /\ Head(q) \in Nat /\ last[c] # 0 => Head(q) = last[c] + 1

\* The queues, locks and sentinels implement the feed each client is promised:
\* chunks in order and at most once, nothing after the end, nobody joins a closed
\* session.
FeedOf(c) == CASE cpc[c] = "new" -> "out" [] cpc[c] = "reading" -> "open"
               [] OTHER -> "over"
Feed == INSTANCE ClientFeed
            WITH published <- produced, seen <- last,
                 feed <- [c \in Clients |-> FeedOf(c)], shut <- closed
ImplementsClientFeed == Feed!FeedSpec

\* After the session is closed every client's iteration ends: by its sentinel or,
\* if a racing trim took the sentinel, by the iterate timeout.
ClientsReleased == closed ~> \A c \in Clients : cpc[c] # "reading"

\* ffmpeg_manager.py:72: _ERROR_SENTINEL is "Signalled when the source dies and
\* cannot be restarted, so subscribers can distinguish a hard error from a clean
\* close": with no kill under way, a client subscribed when the source died does
\* not end on the clean sentinel.
HardErrorDistinguished ==
    pc[Killer] = "idle" => \A c \in failed : ended[c] # End
===============================================================================
