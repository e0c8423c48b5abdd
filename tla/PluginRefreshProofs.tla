------------------------- MODULE PluginRefreshProofs -------------------------
(***************************************************************************)
(* Proofs about PluginRefresh, for any sources, documents and number of    *)
(* threads and any bounds: types, OneTimer, OneFetcher,                    *)
(* EnabledKeepsRefreshing and ValidatorDescribesCache.                     *)
(***************************************************************************)
EXTENDS PluginRefresh, TLAPS

\* What the point of a thread says of its task.
Formed(t) ==
    /\ t.at = "idle" => t.task = "none"
    /\ t.at = "ask" => t.plugin # None /\ t.task # "create"
    /\ t.at \in {"wait", "render"} => t.task = "playlist"
    /\ t.at = "restart" => t.task = "update"
    /\ t.at \in {"forget", "erase"} => t.task = "delete"
    /\ t.at \in {"insert", "bootstrap"} => t.task = "setup"
    /\ t.at = "sent" => t.plugin \in Row /\ t.plugin.url # None

\* And _timers holds the armed timer, and nothing else.
Shape ==
    \A w \in Workers : Formed(thr[w]) /\ (thr[w].at = "armed" <=> timer = w)

-----------------------------------------------------------------------------
(* What threads may become.                                                *)

\* A thread with nothing to do.
LEMMA IdleTyped == Idle \in Thread /\ Idle.at = "idle" /\ Idle.task = "none" /\ Idle.plugin = None
  BY DEF Idle, Thread, Points, Fetch, Tasks

\* A timer that waits for its time.
LEMMA ArmedTyped == Armed \in Thread /\ Armed.at = "armed" /\ Armed.task = "tick"
  BY DEF Armed, Idle, Thread, Points, Fetch, Tasks

\* A thread that begins a fetch, whatever its task.
LEMMA FetchingTyped ==
  ASSUME NEW task \in Tasks, NEW p \in Row \cup {None}
  PROVE  /\ Fetching(task, p) \in Thread /\ Fetching(task, p).at = "ask"
         /\ Fetching(task, p).task = task
  BY DEF Fetching, Thread, Points, Fetch

\* A request that has been answered.
LEMMA ReturnedTyped ==
  ASSUME NEW t \in Thread
  PROVE  /\ Returned(t) \in Thread /\ Returned(t).at = "done" /\ Returned(t).task = t.task
         /\ t.task = "create" => Returned(t).plugin = t.plugin
  BY DEF Returned, Thread, Points, Fetch

\* The thread that start_for_plugin begins, if it begins one.
LEMMA StartTyped ==
  ASSUME NEW p \in Row \cup {None}
  PROVE  /\ StartTimer(p) \in Thread
         /\ Refreshable(p) => StartTimer(p).at = "ask" /\ StartTimer(p).task = "init"
         /\ ~Refreshable(p) => StartTimer(p) = Idle
<1>1. "init" \in Tasks
  BY DEF Tasks
<1> QED
  BY <1>1, IdleTyped, FetchingTyped DEF StartTimer

\* A thread that goes on to another point.
LEMMA MovedTyped ==
  ASSUME NEW t \in Thread, NEW a \in Points
  PROVE  /\ [t EXCEPT !.at = a] \in Thread
         /\ [t EXCEPT !.at = a].at = a /\ [t EXCEPT !.at = a].task = t.task
         /\ [t EXCEPT !.at = a].plugin = t.plugin
         /\ \A d \in Served \cup {Upload, None} :
               /\ [t EXCEPT !.at = a, !.doc = d] \in Thread
               /\ [t EXCEPT !.at = a, !.doc = d].at = a
               /\ [t EXCEPT !.at = a, !.doc = d].task = t.task
               /\ [t EXCEPT !.at = a, !.doc = d].plugin = t.plugin
  BY DEF Thread

\* A thread that begins.
LEMMA BegunTyped ==
  ASSUME NEW a \in Points, NEW task \in Tasks, NEW p \in Row \cup {None},
         NEW d \in Served \cup {Upload, None}
  PROVE  /\ [Idle EXCEPT !.at = a, !.task = task] \in Thread
         /\ [Idle EXCEPT !.at = a, !.task = task].at = a
         /\ [Idle EXCEPT !.at = a, !.task = task].task = task
         /\ [Idle EXCEPT !.at = a, !.task = task, !.plugin = p] \in Thread
         /\ [Idle EXCEPT !.at = a, !.task = task, !.plugin = p].at = a
         /\ [Idle EXCEPT !.at = a, !.task = task, !.plugin = p].task = task
         /\ [Idle EXCEPT !.at = a, !.task = task, !.plugin = p].plugin = p
         /\ [at |-> a, task |-> task, plugin |-> p, doc |-> d] \in Thread
  BY IdleTyped DEF Thread

\* The task names and points differ from one another.
LEMMA Names ==
  /\ {"ask", "sent", "store", "record", "done", "idle", "armed", "restart", "forget", "erase",
      "wait", "render", "insert", "bootstrap"} \subseteq Points
  /\ {"none", "init", "tick", "refresh", "playlist", "import", "create", "update", "delete",
      "setup"} \subseteq Tasks
<1>1. {"ask", "sent", "store", "record", "done", "idle", "armed", "restart", "forget", "erase",
       "wait", "render", "insert", "bootstrap"} \subseteq Points
  BY Zenon DEF Points, Fetch
<1>2. {"none", "init", "tick", "refresh", "playlist", "import", "create", "update", "delete",
       "setup"} \subseteq Tasks
  BY Zenon DEF Tasks
<1> QED
  BY <1>1, <1>2

\* Cancelling a timer leaves a typed thread.
LEMMA CancelledTyped ==
  ASSUME TypeOK, Shape
  PROVE  /\ Cancelled \in [Workers -> Thread]
         /\ \A v \in Workers : Cancelled[v] = IF thr[v].at = "armed" THEN Idle ELSE thr[v]
  BY IdleTyped DEF TypeOK, Shape, Cancelled

\* A request on its way takes the validator out of the plugin.
LEMMA AskedTyped ==
  ASSUME NEW w \in Workers, TypeOK, Shape, Ask(w)
  PROVE  \E d \in Served \cup {None}, q \in Row :
            /\ thr' = [thr EXCEPT ![w] = [thr[w] EXCEPT !.at = "sent", !.plugin = q, !.doc = d]]
            /\ [thr[w] EXCEPT !.at = "sent", !.plugin = q, !.doc = d] \in Thread
            /\ q.url # None
<1> DEFINE q == [thr[w].plugin EXCEPT !.etag = None]
           d == IF cache = None THEN None ELSE thr[w].plugin.etag
<1>1. thr[w] \in Thread /\ thr[w].at = "ask" /\ thr[w].plugin # None
  BY DEF TypeOK, Shape, Formed, Ask
<1>2. thr[w].plugin \in Row
  BY <1>1 DEF Thread
<1>3. q \in Row /\ d \in Served \cup {None}
  BY <1>2 DEF Row
<1>4. q.url # None
  BY <1>2 DEF Row, Ask
<1>5. thr' = [thr EXCEPT ![w] = [thr[w] EXCEPT !.at = "sent", !.plugin = q, !.doc = d]]
  BY DEF Ask
<1>6. [thr[w] EXCEPT !.at = "sent", !.plugin = q, !.doc = d] \in Thread
  BY <1>1, <1>3, Names DEF Thread
<1> QED
  BY <1>3, <1>4, <1>5, <1>6

-----------------------------------------------------------------------------
(* Types.                                                                  *)

\* Every step keeps the types.
LEMMA TypeStep ==
  ASSUME TypeOK, Shape, [Next]_vars
  PROVE  TypeOK'
<1>0. thr \in [Workers -> Thread]
  BY DEF TypeOK
<1>1. ASSUME NEW w \in Workers, Step(w) \/ Fail(w) PROVE TypeOK'
  <2>0. thr[w] \in Thread /\ Returned(thr[w]) \in Thread /\ thr[w].plugin \in Row \cup {None}
        /\ thr[w].doc \in Served \cup {Upload, None}
    BY <1>0, ReturnedTyped DEF Thread
  <2>1. ASSUME Ask(w) PROVE TypeOK'
    <3>1. thr' \in [Workers -> Thread]
      BY <1>0, <2>1, AskedTyped
    <3> QED
      BY <2>1, <3>1, ZenonT(60) DEF Ask, TypeOK
  <2>2. CASE Blocked(w) \/ Unmodified(w) \/ FetchFails(w)
    BY <1>0, <2>0, <2>2 DEF Blocked, Unmodified, FetchFails, TypeOK
  <2>3. ASSUME NEW d \in Docs, Download(w, d) PROVE TypeOK'
    <3>1. <<thr[w].plugin.url, d>> \in Served
      <4>1. thr[w].plugin \in Row /\ thr[w].plugin.url # None
        BY <2>3 DEF Shape, Formed, Download
      <4> QED
        BY <2>0, <4>1 DEF Row, Served
    <3>2. thr' \in [Workers -> Thread]
      BY <1>0, <2>0, <2>3, <3>1, MovedTyped, Names, ZenonT(60) DEF Download
    <3> QED
      BY <2>3, <3>2, ZenonT(60) DEF Download, TypeOK
  <2>4. CASE StoreChannels(w)
    BY <1>0, <2>0, <2>4, MovedTyped, Names DEF StoreChannels, TypeOK
  <2>5. CASE RecordStatus(w) \/ RecordFails(w)
    <3>1. row' \in Row \cup {None}
      BY <2>0, <2>5 DEF RecordStatus, RecordFails, Validator, TypeOK, Row
    <3>2. thr' \in [Workers -> Thread]
      BY <1>0, <2>0, <2>5, IdleTyped DEF RecordStatus, RecordFails
    <3> QED
      BY <2>5, <3>1, <3>2 DEF RecordStatus, RecordFails, Loses, TypeOK
  <2>6. CASE InitDone(w) \/ TickDone(w)
    BY <1>0, <2>6, CancelledTyped, ArmedTyped, IdleTyped
    DEF InitDone, TickDone, Schedule, TypeOK
  <2>7. CASE Tick(w)
    BY <1>0, <2>7, FetchingTyped, IdleTyped, Names DEF Tick, Unregistered, StillEnabled, TypeOK
  <2>8. CASE CreateDone(w)
    BY <1>0, <2>0, <2>8, StartTyped DEF CreateDone, TypeOK
  <2>9. CASE RestartTimer(w)
    BY <1>0, <2>0, <2>9, StartTyped, CancelledTyped DEF RestartTimer, TypeOK
  <2>10. CASE Forget(w)
    BY <1>0, <2>0, <2>10, MovedTyped, Names DEF Forget, TypeOK
  <2>11. CASE Erase(w) \/ EraseFails(w) \/ ImportDone(w) \/ RefreshDone(w) \/ Render(w)
    BY <1>0, <2>11, IdleTyped
    DEF Erase, EraseFails, ImportDone, RefreshDone, Render, Loses, TypeOK
  <2>12. CASE PlaylistDone(w)
    <3>1. [Idle EXCEPT !.at = "render", !.task = "playlist"] \in Thread
      BY BegunTyped, Names
    <3> QED
      BY <1>0, <2>12, <3>1 DEF PlaylistDone, TypeOK
  <2>13. CASE WaitTimeout(w)
    BY <1>0, <2>0, <2>13, MovedTyped, Names DEF WaitTimeout, TypeOK
  <2>14. CASE TickFails(w) \/ TimerNotStarted(w)
    BY <1>0, <2>14, CancelledTyped, IdleTyped
    DEF TickFails, TimerNotStarted, Unregistered, Loses, TypeOK
  <2>15. CASE InitNotStarted(w) \/ BootstrapFails(w)
    BY <1>0, <2>15, IdleTyped DEF InitNotStarted, BootstrapFails, Loses, TypeOK
  <2>16. CASE Insert(w)
    <3>1. row' \in Row \cup {None} /\ born' \in BOOLEAN /\ lost' \in BOOLEAN
      BY <2>0, <2>16 DEF Insert, Loses, TypeOK
    <3> QED
      BY <1>0, <2>16, <3>1, IdleTyped DEF Insert, TypeOK
  <2>17. CASE Bootstrap(w)
    BY <1>0, <2>17, StartTyped DEF Bootstrap, TypeOK
  <2> QED
    BY <1>1, <2>1, <2>2, <2>3, <2>4, <2>5, <2>6, <2>7, <2>8, <2>9, <2>10, <2>11, <2>12, <2>13,
       <2>14, <2>15, <2>16, <2>17
    DEF Step, Fail
<1>2. ASSUME NEW w \in Workers, Begin(w) PROVE TypeOK'
  <2>r. ASSUME Request(w) PROVE calls' \in 0..MaxCalls
    BY <2>r, PluginAssumption DEF Request, TypeOK
  <2>0. ASSUME Call(w) PROVE calls' \in 0..MaxCalls /\ setup' \in BOOLEAN
    BY <2>0, <2>r DEF Call, TypeOK
  <2>1. CASE Complete(w) \/ Reset(w)
    <3>1. [Idle EXCEPT !.at = "bootstrap", !.task = "setup"] \in Thread
      BY BegunTyped, Names
    <3> QED
      BY <1>0, <2>r, <2>1, <3>1 DEF Complete, Reset, TypeOK
  <2>2. CASE Import(w)
    BY <1>0, <2>0, <2>2, BegunTyped, Names DEF Import, TypeOK
  <2>3. CASE Refresh(w) \/ RefreshFails(w)
    <3>1. row # None => Fetching("refresh", row) \in Thread
      BY FetchingTyped, Names DEF TypeOK
    <3> QED
      BY <1>0, <2>0, <2>3, <3>1 DEF Refresh, RefreshFails, TypeOK
  <2>4. CASE Playlist(w)
    <3>1. /\ [Idle EXCEPT !.at = "render", !.task = "playlist"] \in Thread
          /\ [Idle EXCEPT !.at = "wait", !.task = "playlist"] \in Thread
          /\ Fetching("playlist", row) \in Thread
      BY BegunTyped, FetchingTyped, Names DEF TypeOK
    <3> QED
      BY <1>0, <2>0, <2>4, <3>1 DEF Playlist, TypeOK
  <2>5. CASE Delete(w)
    <3>1. [Idle EXCEPT !.at = "forget", !.task = "delete"] \in Thread
      BY BegunTyped, Names
    <3> QED
      BY <1>0, <2>0, <2>5, <3>1, CancelledTyped DEF Delete, TypeOK
  <2>6. ASSUME NEW p \in Payload, Update(w, p[1], p[2]) PROVE TypeOK'
    <3>1. row' \in Row
      BY <2>6 DEF Update, Updated, TypeOK, Row, Payload
    <3>2. [Idle EXCEPT !.at = "restart", !.task = "update", !.plugin = row'] \in Thread
      BY <3>1, BegunTyped, Names
    <3> QED
      BY <1>0, <2>0, <2>6, <3>1, <3>2 DEF Update, TypeOK
  <2>8. ASSUME NEW p \in Payload, SetupStep(w, p[1], p[2]) PROVE TypeOK'
    <3>1. Inserted(p[1], p[2]) \in Row
      BY <2>8 DEF Inserted, Row, Payload
    <3>2. [Idle EXCEPT !.at = "insert", !.task = "setup", !.plugin = Inserted(p[1], p[2])]
            \in Thread
      BY <3>1, BegunTyped, Names
    <3> QED
      BY <1>0, <2>r, <2>8, <3>2 DEF SetupStep, TypeOK
  <2>7. ASSUME NEW p \in Payload, NEW d \in {None, Upload}, Create(w, p[1], p[2], d) PROVE TypeOK'
    <3>1. row' \in Row
      BY <2>7 DEF Create, Inserted, Row, Payload
    <3>2. /\ StartTimer(row') \in Thread
          /\ [at |-> "store", task |-> "create", plugin |-> row', doc |-> d] \in Thread
      BY <3>1, BegunTyped, StartTyped, Names
    <3> QED
      BY <1>0, <2>0, <2>7, <3>1, <3>2 DEF Create, TypeOK
  <2> QED
    BY <1>2, <2>1, <2>2, <2>3, <2>4, <2>5, <2>6, <2>7, <2>8 DEF Begin
<1>3. ASSUME NEW w \in Workers, Restart(w) PROVE TypeOK'
  <2>1. StartTimer(row) \in Thread
    BY StartTyped DEF TypeOK
  <2>2. restarts' \in 0..MaxRestarts
    BY <1>3, PluginAssumption DEF Restart, TypeOK
  <2> QED
    BY <1>3, <2>1, <2>2, IdleTyped DEF Restart, TypeOK
<1>4. CASE UNCHANGED vars
  BY <1>4 DEF vars, TypeOK
<1> QED
  BY <1>1, <1>2, <1>3, <1>4 DEF Next

-----------------------------------------------------------------------------
(* Shape, and who fetches.                                                 *)

\* A thread that fetches for a playlist.
Fetches(t) == t.task = "playlist" /\ t.at \in Fetch

\* A step of one thread that neither arms nor fires.
LEMMA LocalStep ==
  ASSUME TypeOK, Shape, OneFetcher, NEW w \in Workers, NEW x,
         thr' = [thr EXCEPT ![w] = x], UNCHANGED <<timer, fetching>>,
         thr[w].at # "armed", x.at # "armed", Formed(x), Fetches(x) => Fetches(thr[w])
  PROVE  Shape' /\ OneFetcher'
<1>1. \A v \in Workers : thr'[v] = IF v = w THEN x ELSE thr[v]
  BY DEF TypeOK
<1>2. \A v \in Workers : Formed(thr'[v]) /\ (thr'[v].at = "armed" <=> timer' = v)
  BY <1>1 DEF Shape
<1>3. Shape'
  BY <1>2 DEF Shape, Formed
<1>4. \A v \in Workers : Fetches(thr'[v]) => fetching' = v
  BY <1>1 DEF OneFetcher, Fetches
<1> QED
  BY <1>3, <1>4 DEF OneFetcher, Fetches

\* A step that cancels the timer, and perhaps arms its own.
LEMMA CancelStep ==
  ASSUME TypeOK, Shape, OneFetcher, NEW w \in Workers, NEW x,
         thr' = [Cancelled EXCEPT ![w] = x], fetching' = fetching,
         timer' = IF x.at = "armed" THEN w ELSE None,
         Formed(x), Fetches(x) => Fetches(thr[w])
  PROVE  Shape' /\ OneFetcher'
<1>1. \A v \in Workers : thr'[v] = IF v = w THEN x ELSE IF thr[v].at = "armed" THEN Idle ELSE thr[v]
  BY CancelledTyped
<1>2. Formed(Idle) /\ ~Fetches(Idle) /\ Idle.at # "armed"
  BY IdleTyped DEF Formed, Fetches
<1>3. \A v \in Workers : Formed(thr'[v]) /\ (thr'[v].at = "armed" <=> timer' = v)
  BY <1>1, <1>2, PluginAssumption DEF Shape
<1>4. Shape'
  BY <1>3 DEF Shape, Formed
<1>5. \A v \in Workers : Fetches(thr'[v]) => fetching' = v
  BY <1>1, <1>2 DEF OneFetcher, Fetches
<1> QED
  BY <1>4, <1>5 DEF OneFetcher, Fetches

\* Every step keeps the link between the armed threads and the timer that _timers holds.
LEMMA ShapeStep ==
  ASSUME TypeOK, Shape, OneFetcher, [Next]_vars
  PROVE  Shape' /\ OneFetcher'
<1>0. thr \in [Workers -> Thread] /\ None \notin Workers
  BY PluginAssumption DEF TypeOK
<1>1. ASSUME NEW w \in Workers, Step(w) \/ Fail(w) PROVE Shape' /\ OneFetcher'
  <2>0. thr[w] \in Thread /\ thr[w].plugin \in Row \cup {None} /\ Formed(thr[w])
        /\ (thr[w].at = "armed" <=> timer = w)
    BY <1>0 DEF Thread, Shape
  <2>1. ASSUME Ask(w) PROVE Shape' /\ OneFetcher'
    <3>1. PICK d \in Served \cup {None}, q \in Row :
            /\ thr' = [thr EXCEPT ![w] = [thr[w] EXCEPT !.at = "sent", !.plugin = q, !.doc = d]]
            /\ q.url # None
      BY <2>1, AskedTyped
    <3> DEFINE x == [thr[w] EXCEPT !.at = "sent", !.plugin = q, !.doc = d]
    <3>2. x.at = "sent" /\ x.task = thr[w].task /\ x.plugin = q
      BY <2>0 DEF Thread
    <3>3. Formed(x) /\ (Fetches(x) => Fetches(thr[w]))
      BY <2>1, <3>1, <3>2 DEF Ask, Formed, Fetches, Fetch
    <3> QED
      BY <2>1, <3>1, <3>2, <3>3, LocalStep DEF Ask
  <2>2. CASE \/ Blocked(w) \/ Unmodified(w) \/ FetchFails(w) \/ RecordStatus(w)
             \/ RecordFails(w) /\ thr[w].task # "create"
    <3>1. Formed(Returned(thr[w])) /\ Returned(thr[w]).at = "done"
      BY <2>0, ReturnedTyped DEF Formed
    <3>2. thr[w].at \in Fetch /\ thr[w].at # "armed"
      BY <2>2 DEF Blocked, Unmodified, FetchFails, RecordStatus, RecordFails, Fetch
    <3>3. Fetches(Returned(thr[w])) => Fetches(thr[w])
      BY <2>0, <3>2, ReturnedTyped DEF Fetches
    <3>4. thr' = [thr EXCEPT ![w] = Returned(thr[w])] /\ UNCHANGED <<timer, fetching>>
      BY <2>2 DEF Blocked, Unmodified, FetchFails, RecordStatus, RecordFails
    <3> QED
      BY <3>1, <3>2, <3>3, <3>4, LocalStep
  <2>3. ASSUME NEW d \in Docs, Download(w, d) PROVE Shape' /\ OneFetcher'
    <3> DEFINE x == [thr[w] EXCEPT !.at = "store", !.doc = <<thr[w].plugin.url, d>>]
    <3>1. x.at = "store" /\ x.task = thr[w].task
      BY <2>0 DEF Thread
    <3>2. Formed(x) /\ (Fetches(x) => Fetches(thr[w]))
      BY <2>3, <3>1 DEF Download, Formed, Fetches, Fetch
    <3> QED
      BY <2>3, <3>1, <3>2, LocalStep DEF Download
  <2>4. CASE StoreChannels(w)
    <3> DEFINE x == [thr[w] EXCEPT !.at = "record"]
    <3>1. x.at = "record" /\ x.task = thr[w].task
      BY <2>0 DEF Thread
    <3>2. Formed(x) /\ (Fetches(x) => Fetches(thr[w]))
      BY <2>4, <3>1 DEF StoreChannels, Formed, Fetches, Fetch
    <3> QED
      BY <2>4, <3>1, <3>2, LocalStep DEF StoreChannels
  <2>5. ASSUME Schedule(w), fetching' = fetching PROVE Shape' /\ OneFetcher'
    <3>1. Formed(Armed) /\ ~Fetches(Armed)
      BY ArmedTyped DEF Formed, Fetches
    <3> QED
      BY <2>5, <3>1, ArmedTyped, CancelStep DEF Schedule
  <2>6. ASSUME thr' = [thr EXCEPT ![w] = Idle], UNCHANGED <<timer, fetching>>, thr[w].at # "armed"
        PROVE  Shape' /\ OneFetcher'
    <3>1. Formed(Idle) /\ ~Fetches(Idle) /\ Idle.at # "armed"
      BY IdleTyped DEF Formed, Fetches
    <3> QED
      BY <2>6, <3>1, LocalStep
  <2>7. CASE InitDone(w)
    BY <2>5, <2>7 DEF InitDone
  <2>8. CASE TickDone(w)
    BY <2>5, <2>6, <2>8 DEF TickDone
  <2>9. CASE \/ Erase(w) \/ EraseFails(w) \/ ImportDone(w) \/ RefreshDone(w) \/ Render(w)
             \/ InitNotStarted(w) \/ BootstrapFails(w) \/ Insert(w)
             \/ RecordFails(w) /\ thr[w].task = "create"
    BY <2>6, <2>9
    DEF Erase, EraseFails, ImportDone, RefreshDone, Render, InitNotStarted, BootstrapFails,
        Insert, RecordFails
  <2>17. Formed(Idle) /\ ~Fetches(Idle) /\ Idle.at # "armed"
    BY IdleTyped DEF Formed, Fetches
  <2>18. CASE TickFails(w)
    <3>1. CASE thr[w].at = "armed"
      <4>1. thr' = [Cancelled EXCEPT ![w] = Idle] /\ timer' = None /\ fetching' = fetching
        BY <1>0, <2>0, <2>18, <3>1 DEF TickFails, Unregistered, Cancelled
      <4> QED
        BY <2>17, <4>1, CancelStep
    <3>2. CASE thr[w].at # "armed"
      BY <2>0, <2>6, <2>18, <3>2 DEF TickFails, Unregistered
    <3> QED
      BY <3>1, <3>2
  <2>19. CASE TimerNotStarted(w)
    BY <2>17, <2>19, CancelStep DEF TimerNotStarted
  <2>20. CASE Bootstrap(w)
    <3>1. Formed(StartTimer(row)) /\ StartTimer(row).at # "armed" /\ ~Fetches(StartTimer(row))
      BY Zenon DEF Formed, Fetches, StartTimer, Fetching, Idle, Refreshable
    <3> QED
      BY <2>20, <3>1, LocalStep DEF Bootstrap
  <2>10. CASE Tick(w)
    <3> DEFINE x == IF StillEnabled THEN Fetching("tick", row) ELSE Idle
    <3>1. x.at # "armed" /\ Formed(x) /\ ~Fetches(x)
      <4>1. StillEnabled => Formed(Fetching("tick", row)) /\ ~Fetches(Fetching("tick", row))
        BY Zenon DEF Formed, Fetches, Fetching, StillEnabled
      <4>2. Formed(Idle) /\ ~Fetches(Idle) /\ Idle.at # "armed"
        BY IdleTyped DEF Formed, Fetches
      <4> QED
        BY <4>1, <4>2 DEF Fetching
    <3>2. thr' = [Cancelled EXCEPT ![w] = x] /\ timer' = None /\ fetching' = fetching
      BY <1>0, <2>0, <2>10 DEF Tick, Unregistered, Cancelled
    <3> QED
      BY <3>1, <3>2, CancelStep
  <2>11. Formed(StartTimer(thr[w].plugin)) /\ StartTimer(thr[w].plugin).at # "armed"
         /\ ~Fetches(StartTimer(thr[w].plugin))
    BY Zenon DEF Formed, Fetches, StartTimer, Fetching, Idle, Refreshable
  <2>12. CASE CreateDone(w)
    BY <2>11, <2>12, LocalStep DEF CreateDone
  <2>13. CASE RestartTimer(w)
    BY <2>11, <2>13, CancelStep DEF RestartTimer
  <2>14. CASE Forget(w)
    <3> DEFINE x == [thr[w] EXCEPT !.at = "erase"]
    <3>1. x.at = "erase" /\ x.task = thr[w].task
      BY <2>0 DEF Thread
    <3>2. Formed(x) /\ ~Fetches(x)
      BY <2>0, <2>14, <3>1 DEF Forget, Formed, Fetches
    <3> QED
      BY <2>14, <3>1, <3>2, LocalStep DEF Forget
  <2>15. CASE WaitTimeout(w)
    <3> DEFINE x == [thr[w] EXCEPT !.at = "render"]
    <3>1. x.at = "render" /\ x.task = thr[w].task
      BY <2>0 DEF Thread
    <3>2. Formed(x) /\ ~Fetches(x)
      BY <2>0, <2>15, <3>1 DEF WaitTimeout, Formed, Fetches, Fetch
    <3> QED
      BY <2>15, <3>1, <3>2, LocalStep DEF WaitTimeout
  <2>16. CASE PlaylistDone(w)
    <3> DEFINE x == [Idle EXCEPT !.at = "render", !.task = "playlist"]
    <3>1. x.at = "render" /\ x.task = "playlist"
      BY BegunTyped, Names
    <3>2. Formed(x) /\ ~Fetches(x)
      BY <3>1 DEF Formed, Fetches, Fetch
    <3>3. \A v \in Workers : thr'[v] = IF v = w \/ thr[v].at = "wait" THEN x ELSE thr[v]
      BY <2>16 DEF PlaylistDone
    <3>4. \A v \in Workers : Formed(thr'[v]) /\ (thr'[v].at = "armed" <=> timer' = v)
      BY <2>16, <3>1, <3>2, <3>3 DEF PlaylistDone, Shape
    <3>5. Fetches(thr[w])
      BY <2>16 DEF PlaylistDone, Fetches, Fetch
    <3>6. \A v \in Workers : ~Fetches(thr'[v])
      BY <3>2, <3>3, <3>5 DEF OneFetcher, Fetches
    <3> QED
      BY <3>4, <3>6 DEF Shape, Formed, OneFetcher, Fetches
  <2> QED
    BY <1>1, <2>1, <2>2, <2>3, <2>4, <2>7, <2>8, <2>9, <2>10, <2>12, <2>13, <2>14, <2>15, <2>16,
       <2>18, <2>19, <2>20
    DEF Step, Fail
<1>2. ASSUME NEW w \in Workers, Begin(w) PROVE Shape' /\ OneFetcher'
  <2>r. ASSUME Request(w) PROVE thr[w].at = "idle" /\ thr[w].at # "armed"
    BY <2>r DEF Request
  <2>0. ASSUME Call(w) PROVE thr[w].at = "idle" /\ thr[w].at # "armed"
    BY <2>0, <2>r DEF Call
  <2>1. CASE Complete(w)
    <3> DEFINE x == [Idle EXCEPT !.at = "bootstrap", !.task = "setup"]
    <3>1. Formed(x) /\ ~Fetches(x) /\ x.at # "armed"
      BY DEF Formed, Fetches, Idle
    <3> QED
      BY <2>r, <2>1, <3>1, LocalStep DEF Complete
  <2>9. CASE Reset(w)
    BY <2>9, Zenon DEF Reset, Shape, Formed, OneFetcher
  <2>10. ASSUME NEW p \in Payload, SetupStep(w, p[1], p[2]) PROVE Shape' /\ OneFetcher'
    <3> DEFINE x == [Idle EXCEPT !.at = "insert", !.task = "setup",
                                 !.plugin = Inserted(p[1], p[2])]
    <3>1. Formed(x) /\ ~Fetches(x) /\ x.at # "armed"
      BY DEF Formed, Fetches, Idle
    <3> QED
      BY <2>r, <2>10, <3>1, LocalStep DEF SetupStep
  <2>2. CASE Import(w)
    <3> DEFINE x == [at |-> "store", task |-> "import", plugin |-> row, doc |-> Upload]
    <3>1. Formed(x) /\ ~Fetches(x) /\ x.at # "armed"
      BY Zenon DEF Formed, Fetches
    <3> QED
      BY <2>0, <2>2, <3>1, LocalStep DEF Import
  <2>3. CASE Refresh(w)
    <3>1. Formed(Fetching("refresh", row)) /\ ~Fetches(Fetching("refresh", row))
          /\ Fetching("refresh", row).at # "armed"
      BY <2>3, Zenon DEF Formed, Fetches, Fetching, Refresh
    <3> QED
      BY <2>0, <2>3, <3>1, LocalStep DEF Refresh
  <2>4. CASE RefreshFails(w)
    BY <2>4, Zenon DEF RefreshFails, Shape, Formed, OneFetcher
  <2>5. CASE Playlist(w)
    <3> DEFINE served == [Idle EXCEPT !.at = "render", !.task = "playlist"]
               waits == [Idle EXCEPT !.at = "wait", !.task = "playlist"]
               fetches == Fetching("playlist", row)
    <3>1. served.at = "render" /\ waits.at = "wait" /\ served.task = "playlist" /\ waits.task = "playlist"
      BY BegunTyped, Names
    <3>2. /\ Formed(served) /\ ~Fetches(served) /\ served.at # "armed"
          /\ Formed(waits) /\ ~Fetches(waits) /\ waits.at # "armed"
      BY <3>1 DEF Formed, Fetches, Fetch
    <3>3. ASSUME NEW x, thr' = [thr EXCEPT ![w] = x], UNCHANGED fetching,
                 Formed(x), ~Fetches(x), x.at # "armed"
          PROVE  Shape' /\ OneFetcher'
      BY <2>0, <2>5, <3>3, LocalStep DEF Playlist
    <3>4. ASSUME NobodyFetches, row # None, thr' = [thr EXCEPT ![w] = fetches], fetching' = w
          PROVE  Shape' /\ OneFetcher'
      <4>1. fetches.at = "ask" /\ Formed(fetches)
        BY <3>4, Zenon DEF Formed, Fetching
      <4>2. \A v \in Workers : thr'[v] = IF v = w THEN fetches ELSE thr[v]
        BY <1>0, <3>4
      <4>3. \A v \in Workers : Formed(thr'[v]) /\ (thr'[v].at = "armed" <=> timer' = v)
        BY <2>0, <2>5, <4>1, <4>2 DEF Playlist, Shape
      <4>4. \A v \in Workers : ~Fetches(thr[v])
        BY <1>0, <3>4 DEF NobodyFetches, OneFetcher, Fetches
      <4>5. \A v \in Workers : Fetches(thr'[v]) => fetching' = v
        BY <3>4, <4>2, <4>4
      <4> QED
        BY <4>3, <4>5 DEF Shape, Formed, OneFetcher, Fetches
    <3> QED
      BY <2>5, <3>2, <3>3, <3>4 DEF Playlist
  <2>6. CASE Delete(w)
    <3> DEFINE x == [Idle EXCEPT !.at = "forget", !.task = "delete"]
    <3>1. x.at = "forget" /\ x.task = "delete"
      BY BegunTyped, Names
    <3>2. Formed(x) /\ ~Fetches(x) /\ x.at # "armed"
      BY <3>1 DEF Formed, Fetches
    <3> QED
      BY <2>6, <3>2, CancelStep DEF Delete
  <2>7. ASSUME NEW p \in Payload, Update(w, p[1], p[2]) PROVE Shape' /\ OneFetcher'
    <3> DEFINE x == [Idle EXCEPT !.at = "restart", !.task = "update", !.plugin = row']
    <3>1. Formed(x) /\ ~Fetches(x) /\ x.at # "armed"
      BY DEF Formed, Fetches, Idle
    <3> QED
      BY <2>0, <2>7, <3>1, LocalStep DEF Update
  <2>8. ASSUME NEW p \in Payload, NEW d \in {None, Upload}, Create(w, p[1], p[2], d)
        PROVE  Shape' /\ OneFetcher'
    <3>1. Formed(StartTimer(row')) /\ StartTimer(row').at # "armed" /\ ~Fetches(StartTimer(row'))
      BY Zenon DEF Formed, Fetches, StartTimer, Fetching, Idle, Refreshable
    <3> DEFINE x == [at |-> "store", task |-> "create", plugin |-> row', doc |-> d]
    <3>2. Formed(x) /\ ~Fetches(x) /\ x.at # "armed"
      BY Zenon DEF Formed, Fetches
    <3> QED
      BY <2>0, <2>8, <3>1, <3>2, LocalStep DEF Create
  <2> QED
    BY <1>2, <2>1, <2>2, <2>3, <2>4, <2>5, <2>6, <2>7, <2>8, <2>9, <2>10 DEF Begin
<1>3. ASSUME NEW w \in Workers, Restart(w) PROVE Shape' /\ OneFetcher'
  <2>1. Formed(StartTimer(row)) /\ StartTimer(row).at # "armed" /\ ~Fetches(StartTimer(row))
    BY Zenon DEF Formed, Fetches, StartTimer, Fetching, Idle, Refreshable
  <2>2. Formed(Idle) /\ ~Fetches(Idle) /\ Idle.at # "armed"
    BY IdleTyped DEF Formed, Fetches
  <2>3. \A v \in Workers : thr'[v] = IF v = w /\ ~setup' THEN StartTimer(row) ELSE Idle
    BY <1>3 DEF Restart
  <2>4. \A v \in Workers : Formed(thr'[v]) /\ (thr'[v].at = "armed" <=> timer' = v)
                            /\ ~Fetches(thr'[v])
    BY <1>0, <1>3, <2>1, <2>2, <2>3 DEF Restart
  <2> QED
    BY <2>4 DEF Shape, Formed, OneFetcher, Fetches
<1>4. CASE UNCHANGED vars
  BY <1>4, Zenon DEF vars, Shape, Formed, OneFetcher
<1> QED
  BY <1>1, <1>2, <1>3, <1>4 DEF Next
-----------------------------------------------------------------------------
(* Who keeps an enabled plugin refreshed.                                  *)

\* A thread that is a timer, will arm one, or is about to start or delete the plugin.
Carries(t) ==
    \/ t.at \in {"armed", "bootstrap"} \/ t.task \in {"init", "tick", "delete"}
    \/ (t.task = "create" \/ t.at = "restart") /\ Refreshable(t.plugin)

Carried == ~lost /\ ~setup /\ Refreshable(row) => \E w \in Workers : Carries(thr[w])

\* An update that has yet to restart the timer wrote what the row still says.
Agrees ==
    \A w \in Workers : ~lost /\ row # None /\ thr[w].at = "restart"
        => (Refreshable(thr[w].plugin) <=> Refreshable(row))

\* There is no update of a plugin that was never created.
Born == row # None \/ (\E w \in Workers : thr[w].at = "restart") => born

Kept == Carried /\ Agrees /\ Born

\* A step of one thread, at most erasing the plugin or losing track of it.
LEMMA KeptLocally ==
  ASSUME TypeOK, Kept, NEW w \in Workers, NEW x,
         thr' = [thr EXCEPT ![w] = x], x.at # "restart", UNCHANGED <<born, setup>>,
         lost => lost', row' # None => row # None /\ (Refreshable(row') <=> Refreshable(row)),
         lost' \/ ~Refreshable(row') \/ (Carries(thr[w]) => Carries(x))
  PROVE  Kept'
<1>1. \A v \in Workers : thr'[v] = IF v = w THEN x ELSE thr[v]
  BY DEF TypeOK
<1>2. Refreshable(row') => row' # None
  BY DEF Refreshable
<1>3. Carried'
  <2>1. SUFFICES ASSUME ~lost', ~setup', Refreshable(row')
        PROVE  \E v \in Workers : Carries(thr'[v])
    BY DEF Carried
  <2>2. PICK v \in Workers : Carries(thr[v])
    BY <1>2, <2>1 DEF Kept, Carried
  <2> QED
    BY <1>1, <2>1, <2>2
<1>4. Agrees'
  BY <1>1 DEF Kept, Agrees
<1>5. Born'
  BY <1>1 DEF Kept, Born
<1> QED
  BY <1>3, <1>4, <1>5 DEF Kept

\* A step that leaves a carrier, or has nothing to carry.
LEMMA KeptBy ==
  ASSUME Kept, NEW w \in Workers, UNCHANGED <<row, born, setup, lost>>,
         ~lost /\ ~setup /\ Refreshable(row) => Carries(thr'[w]),
         \A v \in Workers : thr'[v].at = "restart" => thr'[v] = thr[v]
  PROVE  Kept'
<1>1. Carried'
  BY DEF Carried
<1>2. Agrees'
  BY DEF Kept, Agrees
<1>3. Born'
  BY DEF Kept, Born
<1> QED
  BY <1>1, <1>2, <1>3 DEF Kept

\* A step that may leave the plugin without one, and says so.
LEMMA KeptLost ==
  ASSUME Kept, Loses, UNCHANGED <<row, born>>,
         \A v \in Workers : thr'[v].at = "restart" => thr'[v] = thr[v]
  PROVE  Kept'
<1>1. Carried'
  BY DEF Carried, Loses
<1>2. Agrees'
  BY DEF Kept, Agrees, Loses
<1>3. Born'
  BY DEF Kept, Born
<1> QED
  BY <1>1, <1>2, <1>3 DEF Kept

\* Every step keeps a carrier for an enabled plugin.
LEMMA KeptStep ==
  ASSUME TypeOK, Shape, OneFetcher, Kept, [Next]_vars
  PROVE  Kept'
<1>0. thr \in [Workers -> Thread] /\ None \notin Workers
  BY PluginAssumption DEF TypeOK
<1>i. Idle.at = "idle" /\ Idle.task = "none"
  BY IdleTyped
<1>s. \A p \in Row \cup {None} :
        /\ Refreshable(p) => Carries(StartTimer(p))
        /\ StartTimer(p).at # "restart"
  BY <1>i, StartTyped DEF Carries
<1>1. ASSUME NEW w \in Workers, Step(w) \/ Fail(w) PROVE Kept'
  <2>0. thr[w] \in Thread /\ thr[w].plugin \in Row \cup {None} /\ Formed(thr[w])
    BY <1>0 DEF Thread, Shape
  <2>f. ASSUME NEW x, thr' = [thr EXCEPT ![w] = x], thr[w].at \in Fetch, x.at \in Fetch,
               x.task = thr[w].task, x.task = "create" => x.plugin = thr[w].plugin,
               UNCHANGED <<born, setup, lost>>,
               row' # None => row # None /\ (Refreshable(row') <=> Refreshable(row))
        PROVE  Kept'
    <3>1. Carries(thr[w]) => Carries(x)
      BY <2>f, Zenon DEF Carries, Fetch
    <3>2. x.at # "restart"
      BY <2>f DEF Fetch
    <3> QED
      BY <2>f, <3>1, <3>2, KeptLocally
  <2>l. ASSUME thr' = [thr EXCEPT ![w] = Idle], Loses, UNCHANGED <<row, born>> PROVE Kept'
    <3>1. \A v \in Workers : thr'[v] = IF v = w THEN Idle ELSE thr[v]
      BY <1>0, <2>l
    <3> QED
      BY <1>i, <2>l, <3>1, KeptLost
  <2>e. ASSUME thr' = [thr EXCEPT ![w] = Idle], UNCHANGED <<born, setup>>, lost => lost',
               row' # None => row # None /\ (Refreshable(row') <=> Refreshable(row)),
               lost' \/ ~Refreshable(row') \/ ~Carries(thr[w])
        PROVE  Kept'
    BY <1>i, <2>e, KeptLocally
  <2>1. CASE Ask(w)
    <3>1. PICK d \in Served \cup {None}, q \in Row :
            thr' = [thr EXCEPT ![w] = [thr[w] EXCEPT !.at = "sent", !.plugin = q, !.doc = d]]
      BY <2>1, AskedTyped
    <3> DEFINE x == [thr[w] EXCEPT !.at = "sent", !.plugin = q, !.doc = d]
    <3>2. x.at = "sent" /\ x.task = thr[w].task /\ x.task # "create"
      BY <2>0, <2>1 DEF Thread, Formed, Ask
    <3> QED
      BY <2>1, <2>f, <3>1, <3>2 DEF Ask, Fetch
  <2>2. ASSUME thr[w].at \in Fetch, thr' = [thr EXCEPT ![w] = Returned(@)],
               UNCHANGED <<born, setup, lost>>, row' # None => row # None /\ (Refreshable(row') <=> Refreshable(row))
        PROVE  Kept'
    <3>1. Returned(thr[w]).at \in Fetch
      BY <2>0, ReturnedTyped DEF Fetch
    <3> QED
      BY <2>0, <2>2, <2>f, <3>1, ReturnedTyped
  <2>3. CASE Blocked(w) \/ Unmodified(w) \/ FetchFails(w) \/ RecordFails(w)
    <3>1. CASE RecordFails(w) /\ thr[w].task = "create"
      BY <2>l, <3>1 DEF RecordFails
    <3>2. CASE ~(RecordFails(w) /\ thr[w].task = "create")
      BY <2>2, <2>3, <3>2 DEF Blocked, Unmodified, FetchFails, RecordFails, Fetch
    <3> QED
      BY <3>1, <3>2
  <2>4. CASE RecordStatus(w)
    <3>1. row' # None => row # None /\ (Refreshable(row') <=> Refreshable(row))
      BY <2>4 DEF RecordStatus, Refreshable, TypeOK, Row
    <3> QED
      BY <2>2, <2>4, <3>1 DEF RecordStatus, Fetch
  <2>5. ASSUME NEW d \in Docs, Download(w, d) PROVE Kept'
    <3> DEFINE x == [thr[w] EXCEPT !.at = "store", !.doc = <<thr[w].plugin.url, d>>]
    <3>1. x.at = "store" /\ x.task = thr[w].task /\ x.plugin = thr[w].plugin
      BY <2>0 DEF Thread
    <3> QED
      BY <2>5, <2>f, <3>1 DEF Download, Fetch
  <2>6. CASE StoreChannels(w)
    <3> DEFINE x == [thr[w] EXCEPT !.at = "record"]
    <3>1. x.at = "record" /\ x.task = thr[w].task /\ x.plugin = thr[w].plugin
      BY <2>0 DEF Thread
    <3> QED
      BY <2>6, <2>f, <3>1 DEF StoreChannels, Fetch
  <2>7. ASSUME Schedule(w), UNCHANGED <<row, born, setup, lost>> PROVE Kept'
    <3>1. \A v \in Workers : thr'[v] = IF v = w THEN Armed ELSE IF thr[v].at = "armed" THEN Idle ELSE thr[v]
      BY <2>7, CancelledTyped DEF Schedule
    <3>2. Carries(thr'[w]) /\ thr'[w].at # "restart"
      BY <3>1, ArmedTyped DEF Carries
    <3>3. \A v \in Workers : thr'[v].at = "restart" => thr'[v] = thr[v]
      BY <1>i, <3>1, <3>2
    <3> QED
      BY <2>7, <3>2, <3>3, KeptBy
  <2>8. CASE InitDone(w)
    BY <2>7, <2>8 DEF InitDone
  <2>9. CASE TickDone(w)
    <3>1. ~StillEnabled => ~Refreshable(row)
      BY DEF StillEnabled, Refreshable
    <3> QED
      BY <2>7, <2>9, <2>e, <3>1 DEF TickDone
  <2>10. CASE Tick(w)
    <3>1. CASE StillEnabled
      <4>1. Fetching("tick", row).at = "ask" /\ Carries(Fetching("tick", row))
        BY Zenon DEF Fetching, Carries
      <4> QED
        BY <2>10, <3>1, <4>1, KeptLocally DEF Tick
    <3>2. CASE ~StillEnabled
      <4>1. ~Refreshable(row)
        BY <3>2 DEF StillEnabled, Refreshable
      <4> QED
        BY <2>10, <2>e, <3>2, <4>1 DEF Tick
    <3> QED
      BY <3>1, <3>2
  <2>11. CASE CreateDone(w)
    <3>1. Carries(thr[w]) => Carries(StartTimer(thr[w].plugin))
      BY <1>s, <2>0, <2>11 DEF CreateDone, Carries
    <3> QED
      BY <1>s, <2>0, <2>11, <3>1, KeptLocally DEF CreateDone
  <2>12. CASE RestartTimer(w)
    <3> DEFINE x == StartTimer(thr[w].plugin)
    <3>1. \A v \in Workers : thr'[v] = IF v = w THEN x ELSE IF thr[v].at = "armed" THEN Idle ELSE thr[v]
      BY <2>12, CancelledTyped DEF RestartTimer
    <3>2. ~lost /\ ~setup /\ Refreshable(row) => Refreshable(thr[w].plugin)
      BY <2>12 DEF RestartTimer, Kept, Agrees, Refreshable
    <3>3. \A v \in Workers : thr'[v].at = "restart" => thr'[v] = thr[v]
      BY <1>i, <1>s, <2>0, <3>1
    <3>4. ~lost /\ ~setup /\ Refreshable(row) => Carries(thr'[w])
      BY <1>s, <2>0, <3>1, <3>2
    <3> QED
      BY <2>12, <3>3, <3>4, KeptBy DEF RestartTimer
  <2>13. CASE Forget(w)
    <3> DEFINE x == [thr[w] EXCEPT !.at = "erase"]
    <3>1. x.at = "erase" /\ x.task = "delete"
      BY <2>0, <2>13 DEF Thread, Formed, Forget
    <3>2. Carries(x)
      BY <3>1 DEF Carries
    <3> QED
      BY <2>13, <3>1, <3>2, KeptLocally DEF Forget
  <2>14. CASE Erase(w)
    BY <2>14, <2>e DEF Erase, Refreshable
  <2>15. CASE EraseFails(w) \/ InitNotStarted(w) \/ BootstrapFails(w) \/ TickFails(w)
    BY <2>15, <2>l DEF EraseFails, InitNotStarted, BootstrapFails, TickFails
  <2>19. CASE TimerNotStarted(w)
    <3>1. \A v \in Workers : thr'[v] = IF v = w \/ thr[v].at = "armed" THEN Idle ELSE thr[v]
      BY <2>19, CancelledTyped DEF TimerNotStarted
    <3> QED
      BY <1>i, <2>19, <3>1, KeptLost DEF TimerNotStarted
  <2>20. CASE Bootstrap(w)
    <3>1. \A v \in Workers : thr'[v] = IF v = w THEN StartTimer(row) ELSE thr[v]
      BY <1>0, <2>20 DEF Bootstrap
    <3>2. /\ Refreshable(row) => Carries(thr'[w])
          /\ \A v \in Workers : thr'[v].at = "restart" => thr'[v] = thr[v]
      BY <1>s, <3>1 DEF TypeOK
    <3> QED
      BY <2>20, <3>2, KeptBy DEF Bootstrap
  <2>21. CASE Insert(w)
    <3>1. \A v \in Workers : thr'[v] = IF v = w THEN Idle ELSE thr[v]
      BY <1>0, <2>21 DEF Insert
    <3>2. ~Carries(thr[w])
      BY <2>0, <2>21, Zenon DEF Insert, Formed, Carries
    <3>3. CASE born
      BY <2>21, <2>e, <3>2, <3>3 DEF Insert
    <3>4. CASE ~born
      <4>1. /\ setup' = setup /\ born'
            /\ lost' = (lost \/ (Refreshable(row') /\ ~setup /\ ~Bootstrapping))
        BY <2>21, <3>4 DEF Insert
      <4>2. \A v \in Workers : thr'[v].at # "restart"
        BY <1>i, <3>1, <3>4 DEF Kept, Born
      <4>3. ASSUME ~lost', ~setup', Refreshable(row')
            PROVE  \E v \in Workers : Carries(thr'[v])
        <5>1. PICK v \in Workers : thr[v].at = "bootstrap"
          BY <4>1, <4>3 DEF Bootstrapping
        <5>2. thr'[v] = thr[v]
          BY <2>21, <3>1, <5>1 DEF Insert
        <5> QED
          BY <5>1, <5>2 DEF Carries
      <4> QED
        BY <4>1, <4>2, <4>3 DEF Kept, Carried, Agrees, Born
    <3> QED
      BY <3>3, <3>4
  <2>16. CASE ImportDone(w) \/ RefreshDone(w) \/ Render(w)
    <3>1. ~Carries(thr[w])
      BY <2>0, <2>16, Zenon DEF ImportDone, RefreshDone, Render, Carries, Formed
    <3> QED
      BY <2>16, <2>e, <3>1 DEF ImportDone, RefreshDone, Render
  <2>17. CASE WaitTimeout(w)
    <3> DEFINE x == [thr[w] EXCEPT !.at = "render"]
    <3>1. x.at = "render" /\ ~Carries(thr[w])
      BY <2>0, <2>17 DEF Thread, Formed, WaitTimeout, Carries
    <3> QED
      BY <2>17, <3>1, KeptLocally DEF WaitTimeout
  <2>18. CASE PlaylistDone(w)
    <3> DEFINE x == [Idle EXCEPT !.at = "render", !.task = "playlist"]
    <3>1. x.at = "render" /\ x.task = "playlist"
      BY BegunTyped, Names
    <3>2. \A v \in Workers : thr'[v] = IF v = w \/ thr[v].at = "wait" THEN x ELSE thr[v]
      BY <2>18 DEF PlaylistDone
    <3>3. \A v \in Workers : Carries(thr[v]) => Carries(thr'[v])
      BY <2>18, <3>2, Zenon DEF PlaylistDone, Shape, Formed, Carries
    <3>4. \A v \in Workers : thr'[v].at = "restart" => thr'[v] = thr[v]
      BY <3>1, <3>2
    <3>5. UNCHANGED <<row, born, setup, lost>>
      BY <2>18 DEF PlaylistDone
    <3>6. Carried'
      BY <3>3, <3>5 DEF Kept, Carried
    <3>7. Agrees' /\ Born'
      BY <3>4, <3>5 DEF Kept, Agrees, Born
    <3> QED
      BY <3>6, <3>7 DEF Kept
  <2> QED
    BY <1>1, <2>1, <2>3, <2>4, <2>5, <2>6, <2>8, <2>9, <2>10, <2>11, <2>12, <2>13, <2>14,
       <2>15, <2>16, <2>17, <2>18, <2>19, <2>20, <2>21
    DEF Step, Fail
<1>2. ASSUME NEW w \in Workers, Begin(w) PROVE Kept'
  <2>r. ASSUME Request(w) PROVE ~Carries(thr[w]) /\ thr[w].at = "idle"
    BY <2>r, Zenon DEF Request, Carries, Shape, Formed
  <2>s. ASSUME Request(w), NEW x, thr' = [thr EXCEPT ![w] = x], x.at # "restart",
               UNCHANGED <<row, born, setup, lost>>
        PROVE  Kept'
    BY <2>r, <2>s, KeptLocally
  <2>1. ASSUME Call(w), NEW x, thr' = [thr EXCEPT ![w] = x], x.at # "restart",
               UNCHANGED <<row, born, lost>>
        PROVE  Kept'
    BY <2>1, <2>s DEF Call
  <2>2. CASE Complete(w)
    <3> DEFINE x == [Idle EXCEPT !.at = "bootstrap", !.task = "setup"]
    <3>1. \A v \in Workers : thr'[v] = IF v = w THEN x ELSE thr[v]
      BY <1>0, <2>2 DEF Complete
    <3>2. x.at = "bootstrap"
      BY DEF Idle
    <3>3. Carries(thr'[w])
      BY <3>1, <3>2 DEF Carries
    <3>4. \A v \in Workers : thr'[v].at = "restart" => thr'[v] = thr[v]
      BY <3>1, <3>2
    <3> QED
      BY <2>2, <3>3, <3>4 DEF Complete, Kept, Carried, Agrees, Born
  <2>10. CASE Reset(w)
    BY <2>10, Zenon DEF Reset, Kept, Carried, Agrees, Born
  <2>11. ASSUME NEW p \in Payload, SetupStep(w, p[1], p[2]) PROVE Kept'
    <3> DEFINE x == [Idle EXCEPT !.at = "insert", !.task = "setup",
                                 !.plugin = Inserted(p[1], p[2])]
    <3>1. x.at # "restart"
      BY DEF Idle
    <3> QED
      BY <2>s, <2>11, <3>1 DEF SetupStep
  <2>3. CASE Import(w)
    <3> DEFINE x == [at |-> "store", task |-> "import", plugin |-> row, doc |-> Upload]
    <3>1. x.at # "restart"
      OBVIOUS
    <3> QED
      BY <2>1, <2>3, <3>1 DEF Import
  <2>4. CASE Refresh(w)
    <3>1. Fetching("refresh", row).at # "restart"
      BY DEF Fetching
    <3> QED
      BY <2>1, <2>4, <3>1 DEF Refresh
  <2>5. CASE RefreshFails(w)
    BY <2>5, Zenon DEF RefreshFails, Call, Kept, Carried, Agrees, Born
  <2>6. CASE Playlist(w)
    <3>1. /\ [Idle EXCEPT !.at = "render", !.task = "playlist"].at # "restart"
          /\ [Idle EXCEPT !.at = "wait", !.task = "playlist"].at # "restart"
          /\ Fetching("playlist", row).at # "restart"
      BY DEF Idle, Fetching
    <3> QED
      BY <2>1, <2>6, <3>1 DEF Playlist
  <2>7. CASE Delete(w)
    <3> DEFINE x == [Idle EXCEPT !.at = "forget", !.task = "delete"]
    <3>1. x.at = "forget" /\ x.task = "delete"
      BY BegunTyped, Names
    <3>2. \A v \in Workers : thr'[v] = IF v = w THEN x ELSE IF thr[v].at = "armed" THEN Idle ELSE thr[v]
      BY <2>7, CancelledTyped DEF Delete
    <3>3. Carries(thr'[w]) /\ \A v \in Workers : thr'[v].at = "restart" => thr'[v] = thr[v]
      BY <1>i, <3>1, <3>2 DEF Carries
    <3> QED
      BY <2>7, <3>3, KeptBy DEF Delete, Call
  <2>8. ASSUME NEW p \in Payload, Update(w, p[1], p[2]) PROVE Kept'
    <3> DEFINE x == [Idle EXCEPT !.at = "restart", !.task = "update", !.plugin = row']
    <3>1. x.at = "restart" /\ x.plugin = row'
      BY DEF Idle
    <3>2. \A v \in Workers : thr'[v] = IF v = w THEN x ELSE thr[v]
      BY <1>0, <2>8 DEF Update
    <3>3. Carried'
      <4>1. Refreshable(row') => Carries(thr'[w])
        BY <3>1, <3>2 DEF Carries
      <4> QED
        BY <4>1 DEF Carried
    <3>4. Agrees'
      <4>1. ~lost' => \A v \in Workers : thr[v].at # "restart"
        BY <2>8, Zenon DEF Update
      <4>2. ASSUME NEW v \in Workers, ~lost', thr'[v].at = "restart"
            PROVE  thr'[v].plugin = row'
        BY <3>1, <3>2, <4>1, <4>2
      <4> QED
        BY <4>2 DEF Agrees
    <3>5. Born'
      BY <2>8 DEF Update, Kept, Born
    <3> QED
      BY <3>3, <3>4, <3>5 DEF Kept
  <2>9. ASSUME NEW p \in Payload, NEW d \in {None, Upload}, Create(w, p[1], p[2], d)
        PROVE  Kept'
    <3> DEFINE x == [at |-> "store", task |-> "create", plugin |-> row', doc |-> d]
    <3>1. row' \in Row \cup {None}
      BY <2>9 DEF Create, Inserted, Row, Payload
    <3>2. thr'[w] = IF d = None THEN StartTimer(row') ELSE x
      BY <1>0, <2>9 DEF Create
    <3>3. x.at = "store" /\ (Refreshable(row') => Carries(x))
      BY Zenon DEF Carries
    <3>4. (Refreshable(row') => Carries(thr'[w])) /\ thr'[w].at # "restart"
      BY <1>s, <3>1, <3>2, <3>3
    <3>5. \A v \in Workers : v # w => thr'[v] = thr[v]
      BY <1>0, <2>9 DEF Create
    <3>6. \A v \in Workers : thr'[v].at # "restart"
      BY <2>9, <3>4, <3>5 DEF Create, Kept, Born
    <3>7. Carried'
      BY <3>4 DEF Carried
    <3>8. Agrees' /\ Born'
      BY <2>9, <3>6 DEF Create, Agrees, Born
    <3> QED
      BY <3>7, <3>8 DEF Kept
  <2> QED
    BY <1>2, <2>2, <2>3, <2>4, <2>5, <2>6, <2>7, <2>8, <2>9, <2>10, <2>11 DEF Begin
<1>3. ASSUME NEW w \in Workers, Restart(w) PROVE Kept'
  <2>1. row \in Row \cup {None} /\ UNCHANGED <<row, born>>
    BY <1>3 DEF Restart, TypeOK
  <2>2. \A v \in Workers : thr'[v] = IF v = w /\ ~setup' THEN StartTimer(row) ELSE Idle
    BY <1>3 DEF Restart
  <2>3. \A v \in Workers : thr'[v].at # "restart"
    BY <1>i, <1>s, <2>1, <2>2
  <2>4. ~setup' /\ Refreshable(row) => Carries(thr'[w])
    BY <1>s, <2>1, <2>2
  <2>5. Carried'
    BY <2>1, <2>4 DEF Carried
  <2>6. Agrees' /\ Born'
    BY <2>1, <2>3 DEF Kept, Agrees, Born
  <2> QED
    BY <2>5, <2>6 DEF Kept
<1>4. CASE UNCHANGED vars
  BY <1>4, Zenon DEF vars, Kept, Carried, Agrees, Born
<1> QED
  BY <1>1, <1>2, <1>3, <1>4 DEF Next

-----------------------------------------------------------------------------
(* The validator and the cached channels. Between storing and recording    *)
(* they differ, so the invariant follows the document a thread holds: while *)
(* nothing overlapped, it is the one that is cached, or nothing is, and the *)
(* server of it sends a validator. A plugin is created once, hence where   *)
(* nothing is cached for it and no thread holds a document of it.          *)

Holds(t) == t.at \in {"store", "record"} => t.doc # None

\* Points before there is a plugin: idle, about to insert it, or to start what there is.
Early(t) == t.at \in {"idle", "insert", "bootstrap"}

Unborn == ~born => row = None /\ cache = None /\ \A w \in Workers : Early(thr[w])

Stored ==
    ~mixed => \A w \in Workers : thr[w].at = "record" =>
        /\ thr[w].doc # Upload /\ thr[w].plugin.url \in Tagged
        /\ cache \in {None, thr[w].doc}

Described ==
    /\ \A w \in Workers : Holds(thr[w])
    /\ Unborn /\ Stored /\ ValidatorDescribesCache

\* A step after which the same threads are about to record the same documents, and
\* what is recorded or cached is at most forgotten.
LEMMA DescribedBy ==
  ASSUME Described, born' = born, mixed' = mixed, cache' \in {cache, None},
         row' # None => row # None /\ row'.etag = row.etag,
         born \/ \A v \in Workers : Early(thr'[v]),
         \A v \in Workers : Holds(thr'[v]),
         \A v \in Workers : thr'[v].at = "record" <=> thr[v].at = "record",
         \A v \in Workers : thr[v].at = "record" => thr'[v] = thr[v]
  PROVE  Described'
<1>1. Unborn'
  BY DEF Described, Unborn
<1>2. Stored'
  BY DEF Described, Stored
<1>3. ValidatorDescribesCache'
  BY DEF Described, ValidatorDescribesCache
<1> QED
  BY <1>1, <1>2, <1>3 DEF Described, Holds

\* One thread goes on to something else.
LEMMA DescribedLocally ==
  ASSUME TypeOK, Described, born' = born, mixed' = mixed, cache' \in {cache, None},
         row' # None => row # None /\ row'.etag = row.etag,
         NEW w \in Workers, NEW x, thr' = [thr EXCEPT ![w] = x], born \/ Early(x),
         thr[w].at # "record", x.at # "record", Holds(x)
  PROVE  Described'
<1>1. \A v \in Workers : thr'[v] = IF v = w THEN x ELSE thr[v]
  BY DEF TypeOK
<1>2. born \/ \A v \in Workers : Early(thr'[v])
  BY <1>1 DEF Described, Unborn
<1> QED
  BY <1>1, <1>2, DescribedBy DEF Described

\* The same where the registered timer is cancelled.
LEMMA DescribedCancelled ==
  ASSUME TypeOK, Shape, Described, born, UNCHANGED <<born, mixed, cache, row>>,
         NEW w \in Workers, NEW x, thr' = [Cancelled EXCEPT ![w] = x],
         thr[w].at # "record", x.at # "record", Holds(x)
  PROVE  Described'
<1>1. \A v \in Workers : thr'[v] = IF v = w THEN x ELSE IF thr[v].at = "armed" THEN Idle ELSE thr[v]
  BY CancelledTyped
<1>2. Idle.at = "idle" /\ Holds(Idle)
  BY IdleTyped DEF Holds
<1> QED
  BY <1>1, <1>2, DescribedBy DEF Described

\* Once every thread that was about to record did not, nothing is stored.
LEMMA DescribedMixed ==
  ASSUME TypeOK, Described, born, born', mixed', NEW w \in Workers, NEW x,
         thr' = [thr EXCEPT ![w] = x], Holds(x)
  PROVE  Described'
<1>1. \A v \in Workers : thr'[v] = IF v = w THEN x ELSE thr[v]
  BY DEF TypeOK
<1>2. \A v \in Workers : Holds(thr'[v])
  BY <1>1 DEF Described
<1>3. Unborn' /\ Stored' /\ ValidatorDescribesCache'
  BY DEF Unborn, Stored, ValidatorDescribesCache
<1> QED
  BY <1>2, <1>3 DEF Described, Holds

\* Every step keeps the validator that of the cached channels.
LEMMA DescribedStep ==
  ASSUME TypeOK, Shape, Kept, Described, [Next]_vars
  PROVE  Described'
<1>0. thr \in [Workers -> Thread] /\ None \notin Workers /\ Upload # None
      /\ None \notin Served /\ Upload \notin Served
  BY PluginAssumption DEF TypeOK, Served
<1>i. Idle.at = "idle" /\ Holds(Idle) /\ Early(Idle)
  BY IdleTyped DEF Holds, Early
<1>s. \A p \in Row \cup {None} : StartTimer(p).at \in {"ask", "idle"} /\ Holds(StartTimer(p))
  BY <1>i, StartTyped DEF Holds
<1>b. row # None => born
  BY DEF Kept, Born
<1>1. ASSUME NEW w \in Workers, Step(w) \/ Fail(w) PROVE Described'
  <2>0. thr[w] \in Thread /\ thr[w].plugin \in Row \cup {None} /\ Holds(thr[w])
    BY <1>0 DEF Thread, Described
  <2>b. ~Early(thr[w]) => born
    BY DEF Described, Unborn
  <2>e. thr[w].at \in {"idle", "insert", "bootstrap"} \/ born
    BY <2>b DEF Early
  <2>1. CASE Ask(w)
    <3>1. PICK d \in Served \cup {None}, q \in Row :
             thr' = [thr EXCEPT ![w] = [thr[w] EXCEPT !.at = "sent", !.plugin = q, !.doc = d]]
      BY <2>1, AskedTyped
    <3> DEFINE x == [thr[w] EXCEPT !.at = "sent", !.plugin = q, !.doc = d]
    <3>2. x.at = "sent" /\ Holds(x)
      BY <2>0 DEF Thread, Holds
    <3> QED
      BY <2>1, <2>e, <3>1, <3>2, DescribedLocally DEF Ask
  <2>2. CASE Blocked(w) \/ Unmodified(w) \/ FetchFails(w)
    <3>1. Returned(thr[w]).at = "done" /\ Holds(Returned(thr[w]))
      BY <2>0, ReturnedTyped DEF Holds
    <3> QED
      BY <2>2, <2>e, <3>1, DescribedLocally DEF Blocked, Unmodified, FetchFails
  <2>3. ASSUME NEW d \in Docs, Download(w, d) PROVE Described'
    <3> DEFINE x == [thr[w] EXCEPT !.at = "store", !.doc = <<thr[w].plugin.url, d>>]
    <3>1. thr[w].plugin.url \in Sources
      BY <2>3 DEF Shape, Formed, Download, Row
    <3>2. <<thr[w].plugin.url, d>> # None
      BY <1>0, <3>1 DEF Served
    <3>3. x.at = "store" /\ x.doc = <<thr[w].plugin.url, d>>
      BY <2>0 DEF Thread
    <3>4. x.at # "record" /\ Holds(x)
      BY <3>2, <3>3 DEF Holds
    <3> QED
      BY <2>3, <2>e, <3>4, DescribedLocally DEF Download
  <2>4. CASE StoreChannels(w)
    <3> DEFINE x == [thr[w] EXCEPT !.at = "record"]
    <3>1. x.at = "record" /\ x.doc = thr[w].doc /\ x.plugin = thr[w].plugin
      BY <2>0 DEF Thread
    <3>2. \A v \in Workers : thr'[v] = IF v = w THEN x ELSE thr[v]
      BY <1>0, <2>4 DEF StoreChannels
    <3>3. thr[w].at = "store" /\ cache' = thr[w].doc /\ UNCHANGED <<row, born>> /\ born
      BY <2>4, <2>e DEF StoreChannels
    <3>4. thr[w].doc # None
      BY <2>0, <3>3 DEF Holds
    <3>5. \A v \in Workers : Holds(thr'[v])
      BY <3>1, <3>2, <3>4 DEF Described, Holds
    <3>6. ~mixed' => /\ thr[w].doc # Upload /\ thr[w].plugin.url \in Tagged
                     /\ \A v \in Workers : thr[v].at = "record" => v = w
      BY <2>4, Zenon DEF StoreChannels
    <3>7. thr[w].doc \in Served \cup {Upload, None}
      BY <2>0 DEF Thread
    <3>8. Stored'
      BY <3>1, <3>2, <3>3, <3>4, <3>6, <3>7 DEF Stored
    <3>9. Unborn' /\ ValidatorDescribesCache'
      BY <3>1, <3>2, <3>3 DEF Unborn, ValidatorDescribesCache
    <3> QED
      BY <3>5, <3>8, <3>9 DEF Described, Holds
  <2>5. CASE RecordStatus(w)
    <3>1. Returned(thr[w]).at = "done" /\ Holds(Returned(thr[w]))
      BY <2>0, ReturnedTyped DEF Holds
    <3>2. /\ thr[w].at = "record" /\ born /\ UNCHANGED <<born, cache, mixed>>
          /\ row' = IF row = None THEN None ELSE [row EXCEPT !.etag = Validator(w)]
      BY <2>5, <2>e DEF RecordStatus
    <3>3. \A v \in Workers : thr'[v] = IF v = w THEN Returned(thr[w]) ELSE thr[v]
      BY <1>0, <2>5 DEF RecordStatus
    <3>4. \A v \in Workers : Holds(thr'[v])
      BY <3>1, <3>3 DEF Described
    <3>5. Stored'
      BY <3>1, <3>2, <3>3 DEF Described, Stored
    <3>6. ~mixed /\ row' # None => row'.etag = thr[w].doc
      <4>1. ~mixed => Validator(w) = thr[w].doc
        BY <3>2 DEF Described, Stored, Validator
      <4>2. row # None => row \in Row
        BY DEF TypeOK
      <4> QED
        BY <3>2, <4>1, <4>2 DEF Row
    <3>7. ~mixed => cache \in {None, thr[w].doc}
      BY <3>2 DEF Described, Stored
    <3>8. ValidatorDescribesCache'
      BY <3>2, <3>6, <3>7 DEF ValidatorDescribesCache
    <3>9. Unborn'
      BY <3>2 DEF Unborn
    <3> QED
      BY <3>4, <3>5, <3>8, <3>9 DEF Described, Holds
  <2>6. CASE RecordFails(w)
    <3>1. Holds(Returned(thr[w]))
      BY <2>0, ReturnedTyped DEF Holds
    <3>2. PICK x \in {Idle, Returned(thr[w])} : thr' = [thr EXCEPT ![w] = x]
      BY <2>6 DEF RecordFails
    <3>3. Holds(x)
      BY <1>i, <3>1, <3>2
    <3> QED
      BY <2>6, <2>e, <3>2, <3>3, DescribedMixed DEF RecordFails
  <2>7. ASSUME Schedule(w), UNCHANGED <<row, born, cache, mixed>>, thr[w].at = "done"
        PROVE  Described'
    <3>1. Armed.at = "armed" /\ Holds(Armed)
      BY ArmedTyped DEF Holds
    <3> QED
      BY <2>7, <2>e, <3>1, DescribedCancelled DEF Schedule
  <2>8. ASSUME thr' = [thr EXCEPT ![w] = Idle], thr[w].at # "record",
               UNCHANGED <<born, cache, mixed>>, row' = None \/ row' = row
        PROVE  Described'
    BY <1>i, <2>8, DescribedLocally
  <2>9. CASE InitDone(w)
    BY <2>7, <2>9 DEF InitDone
  <2>10. CASE TickDone(w)
    BY <2>7, <2>8, <2>10 DEF TickDone
  <2>11. CASE Erase(w) \/ EraseFails(w) \/ ImportDone(w) \/ RefreshDone(w) \/ Render(w)
    BY <2>8, <2>11 DEF Erase, EraseFails, ImportDone, RefreshDone, Render
  <2>18. CASE TickFails(w) \/ InitNotStarted(w) \/ BootstrapFails(w)
    BY <2>8, <2>18 DEF TickFails, InitNotStarted, BootstrapFails
  <2>19. CASE TimerNotStarted(w)
    BY <1>i, <2>19, <2>e, DescribedCancelled DEF TimerNotStarted
  <2>20. CASE Bootstrap(w)
    <3>1. StartTimer(row).at # "record" /\ Holds(StartTimer(row)) /\ (born \/ Early(StartTimer(row)))
      BY <1>b, <1>i, <1>s DEF TypeOK, StartTimer, Refreshable
    <3> QED
      BY <2>20, <3>1, DescribedLocally DEF Bootstrap
  <2>21. CASE Insert(w)
    <3>1. CASE born
      BY <2>8, <2>21, <3>1 DEF Insert
    <3>2. CASE ~born
      <4>1. \A v \in Workers : thr'[v] = IF v = w THEN Idle ELSE thr[v]
        BY <1>0, <2>21 DEF Insert
      <4>2. born' /\ cache' = None /\ \A v \in Workers : Early(thr[v])
        BY <2>21, <3>2 DEF Insert, Described, Unborn
      <4>3. \A v \in Workers : Holds(thr'[v]) /\ thr'[v].at # "record"
        BY <1>i, <4>1, <4>2 DEF Early, Holds
      <4>4. Unborn' /\ Stored' /\ ValidatorDescribesCache'
        BY <4>2, <4>3 DEF Unborn, Stored, ValidatorDescribesCache
      <4> QED
        BY <4>3, <4>4 DEF Described, Holds
    <3> QED
      BY <3>1, <3>2  <2>12. CASE Tick(w)
    <3> DEFINE x == IF StillEnabled THEN Fetching("tick", row) ELSE Idle
    <3>1. x.at # "record" /\ Holds(x)
      <4>1. Fetching("tick", row).at = "ask" /\ Holds(Fetching("tick", row))
        BY DEF Fetching, Holds
      <4> QED
        BY <1>i, <4>1
    <3> QED
      BY <2>12, <2>e, <3>1, DescribedLocally DEF Tick
  <2>13. CASE CreateDone(w)
    BY <1>s, <2>0, <2>13, <2>e, DescribedLocally DEF CreateDone
  <2>14. CASE RestartTimer(w)
    BY <1>s, <2>0, <2>14, <2>e, DescribedCancelled DEF RestartTimer
  <2>15. CASE Forget(w)
    <3> DEFINE x == [thr[w] EXCEPT !.at = "erase"]
    <3>1. x.at = "erase" /\ Holds(x)
      BY <2>0 DEF Thread, Holds
    <3> QED
      BY <2>15, <2>e, <3>1, DescribedLocally DEF Forget
  <2>16. CASE WaitTimeout(w)
    <3> DEFINE x == [thr[w] EXCEPT !.at = "render"]
    <3>1. x.at = "render" /\ Holds(x)
      BY <2>0 DEF Thread, Holds
    <3> QED
      BY <2>16, <2>e, <3>1, DescribedLocally DEF WaitTimeout
  <2>17. CASE PlaylistDone(w)
    <3> DEFINE x == [Idle EXCEPT !.at = "render", !.task = "playlist"]
    <3>1. x.at = "render" /\ Holds(x)
      BY DEF Idle, Holds
    <3>2. \A v \in Workers : thr'[v] = IF v = w \/ thr[v].at = "wait" THEN x ELSE thr[v]
      BY <2>17 DEF PlaylistDone
    <3>3. thr[w].at = "done" /\ UNCHANGED <<row, born, cache, mixed>> /\ born
      BY <2>17, <2>e DEF PlaylistDone
    <3>4. \A v \in Workers : Holds(thr'[v])
      BY <3>1, <3>2 DEF Described
    <3>5. \A v \in Workers : /\ thr'[v].at = "record" <=> thr[v].at = "record"
                             /\ thr[v].at = "record" => thr'[v] = thr[v]
      BY <3>1, <3>2, <3>3
    <3> QED
      BY <3>3, <3>4, <3>5, DescribedBy
  <2> QED
    BY <1>1, <2>1, <2>2, <2>3, <2>4, <2>5, <2>6, <2>9, <2>10, <2>11, <2>12, <2>13, <2>14,
       <2>15, <2>16, <2>17, <2>18, <2>19, <2>20, <2>21
    DEF Step, Fail
<1>2. ASSUME NEW w \in Workers, Begin(w) PROVE Described'
  <2>1. ASSUME Call(w), row # None, NEW x, thr' = [thr EXCEPT ![w] = x], x.at # "record", Holds(x),
               UNCHANGED <<born, cache, mixed>>, row' # None => row'.etag = row.etag
        PROVE  Described'
    BY <1>b, <2>1, DescribedLocally DEF Call, Request
  <2>2. CASE Complete(w)
    <3> DEFINE x == [Idle EXCEPT !.at = "bootstrap", !.task = "setup"]
    <3>1. x.at = "bootstrap" /\ Holds(x) /\ Early(x)
      BY DEF Idle, Holds, Early
    <3> QED
      BY <2>2, <3>1, DescribedLocally DEF Complete, Request
  <2>10. CASE Reset(w)
    BY <2>10 DEF Reset, Described, Holds, Unborn, Early, Stored, ValidatorDescribesCache
  <2>11. ASSUME NEW p \in Payload, SetupStep(w, p[1], p[2]) PROVE Described'
    <3> DEFINE x == [Idle EXCEPT !.at = "insert", !.task = "setup",
                                 !.plugin = Inserted(p[1], p[2])]
    <3>1. x.at = "insert" /\ Holds(x) /\ Early(x)
      BY DEF Idle, Holds, Early
    <3> QED
      BY <2>11, <3>1, DescribedLocally DEF SetupStep, Request
  <2>3. CASE Import(w)
    <3> DEFINE x == [at |-> "store", task |-> "import", plugin |-> row, doc |-> Upload]
    <3>1. x.at # "record" /\ Holds(x)
      BY <1>0 DEF Holds
    <3> QED
      BY <2>1, <2>3, <3>1 DEF Import
  <2>4. CASE Refresh(w)
    <3>1. Fetching("refresh", row).at # "record" /\ Holds(Fetching("refresh", row))
      BY DEF Fetching, Holds
    <3> QED
      BY <2>1, <2>4, <3>1 DEF Refresh
  <2>5. CASE RefreshFails(w)
    BY <2>5 DEF RefreshFails, Described, Holds, Unborn, Early, Stored, ValidatorDescribesCache
  <2>6. CASE Playlist(w)
    <3> DEFINE served == [Idle EXCEPT !.at = "render", !.task = "playlist"]
               waits == [Idle EXCEPT !.at = "wait", !.task = "playlist"]
               fetches == Fetching("playlist", row)
    <3>1. /\ served.at = "render" /\ waits.at = "wait" /\ fetches.at = "ask"
          /\ Holds(served) /\ Holds(waits) /\ Holds(fetches)
      BY DEF Idle, Fetching, Holds
    <3>2. PICK x \in {served, waits, fetches} : thr' = [thr EXCEPT ![w] = x]
      BY <2>6 DEF Playlist
    <3>3. x.at # "record" /\ Holds(x)
      BY <3>1, <3>2
    <3> QED
      BY <2>1, <2>6, <3>2, <3>3 DEF Playlist
  <2>7. CASE Delete(w)
    <3> DEFINE x == [Idle EXCEPT !.at = "forget", !.task = "delete"]
    <3>1. x.at = "forget" /\ Holds(x)
      BY DEF Idle, Holds
    <3> QED
      BY <1>b, <2>7, <3>1, DescribedCancelled DEF Delete, Call, Request
  <2>8. ASSUME NEW p \in Payload, Update(w, p[1], p[2]) PROVE Described'
    <3> DEFINE x == [Idle EXCEPT !.at = "restart", !.task = "update", !.plugin = row']
    <3>1. x.at = "restart" /\ Holds(x)
      BY DEF Idle, Holds
    <3>2. row'.etag = row.etag
      BY <2>8 DEF Update, Updated, TypeOK, Row
    <3> QED
      BY <2>1, <2>8, <3>1, <3>2 DEF Update
  <2>9. ASSUME NEW p \in Payload, NEW d \in {None, Upload}, Create(w, p[1], p[2], d)
        PROVE  Described'
    <3> DEFINE x == [at |-> "store", task |-> "create", plugin |-> row', doc |-> d]
    <3>1. row' \in Row
      BY <2>9 DEF Create, Inserted, Row, Payload
    <3>2. \A v \in Workers : thr'[v] = IF v = w THEN (IF d = None THEN StartTimer(row') ELSE x)
                                       ELSE thr[v]
      BY <1>0, <2>9 DEF Create
    <3>3. ~born /\ born' /\ cache' = cache /\ cache = None /\ \A v \in Workers : Early(thr[v])
      BY <2>9 DEF Create, Described, Unborn
    <3>4. x.at = "store" /\ (d # None => Holds(x))
      BY DEF Holds
    <3>5. \A v \in Workers : Holds(thr'[v]) /\ thr'[v].at # "record"
      BY <1>s, <3>1, <3>2, <3>3, <3>4 DEF Described, Early
    <3>6. Unborn' /\ Stored' /\ ValidatorDescribesCache'
      BY <3>3, <3>5 DEF Unborn, Stored, ValidatorDescribesCache
    <3> QED
      BY <3>5, <3>6 DEF Described, Holds
  <2> QED
    BY <1>2, <2>2, <2>3, <2>4, <2>5, <2>6, <2>7, <2>8, <2>9, <2>10,
       <2>11
    DEF Begin
<1>3. ASSUME NEW w \in Workers, Restart(w) PROVE Described'
  <2>1. row \in Row \cup {None} /\ UNCHANGED <<row, born>> /\ cache' = None
    BY <1>3 DEF Restart, TypeOK
  <2>2. \A v \in Workers : thr'[v] = IF v = w /\ ~setup' THEN StartTimer(row) ELSE Idle
    BY <1>3 DEF Restart
  <2>3. \A v \in Workers : Holds(thr'[v]) /\ thr'[v].at # "record"
    BY <1>i, <1>s, <2>1, <2>2
  <2>4. ~born => \A v \in Workers : Early(thr'[v])
    <3>1. ~born => StartTimer(row) = Idle
      BY <1>b DEF StartTimer, Refreshable
    <3> QED
      BY <1>i, <2>2, <3>1
  <2>5. Unborn' /\ Stored' /\ ValidatorDescribesCache'
    BY <1>b, <2>1, <2>3, <2>4 DEF Unborn, Stored, ValidatorDescribesCache
  <2> QED
    BY <2>3, <2>5 DEF Described, Holds
<1>4. CASE UNCHANGED vars
  BY <1>4 DEF vars, Described, Holds, Unborn, Early, Stored, ValidatorDescribesCache
<1> QED
  BY <1>1, <1>2, <1>3, <1>4 DEF Next

-----------------------------------------------------------------------------
(* The theorems.                                                           *)

IInv == TypeOK /\ Shape /\ OneFetcher /\ Kept /\ Described

\* The invariant holds after start-up,
LEMMA InitIInv == Init => IInv
<1> SUFFICES ASSUME Init PROVE IInv
  OBVIOUS
<1>0. /\ 0 \in 0..MaxCalls /\ 0 \in 0..MaxRestarts
      /\ FALSE \in BOOLEAN
  BY PluginAssumption
<1>1. TypeOK
  <2>1. [w \in Workers |-> Idle] \in [Workers -> Thread]
    BY IdleTyped
  <2> QED
    BY <1>0, <2>1, Zenon DEF Init, TypeOK
<1>2. \A w \in Workers : thr[w] = Idle
  BY DEF Init
<1>3. Shape /\ OneFetcher
  BY <1>2, IdleTyped, PluginAssumption DEF Init, Shape, Formed, OneFetcher, Fetch
<1>4. Kept
  BY <1>2, IdleTyped DEF Init, Kept, Carried, Agrees, Born, Refreshable
<1>5. Described
  BY <1>2, IdleTyped DEF Init, Described, Holds, Unborn, Early, Stored, ValidatorDescribesCache
<1> QED
  BY <1>1, <1>3, <1>4, <1>5 DEF IInv

\* and in every state that can be reached.
LEMMA SpecIInv == Spec => []IInv
<1>1. IInv /\ [Next]_vars => IInv'
  BY TypeStep, ShapeStep, KeptStep, DescribedStep DEF IInv
<1> QED
  BY InitIInv, <1>1, PTL DEF Spec

\* Variables have their types.
THEOREM RefreshTypes == Spec => []TypeOK
<1>1. IInv => TypeOK
  BY DEF IInv
<1> QED
  BY SpecIInv, <1>1, PTL

\* plugin_refresh: however init threads, ticks, updates and bootstraps overlap,
\* the armed timer is the one _timers holds.
THEOREM RefreshOneTimer == Spec => []OneTimer
<1>1. IInv => OneTimer
  BY DEF IInv, Shape, OneTimer
<1> QED
  BY SpecIInv, <1>1, PTL

\* playlist: whatever number of requests find the plugin cold, one of them
\* fetches, and it is the one the mark names.
THEOREM PlaylistOneFetcher == Spec => []OneFetcher
<1>1. IInv => OneFetcher
  BY DEF IInv
<1> QED
  BY SpecIInv, <1>1, PTL

\* plugins_api, plugin_refresh and the setup: once the setup is complete, an enabled
\* plugin with a source has a timer or somebody who will arm one, unless one of the
\* steps that give the timer up (the history variable "lost") has happened since the
\* start-up: overlapping updates, a refused statement, a thread that does not start, a
\* plugin that the setup inserts too late.
THEOREM RefreshGoesOn == Spec => []EnabledKeepsRefreshing
<1>1. IInv => EnabledKeepsRefreshing
  <2>1. SUFFICES ASSUME IInv, ~lost, ~setup, Refreshable(row) PROVE \E w \in Workers : Refreshing(w)
    BY DEF EnabledKeepsRefreshing
  <2>2. PICK w \in Workers : Carries(thr[w]) /\ Formed(thr[w])
    BY <2>1 DEF IInv, Kept, Carried, Shape
  <2> QED
    BY <2>2 DEF Carries, Formed, Refreshing
<1> QED
  BY SpecIInv, <1>1, PTL

\* plugins: the recorded validator is that of the cached channels, source and document,
\* also after a move to another source, since the last fetch that nothing disturbed: no
\* update of channels and status that overlapped, no status that was lost, no upload.
\* What a 304 by another source than theirs would keep is not claimed.
THEOREM ValidatorIsCurrent == Spec => []ValidatorDescribesCache
<1>1. IInv => ValidatorDescribesCache
  BY DEF IInv, Described
<1> QED
  BY SpecIInv, <1>1, PTL

=============================================================================
