---------------------------- MODULE PluginRefresh ----------------------------
(***************************************************************************)
(* One playlist plugin: its row in the database, its cached channels, its  *)
(* refresh timer and the threads that work on them: the init thread, timer *)
(* ticks, the handlers of the plugin API, the steps of the first-run setup *)
(* and the playlist requests. Plugins share nothing the model needs:       *)
(* identifiers are never reused.                                           *)
(*                                                                         *)
(* A channel list is named by the source and the document it was parsed    *)
(* from, and so is the validator (ETag, Last-Modified) that came with it.  *)
(* Documents have at least one channel. A plugin without a source stands   *)
(* for file plugins.                                                       *)
(***************************************************************************)
EXTENDS Naturals, FiniteSets

CONSTANTS
    Sources,     \* URLs an administrator may enter
    Tagged,      \* those whose server sends a validator
    Docs,        \* M3U documents a server may publish
    Upload,      \* the document an administrator uploads
    Workers,     \* threads; an idle one takes the next piece of work
    None,
    MaxCalls,    \* bound: calls of the plugin API and of the setup, playlist requests
    MaxRestarts  \* bound: restarts of the process

ASSUME PluginAssumption ==
    /\ Tagged \subseteq Sources
    /\ Upload \notin Sources \X Docs
    /\ None \notin Sources \cup (Sources \X Docs) \cup Workers \cup {Upload}
    /\ MaxCalls \in Nat /\ MaxRestarts \in Nat

VARIABLES
    row,         \* the row of the plugin in the table plugins, or None
    born,        \* whether it was ever created: a deleted plugin stays away
    setup,       \* whether the first-run setup is (again) required
    cache,       \* plugin_cache._channel_cache[id]
    timer,       \* plugin_refresh._timers[id]: the thread of an armed timer
    fetching,    \* playlist._fetching[id]: the request that fetches
    refreshing,  \* whether the id is in plugins_api._inflight_refresh
    thr,         \* what each thread is at, and its local variables
    calls,       \* calls made so far
    restarts,    \* restarts so far
    mixed,       \* history: cache and validator may stem from two documents
    lost         \* history: the refreshing may have been lost, see below

vars == <<row, born, setup, cache, timer, fetching, refreshing, thr, calls,
          restarts, mixed, lost>>

\* The channels, or the validator, of a document as one source served it.
Served == Sources \X Docs

Row == [enabled: BOOLEAN, url: Sources \cup {None}, etag: Served \cup {None}]

\* Points of fetch_and_cache: the request to be sent, its answer awaited, the
\* channels to be stored, the status to be recorded, and its return.
Fetch == {"ask", "sent", "store", "record", "done"}
Points == Fetch \cup {"idle", "armed", "restart", "forget", "erase", "wait", "render",
                     "insert", "bootstrap"}
Tasks == {"none", "init", "tick", "refresh", "playlist", "import", "create",
          "update", "delete", "setup"}

Thread == [at: Points, task: Tasks, plugin: Row \cup {None},
           doc: Served \cup {Upload, None}]

Idle == [at |-> "idle", task |-> "none", plugin |-> None, doc |-> None]
Armed == [Idle EXCEPT !.at = "armed", !.task = "tick"]
Fetching(task, plugin) == [at |-> "ask", task |-> task, plugin |-> plugin, doc |-> None]

\* What decides whether a plugin is refreshed in the background.
Refreshable(p) == p # None /\ p.enabled /\ p.url # None

Init ==
    /\ row = None /\ born = FALSE /\ setup \in BOOLEAN
    /\ cache = None /\ timer = None /\ fetching = None /\ refreshing = FALSE
    /\ thr = [w \in Workers |-> Idle]
    /\ calls = 0 /\ restarts = 0 /\ mixed = FALSE /\ lost = FALSE

\* A request that the setup's guard lets through.
Request(w) ==
    /\ thr[w].at = "idle" /\ calls < MaxCalls
    /\ calls' = calls + 1
Call(w) == Request(w) /\ ~setup /\ UNCHANGED setup

\* Something happened after which nobody may refresh a plugin that is to be refreshed.
Loses == lost' = (lost \/ Refreshable(row))

\* The return of fetch_and_cache; only a creating handler still needs the plugin.
Returned(t) == [t EXCEPT !.at = "done", !.doc = None,
                         !.plugin = IF t.task = "create" THEN t.plugin ELSE None]

\* A thread that fetches next, or ends where nothing is to be refreshed.
StartTimer(p) == IF Refreshable(p) THEN Fetching("init", p) ELSE Idle

\* Mutant: a timer that is replaced is not cancelled.
CancelledNot == thr

\* The threads once the registered timer is cancelled.
Cancelled == [v \in Workers |-> IF v = timer THEN Idle ELSE thr[v]]

-----------------------------------------------------------------------------
(* fetch_and_cache, in whatever thread runs it.                            *)

\* The conditional request carries the validator of the plugin as the caller
\* read it (nothing else uses that), and only when something is cached.
Ask(w) ==
    /\ thr[w].at = "ask" /\ thr[w].plugin.url # None
    /\ thr' = [thr EXCEPT ![w].at = "sent", ![w].plugin.etag = None,
                          ![w].doc = IF cache = None THEN None ELSE thr[w].plugin.etag]
    /\ UNCHANGED <<row, born, cache, timer, fetching, refreshing, setup, calls,
                   restarts, mixed, lost>>

\* There is no source, or its address does not resolve or is not a public one
\* (as cached, or looked up now): nothing is asked.
Blocked(w) ==
    /\ thr[w].at = "ask"
    /\ thr' = [thr EXCEPT ![w] = Returned(@)]
    /\ UNCHANGED <<row, born, cache, timer, fetching, refreshing, setup, calls,
                   restarts, mixed, lost>>

\* 304: the cached channels stay, the status is recorded and the fetch is over. The
\* source says that it still serves the document of the validator, or, where that is
\* another source's, whatever the comparison of tags or dates comes to.
Unmodified(w) ==
    /\ thr[w].at = "sent" /\ thr[w].doc # None
    /\ thr' = [thr EXCEPT ![w] = Returned(@)]
    /\ UNCHANGED <<row, born, cache, timer, fetching, refreshing, setup, calls,
                   restarts, mixed, lost>>

\* 200: the source serves document d at the moment, which is downloaded and parsed.
Download(w, d) ==
    /\ thr[w].at = "sent" /\ <<thr[w].plugin.url, d>> # thr[w].doc
    /\ thr' = [thr EXCEPT ![w].at = "store", ![w].doc = <<thr[w].plugin.url, d>>]
    /\ UNCHANGED <<row, born, cache, timer, fetching, refreshing, setup, calls,
                   restarts, mixed, lost>>

\* A redirect, an error status, a document too large, a timeout: the status is
\* recorded, the cached channels stay.
FetchFails(w) ==
    /\ thr[w].at = "sent"
    /\ thr' = [thr EXCEPT ![w] = Returned(@)]
    /\ UNCHANGED <<row, born, cache, timer, fetching, refreshing, setup, calls,
                   restarts, mixed, lost>>

StoreChannels(w) ==
    /\ thr[w].at = "store"
    /\ cache' = thr[w].doc
    /\ thr' = [thr EXCEPT ![w].at = "record"]
    /\ mixed' = (thr[w].doc = Upload \/ thr[w].plugin.url \notin Tagged
                    \/ \E v \in Workers \ {w} : thr[v].at = "record")
    /\ UNCHANGED <<row, born, timer, fetching, refreshing, setup, calls, restarts, lost>>

\* Mutants: the status of any document overwrites the validator; it never does.
ValidatorOfAnything(w) == thr[w].doc
ValidatorLost(w) == row.etag

\* COALESCE keeps the old validator when the server sends none; an upload has none.
Validator(w) ==
    IF thr[w].doc # Upload /\ thr[w].plugin.url \in Tagged THEN thr[w].doc ELSE row.etag

RecordStatus(w) ==
    /\ thr[w].at = "record"
    /\ row' = IF row = None THEN None ELSE [row EXCEPT !.etag = Validator(w)]
    /\ thr' = [thr EXCEPT ![w] = Returned(@)]
    /\ UNCHANGED <<born, cache, timer, fetching, refreshing, setup, calls,
                   restarts, mixed, lost>>

\* The database refuses the statement. Every caller catches that or cleans up, but
\* the handler that creates a plugin is over then.
RecordFails(w) ==
    /\ thr[w].at = "record"
    /\ mixed' = TRUE
    /\ IF thr[w].task = "create" THEN thr' = [thr EXCEPT ![w] = Idle] /\ Loses
       ELSE thr' = [thr EXCEPT ![w] = Returned(@)] /\ UNCHANGED lost
    /\ UNCHANGED <<row, born, cache, timer, fetching, refreshing, setup, calls, restarts>>

-----------------------------------------------------------------------------
(* Timers. The thread that schedules a timer has nothing else to do: it    *)
(* goes on as the timer.                                                   *)

\* _schedule_timer cancels the registered timer and registers its own.
Schedule(w) ==
    /\ thr' = [Cancelled EXCEPT ![w] = Armed]
    /\ timer' = w

\* The init thread schedules whatever became of the plugin meanwhile.
InitDone(w) ==
    /\ thr[w].at = "done" /\ thr[w].task = "init"
    /\ Schedule(w)
    /\ UNCHANGED <<row, born, cache, fetching, refreshing, setup, calls, restarts,
                   mixed, lost>>

\* Mutant: whether a timer is armed decides, and the tick's own has fired.
NeverAgain == \E w \in Workers : thr[w].at = "armed"

\* A tick reads the plugin before it fetches, and again before it schedules the
\* next tick.
StillEnabled == row # None /\ row.enabled

\* A fired timer stays in _timers; cancelling it has no effect any more.
Unregistered(w) == IF timer = w THEN None ELSE timer

\* Mutant: a tick without a plugin to refresh schedules the next one.
TickForever(w) ==
    /\ thr[w].at = "armed"
    /\ IF StillEnabled THEN timer' = Unregistered(w)
                            /\ thr' = [thr EXCEPT ![w] = Fetching("tick", row)]
       ELSE Schedule(w)
    /\ UNCHANGED <<row, born, cache, fetching, refreshing, setup, calls, restarts,
                   mixed, lost>>

Tick(w) ==
    /\ thr[w].at = "armed"
    /\ timer' = Unregistered(w)
    /\ thr' = [thr EXCEPT ![w] = IF StillEnabled THEN Fetching("tick", row) ELSE Idle]
    /\ UNCHANGED <<row, born, cache, fetching, refreshing, setup, calls, restarts,
                   mixed, lost>>

TickDone(w) ==
    /\ thr[w].at = "done" /\ thr[w].task = "tick"
    /\ IF StillEnabled THEN Schedule(w)
       ELSE thr' = [thr EXCEPT ![w] = Idle] /\ UNCHANGED timer
    /\ UNCHANGED <<row, born, cache, fetching, refreshing, setup, calls, restarts,
                   mixed, lost>>

\* The database refuses one of the two reads, neither of which is in a try.
TickFails(w) ==
    /\ thr[w].at \in {"armed", "done"} /\ thr[w].task = "tick"
    /\ timer' = Unregistered(w)
    /\ thr' = [thr EXCEPT ![w] = Idle]
    /\ Loses
    /\ UNCHANGED <<row, born, cache, fetching, refreshing, setup, calls, restarts, mixed>>

\* The thread of a timer does not start, which is logged. The timer stays registered
\* for nothing, and the one it replaces is cancelled.
TimerNotStarted(w) ==
    /\ thr[w].at = "done" /\ thr[w].task \in {"init", "tick"}
    /\ thr[w].task = "tick" => StillEnabled
    /\ timer' = None
    /\ thr' = [Cancelled EXCEPT ![w] = Idle]
    /\ Loses
    /\ UNCHANGED <<row, born, cache, fetching, refreshing, setup, calls, restarts, mixed>>

\* The init thread does not start: whoever wanted to start it fails.
InitNotStarted(w) ==
    /\ thr[w].at = "ask" /\ thr[w].task = "init"
    /\ thr' = [thr EXCEPT ![w] = Idle]
    /\ Loses
    /\ UNCHANGED <<row, born, cache, timer, fetching, refreshing, setup, calls,
                   restarts, mixed>>

-----------------------------------------------------------------------------
(* The plugin API.                                                         *)

\* What validation lets through: a plugin may be switched off, and have a source
\* or none.
Payload == BOOLEAN \X (Sources \cup {None})

Inserted(enabled, url) == [enabled |-> enabled, url |-> url, etag |-> None]

\* An update leaves the validator alone, also when it changes the source.
Updated(enabled, url) == [row EXCEPT !.enabled = enabled, !.url = url]

\* Created empty, or from an exported file with its channels.
Create(w, enabled, url, doc) ==
    /\ ~born /\ Call(w)
    /\ born' = TRUE
    /\ row' = Inserted(enabled, url)
    /\ thr' = [thr EXCEPT ![w] =
                  IF doc = None THEN StartTimer(row')
                  ELSE [at |-> "store", task |-> "create", plugin |-> row', doc |-> doc]]
    /\ UNCHANGED <<cache, timer, fetching, refreshing, restarts, mixed, lost>>

CreateDone(w) ==
    /\ thr[w].at = "done" /\ thr[w].task = "create"
    /\ thr' = [thr EXCEPT ![w] = StartTimer(thr[w].plugin)]
    /\ UNCHANGED <<row, born, cache, timer, fetching, refreshing, setup, calls,
                   restarts, mixed, lost>>

\* The row is written first; the handler keeps what it wrote. Of two overlapping
\* updates the earlier one may stop the timer that the later one has started.
Update(w, enabled, url) ==
    /\ row # None /\ Call(w)
    /\ row' = Updated(enabled, url)
    /\ thr' = [thr EXCEPT ![w] = [Idle EXCEPT !.at = "restart", !.task = "update",
                                              !.plugin = row']]
    /\ lost' = (lost \/ \E v \in Workers : thr[v].at = "restart")
    /\ UNCHANGED <<born, cache, timer, fetching, refreshing, restarts, mixed>>

RestartTimer(w) ==
    /\ thr[w].at = "restart"
    /\ thr' = [Cancelled EXCEPT ![w] = StartTimer(thr[w].plugin)]
    /\ timer' = None
    /\ UNCHANGED <<row, born, cache, fetching, refreshing, setup, calls, restarts,
                   mixed, lost>>

\* Deletion stops the timer, forgets the channels and erases the row, in this order.
Delete(w) ==
    /\ row # None /\ Call(w)
    /\ thr' = [Cancelled EXCEPT ![w] = [Idle EXCEPT !.at = "forget", !.task = "delete"]]
    /\ timer' = None
    /\ UNCHANGED <<row, born, cache, fetching, refreshing, restarts, mixed, lost>>

Forget(w) ==
    /\ thr[w].at = "forget"
    /\ cache' = None
    /\ thr' = [thr EXCEPT ![w].at = "erase"]
    /\ UNCHANGED <<row, born, timer, fetching, refreshing, setup, calls, restarts,
                   mixed, lost>>

Erase(w) ==
    /\ thr[w].at = "erase"
    /\ row' = None
    /\ thr' = [thr EXCEPT ![w] = Idle]
    /\ UNCHANGED <<born, cache, timer, fetching, refreshing, setup, calls, restarts,
                   mixed, lost>>

\* The database refuses: the plugin stays, without its timer and its channels.
EraseFails(w) ==
    /\ thr[w].at = "erase"
    /\ Loses
    /\ thr' = [thr EXCEPT ![w] = Idle]
    /\ UNCHANGED <<row, born, cache, timer, fetching, refreshing, setup, calls, restarts, mixed>>

Import(w) ==
    /\ row # None /\ Call(w)
    /\ thr' = [thr EXCEPT ![w] = [at |-> "store", task |-> "import", plugin |-> row,
                                  doc |-> Upload]]
    /\ UNCHANGED <<row, born, cache, timer, fetching, refreshing, restarts,
                   mixed, lost>>

ImportDone(w) ==
    /\ thr[w].at = "done" /\ thr[w].task = "import"
    /\ thr' = [thr EXCEPT ![w] = Idle]
    /\ UNCHANGED <<row, born, cache, timer, fetching, refreshing, setup, calls,
                   restarts, mixed, lost>>

\* A refresh on demand; 409 while another one is under way.
Refresh(w) ==
    /\ row # None /\ Call(w) /\ ~refreshing
    /\ refreshing' = TRUE
    /\ thr' = [thr EXCEPT ![w] = Fetching("refresh", row)]
    /\ UNCHANGED <<row, born, cache, timer, fetching, restarts, mixed, lost>>

\* The database refuses the read: the handler discards the mark, whoever set it.
RefreshFails(w) ==
    /\ Call(w)
    /\ refreshing' = FALSE
    /\ UNCHANGED <<row, born, cache, timer, fetching, thr, restarts, mixed, lost>>

RefreshDone(w) ==
    /\ thr[w].at = "done" /\ thr[w].task = "refresh"
    /\ refreshing' = FALSE
    /\ thr' = [thr EXCEPT ![w] = Idle]
    /\ UNCHANGED <<row, born, cache, timer, fetching, setup, calls, restarts, mixed, lost>>

-----------------------------------------------------------------------------
(* The first-run setup: while it is required, its guard lets nothing else  *)
(* through. What it creates has no timer before the setup completes.       *)

SetupStep(w, enabled, url) ==
    /\ ~born /\ setup /\ Request(w)
    /\ thr' = [thr EXCEPT ![w] = [Idle EXCEPT !.at = "insert", !.task = "setup",
                                              !.plugin = Inserted(enabled, url)]]
    /\ UNCHANGED <<row, born, cache, timer, fetching, refreshing, setup, restarts, mixed, lost>>

Bootstrapping == \E v \in Workers : thr[v].at = "bootstrap"

\* The step does not look again whether the setup is still required: a plugin inserted
\* after the completion has started the others has to wait for the next start-up.
Insert(w) ==
    /\ thr[w].at = "insert"
    /\ thr' = [thr EXCEPT ![w] = Idle]
    /\ IF born THEN UNCHANGED <<row, born, lost>>
       ELSE /\ row' = thr[w].plugin
            /\ born' = TRUE
            /\ lost' = (lost \/ (Refreshable(row') /\ ~setup /\ ~Bootstrapping))
    /\ UNCHANGED <<cache, timer, fetching, refreshing, setup, calls, restarts, mixed>>

Complete(w) ==
    /\ setup /\ Request(w)
    /\ setup' = FALSE
    /\ thr' = [thr EXCEPT ![w] = [Idle EXCEPT !.at = "bootstrap", !.task = "setup"]]
    /\ UNCHANGED <<row, born, cache, timer, fetching, refreshing, restarts, mixed, lost>>

\* bootstrap_all, started by a completion: every plugin, whether it has a timer or not.
Bootstrap(w) ==
    /\ thr[w].at = "bootstrap"
    /\ thr' = [thr EXCEPT ![w] = StartTimer(row)]
    /\ UNCHANGED <<row, born, cache, timer, fetching, refreshing, setup, calls,
                   restarts, mixed, lost>>

\* The database refuses the read, or a write that precedes it: the setup is completed
\* all the same.
BootstrapFails(w) ==
    /\ thr[w].at = "bootstrap"
    /\ thr' = [thr EXCEPT ![w] = Idle]
    /\ Loses
    /\ UNCHANGED <<row, born, cache, timer, fetching, refreshing, setup, calls,
                   restarts, mixed>>

\* An administrator requires the setup again; what runs goes on.
Reset(w) ==
    /\ ~setup /\ Request(w)
    /\ setup' = TRUE
    /\ UNCHANGED <<row, born, cache, timer, fetching, refreshing, thr, restarts, mixed, lost>>

-----------------------------------------------------------------------------
(* Playlist requests.                                                      *)

\* Mutant: the mark is not looked at.
EveryoneFetches == TRUE

NobodyFetches == fetching = None

\* A cached playlist is rendered at once; a cold one is fetched by the first
\* request, and the others wait for it.
Playlist(w) ==
    /\ row # None /\ Call(w)
    /\ \/ /\ cache # None \/ row.url = None
          /\ thr' = [thr EXCEPT ![w] = [Idle EXCEPT !.at = "render", !.task = "playlist"]]
          /\ UNCHANGED fetching
       \/ /\ cache = None /\ row.url # None /\ NobodyFetches
          /\ thr' = [thr EXCEPT ![w] = Fetching("playlist", row)]
          /\ fetching' = w
       \/ /\ cache = None /\ row.url # None /\ ~NobodyFetches
          /\ thr' = [thr EXCEPT ![w] = [Idle EXCEPT !.at = "wait", !.task = "playlist"]]
          /\ UNCHANGED fetching
    /\ UNCHANGED <<row, born, cache, timer, refreshing, restarts, mixed, lost>>

\* Mutant: the mark stays.
PlaylistDoneMarked(w) ==
    /\ thr[w].at = "done" /\ thr[w].task = "playlist"
    /\ thr' = [thr EXCEPT ![w] = [Idle EXCEPT !.at = "render", !.task = "playlist"]]
    /\ UNCHANGED <<row, born, cache, timer, fetching, refreshing, setup, calls, restarts,
                   mixed, lost>>

\* Whatever the fetch came to, the mark is taken away and the waiters are woken.
PlaylistDone(w) ==
    /\ thr[w].at = "done" /\ thr[w].task = "playlist"
    /\ fetching' = None
    /\ thr' = [v \in Workers |->
                  IF v = w \/ thr[v].at = "wait"
                  THEN [Idle EXCEPT !.at = "render", !.task = "playlist"]
                  ELSE thr[v]]
    /\ UNCHANGED <<row, born, cache, timer, refreshing, setup, calls, restarts, mixed, lost>>

WaitTimeout(w) ==
    /\ thr[w].at = "wait"
    /\ thr' = [thr EXCEPT ![w].at = "render"]
    /\ UNCHANGED <<row, born, cache, timer, fetching, refreshing, setup, calls,
                   restarts, mixed, lost>>

\* The channels are read again: the playlist, or 503 without any.
Render(w) ==
    /\ thr[w].at = "render"
    /\ thr' = [thr EXCEPT ![w] = Idle]
    /\ UNCHANGED <<row, born, cache, timer, fetching, refreshing, setup, calls,
                   restarts, mixed, lost>>

-----------------------------------------------------------------------------
(* The end of the process.                                                 *)

\* The process is replaced: only the database survives. create_app may complete the
\* setup by itself, and starts the plugins it finds unless the setup is required.
Restart(w) ==
    /\ restarts < MaxRestarts
    /\ restarts' = restarts + 1
    /\ setup' \in {setup, FALSE}
    /\ cache' = None /\ timer' = None /\ fetching' = None /\ refreshing' = FALSE
    /\ thr' = [v \in Workers |-> IF v = w /\ ~setup' THEN StartTimer(row) ELSE Idle]
    /\ mixed' = FALSE /\ lost' = FALSE
    /\ UNCHANGED <<row, born, calls>>

\* What a thread does once it has begun something, and what may happen to it instead.
Step(w) ==
    \/ Ask(w) \/ Blocked(w) \/ Unmodified(w) \/ (\E d \in Docs : Download(w, d)) \/ FetchFails(w)
    \/ StoreChannels(w) \/ RecordStatus(w) \/ InitDone(w) \/ Tick(w) \/ TickDone(w)
    \/ CreateDone(w) \/ RestartTimer(w) \/ Forget(w) \/ Erase(w) \/ ImportDone(w)
    \/ RefreshDone(w) \/ PlaylistDone(w) \/ WaitTimeout(w) \/ Render(w)
    \/ Insert(w) \/ Bootstrap(w)

Fail(w) ==
    \/ RecordFails(w) \/ TickFails(w) \/ TimerNotStarted(w) \/ InitNotStarted(w)
    \/ EraseFails(w) \/ BootstrapFails(w)

Begin(w) ==
    \/ Complete(w) \/ Reset(w) \/ Delete(w) \/ Import(w) \/ Refresh(w) \/ RefreshFails(w)
    \/ Playlist(w)
    \/ \E p \in Payload :
          \/ Update(w, p[1], p[2]) \/ SetupStep(w, p[1], p[2])
          \/ \E d \in {None, Upload} : Create(w, p[1], p[2], d)

Next == \E w \in Workers : Step(w) \/ Fail(w) \/ Begin(w) \/ Restart(w)

\* Threads keep running: requests have timeouts and timers fire. Nothing has to fail.
Spec == Init /\ [][Next]_vars /\ \A w \in Workers : WF_vars(Step(w))

-----------------------------------------------------------------------------
(* Properties.                                                             *)

\* Variables have their types.
TypeOK ==
    /\ row \in Row \cup {None}
    /\ born \in BOOLEAN /\ setup \in BOOLEAN
    /\ cache \in Served \cup {Upload, None}
    /\ timer \in Workers \cup {None}
    /\ fetching \in Workers \cup {None}
    /\ refreshing \in BOOLEAN
    /\ thr \in [Workers -> Thread]
    /\ calls \in 0..MaxCalls /\ restarts \in 0..MaxRestarts
    /\ mixed \in BOOLEAN /\ lost \in BOOLEAN

\* Init threads, ticks, updates and bootstraps all schedule and cancel: there is
\* never an armed timer that _timers does not know, so never two.
OneTimer == \A w \in Workers : thr[w].at = "armed" => timer = w

\* Whoever keeps the refreshing of an enabled plugin going.
Refreshing(w) ==
    \/ thr[w].at = "armed"
    \/ thr[w].task \in {"init", "tick"}
    \/ thr[w].task \in {"create", "update", "delete"}
    \/ thr[w].at = "bootstrap"

\* Once the setup is complete, an enabled plugin with a source has a refresh timer,
\* or a thread that will arm one, or a handler still at work on it, whatever order
\* ticks, init threads, updates, completions, resets and restarts come in. The code
\* gives up the timer, up to the next start-up, in the steps that set "lost": updates
\* that overlap, a refused statement (the status in a creation with channels, a tick's
\* reads, a deletion's, the completion's), a thread that does not start, and a setup
\* step that inserts the plugin after the completion has started the others.
EnabledKeepsRefreshing ==
    ~lost /\ ~setup /\ Refreshable(row) => \E w \in Workers : Refreshing(w)

\* Cold playlist requests share one fetch: the mark names the only one.
OneFetcher ==
    \A w \in Workers : thr[w].task = "playlist" /\ thr[w].at \in Fetch => fetching = w

\* The recorded validator is that of the cached channels, source and document,
\* whatever moves to another source, failed fetches, deletions and restarts come
\* between: a 304 by the source they came from keeps what it still serves. It does not
\* say that of a 304 by another source, to which the code sends that validator too. An
\* upload, overlapping fetches, a lost status update or a server without validators
\* break it, until a fetch that nothing disturbs puts it right again.
ValidatorDescribesCache ==
    ~mixed /\ row # None /\ cache # None /\ (\A w \in Workers : thr[w].at # "record")
        => row.etag = cache

\* Once a plugin is deleted, every thread that refreshes it ends and no timer
\* stays armed, though fetches and init threads outlive the deletion.
DeletedGoesQuiet ==
    (born /\ row = None) ~>
        [](\A w \in Workers : thr[w].at # "armed" /\ thr[w].task \notin {"init", "tick"})

\* Whatever a fetch comes to, the playlist's mark is taken away: no playlist
\* stays cold because a fetch failed.
MarkReleased == \A w \in Workers : fetching = w ~> fetching # w

=============================================================================
