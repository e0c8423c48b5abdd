# OpenAce in TLA+

OpenAce puts an HTTP front on an AceStream engine. A player asks for a content
id; OpenAce negotiates a session with the engine, starts one FFmpeg process on
it, and shares that process's output among all clients, as MPEG-TS over HTTP or
as HLS files. Around this core are playlists from plugins, a channel checker,
first-run setup, a licence gate, settings and accounts, all in SQLite stores.

This directory models the core (the FFmpeg manager and the fan-out to clients)
and the components around it that keep state, checks them with TLC and proves
part of them with TLAPS. Sources are named relative to `src/`; `FM` stands for
`app/utils/ffmpeg_manager.py`.

## The system

| Component | State | Operations | Hard because | What makes it correct |
|---|---|---|---|---|
| Stream fan-out, `_StreamSession` in `FM` | one bounded queue per client, `subscribers`, `closed`, under `sub_lock` | `subscribe`, `unsubscribe`, `broadcast`, `broadcast_error`, `close_subscribers`, `iterate_mpegts` | the drain thread, the thread that kills the session and every request handler work on the same queues, most of it outside the lock | bounded queues, chunks in order and at most once, nobody left waiting on a closed session |
| FFmpeg manager, `FFmpegManager` in `FM` | `_streams`, `_starting`, `_spawn_reservations`, `_session_cache`, the sessions' fields, processes and engine sessions | `ensure_stream`, `subscribe_mpegts`, `request_hls`, `_restart_session`, the drains' end of file, `drop`, the reaper, `shutdown` | calls that take seconds (negotiate, probe, terminate) run between critical sections; restarts, kills and starts overlap | one start per content id, the cap, no orphaned process or engine session, starts and shutdown get through |
| Engine client, `app/utils/acestream.py` | none | `negotiate_stream`, `stop_stream`, `check_stream` | timeouts, dead peers | what it opens and does not return it stops |
| HLS and MPEG-TS routes | stale-scan caches | manifest, segment, play | act on a judgement made earlier | drop what was judged |
| Stream registry | viewers per content id and format | register, unregister, touch, reap, clear | reaper and kill against handlers | counts match the open responses |
| Plugins: store, cache, timers, API; playlist | plugin rows, channel cache, one timer per plugin, fetches under way | create, update, delete, refresh, import, tick, render | a fetch takes up to a minute and the plugin changes meanwhile | no timer for a deleted plugin, an enabled one keeps being refreshed, one fetch per cold playlist |
| Channel check: runner, store | counters, index, flags; results | start, stop, run, record, snapshot | stop and restart against the run thread | every target counted once, at most one run |
| Setup, EULA and settings stores | SQLite rows, each with a read-through cache with a time to live | complete, accept, revoke, update, read | a slow reader fills the cache after a writer cleared it | bounded staleness, setup completes once |
| Accounts, sessions, rate limits | rows | log in, renew, expire, log out, count | check and act in separate statements | a deleted session stays deleted, a renewed one stays |
| Guards and start-up, `app/__init__.py` | none | before each request | order of the guards | nothing is served before setup, licence and log-in |
| Engine supervision, `engine.sh` | current port | watch, restart | port changes during a restart | the engine ends up on the forwarded port |
| Panel, HTML, M3U parsing, monitoring | none of their own | render, parse, read | | |

Components call one another directly; what they share is the manager's
dictionaries, the session objects and the SQLite database. In production
(`start.sh`) one gunicorn worker runs everything on gevent greenlets, which
switch only where they block; `server.py` runs real threads. The models let
threads switch at every critical section, queue operation and access to a store,
which covers both. The worker is replaced regularly (`--max-requests`), so what
only memory holds is lost now and then: the modules about persistent state have
a restart. More than one worker (`GUNICORN_WORKERS`) is outside the models: the
locks and caches are those of one process.

## Modules

| Module | What it is |
|---|---|
| `ClientFeed` | abstract specification of one stream as its clients see it: chunks in order, at most once, any may be missing, nothing after the end, nobody joins after the close |
| `StreamSession` | one `_StreamSession` with its drain, its killer and its clients |
| `StreamSessionProofs` | type correctness and `NoClientStranded` of `StreamSession`, for every instance |
| `StreamFeedProofs` | `GapFree` of `StreamSession`, and that it implements `ClientFeed`, for every instance |
| `FFmpegManager` | the manager with requests, drains, restarts, reaper, kills and shutdown |
| `FFmpegManagerProofs` | types, `SingleFlight`, `SlotBound`, `NoOrphanProcess`, `EngineSessionOwned`, `LiveStreamOpen` and `LiveStreamHasEngine` of `FFmpegManager`, and without lazy HLS `RestartsOnlyFailed`, for every instance |
| `PluginRefresh` | one plugin: its row, cached channels and refresh timer, under fetches, ticks, the plugin API, playlist requests and restarts |
| `PluginRefreshProofs` | types, `OneTimer`, `OneFetcher`, `EnabledKeepsRefreshing` and `ValidatorDescribesCache` of `PluginRefresh`, for every instance |
| `CachedStores` | settings, EULA consent and setup state: tables, the connection pool, the write lock and the caches with a time to live |
| `CachedStoresProofs` | types and all four properties of `CachedStores`, for every instance |
| `FirstRun` | the first-run setup as wizard and API, its reset, and the automatic setup at boot, with crashes |
| `FirstRunProofs` | types, `AdministratorExists`, `SingleCompletion` and `StepsDone` of `FirstRun`, for every instance |
| `Accounts` | accounts, sessions, tokens and the authentication of every request |
| `AccountsProofs` | types, foreign keys and all three properties of `Accounts`, for every instance |
| `CheckRunner` | the bulk check of channels, manual checks, `check_stream` and the rows of results |
| `CheckRunnerProofs` | `EngineShared` and `RunAccounted` of `CheckRunner`, for every instance |
| `MCFFmpegManager`, `MCCachedStores`, `MCFirstRun`, `MCAccounts` | symmetry sets and typed constants for TLC |

The modules share no variable. `FFmpegManager` and `StreamSession` describe the
same sessions at two grains: the clients of a session, one step there, are what
`StreamSession` opens up. `FirstRun` and `Accounts` use the stores whose pool,
lock and caches are `CachedStores`: a committed statement is one step in them.
The catalogue of `CheckRunner` is what `PluginRefresh` leaves in the caches of
all plugins, and its `CatalogChanges` is any change of those.

### StreamSession

`queue[c]` is the `Queue` of subscription `c`, `cpc[c]` its handler. `pc[Source]`
is the drain thread, from `os.read` through `broadcast` to its `finally`;
`pc[Killer]` the thread in `_kill_session`. Each `put_nowait`, `get_nowait` and
`get` is a step. `sub_lock` appears as `SubLockFree`: only the eviction of stale
queues holds it over several steps. Chunks are numbers, so order, gaps and
repetitions show. `last`, `overrun`, `ended` and `failed` are history variables:
nothing in the model but the properties reads them.

Left out: TS packet alignment (`_align_ts_packets` regroups bytes and may hold a
remainder back; the order is the same), byte counters and logging. The restart
itself is one step here, `Restarted`; it is what `FFmpegManager` is about.

### FFmpegManager

A session is named by its first process. `sess[s]` holds its fields, `rst[s]`
the `_restart_session` that runs for it, `req[r]` a request's place in
`ensure_stream` and its local variables. A step is one critical section of
`_lock` or one blocking call. `ensure_stream` is `Ensure` (first critical
section), `Negotiate`, `Decide` (second), `Spawn` and the probe, `Settle`
(third), `Discard` (what is not needed is ended) and `Finally`.
`_restart_session` is `RestartRefused`, the fast path, the slow path,
`RestartCancelled` or `RestartSwap`, and `Retire`, its tail after the swap. Of
`_popen_ffmpeg` both failures are modelled: it returns `None` (`SpawnFails`,
`RestartFastFails`, `RestartNegotiateFails`), or `os.makedirs` raises outside its
`try` (`FM:786`, called at `FM:853`). A start catches that (`SpawnRaises`). A restart does not
(`RestartFastRaises`, `RestartRaises`): its thread ends there, point `raised`.

Abstractions, each with the code it stands for:

- Time is nondeterminism: a wait may time out at any moment (`WaitTimeout`), an
  unused session may be idle for long enough at any moment (`ReapIdle`), an
  entry of the session cache may be fresh or stale (`RestartFast`), a process
  may have run for long enough to reset the attempts (`RestartSwap`).
- A negotiation returns a new engine session, or none that could be stopped
  (`NoCommandUrl`, with `Direct`): the engine serves `getstream` directly, or leaves
  the command URL out of its answer, which `_open_session` accepts and `stop_stream`
  returns from. A stop of a session with a command URL reaches the engine.
- The reaper's scan is merged with the check it repeats under the lock
  (`_drop_session_if_current`): a stale candidate is refused there.
- `_kill_session` closes, terminates and stops in one step, the tail of a
  restart too; other threads see only its result.
- Assumed of the platform: the threads that the manager starts do start, and what the
  engine answers is a JSON object.
- The clients of a session are the requests in `streaming`; how they are told
  of its end is `StreamSession`.
- Output directories are left out. One request is one HTTP request: a retry is
  another.

Named bounds: `MaxProcs` processes and `MaxEngs` engine sessions are ever
created; `MaxChunks` chunks leave the pipe. A crash of the process is not an
action: nothing of the manager outlives it but orphaned FFmpeg processes, which
usually end on a closed pipe. (`_cleanup_orphan_ffmpeg` looks for `-f hls`, so an
orphan of lazy mode that only writes MPEG-TS is not recognised.)

### PluginRefresh

`row` is the plugin's row, `cache` its entry in `plugin_cache`, `timer` its entry
in `_timers`. A thread goes through `fetch_and_cache` in the points `ask`, `sent`,
`store`, `record`, `done`, whatever its task (`init`, `tick`, `refresh`,
`playlist`, `create`, `import`), so that other threads come between the answer,
`set_channels` and `update_refresh_status`. Channels and validators are named by the
source that served them and by the document (`Served`). `Unmodified` is a 304, `Download` a 200,
`FetchFails` everything else. `Tagged` are the sources whose server sends a validator;
channels of another source keep the validator of the document before (`COALESCE`).

`setup` is whether the first-run setup is required, `Request` what its guard lets
through meanwhile. A step of the setup inserts a plugin without a timer (`SetupStep`,
`Insert`); the completion starts all there are (`Complete`, `Bootstrap`), and so does a
start-up that finds the setup completed (`Restart`); an administrator may require the
setup again (`Reset`), while timers and threads go on.

Two history variables name what the code does not survive, and the properties hold
outside them. `mixed`: the channels and the validator may stem from two documents (an
upload, a server without validators, overlapping fetches, a refused status write). `lost`:
a plugin that is to be refreshed was left without anybody to do it. The steps that set
it are overlapping updates (the earlier one stops the timer that the later one
started) and failures: the database refuses the status write of a creation with channels
(`RecordFails`), one of the two reads of `_timer_tick` (`TickFails`), the last statement
of a deletion (`EraseFails`), or what comes before `bootstrap_all` in a completion
(`BootstrapFails`); the thread of a timer or the init thread does not start
(`TimerNotStarted`, `InitNotStarted`); a setup step inserts its plugin after the completion
has started the others (`Insert`). The refreshing is off then until the plugin is edited
or the process starts again.

What the code does and no property forbids: a source that was just entered is asked
with the validator of the one before, and its 304 keeps channels that it never served
(`Unmodified`); of overlapping fetches the older may store its channels last; a fetch that
outlives a deletion leaves channels cached for an identifier that is gone; a tick
under way while the plugin becomes a file plugin arms one more timer.
Fetches are serialised by the lock around address pinning, which the model does
not assume.

### CachedStores

A row is a setting, the consent, the completion or the step. A connection has
what it wrote since its last commit (`pend`), the pool the idle ones. A read goes
through `lookup`, `connect`, `query`, `fill` and `answer`; a write through `lock`,
`write` (a statement at a time), `close` and `clear` or `through`. Values that were
read or cached remember since when they are not true any more, which is what
`BoundedStaleness` speaks about.

### FirstRun

Each handler is a sequence of points, one for each access to a store. The step is
checked once, outside the lock; completion is checked again under
`_setup_complete_lock`. A request may fail at any point (`FailsAtAnyStep`) and the
process may end at any (`Restart`), after which `create_app` runs again. The cache
of `is_setup_required` is filled and expires at any time.

What the model shows: a second completion can pass `complete_setup_atomic` if a
reader puts the replaced answer back in the cache, although the comment above it
(`app/utils/setup_store.py:111`) rules that out (`SingleCompletion` is stated
without such a fill); a finalisation that overlaps a reset, or that follows a
reset that ended between its two writes, counts steps of the setup before; an
automatic setup that ended after it created its administrator cannot be repeated,
because the name is taken.

### Accounts

A request is a thread: the guard tries the session, the token and the password in
turn (`BySession`, `ByToken`, `Attempt` to `ClearAttempts`), then a handler runs
with the account the guard found. A row that left its table is kept as what became
of it. Identities that a request or the cache holds remember when they ceased to be
true (`Ended`), which is what `GrantIsRecent` speaks about. `AUTH_ENABLED` is on.

What the model shows: two administrators who delete or degrade each other at the
same time may leave none, and one may disable the own account with a spelling that
the guard does not know and `_parse_bool` takes for false (`LastAdministrator` excuses
both); cached passwords
outlive an expiry or a disabled account by up to the time to live; sessions survive
a change of password; a session may be deleted as expired right after its renewal.
Since a renewal leaves `created_at` alone, the part of a session's life after which
it is renewed grows with its age.

### CheckRunner

`run` is the runner with its thread, `check[p]` the check of a channel in the pool or
of a manual request, `permits` the semaphore. Counters, index, batches and flags are
those of the code; the order of targets, names and figures are abstracted. A catalogue
may change between its collection and the statements that follow.

What the model shows: the page and a start purge the rows of channels that the
catalogue they collected does not list, so results are lost when it was partial (after
a restart) or has changed; a run inserts purged rows again; a probe of a run that
crashed is recorded and not counted; a run ends with the process and is not resumed.
`check_stream` promises to release its session always, and does not when the engine
names one without a status URL.

## Runs

| Run | Module, configuration | Shows |
|---|---|---|
| `fanout` | `StreamSession.cfg` | types and queue bound, `NoClientStranded`, `GapFree`, `ImplementsClientFeed`, `ClientsReleased` |
| `fanout_error` | `StreamSessionError.cfg` | violates `HardErrorDistinguished` |
| `manager` | `MCFFmpegManager.cfg` | `SingleFlight`, `SlotBound`, `NoOrphanProcess`, `LiveStreamHasEngine`, `EngineSessionOwned`, `LiveStreamOpen`, `RestartsOnlyFailed` |
| `lazy` | `FFmpegManagerLazy.cfg` | with lazy HLS and the session cache: `NoOrphanProcess`, `StartSettles`, `ShutdownReleases`, `DeadSessionLeaves` |
| `plugins` | `PluginRefresh.cfg` | `OneTimer`, `EnabledKeepsRefreshing`, `OneFetcher`, `ValidatorDescribesCache`, `DeletedGoesQuiet`, `MarkReleased` |
| `stores` | `MCCachedStores.cfg` | `PoolSound`, `CommitsWhole`, `BoundedStaleness`, `CacheFollowsTable` |
| `first_run` | `MCFirstRun.cfg` | `SingleCompletion`, `AdministratorExists`, `StepsDone` |
| `accounts` | `MCAccounts.cfg` | `GrantIsRecent`, `KeptWhileUsed`, `LastAdministrator`, and foreign keys as part of `TypeOK` |
| `checks` | `CheckRunner.cfg` | `RunAccounted`, `EngineShared`, `RunEnds` |
| `cap` | `FFmpegManagerCap.cfg` | violates `MaxStreamsRespected` |
| `upgrade` | `FFmpegManagerUpgrade.cfg` | violates `RestartsOnlyFailed` |
| `drop` | `FFmpegManagerDrop.cfg` | violates `DropsWhatItJudged` |

Bounds. `fanout`: two clients see different parts of one broadcast, and queues
of two with two chunks and an end mark reach full, trimmed, refilled and flushed
queues. `manager`: two content ids compete for one slot; three processes are a
start, its restart and a start that replaces or races it. `lazy`: one content id
with an MPEG-TS client and an HLS client; two processes are a start and its
upgrade. Liveness is checked there, on the smaller instance. `plugins`: two threads
and three calls, so that a fetch or a timer meets two API calls, or another fetch, and a
step of the setup meets its completion and a reset; two documents, and two sources of which one sends validators, so that the source
changes; one restart. `stores`: two requests
overlap and a third follows; one connection is kept, so the pool is at its limit
whenever two are returned; a time to live of two in three instants tells answers
within it from those after it. `first_run`: two threads, four requests (a whole setup, or a
setup and a reset that overlap) and one restart. `accounts`: two accounts, two sessions
and a token, three requests (two that overlap and what one of them leads to), and times
to live of one and two instants within three. `checks`: two channels in batches of one, so
that a stop comes between batches, two request threads with three requests, a change of the
catalogue.

Fairness. In `StreamSession` every thread keeps running, a client's `get` is
answered or times out, and a handler that left its loop unsubscribes; nobody has
to subscribe, leave or kill, and the pipe may stay open. `FFmpegManager` assumes
only that some thread moves while one can (`WF_vars(Progress)`): every thread
takes finitely many steps between blocking calls, and each blocking call has a
timeout (`REQUEST_TIMEOUT_S`, `READY_TIMEOUT_S`, the waits of
`_terminate_process`). Nobody has to send a request, leave, or shut down, and no
process has to die. The clients of a dead session whose restart has raised are
told nothing; that they leave is the timeout of their `get` (`TimesOut`), which is among
the steps of `Progress`. `PluginRefresh` assumes that a thread that has begun goes on:
fetches have timeouts, timers fire; no failure has to happen (`Fail` is not fair). `CheckRunner` assumes it of the run, the probes and
the requests under way, and that deadlines pass; weak fairness is enough for taking the
semaphore, because the requests that compete for it are bounded. Nobody has to call.
Deadlock checking is off everywhere: when every process is dead, every request
served and every bound used up, nothing is left to do.

Some properties are stated with exceptions, because the code does not keep them there.
`LiveStreamHasEngine` holds without the session cache:
with it a fast restart may play from an engine session that has been stopped.
`LiveStreamOpen` holds without lazy HLS: the drain of an upgraded process may
close a session that then runs on. `EngineSessionOwned` leaves out what the code
forgets (`Forgotten`): the engine session of a dead session that a start replaced in the
registry, and the one negotiated by a restart that then raised. Engine sessions without
a command URL are not in it at all: nobody can stop them. `DeadSessionLeaves`
leaves out dead sessions whose restart raised: `restarting` stays set, so the reaper skips
them until a start, a drop or shutdown takes them. `EnabledKeepsRefreshing` leaves out
`lost`, `ValidatorDescribesCache` leaves out `mixed`.

### What the violating runs show

- `fanout_error`: when its source dies, a client whose queue has one free place
  gets the error mark in it, and `close_subscribers` flushes the full queue for
  the clean mark. `FM:72` says the error mark lets subscribers tell the two apart.
- `cap`: a dead session that restarts holds no slot; another stream takes it,
  and both run although `OPENACE_MAX_STREAMS` is one.
- `upgrade`: the drain of the process that a lazy HLS upgrade replaced sees a
  registered session that is not restarting, and restarts the healthy process.
- `drop`: two requests find the same stale segments; the slower one drops the
  session that the faster one's retry has just started.

## Proofs

`StreamSessionProofs` proves for every set of clients, every queue size of at
least one and every number of chunks, from the assumptions named in
`StreamSession` (the two threads differ, marks are not chunks, `None` is neither
a client nor a mark):

- `TypeCorrect`: `Spec => []TypeOK`. `TypeOK` bounds every queue by `queue_max`
  and is not inductive alone: a put after a full queue needs to know whose queue
  was full, a put of a chunk that a chunk was read. `InHand` says both.
- `NoStranding`: `Spec => []NoClientStranded`. The invariant is `Marked`: before
  the close a client that keeps up is subscribed; after it, its queue holds a
  mark or a closing thread still owes it one. Only queues once found full are
  trimmed, flushed or evicted (`OnlyFullTouched`), so a mark is never lost from
  the queue of a client that kept up. The lemmas before them say what one queue
  operation does to a queue.

`StreamFeedProofs` goes on from there, with the same assumptions:

- `NoGaps`: `Spec => []GapFree`, what a client that keeps up is given. `Gapless` says
  what is still to come: in its queue neighbours are consecutive (`Consecutive`), the
  front follows the last chunk given, and the back is the newest chunk, or the one
  before it while the broadcast has yet to reach the client (`Newest`, `Reached`). Once
  the client is not in `subscribers` nor in the snapshot of a broadcast, the back says
  nothing any more.
- `FeedImplemented`: `Spec => ImplementsClientFeed`. For clients of which nothing is
  known but that chunks are in order, `Order` says that a queue is sorted behind the
  last chunk given, that the chunk in hand is newer than all in a queue it is still
  meant for, and that no queue is served twice by one broadcast. `Effect` lists what a
  step can do to the queues; each effect is a step of `ClientFeed` or a stutter.

`FFmpegManagerProofs` proves for finite sets of content ids and requests and any
cap, restart limit, flags and bounds (`None` must not be one of the values):

- `ManagerTypeCorrect`: `Spec => []TypeOK`. `TypeOK` is not inductive: actions
  follow references (`sess[streams[c]]`) and `Settle` takes one from `reserved`,
  which must not go below zero. `Refs` says that the registry, the drains, the
  restarts and the requests refer to sessions, and that a restart's process is
  not the session's first one; `ReservationsExact` that `reserved` is the number
  of requests between `Decide` and `Settle`. With `TypeOK` they are inductive
  (`Inv`).
- `ManagerSingleFlight`: `Spec => []SingleFlight`. The strengthening is
  `StarterKnown`: until shutdown, `starting[c]` names whoever starts `c`. After
  shutdown it says nothing, but then no start begins.
- `ManagerSlotBound`: `Spec => []SlotBound`. `Decide` compares `AliveCount`,
  which counts restarted processes too, so it leaves room for the reservation;
  `Settle` gives back the one that the process it registers takes; no other step
  makes a content id run in its session's first process (`StepFirstRuns`),
  because new processes have new names and a restart never returns to the first.

`MostStepsCalm` carries the last two: every step but `Ensure`, `Decide`, `Settle`
and `Finally` leaves the reservations and the starts as they are.

The others share `Base`: a session just spawned is its starter's alone (`Sole`), a
restart is under way only for a session marked so (`Restarts`), what is referred to
exists (`Known`), and what is registered is not being killed (`Listed`). `Effects`
opens each action once and names what it can do to the session lists, the restarts, the
engine and the drains (`Effect`); the proofs below split on those effects.

- `NoOrphans`: `Spec => []NoOrphanProcess`. `Hands` is stronger in one place: a request
  that is past the settlement and has no `cancel` left to do holds nothing (`Mine`).
- `EngineSessionsOwned`: `Spec => []EngineSessionOwned`, with its two exceptions: a
  session that a start replaced, a restart that raised. `Opened` says that whatever
  refers to an engine session refers to one already negotiated, hence a new one is
  nobody's yet. `Retire` leaves the engine session alone if its session still uses
  it; `EngHands` adds that this session is then one that is to be stopped.
- `LiveStreamsOpen`, `EagerRestartsOnlyFailed`: without lazy HLS a process is
  replaced only once it has ended (`Quiet`). A drain reads what its session has
  (`DrainsCurrent`), so after its end there is none that would close the session again
  while a restart opens it (`RestartsDead`, `ClosedDead`). With lazy HLS the upgrade
  replaces a running process and the second is false, as the run `upgrade` shows.
- `LiveStreamsHaveEngine`: `Spec => []LiveStreamHasEngine`. Without the cache every
  negotiation makes an engine session of its own, and `Private` says that it stays with
  one session, with its restart and retirements, or with one start. `Serving`
  follows what a session plays from: what a restart or a start is about to hand over
  is open, and not what is being retired.

`PluginRefreshProofs` proves for any sources, documents, threads and bounds (`None`
is none of them, an upload is not a served document):

- `RefreshTypes`, `RefreshOneTimer`: `Shape` links the two places where a timer
  is, `_timers` and the thread that waits: a thread is armed exactly when `timer`
  names it. Every step that arms one cancels the other first (`CancelStep`);
  `Formed`, which says what task a thread at a given point has, makes the types of
  what it carries known.
- `PlaylistOneFetcher`: `OneFetcher` is inductive with `Shape`: the mark is set by
  the only playlist thread that fetches, and cleared by it.
- `RefreshGoesOn`: `EnabledKeepsRefreshing` is not inductive: that a handler is at
  work does not say that it will arm a timer. `Carried` names those who will: a timer,
  a tick, an init thread, a deletion, a completion about to start the plugins, and a
  creation or update whose own copy of the plugin is one to refresh. `Agrees` says that
  the copy of an update is still what the row says, and holds until two updates cross. That
  and every step that ends with nobody left is what `lost` records; the theorem says that
  no other step does (`KeptLocally`, `KeptBy`, `KeptLost`).
- `ValidatorIsCurrent`: while a thread is between `set_channels` and
  `update_refresh_status` the validator is an old one. `Stored` says of that thread that
  the cache has its document, or nothing, and that the server sent a validator: then
  recording it restores `ValidatorDescribesCache`, unless `mixed`. That two threads are
  there at a time is what `mixed` records. Since a validator is named with its source, this
  holds across edits of the source; it is not about what a 304 of another source keeps. `Unborn` keeps channels of a fetch from
  outliving the creation of the plugin.

`CachedStoresProofs` proves for any settings, threads and connections, any size of the
pool and any time to live of at least one (settings are not rows of the other stores,
there are connections enough for every thread and the pool: opening one never fails):

- `TypesHold`: `Formed` ties the point of a thread to the rest of it, and `Batch` says
  that the statements of a request are about different rows of its store.
- `PoolIsSound`: `PoolSound` says nothing of what a connection that is held has
  written; `Pending` does: its thread's executed statements, and a connection that
  nobody writes with has none. So one that returns to the pool is clean.
- `RequestsAreWhole`: from `Pending` a commit makes of the rows what `AppliedWhole`
  says: all statements of the one request, none of them invalid.
- `StalenessIsBounded`: `Timely` relates the stamps: an entry is stamped with the time
  before its reader looked, so it was true at its stamp and a reader that finds it
  within the time to live is given what was true then; `Exact` says that what has no end
  is what the table has.
- `CacheIsCurrent`: what a cache has although it was replaced was put there by a slow
  reader (`raced`), or a writer still owes its invalidation (`Followed`, `Owes`). For
  the completion, which is written through, `Locked` says that the lock is held until
  then, so what is put in the cache is what the table has.

`AccountsProofs` proves for any names, passwords, sessions, tokens and threads, any
lifetimes, limits and bounds (there is a first account; `None` is no value):

- `TypesHold`: with the foreign keys and unique names (`Rows`); the cascade of
  `DeleteUser` and the check of the reference in `CreateSession` and `CreateToken` carry
  them.
- `GrantsAreRecent`: `Recent` orders the times of one request: it began, looked up,
  verified, and found what ended; `Stamped` the times of a cached password. A deletion
  or change ends identities at the present time, which is never before a stamp.
- `UsedSessionsLive`: `Living` says that a row has its whole lifetime from when it was
  made or renewed, hence a request that need not renew it has a quarter left.
- `AdministratorsRemain`: `Unharmed` is what a handler's check leaves: it is about
  another account, or does not take the own one's role or enabling as far as
  `_parse_bool`'s guard sees. So whoever takes the last administrator away is none
  any more, or excused by name.

`CheckRunnerProofs` proves for finite sets of channels and requests and any
concurrency of at least one:

- `PermitsAccounted`: `EngineShared` is an equation, so the danger is a check that is
  overwritten while it holds a permit. `Places` says that channels are checked only
  while the run is about their batch, that those not yet submitted are idle, and that
  a request checks only while it serves one; `Spawning` that a run without thread belongs
  to one request, so nobody puts a second thread on the checks of the first.
- `EveryTargetCounted`: `RunAccounted` bounds the counters; `Ledger` says what they are:
  at every point of the run the targets done are the index and, while results come in,
  those of the batch that were counted (`Underway`, `Counted`); index and targets left
  make the total (`Left`); a run that is over has dealt with all, or crashed (`Over`).
  `Clean` keeps checks of one run out of the next.

`FirstRunProofs` proves for any usernames, threads and bounds (`EnvAdmin` is a
username, `None` is no value):

- `FirstRunTypes`; the lists of users a handler has still to create are the delicate
  part (`TodoTyped`).
- `NobodyLockedOut`: `Poor` says what threads are like while there is no administrator:
  none is past the creation of one, and whoever is to create users creates one first.
  `Founded` adds the recorded step: users or plugins done mean there is one.
- `CompletesOnce`: a thread about to complete holds the lock, or is `create_app` before
  it serves requests, so there is one at a time (`Holds`); and until a replaced answer
  is put back in the cache, what it is about to complete is not completed (`Pending`).
- `FinalizedInOrder`: an action property. `Traced` says that the recorded step and what
  a request has found of it (`Found`) name only steps done in this setup, as long as no
  reset was torn or overlapped the request; while a reset is under way every request
  that is not idle is marked as overlapped.

Every safety invariant and action property of the passing runs is the statement of a
theorem. Only model-checked is liveness (`ClientsReleased`, `StartSettles`,
`ShutdownReleases`, `DeadSessionLeaves`, `DeletedGoesQuiet`, `MarkReleased`,
`RunEnds`), which is out of the prover's reach: it needs `ENABLED`.

## Not modelled

- The stream registry counts viewers for display. The reaper does not ask it: it looks
  at a session's MPEG-TS clients and at the time since the last request, so
  `FFmpegManager` lets it find any session without MPEG-TS clients idle.
- Rendering (panel, HTML, M3U), parsing of M3U and of names, and monitoring keep no
  state that interleaves. Of channels only the document they come from is modelled.
- The order of the guards in one request, and `AUTH_ENABLED` off: `Accounts` models the
  log-in, `FirstRun` and `CachedStores` the state that the other two guards read.
- Several gunicorn workers: the locks and caches of the code are those of one process.
- Output directories and the FFmpeg command line; the clean-up of orphans at start-up,
  which only reads the process table and signals.
- `engine.sh`, a shell loop that watches a file with the forwarded port and restarts the
  engine's container; to the Python code it is an engine that is away for a while, which
  is a negotiation or a check that fails.
- Address pinning and the validation of URLs: they delay or refuse a fetch, which
  `FetchFails` covers.

## Plan

Modelled first was the core, then the stores and the runner; proved so far is what the
section above lists. What is left, in order:

1. The guards composed in one request, with the setup reset under way.
2. The stream registry composed with a manager of one session, to say that counts match
   the open responses.
