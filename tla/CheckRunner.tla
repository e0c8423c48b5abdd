----------------------------- MODULE CheckRunner -----------------------------
(***************************************************************************)
(* The channel check: the bulk run (its thread and the probes of its pool), *)
(* manual checks, which share the runner's semaphore, the check of one     *)
(* channel against the engine, and the rows of channels the results go to. *)
(*                                                                         *)
(* A row is kept as whether it exists and holds a result; names, groups and *)
(* figures are left out, so the filters of a run select any set of rows. A *)
(* run takes its targets in some order. The catalogue is the channels the  *)
(* plugins have cached (see PluginRefresh), read at once.                  *)
(***************************************************************************)
EXTENDS Naturals, FiniteSets

CONSTANTS
    Channels,       \* infohashes
    Requests,       \* threads that serve requests
    None,
    MaxConcurrent,  \* MAX_CONCURRENT_CHECKS: batch, pool and semaphore
    DeadPolls,      \* ZERO_PEER_DEAD_POLLS
    MaxRequests,    \* bound: requests
    MaxChanges      \* bound: changes of the catalogue

ASSUME CheckAssumption ==
    /\ IsFiniteSet(Channels) /\ IsFiniteSet(Requests) /\ Channels \cap Requests = {}
    /\ None \notin Channels
    /\ MaxConcurrent \in Nat \ {0} /\ DeadPolls \in Nat
    /\ MaxRequests \in Nat /\ MaxChanges \in Nat

VARIABLES
    catalog,   \* the channels plugins list
    row,       \* channels.status of each channel, None without a row
    run,       \* the CheckRunner and its thread
    check,     \* the check of a channel in the pool, or of a manual request
    permits,   \* value of _engine_semaphore
    req,       \* what each request is at
    requests, changes

vars == <<catalog, row, run, check, permits, req, requests, changes>>

Outcomes == {"live", "dead", "timeout", "error"}
Counters == Outcomes \cup {"skipped"}
Rows == {None, "unchecked", "checked"}

\* zero is the number of polls without peers in a row, late whether the deadline
\* has passed.
NoCheck == [at |-> "idle", zero |-> 0, late |-> FALSE, outcome |-> None]
Queued == [NoCheck EXCEPT !.at = "queued"]

NoRequest == [at |-> "idle", op |-> "none", chans |-> {}]

\* left are the targets no batch has finished, unsent those of the batch that are
\* not submitted; crashed says the run ended by an exception.
NoRun == [at |-> "off", running |-> FALSE, stop |-> FALSE, targets |-> {}, index |-> 0,
          counters |-> [k \in Counters |-> 0], left |-> {}, batch |-> {}, unsent |-> {},
          crashed |-> FALSE]

Init ==
    /\ catalog = {}
    /\ row = [c \in Channels |-> None]
    /\ run = NoRun
    /\ check = [p \in Channels \cup Requests |-> NoCheck]
    /\ permits = MaxConcurrent
    /\ req = [r \in Requests |-> NoRequest]
    /\ requests = 0 /\ changes = 0

\* Sum of the counters, which the status reports as the number done.
Done == run.counters["live"] + run.counters["dead"] + run.counters["timeout"]
            + run.counters["error"] + run.counters["skipped"]

Total == Cardinality(run.targets)

\* A refresh, an edited or deleted plugin, a restart: plugins list other channels.
CatalogChanges ==
    /\ changes < MaxChanges /\ changes' = changes + 1
    /\ \E cs \in SUBSET Channels \ {catalog} : catalog' = cs
    /\ UNCHANGED <<row, run, check, permits, req, requests>>

-----------------------------------------------------------------------------
(* check_stream, for a probe of the pool or a manual request p.            *)

Acquire(p) ==
    /\ check[p].at = "queued" /\ permits > 0
    /\ permits' = permits - 1
    /\ check' = [check EXCEPT ![p].at = "ask"]
    /\ UNCHANGED <<catalog, row, run, req, requests, changes>>

\* Mutant: a check that ends without a session keeps its permit.
KeptPermit(at) == IF at = "ask" THEN permits ELSE permits + 1

\* The semaphore once a check that ended at this point has left its block.
Released(at) == permits + 1

Ended(outcome) == [NoCheck EXCEPT !.at = "record", !.outcome = outcome]

\* No answer, or one without both URLs, is an error; a refusal means dead.
Refused(p) ==
    /\ check[p].at = "ask"
    /\ \E outcome \in {"error", "dead"} : check' = [check EXCEPT ![p] = Ended(outcome)]
    /\ permits' = Released("ask")
    /\ UNCHANGED <<catalog, row, run, req, requests, changes>>

Opened(p) ==
    /\ check[p].at = "ask"
    /\ check' = [check EXCEPT ![p].at = "poll"]
    /\ UNCHANGED <<catalog, row, run, permits, req, requests, changes>>

DeadlinePasses(p) ==
    /\ check[p].at = "poll" /\ ~check[p].late
    /\ check' = [check EXCEPT ![p].late = TRUE]
    /\ UNCHANGED <<catalog, row, run, permits, req, requests, changes>>

ZeroPolls(zero, status, peers) == IF ~peers /\ status # "ready" THEN zero + 1 ELSE 0

\* What a poll makes of the check: its outcome, or None to go on.
Verdict(zero, status, late) ==
    CASE zero > 0 /\ zero >= DeadPolls -> "dead"
      [] status = "ready" -> "live"
      [] status = "error" -> "dead"
      [] late -> "timeout"
      [] OTHER -> None

\* What read_stat may say. An error of the engine has no peers, and a poll that
\* fails is one without a status and with the peers of the poll before.
Stats == {"ready", "error", "other"} \X BOOLEAN

\* One poll. The end of the loop stops the session, whatever the engine answers.
Poll(p) ==
    /\ check[p].at = "poll"
    /\ \E stat \in Stats :
          LET zero == ZeroPolls(check[p].zero, stat[1], stat[2])
              outcome == Verdict(zero, stat[1], check[p].late)
          IN  IF outcome = None
              THEN /\ check' = [check EXCEPT ![p].zero = zero]
                   /\ UNCHANGED permits
              ELSE /\ check' = [check EXCEPT ![p] = Ended(outcome)]
                   /\ permits' = Released("poll")
    /\ UNCHANGED <<catalog, row, run, req, requests, changes>>

\* record_result inserts the row of a channel that has none any more.
Record(c) == row' = [row EXCEPT ![c] = "checked"]

\* A probe is over when its future has a result; one that raises counts as an error.
ProbeEnds(c) ==
    /\ check[c].at = "record"
    /\ \/ Record(c) /\ check' = [check EXCEPT ![c].at = "done"]
       \/ UNCHANGED row /\ check' = [check EXCEPT ![c].at = "done", ![c].outcome = "error"]
    /\ UNCHANGED <<catalog, run, permits, req, requests, changes>>

-----------------------------------------------------------------------------
(* The thread of the run.                                                  *)

Rest == Cardinality(run.left)

Skipped == [run.counters EXCEPT !["skipped"] = @ + Rest]

\* All targets are done, or a stop was asked for before the next batch.
RunOver ==
    /\ run.at = "loop" /\ (run.left = {} \/ run.stop)
    /\ run' = [run EXCEPT !.at = "close",
                          !.counters = IF run.left = {} THEN @ ELSE Skipped]
    /\ UNCHANGED <<catalog, row, check, permits, req, requests, changes>>

Batches == {b \in SUBSET run.left :
               Cardinality(b) = IF Rest < MaxConcurrent THEN Rest ELSE MaxConcurrent}

NextBatch(b) ==
    /\ run.at = "loop" /\ run.left # {} /\ ~run.stop /\ b \in Batches
    /\ run' = [run EXCEPT !.at = "submit", !.batch = b, !.unsent = b]
    /\ UNCHANGED <<catalog, row, check, permits, req, requests, changes>>

Submit(c) ==
    /\ run.at = "submit" /\ c \in run.unsent
    /\ check' = [check EXCEPT ![c] = Queued]
    /\ run' = [run EXCEPT !.unsent = @ \ {c},
                          !.at = IF run.unsent = {c} THEN "collect" ELSE "submit"]
    /\ UNCHANGED <<catalog, row, permits, req, requests, changes>>

\* The pool cannot start one more thread, which ends the run; the probe is in the
\* queue already, and a thread the pool has takes it.
SubmitFails(c) ==
    /\ run.at = "submit" /\ c \in run.unsent
    /\ check' = IF run.index > 0 \/ run.unsent # run.batch
                THEN [check EXCEPT ![c] = Queued]
                ELSE check
    /\ run' = [run EXCEPT !.at = "close", !.crashed = TRUE]
    /\ UNCHANGED <<catalog, row, permits, req, requests, changes>>

Count(c) ==
    /\ run.at = "collect" /\ c \in run.batch /\ check[c].at = "done"
    /\ run' = [run EXCEPT !.counters[check[c].outcome] = @ + 1]
    /\ check' = [check EXCEPT ![c] = NoCheck]
    /\ UNCHANGED <<catalog, row, permits, req, requests, changes>>

BatchOver ==
    /\ run.at = "collect" /\ \A c \in run.batch : check[c].at = "idle"
    /\ run' = [run EXCEPT !.at = "loop", !.left = @ \ run.batch, !.batch = {},
                          !.index = @ + Cardinality(run.batch)]
    /\ UNCHANGED <<catalog, row, check, permits, req, requests, changes>>

\* The pool is left once every probe in it has ended.
PoolDrained == \A c \in Channels : check[c].at \in {"idle", "done"}

Close ==
    /\ run.at = "close" /\ PoolDrained
    /\ run' = [run EXCEPT !.at = "off", !.running = FALSE, !.left = {}, !.batch = {},
                          !.unsent = {}]
    /\ check' = [p \in DOMAIN check |-> IF p \in Channels THEN NoCheck ELSE check[p]]
    /\ UNCHANGED <<catalog, row, permits, req, requests, changes>>

-----------------------------------------------------------------------------
(* Requests.                                                               *)

Begin(r) ==
    /\ req[r].at = "idle" /\ requests < MaxRequests
    /\ requests' = requests + 1

\* The page and a start bring the table up to the catalogue first.
Collect(r, op) ==
    /\ Begin(r)
    /\ req' = [req EXCEPT ![r] = [at |-> "sync", op |-> op, chans |-> catalog]]
    /\ UNCHANGED <<catalog, row, run, check, permits, changes>>

\* What follows when the table is up to date, or was not brought up to it.
Synced(r) ==
    [req EXCEPT ![r] = IF req[r].op = "start"
                       THEN [at |-> "select", op |-> "start", chans |-> {}]
                       ELSE NoRequest]

SyncCatalog(r) ==
    /\ req[r].at = "sync"
    /\ row' = [c \in Channels |->
                  IF c \in req[r].chans /\ row[c] = None THEN "unchecked" ELSE row[c]]
    /\ req' = IF req[r].chans = {} THEN Synced(r) ELSE [req EXCEPT ![r].at = "purge"]
    /\ UNCHANGED <<catalog, run, check, permits, requests, changes>>

PurgeStale(r) ==
    /\ req[r].at = "purge"
    /\ row' = [c \in Channels |-> IF c \in req[r].chans THEN row[c] ELSE None]
    /\ req' = Synced(r)
    /\ UNCHANGED <<catalog, run, check, permits, requests, changes>>

\* Any failure to read the catalogue or to write the table is logged only.
SyncFails(r) ==
    /\ req[r].at \in {"sync", "purge"}
    /\ req' = Synced(r)
    /\ UNCHANGED <<catalog, row, run, check, permits, requests, changes>>

\* What get_results returns for some filters.
Selections == SUBSET {c \in Channels : row[c] # None}

\* No row, or a failure to read them, ends the request.
Select(r, chans) ==
    /\ req[r].at = "select" /\ chans \in Selections
    /\ req' = [req EXCEPT ![r] = IF chans = {} THEN NoRequest
                                 ELSE [@ EXCEPT !.at = "start", !.chans = chans]]
    /\ UNCHANGED <<catalog, row, run, check, permits, requests, changes>>

\* Mutant: a start does not look whether a run is under way.
AlwaysFree == TRUE

\* No run is in flight.
Free == ~run.running

Start(r) ==
    /\ req[r].at = "start" /\ Free
    /\ run' = [NoRun EXCEPT !.running = TRUE, !.targets = req[r].chans,
                            !.left = req[r].chans]
    /\ req' = [req EXCEPT ![r].at = "spawn"]
    /\ UNCHANGED <<catalog, row, check, permits, requests, changes>>

Busy(r) ==
    /\ req[r].at = "start" /\ ~Free
    /\ req' = [req EXCEPT ![r] = NoRequest]
    /\ UNCHANGED <<catalog, row, run, check, permits, requests, changes>>

Spawn(r) ==
    /\ req[r].at = "spawn"
    /\ run' = [run EXCEPT !.at = "loop"]
    /\ req' = [req EXCEPT ![r] = NoRequest]
    /\ UNCHANGED <<catalog, row, check, permits, requests, changes>>

\* Mutant: a run whose thread does not start stays in flight.
LeftRunning == run

\* The runner after its thread could not be started.
Reset == NoRun

SpawnFails(r) ==
    /\ req[r].at = "spawn"
    /\ run' = Reset
    /\ req' = [req EXCEPT ![r] = NoRequest]
    /\ UNCHANGED <<catalog, row, check, permits, requests, changes>>

Stop(r) ==
    /\ Begin(r) /\ run.running
    /\ run' = [run EXCEPT !.stop = TRUE]
    /\ UNCHANGED <<catalog, row, check, permits, req, changes>>

\* A manual check of any infohash; what is known of it is looked up first.
CheckSingle(r, c) ==
    /\ Begin(r)
    /\ req' = [req EXCEPT ![r] = [at |-> "check", op |-> "single", chans |-> {c}]]
    /\ check' = [check EXCEPT ![r] = Queued]
    /\ UNCHANGED <<catalog, row, run, permits, changes>>

\* Its result is stored and answered; if it cannot be stored the request fails.
SingleEnds(r) ==
    /\ check[r].at = "record"
    /\ UNCHANGED row \/ \E c \in req[r].chans : Record(c)
    /\ check' = [check EXCEPT ![r] = NoCheck]
    /\ req' = [req EXCEPT ![r] = NoRequest]
    /\ UNCHANGED <<catalog, run, permits, requests, changes>>

-----------------------------------------------------------------------------
Checking(p) == Acquire(p) \/ Refused(p) \/ Opened(p) \/ Poll(p)

Probing(c) == Checking(c) \/ ProbeEnds(c)

Running ==
    \/ RunOver \/ BatchOver \/ Close
    \/ \E b \in SUBSET Channels : NextBatch(b)
    \/ \E c \in Channels : Submit(c) \/ SubmitFails(c) \/ Count(c)

\* A request that has begun goes on.
Serving(r) ==
    \/ SyncCatalog(r) \/ PurgeStale(r) \/ SyncFails(r)
    \/ \E chans \in SUBSET Channels : Select(r, chans)
    \/ Start(r) \/ Busy(r) \/ Spawn(r) \/ SpawnFails(r)
    \/ Checking(r) \/ SingleEnds(r)

Arriving(r) ==
    \/ Collect(r, "page") \/ Collect(r, "start") \/ Stop(r)
    \/ \E c \in Channels : CheckSingle(r, c)

Next ==
    \/ CatalogChanges
    \/ \E c \in Channels : Probing(c)
    \/ Running
    \/ \E r \in Requests : Serving(r) \/ Arriving(r)
    \/ \E p \in Channels \cup Requests : DeadlinePasses(p)

\* Threads that can go on do, a request to the engine is answered or times out, and
\* time passes. Nobody has to send a request.
Fairness ==
    /\ WF_vars(Running)
    /\ \A c \in Channels : WF_vars(Probing(c))
    /\ \A r \in Requests : WF_vars(Serving(r))
    /\ \A p \in Channels \cup Requests : WF_vars(DeadlinePasses(p))

Spec == Init /\ [][Next]_vars /\ Fairness

-----------------------------------------------------------------------------
(* Properties.                                                             *)

\* Every target of a run is counted once, as checked or as skipped, and the number
\* done the status shows keeps step with its index: whoever starts, stops or ends
\* a run, no probe of one run is counted in, or still at work for, another. Only a
\* run that crashed counts less than its targets, and only a stopped one skips.
RunAccounted ==
    /\ Done <= Total /\ run.index <= Done
    /\ Done <= run.index + Cardinality(run.batch) + run.counters["skipped"]
    /\ run.counters["skipped"] > 0 => run.stop
    /\ ~run.running => /\ Done = Total \/ run.crashed
                       /\ \A c \in Channels : check[c] = NoCheck

\* The bulk run and the manual checks together never have more checks with the
\* engine than the semaphore allows, and no ended check keeps a permit, which
\* would leave the feature with less concurrency until the next restart.
EngineShared ==
    LET asking == {p \in Channels \cup Requests : check[p].at \in {"ask", "poll"}}
    IN  permits + Cardinality(asking) = MaxConcurrent

\* A run ends, with or without a stop, whatever the engine does, and then the next
\* can start: nothing but a restart would free a runner that stays in flight.
RunEnds == run.running ~> ~run.running

=============================================================================
