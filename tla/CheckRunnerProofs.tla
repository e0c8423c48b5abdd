-------------------------- MODULE CheckRunnerProofs --------------------------
(***************************************************************************)
(* Proofs about CheckRunner, for any finite sets of channels and request   *)
(* threads and any concurrency. The checks with the engine and the permits *)
(* left always make MaxConcurrent: no check is put in the place of one that *)
(* still holds a permit, since a run submits a channel, and a request begins *)
(* a check, only where nothing is at work. And the counters of a run account *)
(* for every target of it once, whoever starts, stops or crashes it.       *)
(***************************************************************************)
EXTENDS CheckRunner, FiniteSetTheorems, TLAPS

Probes == Channels \cup Requests

Check == [at : {"idle", "queued", "ask", "poll", "record", "done"}, zero : Nat, late : BOOLEAN,
          outcome : Outcomes \cup {None}]

Request == [at : {"idle", "sync", "purge", "select", "start", "spawn", "check"},
            op : {"none", "page", "start", "single"}, chans : SUBSET Channels]

Run == [at : {"off", "loop", "submit", "collect", "close"}, running : BOOLEAN, stop : BOOLEAN,
        targets : SUBSET Channels, index : Nat, counters : [Counters -> Nat],
        left : SUBSET Channels, batch : SUBSET Channels, unsent : SUBSET Channels,
        crashed : BOOLEAN]

Typed ==
    /\ catalog \subseteq Channels /\ permits \in Nat
    /\ run \in Run /\ check \in [Probes -> Check] /\ req \in [Requests -> Request]

Busied(p) == check[p].at # "idle"

\* A channel is checked only while the thread of the run is about its batch, a
\* request has a check only while it serves one.
Places ==
    /\ run.at \in {"off", "loop"} => \A c \in Channels : ~Busied(c)
    /\ run.at = "submit" =>
          /\ run.unsent \subseteq run.batch
          /\ \A c \in Channels : Busied(c) => c \in run.batch \ run.unsent
    /\ run.at = "collect" => \A c \in Channels : Busied(c) => c \in run.batch
    /\ \A r \in Requests : Busied(r) => req[r].at = "check"

\* A run that is started and has no thread yet belongs to one request.
Spawning ==
    /\ ~run.running => run.at = "off"
    /\ \A r \in Requests : req[r].at = "spawn" =>
          /\ run.at = "off" /\ run.running
          /\ \A q \in Requests : req[q].at = "spawn" => q = r

-----------------------------------------------------------------------------
(* Checks.                                                                 *)

\* Checks of every kind are typed.
LEMMA CheckTyped ==
  /\ NoCheck \in Check /\ NoCheck.at = "idle"
  /\ Queued \in Check /\ Queued.at = "queued"
  /\ \A o \in Outcomes : Ended(o) \in Check /\ Ended(o).at = "record"
  /\ "dead" \in Outcomes /\ "error" \in Outcomes
  /\ \A t \in Check, a \in {"ask", "poll", "done"} :
        [t EXCEPT !.at = a] \in Check /\ [t EXCEPT !.at = a].at = a
  BY DEF NoCheck, Queued, Ended, Check, Outcomes

\* So is what a check found.
LEMMA VerdictTyped ==
  ASSUME NEW z, NEW s, NEW l
  PROVE  Verdict(z, s, l) \in Outcomes \cup {None}
  BY DEF Verdict, Outcomes

\* A check that holds a permit.
Asks(t) == t.at \in {"ask", "poll"}

\* What one check adds to or takes from the checks with the engine.
LEMMA SharedBy ==
  ASSUME Typed, EngineShared, NEW p \in Probes, NEW x, check' = [check EXCEPT ![p] = x],
         \/ Asks(x) /\ ~Asks(check[p]) /\ permits' = permits - 1
         \/ ~Asks(x) /\ Asks(check[p]) /\ permits' = permits + 1
         \/ (Asks(x) <=> Asks(check[p])) /\ permits' = permits
  PROVE  EngineShared'
<1> DEFINE A == {q \in Probes : Asks(check[q])}
           B == {q \in Probes : Asks(check'[q])}
<1>1. \A q \in Probes : check'[q] = IF q = p THEN x ELSE check[q]
  BY DEF Typed
<1>2. IsFiniteSet(Probes)
  BY CheckAssumption, FS_Union DEF Probes
<1>3. IsFiniteSet(A) /\ Cardinality(A) \in Nat
  BY <1>2, FS_Subset, FS_CardinalityType
<1>4. permits + Cardinality(A) = MaxConcurrent
  BY DEF EngineShared, Asks, Probes
<1>5. permits' + Cardinality(B) = MaxConcurrent
  <2>0. permits \in Nat
    BY DEF Typed
  <2>1. CASE Asks(x) /\ ~Asks(check[p]) /\ permits' = permits - 1
    <3>1. B = A \cup {p} /\ p \notin A
      BY <1>1, <2>1
    <3>2. Cardinality(B) = Cardinality(A) + 1
      BY <1>3, <3>1, FS_AddElement
    <3> QED
      BY <1>3, <1>4, <2>0, <2>1, <3>2
  <2>2. CASE ~Asks(x) /\ Asks(check[p]) /\ permits' = permits + 1
    <3>1. B = A \ {p} /\ p \in A
      BY <1>1, <2>2
    <3>2. Cardinality(B) = Cardinality(A) - 1
      BY <1>3, <3>1, FS_RemoveElement
    <3> QED
      BY <1>3, <1>4, <2>0, <2>2, <3>2
  <2>3. CASE (Asks(x) <=> Asks(check[p])) /\ permits' = permits
    <3>1. B = A
      BY <1>1, <2>3
    <3> QED
      BY <1>4, <2>3, <3>1
  <2> QED
    BY <2>1, <2>2, <2>3
<1> QED
  BY <1>5 DEF EngineShared, Asks, Probes
\* A counter that grows.
LEMMA CountersTyped ==
  ASSUME NEW f \in [Counters -> Nat], NEW k, NEW n \in Nat
  PROVE  [f EXCEPT ![k] = @ + n] \in [Counters -> Nat]
<1>1. \A j \in Counters : f[j] \in Nat /\ f[j] + n \in Nat
  OBVIOUS
<1>2. DOMAIN f = Counters
  OBVIOUS
<1> DEFINE g == [j \in Counters |-> IF j = k THEN f[k] + n ELSE f[j]]
<1>3. \A j \in Counters : (IF j = k THEN f[k] + n ELSE f[j]) \in Nat
  BY <1>1
<1>4. g \in [Counters -> Nat]
  BY <1>3
<1>5. [f EXCEPT ![k] = @ + n] = g
  BY <1>2, Zenon
<1> QED
  BY <1>4, <1>5

-----------------------------------------------------------------------------
(* The invariant and its steps.                                            *)

IInv == Typed /\ Places /\ Spawning /\ EngineShared

\* A check goes on, or ends.
LEMMA CheckMoves ==
  ASSUME IInv, NEW p \in Probes, NEW x \in Check, check' = [check EXCEPT ![p] = x], Busied(p),
         UNCHANGED <<catalog, run, req>>,
         \/ Asks(x) /\ ~Asks(check[p]) /\ permits > 0 /\ permits' = permits - 1
         \/ ~Asks(x) /\ Asks(check[p]) /\ permits' = permits + 1
         \/ (Asks(x) <=> Asks(check[p])) /\ permits' = permits
  PROVE  IInv'
<1>1. Typed'
  BY DEF IInv, Typed
<1>2. \A q \in Probes : check'[q] = IF q = p THEN x ELSE check[q]
  BY DEF IInv, Typed
<1>3. \A q \in Probes : Busied(q)' => Busied(q)
  BY <1>2 DEF Busied
<1>4. Places'
  BY <1>3 DEF IInv, Places, Probes
<1>5. Spawning'
  BY DEF IInv, Spawning
<1>6. EngineShared'
  BY SharedBy DEF IInv
<1> QED
  BY <1>1, <1>4, <1>5, <1>6 DEF IInv

\* Every step of a check keeps the invariant.
LEMMA CheckStep ==
  ASSUME IInv, NEW p \in Probes, Checking(p)
  PROVE  IInv'
<1>0. check[p] \in Check
  BY DEF IInv, Typed
<1>1. CASE Acquire(p)
  <2> DEFINE x == [check[p] EXCEPT !.at = "ask"]
  <2>1. x \in Check /\ x.at = "ask"
    BY <1>0, CheckTyped
  <2> QED
    BY <1>1, <2>1, CheckMoves DEF Acquire, Busied, Asks
<1>2. CASE Refused(p)
  <2>1. PICK o \in {"error", "dead"} : check' = [check EXCEPT ![p] = Ended(o)]
    BY <1>2 DEF Refused
  <2>2. Ended(o) \in Check /\ Ended(o).at = "record"
    BY CheckTyped
  <2> QED
    BY <1>2, <2>1, <2>2, CheckMoves DEF Refused, Released, Busied, Asks
<1>3. CASE Opened(p)
  <2> DEFINE x == [check[p] EXCEPT !.at = "poll"]
  <2>1. x \in Check /\ x.at = "poll"
    BY <1>0, CheckTyped
  <2> QED
    BY <1>3, <2>1, CheckMoves DEF Opened, Busied, Asks
<1>4. CASE Poll(p)
  <2>1. PICK stat \in Stats :
          LET zero == ZeroPolls(check[p].zero, stat[1], stat[2])
              outcome == Verdict(zero, stat[1], check[p].late)
          IN  IF outcome = None
              THEN check' = [check EXCEPT ![p] = [check[p] EXCEPT !.zero = zero]] /\ UNCHANGED permits
              ELSE check' = [check EXCEPT ![p] = Ended(outcome)] /\ permits' = Released("poll")
    BY <1>4 DEF Poll
  <2> DEFINE zero == ZeroPolls(check[p].zero, stat[1], stat[2])
             outcome == Verdict(zero, stat[1], check[p].late)
             x == [check[p] EXCEPT !.zero = zero]
  <2>2. check[p].at = "poll" /\ UNCHANGED <<catalog, run, req>>
    BY <1>4 DEF Poll
  <2>3. CASE outcome = None
    <3>1. zero \in Nat
      BY <1>0 DEF ZeroPolls, Check
    <3>2. x \in Check /\ x.at = "poll"
      BY <1>0, <2>2, <3>1 DEF Check
    <3>3. check' = [check EXCEPT ![p] = x] /\ permits' = permits
      BY <2>1, <2>3
    <3> QED
      BY <2>2, <3>2, <3>3, CheckMoves DEF Busied, Asks
  <2>4. CASE outcome # None
    <3>1. outcome \in Outcomes
      BY <2>4, VerdictTyped
    <3>2. Ended(outcome) \in Check /\ Ended(outcome).at = "record"
      BY <3>1, CheckTyped
    <3>3. check' = [check EXCEPT ![p] = Ended(outcome)] /\ permits' = permits + 1
      BY <2>1, <2>4 DEF Released
    <3> QED
      BY <2>2, <3>2, <3>3, CheckMoves DEF Busied, Asks
  <2> QED
    BY <2>3, <2>4
<1> QED
  BY <1>1, <1>2, <1>3, <1>4 DEF Checking

\* So does the end of a check, which returns its permit.
LEMMA ProbeEndStep ==
  ASSUME IInv, NEW c \in Channels, ProbeEnds(c)
  PROVE  IInv'
<1>0. c \in Probes /\ check[c] \in Check
  BY DEF IInv, Typed, Probes
<1>1. PICK x \in {[check[c] EXCEPT !.at = "done"], [check[c] EXCEPT !.at = "done", !.outcome = "error"]} :
        check' = [check EXCEPT ![c] = x]
  BY DEF ProbeEnds
<1>2. x \in Check /\ x.at = "done"
  BY <1>0, <1>1, CheckTyped DEF Check, Outcomes
<1> QED
  BY <1>0, <1>1, <1>2, CheckMoves DEF ProbeEnds, Busied, Asks

\* The thread of the run, and what it does to its checks.
LEMMA RunStep ==
  ASSUME IInv, Running
  PROVE  IInv'
<1>0. run \in Run /\ check \in [Probes -> Check] /\ Channels \subseteq Probes
  BY DEF IInv, Typed, Probes
<1>1. ASSUME run.at # "off", run' \in Run, UNCHANGED <<catalog, check, permits, req>>,
             run'.running = run.running, run'.at # "off", Places'
      PROVE  IInv'
  <2>1. Typed'
    BY <1>1 DEF IInv, Typed
  <2>2. Spawning'
    BY <1>1 DEF IInv, Spawning
  <2>3. EngineShared'
    BY <1>1 DEF IInv, EngineShared
  <2> QED
    BY <1>1, <2>1, <2>2, <2>3 DEF IInv
<1>2. CASE RunOver
  <2>1. Rest \in Nat
    BY <1>0, CheckAssumption, FS_Subset, FS_CardinalityType DEF Rest, Run
  <2>2. Skipped \in [Counters -> Nat]
    <3>1. run.counters \in [Counters -> Nat]
      BY <1>0 DEF Run
    <3> QED
      BY <2>1, <3>1, CountersTyped DEF Skipped
  <2>3. run' \in Run /\ run'.running = run.running /\ run'.at = "close"
    BY <1>0, <1>2, <2>2 DEF RunOver, Run
  <2>4. Places'
    BY <1>2, <2>3 DEF RunOver, IInv, Places, Busied
  <2> QED
    BY <1>1, <1>2, <2>3, <2>4 DEF RunOver
<1>3. ASSUME NEW b \in SUBSET Channels, NextBatch(b) PROVE IInv'
  <2>1. run' \in Run /\ run'.running = run.running /\ run'.at = "submit"
    BY <1>0, <1>3 DEF NextBatch, Run
  <2>2. Places'
    BY <1>3, <2>1 DEF NextBatch, IInv, Places, Busied
  <2> QED
    BY <1>1, <1>3, <2>1, <2>2 DEF NextBatch
<1>4. CASE BatchOver
  <2>1. Cardinality(run.batch) \in Nat
    BY <1>0, CheckAssumption, FS_Subset, FS_CardinalityType DEF Run
  <2>2. run' \in Run /\ run'.running = run.running /\ run'.at = "loop"
    <3> DEFINE k == Cardinality(run.batch)
    <3>1. run' = [run EXCEPT !.at = "loop", !.left = @ \ run.batch, !.batch = {}, !.index = @ + k]
      BY <1>4 DEF BatchOver
    <3>2. run.index + k \in Nat /\ run.left \ run.batch \subseteq Channels
      BY <1>0, <2>1 DEF Run
    <3> HIDE DEF k
    <3> QED
      BY <1>0, <3>1, <3>2 DEF Run
  <2>3. Places'
    BY <1>4, <2>2 DEF BatchOver, IInv, Places, Busied
  <2> QED
    BY <1>1, <1>4, <2>2, <2>3 DEF BatchOver
<1>5. ASSUME NEW c \in Channels, NEW x \in Check, check' = [check EXCEPT ![c] = x],
             ~Asks(x), ~Asks(check[c]), run' \in Run, run'.running = run.running, run.at # "off",
             run'.at # "off", UNCHANGED <<catalog, permits, req>>, Places'
      PROVE  IInv'
  <2>1. Typed'
    BY <1>5 DEF IInv, Typed
  <2>2. Spawning'
    BY <1>5 DEF IInv, Spawning
  <2>3. EngineShared'
    BY <1>0, <1>5, SharedBy DEF IInv
  <2> QED
    BY <1>5, <2>1, <2>2, <2>3 DEF IInv
<1>6. ASSUME NEW c \in Channels, Submit(c) PROVE IInv'
  <2>1. run' \in Run /\ run'.running = run.running /\ run'.at \in {"submit", "collect"}
        /\ run'.unsent = run.unsent \ {c} /\ run'.batch = run.batch
        /\ (run'.at = "collect" => run.unsent = {c})
    BY <1>0, <1>6 DEF Submit, Run
  <2>2. \A p \in Probes : check'[p] = IF p = c THEN Queued ELSE check[p]
    BY <1>0, <1>6 DEF Submit
  <2>3. run.at = "submit" /\ c \in run.unsent /\ req' = req
    BY <1>6 DEF Submit
  <2>4. ~Busied(c)
    BY <2>3 DEF IInv, Places
  <2>5. \A d \in Channels : Busied(d)' => d \in run.batch /\ (d = c \/ d \notin run.unsent)
    BY <1>0, <2>2, <2>3 DEF IInv, Places, Busied
  <2>6. Places'
    <3>1. \A r \in Requests : r \in Probes /\ r # c
      BY CheckAssumption DEF Probes
    <3>2. \A r \in Requests : Busied(r)' => req'[r].at = "check"
      BY <2>2, <2>3, <3>1 DEF IInv, Places, Busied
    <3>3. run'.at = "submit" => /\ run'.unsent \subseteq run'.batch
                               /\ \A d \in Channels : Busied(d)' => d \in run'.batch \ run'.unsent
      BY <2>1, <2>3, <2>5 DEF IInv, Places
    <3>4. run'.at = "collect" => \A d \in Channels : Busied(d)' => d \in run'.batch
      BY <2>1, <2>5
    <3> QED
      BY <2>1, <3>2, <3>3, <3>4 DEF Places
  <2> QED
    BY <1>5, <1>6, <2>1, <2>3, <2>4, <2>6, CheckTyped DEF Submit, Busied, Asks
<1>7. ASSUME NEW c \in Channels, SubmitFails(c) PROVE IInv'
  <2>1. run' \in Run /\ run'.running = run.running /\ run'.at = "close"
    BY <1>0, <1>7 DEF SubmitFails, Run
  <2>2. run.at = "submit" /\ c \in run.unsent /\ UNCHANGED <<catalog, permits, req>>
    BY <1>7 DEF SubmitFails
  <2>3. ~Busied(c)
    BY <2>2 DEF IInv, Places
  <2>4. Places' /\ \E x \in {Queued, check[c]} : check' = [check EXCEPT ![c] = x]
    <3>1. PICK x \in {Queued, check[c]} : check' = [check EXCEPT ![c] = x]
      BY <1>0, <1>7 DEF SubmitFails
    <3>2. \A r \in Requests : check'[r] = check[r]
      BY <1>0, <3>1, CheckAssumption DEF Probes
    <3>3. Places'
      BY <2>1, <2>2, <3>2 DEF IInv, Places, Busied
    <3> QED
      BY <3>1, <3>3
  <2>5. PICK x \in {Queued, check[c]} : check' = [check EXCEPT ![c] = x]
    BY <2>4
  <2>6. x \in Check /\ ~Asks(x) /\ ~Asks(check[c])
    BY <1>0, <2>3, <2>5, CheckTyped DEF Busied, Asks
  <2> QED
    BY <1>5, <2>1, <2>2, <2>4, <2>5, <2>6
<1>8. ASSUME NEW c \in Channels, Count(c) PROVE IInv'
  <2> DEFINE o == check[c].outcome
  <2>1. run' \in Run /\ run'.running = run.running /\ run'.at = "collect" /\ run'.batch = run.batch
    <3>2. run' = [run EXCEPT !.counters = [run.counters EXCEPT ![o] = @ + 1]]
      BY <1>8 DEF Count
    <3>3. [run.counters EXCEPT ![o] = @ + 1] \in [Counters -> Nat]
      BY <1>0, CountersTyped DEF Run
    <3> QED
      BY <1>0, <1>8, <3>2, <3>3 DEF Count, Run
  <2>2. \A p \in Probes : check'[p] = IF p = c THEN NoCheck ELSE check[p]
    BY <1>0, <1>8 DEF Count
  <2>3. \A p \in Probes : Busied(p)' => Busied(p)
    BY <2>2, CheckTyped DEF Busied
  <2>4. run.at = "collect" /\ check[c].at = "done" /\ UNCHANGED <<catalog, permits, req>>
    BY <1>8 DEF Count
  <2>5. Places'
    BY <2>1, <2>3, <2>4 DEF IInv, Places, Probes
  <2> QED
    BY <1>5, <1>8, <2>1, <2>4, <2>5, CheckTyped DEF Count, Asks
<1>9. CASE Close
  <2>1. run' \in Run /\ run'.running = FALSE /\ run'.at = "off"
    BY <1>0, <1>9 DEF Close, Run
  <2>2. \A p \in Probes : check'[p] = IF p \in Channels THEN NoCheck ELSE check[p]
    BY <1>0, <1>9 DEF Close
  <2>3. run.at = "close" /\ PoolDrained /\ UNCHANGED <<catalog, permits, req>>
    BY <1>9 DEF Close
  <2>4. check' \in [Probes -> Check]
    <3>1. check' = [p \in Probes |-> IF p \in Channels THEN NoCheck ELSE check[p]]
      BY <1>0, <1>9 DEF Close
    <3> QED
      BY <1>0, <3>1, CheckTyped
  <2>5. Typed'
    BY <2>1, <2>3, <2>4 DEF IInv, Typed
  <2>6. Places'
    BY <2>1, <2>2, <2>3, CheckTyped, CheckAssumption DEF IInv, Places, Busied, Probes
  <2>7. Spawning'
    BY <2>1, <2>3 DEF IInv, Spawning
  <2>8. \A p \in Probes : check'[p].at \in {"ask", "poll"} <=> check[p].at \in {"ask", "poll"}
    BY <2>2, <2>3, CheckTyped DEF PoolDrained
  <2>9. EngineShared'
    <3>1. {p \in Probes : check'[p].at \in {"ask", "poll"}} = {p \in Probes : check[p].at \in {"ask", "poll"}}
      BY <2>8
    <3> QED
      BY <2>3, <3>1 DEF IInv, EngineShared, Probes
  <2> QED
    BY <2>5, <2>6, <2>7, <2>9 DEF IInv
<1> QED
  BY <1>2, <1>3, <1>4, <1>6, <1>7, <1>8, <1>9 DEF Running

\* A request, and what it does to the run.
LEMMA ServingStep ==
  ASSUME IInv, NEW r \in Requests, Serving(r)
  PROVE  IInv'
<1>0. /\ run \in Run /\ check \in [Probes -> Check] /\ req \in [Requests -> Request]
      /\ r \in Probes /\ req[r] \in Request /\ check[r] \in Check
  BY DEF IInv, Typed, Probes
<1>n. NoRequest \in Request /\ NoRequest.at = "idle"
  BY DEF NoRequest, Request
<1>1. ASSUME NEW x \in Request, req' = [req EXCEPT ![r] = x], x.at # "spawn",
             req[r].at = "check" => x.at = "check", UNCHANGED <<catalog, run, check, permits>>
      PROVE  IInv'
  <2>1. \A q \in Requests : req'[q] = IF q = r THEN x ELSE req[q]
    BY <1>0, <1>1
  <2>2. Typed'
    BY <1>1 DEF IInv, Typed
  <2>3. Places'
    BY <1>1, <2>1 DEF IInv, Places, Busied
  <2>4. Spawning'
    BY <1>1, <2>1 DEF IInv, Spawning
  <2>5. EngineShared'
    BY <1>1 DEF IInv, EngineShared
  <2> QED
    BY <2>2, <2>3, <2>4, <2>5 DEF IInv
<1>2. PICK y \in {[at |-> "select", op |-> "start", chans |-> {}], NoRequest} :
        Synced(r) = [req EXCEPT ![r] = y]
  BY DEF Synced
<1>3. y \in Request /\ y.at # "spawn"
  BY <1>2, <1>n DEF Request
<1>4. CASE SyncCatalog(r)
  <2> DEFINE x == [req[r] EXCEPT !.at = "purge"]
  <2>1. x \in Request /\ x.at = "purge"
    BY <1>0 DEF Request
  <2> QED
    BY <1>1, <1>2, <1>3, <1>4, <2>1 DEF SyncCatalog
<1>5. CASE PurgeStale(r) \/ SyncFails(r)
  BY <1>1, <1>2, <1>3, <1>5 DEF PurgeStale, SyncFails
<1>6. ASSUME NEW chans \in SUBSET Channels, Select(r, chans) PROVE IInv'
  <2> DEFINE x == [req[r] EXCEPT !.at = "start", !.chans = chans]
  <2>1. x \in Request /\ x.at = "start"
    BY <1>0 DEF Request
  <2>2. req' = [req EXCEPT ![r] = IF chans = {} THEN NoRequest ELSE x]
    BY <1>6 DEF Select
  <2> QED
    BY <1>1, <1>6, <1>n, <2>1, <2>2 DEF Select
<1>7. CASE Busy(r)
  BY <1>1, <1>7, <1>n DEF Busy
<1>8. CASE Start(r)
  <2> DEFINE x == [req[r] EXCEPT !.at = "spawn"]
             new == [NoRun EXCEPT !.running = TRUE, !.targets = req[r].chans, !.left = req[r].chans]
  <2>1. x \in Request /\ x.at = "spawn"
    BY <1>0 DEF Request
  <2>2. NoRun \in Run /\ NoRun.at = "off"
    BY DEF NoRun, Run
  <2>3. new \in Run /\ new.at = "off" /\ new.running
    BY <1>0, <2>2 DEF Run, Request
  <2>4. /\ run' = new /\ req' = [req EXCEPT ![r] = x] /\ UNCHANGED <<catalog, check, permits>>
        /\ req[r].at = "start" /\ ~run.running
    BY <1>8 DEF Start, Free
  <2>5. \A q \in Requests : req'[q] = IF q = r THEN x ELSE req[q]
    BY <1>0, <2>4
  <2>6. Typed'
    BY <2>1, <2>3, <2>4 DEF IInv, Typed
  <2>7. Places'
    BY <2>3, <2>4, <2>5 DEF IInv, Places, Spawning, Busied
  <2>8. Spawning'
    BY <2>3, <2>4, <2>5 DEF IInv, Spawning
  <2>9. EngineShared'
    BY <2>4 DEF IInv, EngineShared
  <2> QED
    BY <2>6, <2>7, <2>8, <2>9 DEF IInv
<1>9. CASE Spawn(r) \/ SpawnFails(r)
  <2>1. /\ req[r].at = "spawn" /\ req' = [req EXCEPT ![r] = NoRequest]
        /\ UNCHANGED <<catalog, check, permits>>
    BY <1>9 DEF Spawn, SpawnFails
  <2>2. run' \in Run /\ ((run'.at = "loop" /\ run'.running) \/ run'.at = "off")
    <3>1. run.running = TRUE
      BY <1>0, <2>1 DEF IInv, Spawning, Run
    <3>2. CASE Spawn(r)
      BY <1>0, <3>1, <3>2 DEF Spawn, Run
    <3>3. CASE SpawnFails(r)
      BY <3>3 DEF SpawnFails, Reset, NoRun, Run
    <3> QED
      BY <1>9, <3>2, <3>3
  <2>3. \A q \in Requests : req'[q] = IF q = r THEN NoRequest ELSE req[q]
    BY <1>0, <2>1
  <2>4. Typed'
    BY <1>n, <2>1, <2>2 DEF IInv, Typed
  <2>5. Places'
    BY <1>n, <2>1, <2>2, <2>3 DEF IInv, Places, Spawning, Busied
  <2>6. Spawning'
    BY <1>n, <2>1, <2>2, <2>3 DEF IInv, Spawning
  <2>7. EngineShared'
    BY <2>1 DEF IInv, EngineShared
  <2> QED
    BY <2>4, <2>5, <2>6, <2>7 DEF IInv
<1>10. CASE Checking(r)
  BY <1>0, <1>10, CheckStep
<1>11. CASE SingleEnds(r)
  <2>1. /\ check[r].at = "record" /\ check' = [check EXCEPT ![r] = NoCheck]
        /\ req' = [req EXCEPT ![r] = NoRequest] /\ UNCHANGED <<catalog, run, permits>>
    BY <1>11 DEF SingleEnds
  <2>2. \A p \in Probes : check'[p] = IF p = r THEN NoCheck ELSE check[p]
    BY <1>0, <2>1
  <2>3. \A q \in Requests : req'[q] = IF q = r THEN NoRequest ELSE req[q]
    BY <1>0, <2>1
  <2>4. Typed'
    BY <1>n, <2>1, CheckTyped DEF IInv, Typed
  <2>5. Places'
    BY <2>1, <2>2, <2>3, CheckTyped DEF IInv, Places, Busied, Probes
  <2>6. Spawning'
    BY <1>n, <2>1, <2>3 DEF IInv, Spawning
  <2>7. EngineShared'
    BY <1>0, <2>1, CheckTyped, SharedBy DEF IInv, Asks
  <2> QED
    BY <2>4, <2>5, <2>6, <2>7 DEF IInv
<1> QED
  BY <1>4, <1>5, <1>6, <1>7, <1>8, <1>9, <1>10, <1>11 DEF Serving

\* So does a request that arrives.
LEMMA ArrivingStep ==
  ASSUME IInv, NEW r \in Requests, Arriving(r)
  PROVE  IInv'
<1>0. /\ run \in Run /\ check \in [Probes -> Check] /\ req \in [Requests -> Request]
      /\ r \in Probes /\ catalog \subseteq Channels
  BY DEF IInv, Typed, Probes
<1>1. ASSUME NEW op \in {"page", "start"}, Collect(r, op) PROVE IInv'
  <2> DEFINE x == [at |-> "sync", op |-> op, chans |-> catalog]
  <2>1. x \in Request /\ x.at = "sync"
    BY <1>0 DEF Request
  <2>2. req' = [req EXCEPT ![r] = x] /\ req[r].at = "idle" /\ UNCHANGED <<catalog, run, check, permits>>
    BY <1>1 DEF Collect, Begin
  <2>3. \A q \in Requests : req'[q] = IF q = r THEN x ELSE req[q]
    BY <1>0, <2>2
  <2>4. Typed'
    BY <2>1, <2>2 DEF IInv, Typed
  <2>5. Places'
    BY <2>2, <2>3 DEF IInv, Places, Busied
  <2>6. Spawning'
    BY <2>1, <2>2, <2>3 DEF IInv, Spawning
  <2>7. EngineShared'
    BY <2>2 DEF IInv, EngineShared
  <2> QED
    BY <2>4, <2>5, <2>6, <2>7 DEF IInv
<1>2. CASE Stop(r)
  <2>1. run' \in Run /\ run'.at = run.at /\ run'.running = run.running /\ run'.batch = run.batch
        /\ run'.unsent = run.unsent
    BY <1>0, <1>2 DEF Stop, Run
  <2>2. UNCHANGED <<catalog, check, permits, req>>
    BY <1>2 DEF Stop
  <2>3. Typed'
    BY <2>1, <2>2 DEF IInv, Typed
  <2>4. Places' /\ Spawning'
    BY <2>1, <2>2 DEF IInv, Places, Spawning, Busied
  <2>5. EngineShared'
    BY <2>2 DEF IInv, EngineShared
  <2> QED
    BY <2>3, <2>4, <2>5 DEF IInv
<1>3. ASSUME NEW c \in Channels, CheckSingle(r, c) PROVE IInv'
  <2> DEFINE x == [at |-> "check", op |-> "single", chans |-> {c}]
  <2>1. x \in Request /\ x.at = "check"
    BY DEF Request
  <2>2. /\ req' = [req EXCEPT ![r] = x] /\ check' = [check EXCEPT ![r] = Queued]
        /\ req[r].at = "idle" /\ UNCHANGED <<catalog, run, permits>>
    BY <1>3 DEF CheckSingle, Begin
  <2>3. \A p \in Probes : check'[p] = IF p = r THEN Queued ELSE check[p]
    BY <1>0, <2>2
  <2>4. \A q \in Requests : req'[q] = IF q = r THEN x ELSE req[q]
    BY <1>0, <2>2
  <2>5. check[r].at = "idle"
    BY <2>2 DEF IInv, Places, Busied
  <2>6. Typed'
    BY <2>1, <2>2, CheckTyped DEF IInv, Typed
  <2>7. \A d \in Channels : check'[d] = check[d]
    BY <2>3, CheckAssumption DEF Probes
  <2>8. Places'
    BY <2>2, <2>3, <2>4, <2>7 DEF IInv, Places, Busied, Probes
  <2>9. Spawning'
    BY <2>1, <2>2, <2>4 DEF IInv, Spawning
  <2>10. EngineShared'
    BY <1>0, <2>2, <2>5, CheckTyped, SharedBy DEF IInv, Asks
  <2> QED
    BY <2>6, <2>8, <2>9, <2>10 DEF IInv
<1> QED
  BY <1>1, <1>2, <1>3 DEF Arriving

-----------------------------------------------------------------------------
(* The theorem.                                                            *)

\* The invariant holds at the start,
LEMMA InitIInv == Init => IInv
<1> SUFFICES ASSUME Init PROVE IInv
  OBVIOUS
<1>1. NoRun \in Run /\ NoRun.at = "off"
  BY DEF NoRun, Run
<1>2. NoRequest \in Request /\ NoRequest.at = "idle"
  BY DEF NoRequest, Request
<1>3. \A p \in Probes : check[p] = NoCheck
  BY DEF Init, Probes
<1>4. Typed
  BY <1>1, <1>2, CheckTyped, CheckAssumption DEF Init, Typed, Probes
<1>5. Places /\ Spawning
  BY <1>1, <1>2, <1>3, CheckTyped DEF Init, Places, Spawning, Busied, Probes
<1>6. EngineShared
  <2>1. {p \in Probes : check[p].at \in {"ask", "poll"}} = {}
    BY <1>3, CheckTyped
  <2>2. permits = MaxConcurrent /\ MaxConcurrent + 0 = MaxConcurrent
    BY CheckAssumption DEF Init
  <2> QED
    BY <2>1, <2>2, FS_EmptySet DEF EngineShared, Probes
<1> QED
  BY <1>4, <1>5, <1>6 DEF IInv

\* and every step keeps it.
LEMMA Step == IInv /\ [Next]_vars => IInv'
<1> SUFFICES ASSUME IInv, [Next]_vars PROVE IInv'
  OBVIOUS
<1>1. CASE CatalogChanges
  <2>1. catalog' \subseteq Channels /\ UNCHANGED <<run, check, permits, req>>
    BY <1>1 DEF CatalogChanges
  <2> QED
    BY <2>1 DEF IInv, Typed, Places, Spawning, EngineShared, Busied
<1>2. ASSUME NEW c \in Channels, Probing(c) PROVE IInv'
  BY <1>2, CheckStep, ProbeEndStep DEF Probing, Probes
<1>3. ASSUME NEW p \in Probes, DeadlinePasses(p) PROVE IInv'
  <2> DEFINE x == [check[p] EXCEPT !.late = TRUE]
  <2>1. x \in Check /\ x.at = check[p].at
    BY DEF IInv, Typed, Check
  <2> QED
    BY <1>3, <2>1, CheckMoves DEF DeadlinePasses, Busied, Asks
<1>4. CASE UNCHANGED vars
  BY <1>4 DEF vars, IInv, Typed, Places, Spawning, EngineShared, Busied
<1> QED
  BY <1>1, <1>2, <1>3, <1>4, RunStep, ServingStep, ArrivingStep DEF Next, Probes

\* check_runner and acestream_api: whoever starts, stops or crashes what, bulk run
\* and manual checks together never exceed the semaphore, and no permit is lost.
THEOREM PermitsAccounted == Spec => []EngineShared
<1>1. IInv => EngineShared
  BY DEF IInv
<1> QED
  BY InitIInv, Step, <1>1, PTL DEF Spec

-----------------------------------------------------------------------------
(* The count of a run. The number done is the targets of the batches that  *)
(* are over and, while one is collected, the checks of it that were taken. *)
(* The places alone do not carry it: a probe left over from an earlier run, *)
(* or a batch only part of which was sent, would be counted as well.        *)

\* What no check is about carries nothing over, and one that ended says how.
Clean ==
    \A p \in Probes : /\ ~Busied(p) => check[p] = NoCheck
                      /\ check[p].at \in {"record", "done"} => check[p].outcome \in Outcomes

\* The targets no batch has finished, and of them the batch and what was sent of it.
Left ==
    /\ run.batch \subseteq run.left /\ run.left \subseteq run.targets
    /\ run.running => run.index + Cardinality(run.left) = Total
    /\ run.at = "submit" => \A c \in run.batch : Busied(c) <=> c \notin run.unsent

Counted == {c \in run.batch : ~Busied(c)}

\* A run that is under way has skipped nothing and has not crashed.
Underway ==
    run.running /\ run.at # "close" =>
        /\ run.counters["skipped"] = 0 /\ ~run.crashed
        /\ run.at \in {"off", "loop"} => run.batch = {}
        /\ Done = run.index + IF run.at = "collect" THEN Cardinality(Counted) ELSE 0

\* One that is over has dealt with every target, or has crashed.
Over ==
    ~run.running \/ run.at = "close" =>
        \/ run.crashed /\ Done = run.index /\ run.counters["skipped"] = 0 /\ Done <= Total
        \/ run.batch = {} /\ Done = Total /\ Done = run.index + run.counters["skipped"]

Ledger ==
    /\ Clean /\ Left /\ Underway /\ Over
    /\ run.counters["skipped"] > 0 => run.stop
    /\ ~run.running => run.batch = {}

\* Sizes of sets of channels.
LEMMA Sizes ==
  ASSUME NEW S, NEW T, T \subseteq S, S \subseteq Channels
  PROVE  /\ Cardinality(S) \in Nat /\ Cardinality(T) \in Nat /\ Cardinality(T) <= Cardinality(S)
         /\ Cardinality(S \ T) = Cardinality(S) - Cardinality(T)
<1>1. IsFiniteSet(S) /\ IsFiniteSet(T)
  BY CheckAssumption, FS_Subset
<1>2. S \cap T = T
  OBVIOUS
<1>3. Cardinality(S) \in Nat /\ Cardinality(T) \in Nat
  BY <1>1, FS_CardinalityType
<1>4. Cardinality(T) <= Cardinality(S)
  BY <1>1, FS_Subset
<1>5. Cardinality(S \ T) = Cardinality(S) - Cardinality(S \cap T)
  BY <1>1, FS_Difference
<1> QED
  BY <1>2, <1>3, <1>4, <1>5

\* The number done is a number.
LEMMA DoneTyped ==
  ASSUME run.counters \in [Counters -> Nat]
  PROVE  /\ Done \in Nat /\ DOMAIN run.counters = Counters
         /\ \A k \in {"live", "dead", "timeout", "error", "skipped"} :
               k \in Counters /\ run.counters[k] \in Nat
<1>1. \A k \in {"live", "dead", "timeout", "error", "skipped"} :
         k \in Counters /\ run.counters[k] \in Nat
  BY DEF Counters, Outcomes
<1> QED
  BY <1>1 DEF Done

\* It is one more when a check that ended is counted,
LEMMA DoneGrows ==
  ASSUME run.counters \in [Counters -> Nat], NEW o \in Outcomes,
         run'.counters = [run.counters EXCEPT ![o] = @ + 1]
  PROVE  Done' = Done + 1 /\ run'.counters["skipped"] = run.counters["skipped"]
<1>1. \A k \in Counters : run'.counters[k] = IF k = o THEN run.counters[k] + 1 ELSE run.counters[k]
  BY DoneTyped
<1>2. o \in {"live", "dead", "timeout", "error"}
  BY DEF Outcomes
<1>3. run'.counters["skipped"] = run.counters["skipped"]
  BY <1>1, <1>2, DoneTyped
<1>4. CASE o = "live"
  BY <1>1, <1>3, <1>4, DoneTyped DEF Done
<1>5. CASE o = "dead"
  BY <1>1, <1>3, <1>5, DoneTyped DEF Done
<1>6. CASE o = "timeout"
  BY <1>1, <1>3, <1>6, DoneTyped DEF Done
<1>7. CASE o = "error"
  BY <1>1, <1>3, <1>7, DoneTyped DEF Done
<1> QED
  BY <1>2, <1>3, <1>4, <1>5, <1>6, <1>7

\* and by what is skipped when a run is stopped.
LEMMA DoneSkips ==
  ASSUME run.counters \in [Counters -> Nat], NEW n \in Nat,
         run'.counters = [run.counters EXCEPT !["skipped"] = @ + n]
  PROVE  Done' = Done + n /\ run'.counters["skipped"] = run.counters["skipped"] + n
<1>1. \A k \in Counters :
         run'.counters[k] = IF k = "skipped" THEN run.counters[k] + n ELSE run.counters[k]
  BY DoneTyped
<1> QED
  BY <1>1, DoneTyped DEF Done

\* A check that goes on or ends with a verdict is still one of the same batch.
LEMMA LedgerKept ==
  ASSUME IInv, Ledger, NEW p \in Probes, NEW x \in Check, check' = [check EXCEPT ![p] = x],
         Busied(p), x.at # "idle", x.at \in {"record", "done"} => x.outcome \in Outcomes,
         run' = run
  PROVE  Ledger'
<1>1. \A q \in Probes : check'[q] = IF q = p THEN x ELSE check[q]
  BY DEF IInv, Typed
<1>2. \A q \in Probes : Busied(q)' <=> Busied(q)
  BY <1>1 DEF Busied
<1>3. run.batch \subseteq Probes
  BY DEF IInv, Typed, Run, Probes
<1>4. Clean'
  BY <1>1 DEF Ledger, Clean, Busied
<1>5. Counted' = Counted
  BY <1>2, <1>3 DEF Counted
<1>6. Done' = Done /\ Total' = Total
  BY DEF Done, Total
<1>7. Left'
  BY <1>2, <1>3, <1>6 DEF Ledger, Left
<1>8. Underway' /\ Over'
  BY <1>5, <1>6 DEF Ledger, Underway, Over
<1> QED
  BY <1>4, <1>7, <1>8 DEF Ledger

\* Where the run and the checks of its channels are what they were, so is the ledger.
LEMMA LedgerAside ==
  ASSUME IInv, Ledger, run' = run, Clean', \A c \in Channels : check'[c] = check[c]
  PROVE  Ledger'
<1>1. run.batch \subseteq Channels
  BY DEF IInv, Typed, Run
<1>2. \A c \in Channels : Busied(c)' <=> Busied(c)
  BY DEF Busied
<1>3. Counted' = Counted
  BY <1>1, <1>2 DEF Counted
<1>4. Done' = Done /\ Total' = Total
  BY DEF Done, Total
<1>5. Left'
  BY <1>1, <1>2, <1>4 DEF Ledger, Left
<1>6. Underway' /\ Over'
  BY <1>3, <1>4 DEF Ledger, Underway, Over
<1> QED
  BY <1>5, <1>6 DEF Ledger

\* The steps of a check.
LEMMA LedgerCheck ==
  ASSUME IInv, Ledger, NEW p \in Probes, Checking(p) \/ DeadlinePasses(p)
  PROVE  Ledger'
<1>0. check[p] \in Check
  BY DEF IInv, Typed
<1>1. CASE Acquire(p)
  <2> DEFINE x == [check[p] EXCEPT !.at = "ask"]
  <2>1. x \in Check /\ x.at = "ask"
    BY <1>0, CheckTyped
  <2> QED
    BY <1>1, <2>1, LedgerKept DEF Acquire, Busied
<1>2. CASE Refused(p)
  <2>1. PICK o \in {"error", "dead"} : check' = [check EXCEPT ![p] = Ended(o)]
    BY <1>2 DEF Refused
  <2>2. Ended(o) \in Check /\ Ended(o).at = "record" /\ Ended(o).outcome \in Outcomes
    BY CheckTyped DEF Ended, NoCheck, Outcomes
  <2> QED
    BY <1>2, <2>1, <2>2, LedgerKept DEF Refused, Busied
<1>3. CASE Opened(p)
  <2> DEFINE x == [check[p] EXCEPT !.at = "poll"]
  <2>1. x \in Check /\ x.at = "poll"
    BY <1>0, CheckTyped
  <2> QED
    BY <1>3, <2>1, LedgerKept DEF Opened, Busied
<1>4. CASE Poll(p)
  <2>1. PICK stat \in Stats :
          LET zero == ZeroPolls(check[p].zero, stat[1], stat[2])
              outcome == Verdict(zero, stat[1], check[p].late)
          IN  IF outcome = None
              THEN check' = [check EXCEPT ![p] = [check[p] EXCEPT !.zero = zero]]
              ELSE check' = [check EXCEPT ![p] = Ended(outcome)]
    BY <1>4 DEF Poll
  <2> DEFINE zero == ZeroPolls(check[p].zero, stat[1], stat[2])
             outcome == Verdict(zero, stat[1], check[p].late)
             x == [check[p] EXCEPT !.zero = zero]
  <2>2. check[p].at = "poll" /\ run' = run
    BY <1>4 DEF Poll
  <2>3. CASE outcome = None
    <3>1. zero \in Nat
      BY <1>0 DEF ZeroPolls, Check
    <3>2. x \in Check /\ x.at = "poll"
      BY <1>0, <2>2, <3>1 DEF Check
    <3> QED
      BY <2>1, <2>2, <2>3, <3>2, LedgerKept DEF Busied
  <2>4. CASE outcome # None
    <3>1. outcome \in Outcomes
      BY <2>4, VerdictTyped
    <3>2. Ended(outcome) \in Check /\ Ended(outcome).at = "record" /\ Ended(outcome).outcome = outcome
      BY <3>1, CheckTyped DEF Ended, NoCheck
    <3> QED
      BY <2>1, <2>2, <2>4, <3>1, <3>2, LedgerKept DEF Busied
  <2> QED
    BY <2>3, <2>4
<1>5. CASE DeadlinePasses(p)
  <2> DEFINE x == [check[p] EXCEPT !.late = TRUE]
  <2>1. x \in Check /\ x.at = "poll"
    BY <1>0, <1>5 DEF Check, DeadlinePasses
  <2> QED
    BY <1>5, <2>1, LedgerKept DEF DeadlinePasses, Busied
<1> QED
  BY <1>1, <1>2, <1>3, <1>4, <1>5 DEF Checking

\* The end of a probe.
LEMMA LedgerEnds ==
  ASSUME IInv, Ledger, NEW c \in Channels, ProbeEnds(c)
  PROVE  Ledger'
<1>0. c \in Probes /\ check[c] \in Check
  BY DEF IInv, Typed, Probes
<1>1. check[c].outcome \in Outcomes
  BY <1>0 DEF Ledger, Clean, ProbeEnds
<1>2. PICK x \in {[check[c] EXCEPT !.at = "done"], [check[c] EXCEPT !.at = "done", !.outcome = "error"]} :
        check' = [check EXCEPT ![c] = x]
  BY DEF ProbeEnds
<1>3. x \in Check /\ x.at = "done" /\ x.outcome \in Outcomes
  BY <1>0, <1>1, <1>2, CheckTyped, ZenonT(60) DEF Check, Outcomes
<1> QED
  BY <1>0, <1>2, <1>3, LedgerKept DEF ProbeEnds, Busied

\* The steps of the thread of the run.
LEMMA LedgerRun ==
  ASSUME IInv, Ledger, Running
  PROVE  Ledger'
<1>0. /\ run \in Run /\ check \in [Probes -> Check] /\ Channels \subseteq Probes
      /\ run.batch \subseteq run.left /\ run.left \subseteq run.targets
      /\ run.targets \subseteq Channels /\ run.index \in Nat
      /\ run.counters \in [Counters -> Nat]
  BY DEF IInv, Typed, Probes, Run, Ledger, Left
<1>s. /\ Total \in Nat /\ Cardinality(run.left) \in Nat /\ Cardinality(run.left) <= Total
      /\ Cardinality(run.batch) \in Nat /\ Done \in Nat /\ run.counters["skipped"] \in Nat
  BY <1>0, Sizes, DoneTyped DEF Total
<1>r. run.at # "off" => run.running
  BY DEF IInv, Spawning
<1>1. CASE RunOver
  <2>1. /\ run.at = "loop" /\ run.running /\ ~run.crashed /\ run.batch = {}
        /\ run.counters["skipped"] = 0 /\ Done = run.index
        /\ run.index + Cardinality(run.left) = Total
    BY <1>0, <1>1, <1>r, <1>s DEF RunOver, Ledger, Underway, Left
  <2>2. /\ run'.at = "close" /\ run'.running /\ run'.left = run.left /\ run'.batch = {}
        /\ run'.targets = run.targets /\ run'.index = run.index /\ run'.stop = run.stop
        /\ run'.counters = IF run.left = {} THEN run.counters ELSE Skipped
    BY <1>0, <1>1, <2>1 DEF RunOver, Run
  <2>3. check' = check
    BY <1>1 DEF RunOver
  <2>4. Total' = Total
    BY <2>2 DEF Total
  <2>5. Done' = Total /\ Done' = run.index + run'.counters["skipped"]
        /\ (run'.counters["skipped"] > 0 => run.stop)
    <3>1. CASE run.left = {}
      <4>1. Cardinality(run.left) = 0
        BY <3>1, FS_EmptySet
      <4>2. Done' = Done
        BY <2>2, <3>1 DEF Done
      <4> QED
        BY <1>s, <2>1, <2>2, <3>1, <4>1, <4>2
    <3>2. CASE run.left # {}
      <4>1. run'.counters = [run.counters EXCEPT !["skipped"] = @ + Cardinality(run.left)]
        BY <2>2, <3>2 DEF Skipped, Rest
      <4>2. /\ Done' = Done + Cardinality(run.left)
            /\ run'.counters["skipped"] = run.counters["skipped"] + Cardinality(run.left)
        BY <1>0, <1>s, <4>1, DoneSkips
      <4>3. run.stop
        BY <1>1, <3>2 DEF RunOver
      <4> QED
        BY <1>s, <2>1, <4>2, <4>3
    <3> QED
      BY <3>1, <3>2
  <2>6. Clean'
    BY <2>3 DEF Ledger, Clean, Busied
  <2>7. Left'
    BY <1>0, <2>1, <2>2, <2>4 DEF Left
  <2>8. Underway' /\ Over'
    BY <2>2, <2>4, <2>5 DEF Underway, Over
  <2> QED
    BY <2>2, <2>5, <2>6, <2>7, <2>8 DEF Ledger
<1>2. ASSUME NEW b \in SUBSET Channels, NextBatch(b) PROVE Ledger'
  <2>1. /\ run.at = "loop" /\ run.running /\ ~run.crashed
        /\ run.counters["skipped"] = 0 /\ Done = run.index
        /\ run.index + Cardinality(run.left) = Total
    BY <1>0, <1>2, <1>r, <1>s DEF NextBatch, Ledger, Underway, Left
  <2>2. /\ run'.at = "submit" /\ run'.running /\ ~run'.crashed /\ run'.left = run.left
        /\ run'.batch = b /\ run'.unsent = b /\ run'.targets = run.targets
        /\ run'.index = run.index /\ run'.stop = run.stop /\ run'.counters = run.counters
        /\ b \subseteq run.left
    BY <1>0, <1>2, <2>1 DEF NextBatch, Run, Batches
  <2>3. check' = check /\ \A c \in Channels : ~Busied(c)
    BY <1>2, <2>1 DEF NextBatch, IInv, Places
  <2>4. Total' = Total /\ Done' = Done
    BY <2>2 DEF Total, Done
  <2>5. Clean'
    BY <2>3 DEF Ledger, Clean, Busied
  <2>6. Left'
    BY <1>0, <2>1, <2>2, <2>3, <2>4 DEF Left, Busied
  <2>7. Underway' /\ Over'
    BY <1>s, <2>1, <2>2, <2>4 DEF Underway, Over
  <2> QED
    BY <1>s, <2>1, <2>2, <2>5, <2>6, <2>7 DEF Ledger
<1>3. ASSUME NEW c \in Channels, Submit(c) PROVE Ledger'
  <2>1. /\ run.at = "submit" /\ run.running /\ ~run.crashed /\ c \in run.unsent
        /\ run.counters["skipped"] = 0 /\ Done = run.index
        /\ run.index + Cardinality(run.left) = Total
    BY <1>0, <1>3, <1>r, <1>s DEF Submit, Ledger, Underway, Left
  <2>2. /\ run'.running /\ ~run'.crashed /\ run'.left = run.left
        /\ run'.batch = run.batch /\ run'.unsent = run.unsent \ {c} /\ run'.targets = run.targets
        /\ run'.index = run.index /\ run'.stop = run.stop /\ run'.counters = run.counters
        /\ run'.at = IF run.unsent = {c} THEN "collect" ELSE "submit"
    BY <1>0, <1>3, <2>1 DEF Submit, Run
  <2>3. \A p \in Probes : check'[p] = IF p = c THEN Queued ELSE check[p]
    BY <1>0, <1>3 DEF Submit
  <2>4. Total' = Total /\ Done' = Done
    BY <2>2 DEF Total, Done
  <2>5. Clean'
    BY <2>3, CheckTyped DEF Ledger, Clean, Busied
  <2>6. \A d \in run.batch : Busied(d)' <=> d \notin run.unsent \ {c}
    BY <1>0, <2>1, <2>3, CheckTyped DEF Ledger, Left, Busied
  <2>7. Left'
    BY <1>0, <2>1, <2>2, <2>4, <2>6 DEF Left
  <2>8. run.unsent = {c} => Cardinality(Counted') = 0
    <3>1. run.unsent = {c} => Counted' = {}
      BY <2>2, <2>6 DEF Counted
    <3> QED
      BY <3>1, FS_EmptySet
  <2>9. Underway' /\ Over'
    BY <1>s, <2>1, <2>2, <2>4, <2>8 DEF Underway, Over
  <2> QED
    BY <1>s, <2>1, <2>2, <2>5, <2>7, <2>9 DEF Ledger
<1>4. ASSUME NEW c \in Channels, SubmitFails(c) PROVE Ledger'
  <2>1. /\ run.at = "submit" /\ run.running /\ c \in run.unsent
        /\ run.counters["skipped"] = 0 /\ Done = run.index
        /\ run.index + Cardinality(run.left) = Total
    BY <1>0, <1>4, <1>r, <1>s DEF SubmitFails, Ledger, Underway, Left
  <2>2. /\ run'.running /\ run'.crashed /\ run'.left = run.left /\ run'.at = "close"
        /\ run'.batch = run.batch /\ run'.targets = run.targets
        /\ run'.index = run.index /\ run'.stop = run.stop /\ run'.counters = run.counters
    BY <1>0, <1>4, <2>1 DEF SubmitFails, Run
  <2>3. Total' = Total /\ Done' = Done
    BY <2>2 DEF Total, Done
  <2>4. PICK x \in {Queued, check[c]} : check' = [check EXCEPT ![c] = x]
    BY <1>0, <1>4 DEF SubmitFails
  <2>5. \A p \in Probes : check'[p] = IF p = c THEN x ELSE check[p]
    BY <1>0, <2>4
  <2>6. Clean'
    BY <2>5, CheckTyped DEF Ledger, Clean, Busied
  <2>7. Left'
    BY <1>0, <2>1, <2>2, <2>3 DEF Left
  <2>8. Underway' /\ Over'
    BY <1>s, <2>1, <2>2, <2>3 DEF Underway, Over
  <2> QED
    BY <1>s, <2>1, <2>2, <2>6, <2>7, <2>8 DEF Ledger
<1>5. ASSUME NEW c \in Channels, Count(c) PROVE Ledger'
  <2> DEFINE o == check[c].outcome
  <2>1. /\ run.at = "collect" /\ run.running /\ ~run.crashed /\ c \in run.batch
        /\ check[c].at = "done" /\ run.counters["skipped"] = 0
        /\ Done = run.index + Cardinality(Counted)
        /\ run.index + Cardinality(run.left) = Total
    BY <1>0, <1>5, <1>r, <1>s DEF Count, Ledger, Underway, Left
  <2>2. o \in Outcomes
    BY <1>0, <2>1 DEF Ledger, Clean
  <2>3. /\ run'.running /\ ~run'.crashed /\ run'.left = run.left /\ run'.at = "collect"
        /\ run'.batch = run.batch /\ run'.targets = run.targets
        /\ run'.index = run.index /\ run'.stop = run.stop
        /\ run'.counters = [run.counters EXCEPT ![o] = @ + 1]
    BY <1>0, <1>5, <2>1 DEF Count, Run
  <2>4. \A p \in Probes : check'[p] = IF p = c THEN NoCheck ELSE check[p]
    BY <1>0, <1>5 DEF Count
  <2>5. Total' = Total
    BY <2>3 DEF Total
  <2>6. Done' = Done + 1 /\ run'.counters["skipped"] = run.counters["skipped"]
    BY <1>0, <2>2, <2>3, DoneGrows
  <2>7. Cardinality(Counted') = Cardinality(Counted) + 1 /\ Cardinality(Counted) \in Nat
    <3>1. Counted' = Counted \cup {c} /\ c \notin Counted
      BY <1>0, <2>1, <2>3, <2>4, CheckTyped DEF Counted, Busied
    <3>2. Counted \subseteq Channels
      BY <1>0 DEF Counted
    <3>3. IsFiniteSet(Counted)
      BY <3>2, CheckAssumption, FS_Subset
    <3> QED
      BY <3>1, <3>3, FS_AddElement, FS_CardinalityType
  <2>8. Clean'
    BY <2>4, CheckTyped DEF Ledger, Clean, Busied
  <2>9. Left'
    BY <1>0, <2>1, <2>3, <2>5 DEF Left
  <2>10. Underway' /\ Over'
    BY <1>0, <1>s, <2>1, <2>3, <2>5, <2>6, <2>7 DEF Underway, Over
  <2> QED
    BY <1>s, <2>1, <2>3, <2>6, <2>8, <2>9, <2>10 DEF Ledger
<1>6. CASE BatchOver
  <2> DEFINE k == Cardinality(run.batch)
  <2>1. /\ run.at = "collect" /\ run.running /\ ~run.crashed /\ run.counters["skipped"] = 0
        /\ Done = run.index + Cardinality(Counted)
        /\ run.index + Cardinality(run.left) = Total
    BY <1>0, <1>6, <1>r, <1>s DEF BatchOver, Ledger, Underway, Left
  <2>2. Counted = run.batch
    BY <1>6 DEF BatchOver, Counted, Busied
  <2>3. /\ run'.running /\ ~run'.crashed /\ run'.left = run.left \ run.batch /\ run'.at = "loop"
        /\ run'.batch = {} /\ run'.targets = run.targets
        /\ run'.index = run.index + k /\ run'.stop = run.stop /\ run'.counters = run.counters
    <3>1. run' = [run EXCEPT !.at = "loop", !.left = @ \ run.batch, !.batch = {}, !.index = @ + k]
      BY <1>6 DEF BatchOver
    <3> HIDE DEF k
    <3> QED
      BY <1>0, <2>1, <3>1 DEF Run
  <2>4. check' = check
    BY <1>6 DEF BatchOver
  <2>5. Total' = Total /\ Done' = Done
    BY <2>3 DEF Total, Done
  <2>6. Cardinality(run'.left) = Cardinality(run.left) - k
    BY <1>0, <2>3, Sizes
  <2>7. Clean'
    BY <2>4 DEF Ledger, Clean, Busied
  <2>8. Left'
    BY <1>0, <1>s, <2>1, <2>3, <2>5, <2>6 DEF Left
  <2>9. Underway' /\ Over'
    BY <1>0, <1>s, <2>1, <2>2, <2>3, <2>5 DEF Underway, Over
  <2> QED
    BY <1>s, <2>1, <2>3, <2>7, <2>8, <2>9 DEF Ledger
<1>7. CASE Close
  <2>1. /\ ~run'.running /\ run'.crashed = run.crashed /\ run'.left = {} /\ run'.at = "off"
        /\ run'.batch = {} /\ run'.targets = run.targets /\ run'.index = run.index
        /\ run'.stop = run.stop /\ run'.counters = run.counters /\ run.at = "close"
    BY <1>0, <1>7 DEF Close, Run
  <2>2. \A p \in Probes : check'[p] = IF p \in Channels THEN NoCheck ELSE check[p]
    BY <1>0, <1>7 DEF Close
  <2>3. Total' = Total /\ Done' = Done
    BY <2>1 DEF Total, Done
  <2>4. Clean'
    BY <2>2, CheckTyped DEF Ledger, Clean, Busied
  <2>5. Left'
    BY <2>1 DEF Left
  <2>6. Underway' /\ Over'
    BY <2>1, <2>3 DEF Ledger, Underway, Over
  <2> QED
    BY <2>1, <2>4, <2>5, <2>6 DEF Ledger
<1> QED
  BY <1>1, <1>2, <1>3, <1>4, <1>5, <1>6, <1>7 DEF Running

\* What a run is before it begins: nothing is done of its targets.
LEMMA LedgerNew ==
  ASSUME NEW cs \in SUBSET Channels, Clean',
         \/ run' = NoRun
         \/ run' = [NoRun EXCEPT !.running = TRUE, !.targets = cs, !.left = cs]
  PROVE  Ledger'
<1>0. NoRun \in Run /\ \A k \in {"live", "dead", "timeout", "error", "skipped"} : NoRun.counters[k] = 0
  BY DEF NoRun, Run, Counters, Outcomes
<1>1. PICK new \in {NoRun, [NoRun EXCEPT !.running = TRUE, !.targets = cs, !.left = cs]} : run' = new
  OBVIOUS
<1>2. /\ new.at = "off" /\ new.index = 0 /\ new.batch = {} /\ ~new.stop /\ ~new.crashed
      /\ new.counters = NoRun.counters /\ new.left = new.targets /\ new.targets \subseteq Channels
      /\ ~new.running => new.left = {}
  <2>1. CASE new = NoRun
    BY <2>1 DEF NoRun
  <2>2. CASE new = [NoRun EXCEPT !.running = TRUE, !.targets = cs, !.left = cs]
    BY <2>2 DEF NoRun
  <2> QED
    BY <2>1, <2>2
<1>3. Done' = 0
  BY <1>0, <1>1, <1>2 DEF Done
<1>4. Total' = Cardinality(new.left) /\ Cardinality(new.left) \in Nat
  <2>1. Cardinality(new.left) \in Nat
    BY <1>2, Sizes
  <2> QED
    BY <1>1, <1>2, <2>1 DEF Total
<1>5. ~new.running => Total' = 0
  BY <1>2, <1>4, FS_EmptySet
<1>6. Left'
  BY <1>1, <1>2, <1>4 DEF Left
<1>7. Underway' /\ Over'
  BY <1>0, <1>1, <1>2, <1>3, <1>4, <1>5 DEF Underway, Over
<1> QED
  BY <1>0, <1>1, <1>2, <1>6, <1>7 DEF Ledger

\* The steps of a request, as it begins and later.
LEMMA LedgerRequest ==
  ASSUME IInv, Ledger, NEW r \in Requests, Serving(r) \/ Arriving(r)
  PROVE  Ledger'
<1>0. /\ run \in Run /\ check \in [Probes -> Check] /\ req \in [Requests -> Request]
      /\ r \in Probes /\ req[r] \in Request /\ r \notin Channels /\ Channels \subseteq Probes
  BY CheckAssumption DEF IInv, Typed, Probes
<1>1. ASSUME run' = run, check' = check PROVE Ledger'
  BY <1>1, LedgerAside DEF Ledger, Clean, Busied
<1>2. ASSUME run' = run, NEW x \in {NoCheck, Queued}, check' = [check EXCEPT ![r] = x] PROVE Ledger'
  <2>1. \A p \in Probes : check'[p] = IF p = r THEN x ELSE check[p]
    BY <1>0, <1>2
  <2>2. Clean'
    BY <2>1, <1>2, CheckTyped DEF Ledger, Clean, Busied
  <2> QED
    BY <1>0, <1>2, <2>1, <2>2, LedgerAside
<1>3. CASE SyncCatalog(r) \/ PurgeStale(r) \/ SyncFails(r) \/ Busy(r)
  BY <1>1, <1>3 DEF SyncCatalog, PurgeStale, SyncFails, Busy
<1>4. ASSUME NEW chans \in SUBSET Channels, Select(r, chans) PROVE Ledger'
  BY <1>1, <1>4 DEF Select
<1>5. CASE Start(r)
  <2>1. run' = [NoRun EXCEPT !.running = TRUE, !.targets = req[r].chans, !.left = req[r].chans]
        /\ check' = check /\ req[r].chans \in SUBSET Channels
    BY <1>0, <1>5 DEF Start, Request
  <2>2. Clean'
    BY <2>1 DEF Ledger, Clean, Busied
  <2> QED
    BY <2>1, <2>2, LedgerNew
<1>6. CASE Spawn(r)
  <2>1. /\ run.at = "off" /\ run.running /\ check' = check
    BY <1>6 DEF Spawn, IInv, Spawning
  <2>2. /\ run'.running = run.running /\ run'.crashed = run.crashed /\ run'.left = run.left
        /\ run'.at = "loop" /\ run'.batch = run.batch /\ run'.targets = run.targets
        /\ run'.index = run.index /\ run'.stop = run.stop /\ run'.counters = run.counters
    BY <1>0, <1>6 DEF Spawn, Run
  <2>3. Total' = Total /\ Done' = Done
    BY <2>2 DEF Total, Done
  <2>4. Clean'
    BY <2>1 DEF Ledger, Clean, Busied
  <2>5. Left'
    BY <2>1, <2>2, <2>3 DEF Ledger, Left
  <2>6. Underway' /\ Over'
    BY <2>1, <2>2, <2>3 DEF Ledger, Underway, Over
  <2> QED
    BY <2>1, <2>2, <2>4, <2>5, <2>6 DEF Ledger
<1>7. CASE SpawnFails(r)
  <2>1. run' = NoRun /\ check' = check
    BY <1>7 DEF SpawnFails, Reset
  <2>2. Clean'
    BY <2>1 DEF Ledger, Clean, Busied
  <2> QED
    BY <2>1, <2>2, LedgerNew
<1>8. CASE Checking(r)
  BY <1>0, <1>8, LedgerCheck
<1>9. CASE SingleEnds(r)
  BY <1>2, <1>9 DEF SingleEnds
<1>10. CASE Collect(r, "page") \/ Collect(r, "start")
  BY <1>1, <1>10 DEF Collect
<1>11. CASE Stop(r)
  <2>1. /\ run'.running = run.running /\ run'.crashed = run.crashed /\ run'.left = run.left
        /\ run'.at = run.at /\ run'.batch = run.batch /\ run'.targets = run.targets
        /\ run'.unsent = run.unsent
        /\ run'.index = run.index /\ run'.stop = TRUE /\ run'.counters = run.counters
        /\ check' = check
    BY <1>0, <1>11 DEF Stop, Run
  <2>2. Total' = Total /\ Done' = Done /\ Counted' = Counted
    BY <2>1 DEF Total, Done, Counted, Busied
  <2>3. Clean'
    BY <2>1 DEF Ledger, Clean, Busied
  <2>4. Left'
    BY <2>1, <2>2 DEF Ledger, Left, Busied
  <2>5. Underway' /\ Over'
    BY <2>1, <2>2 DEF Ledger, Underway, Over
  <2> QED
    BY <2>1, <2>3, <2>4, <2>5 DEF Ledger
<1>12. ASSUME NEW c \in Channels, CheckSingle(r, c) PROVE Ledger'
  BY <1>2, <1>12 DEF CheckSingle
<1> QED
  BY <1>3, <1>4, <1>5, <1>6, <1>7, <1>8, <1>9, <1>10, <1>11, <1>12 DEF Serving, Arriving

\* The ledger holds at the start,
LEMMA InitLedger == Init => Ledger
<1> SUFFICES ASSUME Init PROVE Ledger
  OBVIOUS
<1>1. /\ ~run.running /\ run.targets = {} /\ run.left = {} /\ run.at = "off"
      /\ run.index = 0 /\ run.batch = {} /\ ~run.stop /\ ~run.crashed
      /\ \A k \in {"live", "dead", "timeout", "error", "skipped"} : run.counters[k] = 0
  BY DEF Init, NoRun, Counters, Outcomes
<1>2. Total = 0 /\ Done = 0
  BY <1>1, FS_EmptySet DEF Total, Done
<1>3. Clean
  BY CheckTyped DEF Init, Clean, Busied, Probes
<1>4. Left /\ Underway /\ Over
  BY <1>1, <1>2 DEF Left, Underway, Over
<1> QED
  BY <1>1, <1>3, <1>4 DEF Ledger

\* and every step keeps it.
LEMMA LedgerStep == IInv /\ Ledger /\ [Next]_vars => Ledger'
<1> SUFFICES ASSUME IInv, Ledger, [Next]_vars PROVE Ledger'
  OBVIOUS
<1>1. ASSUME run' = run, check' = check PROVE Ledger'
  BY <1>1, LedgerAside DEF Ledger, Clean, Busied
<1>2. CASE CatalogChanges \/ UNCHANGED vars
  BY <1>1, <1>2 DEF CatalogChanges, vars
<1>3. ASSUME NEW c \in Channels, Probing(c) PROVE Ledger'
  BY <1>3, LedgerCheck, LedgerEnds DEF Probing, Probes
<1>4. ASSUME NEW p \in Probes, DeadlinePasses(p) PROVE Ledger'
  BY <1>4, LedgerCheck
<1> QED
  BY <1>2, <1>3, <1>4, LedgerRun, LedgerRequest DEF Next, Probes

\* The ledger says what the status shows.
LEMMA LedgerAccounts == IInv /\ Ledger => RunAccounted
<1> SUFFICES ASSUME IInv, Ledger PROVE RunAccounted
  OBVIOUS
<1>0. /\ run \in Run /\ run.batch \subseteq run.left /\ run.left \subseteq run.targets
      /\ run.targets \subseteq Channels /\ run.index \in Nat
      /\ run.counters \in [Counters -> Nat] /\ Channels \subseteq Probes
  BY DEF IInv, Typed, Probes, Run, Ledger, Left
<1>1. /\ Total \in Nat /\ Cardinality(run.left) \in Nat /\ Cardinality(run.left) <= Total
      /\ Cardinality(run.batch) \in Nat /\ Cardinality(run.batch) <= Cardinality(run.left)
      /\ Done \in Nat /\ run.counters["skipped"] \in Nat
  BY <1>0, Sizes, DoneTyped DEF Total
<1>2. Cardinality(Counted) \in Nat /\ Cardinality(Counted) <= Cardinality(run.batch)
  BY <1>0, Sizes DEF Counted
<1>3. CASE run.running /\ run.at # "close"
  BY <1>0, <1>1, <1>2, <1>3 DEF Ledger, Underway, Left, RunAccounted
<1>4. CASE ~run.running \/ run.at = "close"
  <2>1. ~run.running => \A c \in Channels : check[c] = NoCheck
    BY <1>0 DEF IInv, Places, Spawning, Ledger, Clean
  <2>2. \/ run.crashed /\ Done = run.index /\ run.counters["skipped"] = 0 /\ Done <= Total
        \/ run.batch = {} /\ Done = Total /\ Done = run.index + run.counters["skipped"]
    BY <1>4 DEF Ledger, Over
  <2>3. ~run.running => Done = Total \/ run.crashed
    BY <2>2
  <2>4. Done <= Total /\ run.index <= Done
        /\ Done <= run.index + Cardinality(run.batch) + run.counters["skipped"]
    BY <1>0, <1>1, <2>2
  <2> QED
    BY <2>1, <2>3, <2>4 DEF Ledger, RunAccounted
<1> QED
  BY <1>3, <1>4

\* check_runner: the counters of a run account for every target once, as checked or
\* skipped, through stops, crashes and starts of the next run.
THEOREM EveryTargetCounted == Spec => []RunAccounted
<1>1. IInv /\ Ledger /\ [Next]_vars => IInv' /\ Ledger'
  BY Step, LedgerStep
<1>2. Init => IInv /\ Ledger
  BY InitIInv, InitLedger
<1> QED
  BY <1>1, <1>2, LedgerAccounts, PTL DEF Spec

=============================================================================
