----------------------------- MODULE CachedStores -----------------------------
(***************************************************************************)
(* The stores of settings, EULA consent and setup state: tables in one     *)
(* SQLite file, reached over a pool of connections, written under one lock *)
(* (check_store._lock), and read through a cache with a time to live.      *)
(*                                                                         *)
(* A table is the set of its rows that matter: a row per setting, the      *)
(* consent that is not revoked, the completion of the setup and its step,  *)
(* which has no cache. A row that is None is absent.                       *)
(***************************************************************************)
EXTENDS Naturals, FiniteSets

CONSTANTS
    Keys,        \* settings
    Secrets,     \* those whose empty value means: leave it as it is
    Values,      \* values a setting may have
    Conns,       \* identities of connections
    PoolMax,     \* check_store._POOL_MAX
    TTL,         \* time to live of every cache
    Workers,     \* threads that serve requests
    None,
    MaxTime,     \* bound: instants
    MaxCalls     \* bound: requests

\* A thread holds one connection at most; settings have a table of their own.
ASSUME StoresAssumption ==
    /\ Secrets \subseteq Keys /\ Keys \cap {"consent", "completed", "step"} = {}
    /\ PoolMax \in Nat /\ TTL \in Nat \ {0} /\ MaxTime \in Nat /\ MaxCalls \in Nat
    /\ IsFiniteSet(Conns) /\ IsFiniteSet(Workers)
    /\ Cardinality(Conns) >= Cardinality(Workers) + PoolMax
    /\ None \notin Conns \cup Workers \cup Nat

VARIABLES
    db,      \* the committed rows
    pend,    \* what each connection has written since its last commit
    pool,    \* check_store._pool
    lock,    \* holder of check_store._lock, or None
    cache,   \* cache of each store: a value, its time stamp and when it was true
    thr,     \* what each thread is at
    now,     \* time.monotonic()
    calls,   \* requests so far
    raced    \* history: stores whose cache was filled with a row already replaced

vars == <<db, pend, pool, lock, cache, thr, now, calls, raced>>

Stores == {"settings", "eula", "setup"}
RowsOf(s) == CASE s = "settings" -> Keys [] s = "eula" -> {"consent"} [] s = "setup" -> {"completed"}
Rows == {"step"} \cup UNION {RowsOf(s) : s \in Stores}
Data == Values \cup {"yes", None}

\* Every answer and every cached value remembers until when it was true.
Instants == 0..MaxTime
Contents(s) == [RowsOf(s) -> Data]
Cached(s) == [val : Contents(s), ts : Instants, end : Instants \cup {None}]

\* Statements of a request: the row and what it becomes.
Statement == [row : Rows, to : Data \cup {"bad", "empty"}]

Points == {"idle", "lookup", "connect", "query", "fill", "answer",
           "lock", "write", "close", "through", "clear"}

Idle == [at |-> "idle", store |-> None, direct |-> FALSE, conn |-> None, todo |-> {}, all |-> {},
         val |-> None, end |-> None, start |-> 0, changed |-> FALSE]

Content(s) == [r \in RowsOf(s) |-> db[r]]

\* create_app has created the tables, all of them empty.
Init ==
    /\ db = [r \in Rows |-> None]
    /\ pend = [c \in Conns |-> {}] /\ pool = {} /\ lock = None
    /\ cache = [s \in Stores |-> None]
    /\ thr = [w \in Workers |-> Idle]
    /\ now = 0 /\ calls = 0 /\ raced = {}

Tick == now < MaxTime /\ now' = now + 1
        /\ UNCHANGED <<db, pend, pool, lock, cache, thr, calls, raced>>

Begin(w, t) ==
    /\ thr[w] = Idle /\ calls < MaxCalls
    /\ calls' = calls + 1
    /\ thr' = [thr EXCEPT ![w] = t]
    /\ UNCHANGED <<db, pend, pool, lock, cache, now, raced>>

-----------------------------------------------------------------------------
(* The pool.                                                               *)

InUse == {thr[w].conn : w \in Workers}

\* Idle connections that fail their test are closed; the first that answers is
\* taken, or a new one is opened.
Connect(c) ==
    \/ c \in pool /\ \E kept \in SUBSET (pool \ {c}) : pool' = kept
    \/ c = (CHOOSE d \in Conns : d \notin pool \cup InUse) /\ pool' = {}

\* Mutant: a connection goes back with its transaction.
NoRollback(c) == pend

Return(c) == pool' = IF Cardinality(pool) < PoolMax THEN pool \cup {c} ELSE pool

Rollback(c) == [pend EXCEPT ![c] = {}]

\* close() of a pooled connection: rolled back, and kept or closed.
Close(c) == Return(c) /\ pend' = Rollback(c)

-----------------------------------------------------------------------------
(* Reads.                                                                  *)

\* _load_values, is_globally_accepted and is_setup_required take the time first.
Read(w, s) ==
    Begin(w, [Idle EXCEPT !.at = "lookup", !.store = s, !.start = now])

\* status and get_state go to the table.
ReadDirectly(w, s) ==
    Begin(w, [Idle EXCEPT !.at = "connect", !.store = s, !.direct = TRUE, !.start = now])

Fresh(w) ==
    LET c == cache[thr[w].store] IN c # None /\ thr[w].start < c.ts + TTL

Lookup(w) ==
    /\ thr[w].at = "lookup"
    /\ LET c == cache[thr[w].store] IN
       thr' = IF Fresh(w)
              THEN [thr EXCEPT ![w].at = "answer", ![w].val = c.val, ![w].end = c.end]
              ELSE [thr EXCEPT ![w].at = "connect"]
    /\ UNCHANGED <<db, pend, pool, lock, cache, now, calls, raced>>

ReadConnect(w) ==
    /\ thr[w].at = "connect"
    /\ \E c \in Conns : Connect(c) /\ thr' = [thr EXCEPT ![w].at = "query", ![w].conn = c]
    /\ UNCHANGED <<db, pend, lock, cache, now, calls, raced>>

Query(w) ==
    /\ thr[w].at = "query"
    /\ Close(thr[w].conn)
    /\ thr' = [thr EXCEPT ![w].at = IF thr[w].direct THEN "answer" ELSE "fill",
                          ![w].conn = None, ![w].val = Content(thr[w].store)]
    /\ UNCHANGED <<db, lock, cache, now, calls, raced>>

\* Mutant: the cache is stamped when it is filled.
StampNow(w) == now

\* The stamp is the time before the read.
Stamp(w) == thr[w].start

Fill(w) ==
    /\ thr[w].at = "fill"
    /\ LET s == thr[w].store IN
       /\ cache' = [cache EXCEPT ![s] = [val |-> thr[w].val, ts |-> Stamp(w), end |-> thr[w].end]]
       /\ raced' = IF thr[w].end = None THEN raced \ {s} ELSE raced \cup {s}
    /\ thr' = [thr EXCEPT ![w].at = "answer"]
    /\ UNCHANGED <<db, pend, pool, lock, now, calls>>

Answer(w) ==
    /\ thr[w].at = "answer"
    /\ thr' = [thr EXCEPT ![w] = Idle]
    /\ UNCHANGED <<db, pend, pool, lock, cache, now, calls, raced>>

-----------------------------------------------------------------------------
(* Writes.                                                                 *)

Write(w, s, statements) ==
    Begin(w, [Idle EXCEPT !.at = "lock", !.store = s, !.todo = statements, !.all = statements])

\* An update has an entry for some of the settings, each valid or not.
UpdateSettings(w) ==
    \E D \in (SUBSET Keys) \ {{}} : \E e \in [D -> Values \cup {"bad", "empty"}] :
        Write(w, "settings", {[row |-> k, to |-> e[k]] : k \in D})

\* reset_setting deletes the row.
Cleared(k) == {[row |-> k, to |-> None]}

ResetSetting(w) == \E k \in Keys : Write(w, "settings", Cleared(k))

\* accept inserts a consent, revoke marks every one there is. A request without
\* the box ticked or the phrase gets no further than the handler.
Consented == {[row |-> "consent", to |-> "yes"]}
Withdrawn == {[row |-> "consent", to |-> None]}

Accept(w) == Write(w, "eula", Consented)

Revoke(w) == Write(w, "eula", Withdrawn)

SetState(w) ==
    \/ Write(w, "setup", {[row |-> "step", to |-> "yes"]})
    \/ \E v \in {"yes", None} : Write(w, "setup", {[row |-> "completed", to |-> v]})

\* The writer takes the lock, then a connection.
Lock(w) ==
    /\ thr[w].at = "lock" /\ lock = None
    /\ lock' = w
    /\ \E c \in Conns : Connect(c) /\ thr' = [thr EXCEPT ![w].at = "write", ![w].conn = c]
    /\ UNCHANGED <<db, pend, cache, now, calls, raced>>

\* What normalisation says of an entry: the empty value of a secret is skipped,
\* any other empty or invalid value is an error.
Skipped(e) == e.to = "empty" /\ e.row \in Secrets
Invalid(e) == e.to = "bad" \/ (e.to = "empty" /\ e.row \notin Secrets)

Execute(w) ==
    /\ thr[w].at = "write"
    /\ \E e \in thr[w].todo :
       /\ ~Invalid(e)
       /\ thr' = [thr EXCEPT ![w].todo = @ \ {e}]
       /\ pend' = IF Skipped(e) THEN pend ELSE [pend EXCEPT ![thr[w].conn] = @ \cup {e}]
    /\ UNCHANGED <<db, pool, lock, cache, now, calls, raced>>

\* An invalid entry is found after others were executed, or the database
\* refuses a statement or the commit: the exception leaves through the close.
Refuse(w) ==
    /\ thr[w].at = "write"
    /\ Close(thr[w].conn)
    /\ lock' = None
    /\ thr' = [thr EXCEPT ![w] = Idle]
    /\ UNCHANGED <<db, cache, now, calls, raced>>

Applied(c) ==
    [r \in Rows |-> IF \E e \in pend[c] : e.row = r
                    THEN (CHOOSE e \in pend[c] : e.row = r).to ELSE db[r]]

\* A value that is true no longer is marked with the time.
Ended(x, new) ==
    IF x.val = new THEN [x EXCEPT !.end = None]
    ELSE IF x.end = None THEN [x EXCEPT !.end = now] ELSE x

\* Mutant: every entry is committed by itself.
CommitEach(w) == TRUE

AllExecuted(w) == thr[w].todo = {}

Commit(w) ==
    /\ thr[w].at = "write" /\ AllExecuted(w)
    /\ db' = Applied(thr[w].conn)
    /\ pend' = [pend EXCEPT ![thr[w].conn] = {}]
    /\ LET new == [s \in Stores |-> [r \in RowsOf(s) |-> db'[r]]] IN
       /\ thr' = [v \in Workers |->
                    IF v = w THEN [thr[v] EXCEPT !.at = "close", !.changed = (db' # db)]
                    ELSE IF thr[v].at \in {"fill", "answer"}
                    THEN Ended(thr[v], new[thr[v].store])
                    ELSE thr[v]]
       /\ cache' = [s \in Stores |->
                      IF cache[s] = None THEN None ELSE Ended(cache[s], new[s])]
    /\ UNCHANGED <<pool, lock, now, calls, raced>>

\* Mutant: whatever set_state writes goes to the cache.
CachesAll(w) == thr[w].store = "setup"

\* set_state writes the completion through to its cache.
WritesThrough(w) == \E e \in thr[w].all : e.row = "completed"

\* Mutant: the lock is released before the cache is written.
KeepsNoLock(w) == FALSE

\* It does so before it releases the lock.
KeepsLock(w) == WritesThrough(w)

\* Revoking nothing leaves the cache alone.
Invalidates(w) ==
    \/ thr[w].store = "settings"
    \/ thr[w].store = "eula" /\ (thr[w].changed \/ db["consent"] # None)

CloseWriter(w) ==
    /\ thr[w].at = "close"
    /\ Close(thr[w].conn)
    /\ lock' = IF KeepsLock(w) THEN w ELSE None
    /\ thr' = [thr EXCEPT ![w] =
                  IF WritesThrough(w) THEN [@ EXCEPT !.at = "through", !.conn = None]
                  ELSE IF Invalidates(w) THEN [@ EXCEPT !.at = "clear", !.conn = None]
                  ELSE Idle]
    /\ UNCHANGED <<db, cache, now, calls, raced>>

\* What set_state leaves in the cache is what it wrote, stamped after the commit.
WriteThrough(w) ==
    /\ thr[w].at = "through"
    /\ LET e == CHOOSE x \in thr[w].all : TRUE IN
       cache' = [cache EXCEPT !["setup"] = [val |-> [r \in {e.row} |-> e.to], ts |-> now,
                                            end |-> IF db[e.row] = e.to THEN None ELSE now]]
    /\ raced' = raced \ {"setup"}
    /\ lock' = IF lock = w THEN None ELSE lock
    /\ thr' = [thr EXCEPT ![w] = Idle]
    /\ UNCHANGED <<db, pend, pool, now, calls>>

Clear(w) ==
    /\ thr[w].at = "clear"
    /\ cache' = [cache EXCEPT ![thr[w].store] = None]
    /\ raced' = raced \ {thr[w].store}
    /\ thr' = [thr EXCEPT ![w] = Idle]
    /\ UNCHANGED <<db, pend, pool, lock, now, calls>>

-----------------------------------------------------------------------------
Next ==
    \/ Tick
    \/ \E w \in Workers :
          \/ \E s \in Stores : Read(w, s)
          \/ \E s \in {"eula", "setup"} : ReadDirectly(w, s)
          \/ Lookup(w) \/ ReadConnect(w) \/ Query(w)
          \/ Fill(w) \/ Answer(w)
          \/ UpdateSettings(w) \/ ResetSetting(w) \/ Accept(w) \/ Revoke(w) \/ SetState(w)
          \/ Lock(w) \/ Execute(w) \/ Refuse(w) \/ Commit(w) \/ CloseWriter(w)
          \/ WriteThrough(w) \/ Clear(w)

Spec == Init /\ [][Next]_vars

-----------------------------------------------------------------------------
(* Properties.                                                             *)

\* Variables have their types.
TypeOK ==
    /\ db \in [Rows -> Data]
    /\ pend \in [Conns -> SUBSET Statement]
    /\ pool \subseteq Conns /\ lock \in Workers \cup {None}
    /\ \A s \in Stores : cache[s] = None \/ cache[s] \in Cached(s)
    /\ \A w \in Workers :
          /\ thr[w].at \in Points /\ thr[w].store \in Stores \cup {None}
          /\ thr[w].conn \in Conns \cup {None}
          /\ thr[w].todo \subseteq thr[w].all /\ thr[w].all \subseteq Statement
          /\ thr[w].val = None \/ thr[w].val \in Contents(thr[w].store)
          /\ thr[w].end \in Instants \cup {None}
    /\ now \in Instants /\ calls \in 0..MaxCalls /\ raced \subseteq Stores

\* Connections are not shared: two threads never hold the same one, nor one that
\* is idle in the pool; an idle one has no open transaction, and the pool keeps
\* at most PoolMax.
PoolSound ==
    /\ Cardinality(pool) <= PoolMax
    /\ \A c \in pool : pend[c] = {}
    /\ \A w \in Workers : thr[w].conn # None =>
          thr[w].conn \notin pool /\ \A v \in Workers \ {w} : thr[v].conn # thr[w].conn

\* A request changes the tables by all of its statements or not at all: what a
\* refused update had executed is never committed, not by the next user of its
\* connection either.
WholeRequest(w) ==
    /\ thr[w].at = "write"
    /\ ~\E e \in thr[w].all : Invalid(e)
    /\ \A r \in Rows :
          db'[r] = IF \E e \in thr[w].all : e.row = r /\ ~Skipped(e)
                   THEN (CHOOSE e \in thr[w].all : e.row = r).to ELSE db[r]
CommitsWhole == [][db' # db => \E w \in Workers : WholeRequest(w)]_vars

\* An answer was true less than a time to live before it was asked for, however
\* reads, fills, commits and invalidations interleave: a slow reader may put back
\* what was replaced, but stamped with the time before it read. An answer that went
\* past the cache was true after it was asked for.
BoundedStaleness ==
    \A w \in Workers : thr[w].at = "answer" =>
        \/ thr[w].end = None
        \/ thr[w].start < thr[w].end + (IF thr[w].direct THEN 1 ELSE TTL)

\* Between requests a cached value is the committed one, unless it was replaced
\* between a reader's query and its fill. Consent revoked, a setting changed or a
\* setup completed is in force at the next request.
Settled(s) == \A w \in Workers : thr[w].at \in {"close", "through", "clear"} => thr[w].store # s
CacheFollowsTable ==
    \A s \in Stores : Settled(s) /\ s \notin raced /\ cache[s] # None
        => cache[s].val = Content(s)

=============================================================================
