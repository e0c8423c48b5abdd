-------------------------- MODULE CachedStoresProofs --------------------------
(***************************************************************************)
(* Proofs about CachedStores, for any settings, threads, connections, size *)
(* of the pool, time to live and bounds: types, PoolSound, CommitsWhole,   *)
(* BoundedStaleness and CacheFollowsTable.                                 *)
(***************************************************************************)
EXTENDS CachedStores, FiniteSetTheorems, TLAPS

Writing == {"lock", "write", "close", "through", "clear"}

Vals == {None} \cup UNION {Contents(s) : s \in Stores}

Thread == [at : Points, store : Stores \cup {None}, direct : BOOLEAN, conn : Conns \cup {None},
           todo : SUBSET Statement, all : SUBSET Statement, val : Vals,
           end : Instants \cup {None}, start : Instants, changed : BOOLEAN]

\* The statements of one request: at most one for a row, all for the rows of its
\* store, and the completion of the setup by itself.
Batch(s, S) ==
    /\ \A e \in S : e.row \in RowsOf(s) \/ (s = "setup" /\ e.row = "step")
    /\ \A e, f \in S : e.row = f.row => e = f
    /\ (\E e \in S : e.row = "completed") => \E e \in S : S = {e}

\* What the point of a thread says of the rest.
Formed(t) ==
    /\ t.at = "idle" => t = Idle
    /\ t.at # "idle" => t.store \in Stores
    /\ t.conn # None <=> t.at \in {"query", "write", "close"}
    /\ IF t.at \in {"fill", "answer"} THEN t.val \in Contents(t.store)
       ELSE t.val = None /\ t.end = None
    /\ t.todo \subseteq t.all
    /\ IF t.at \in Writing THEN Batch(t.store, t.all) ELSE t.all = {}
    /\ t.at = "lock" => t.todo = t.all
    /\ t.at = "lookup" => t.direct = FALSE
    /\ t.at = "through" => \E e \in t.all : e.row = "completed"

Entry == {None} \cup UNION {Cached(s) : s \in Stores}

Typed ==
    /\ db \in [Rows -> Data] /\ pend \in [Conns -> SUBSET Statement]
    /\ pool \subseteq Conns /\ lock \in Workers \cup {None}
    /\ cache \in [Stores -> Entry] /\ \A s \in Stores : cache[s] = None \/ cache[s] \in Cached(s)
    /\ thr \in [Workers -> Thread] /\ \A w \in Workers : Formed(thr[w])
    /\ now \in Instants /\ calls \in 0..MaxCalls /\ raced \subseteq Stores

-----------------------------------------------------------------------------
(* Types.                                                                  *)

\* Names of points and stores.
LEMMA Names ==
  /\ {"idle", "lookup", "connect", "query", "fill", "answer", "lock", "write", "close",
      "through", "clear"} \subseteq Points
  /\ Stores = {"settings", "eula", "setup"}
  /\ RowsOf("settings") = Keys /\ RowsOf("eula") = {"consent"} /\ RowsOf("setup") = {"completed"}
  /\ Rows = Keys \cup {"consent", "completed", "step"}
  /\ None \notin Instants /\ 0 \in Instants
<1>1. RowsOf("settings") = Keys /\ RowsOf("eula") = {"consent"} /\ RowsOf("setup") = {"completed"}
  BY DEF RowsOf
<1>2. Rows = Keys \cup {"consent", "completed", "step"}
  <2> DEFINE U == UNION {RowsOf(s) : s \in Stores}
  <2>1. \A r : r \in U <=> \E s \in Stores : r \in RowsOf(s)
    OBVIOUS
  <2>3. Rows = U \cup {"step"}
    BY DEF Rows
  <2> HIDE DEF U
  <2>2. \A r : (\E s \in Stores : r \in RowsOf(s)) <=> r \in Keys \cup {"consent", "completed"}
    BY <1>1 DEF Stores
  <2> QED
    BY <2>1, <2>2, <2>3
<1> QED
  BY <1>1, <1>2, StoresAssumption DEF Points, Stores, Instants

\* The idle thread.
LEMMA IdleTyped ==
  /\ Idle \in Thread /\ Formed(Idle)
  /\ Idle.at = "idle" /\ Idle.store = None /\ Idle.conn = None /\ Idle.end = None /\ Idle.val = None
  /\ Idle.all = {} /\ Idle.todo = {} /\ Idle.start = 0 /\ Idle.direct = FALSE
<1>1. Idle.at = "idle" /\ Idle.store = None /\ Idle.conn = None /\ Idle.end = None /\ Idle.val = None
      /\ Idle.all = {} /\ Idle.todo = {} /\ Idle.start = 0 /\ Idle.direct = FALSE
  BY DEF Idle
<1>2. Idle \in Thread
  BY Names DEF Idle, Thread, Vals
<1>3. Formed(Idle)
  BY <1>1 DEF Formed, Writing
<1> QED
  BY <1>1, <1>2, <1>3

\* What the tables hold of a store.
LEMMA ContentTyped ==
  ASSUME db \in [Rows -> Data], NEW s \in Stores
  PROVE  Content(s) \in Contents(s)
<1>1. RowsOf(s) \subseteq Rows
  BY DEF Rows
<1> QED
  BY <1>1 DEF Content, Contents

\* A step of one thread.
LEMMA ThreadTyped ==
  ASSUME Typed, NEW w \in Workers, NEW x, x \in Thread, Formed(x), thr' = [thr EXCEPT ![w] = x]
  PROVE  /\ thr' \in [Workers -> Thread] /\ \A v \in Workers : Formed(thr'[v])
         /\ thr'[w] = x /\ \A v \in Workers : v # w => thr'[v] = thr[v]
BY DEF Typed

\* A connection that is taken is one of Conns.
LEMMA ConnectTyped ==
  ASSUME Typed, NEW c \in Conns, Connect(c)
  PROVE  pool' \subseteq Conns
BY DEF Typed, Connect

\* So is one that is closed.
LEMMA CloseTyped ==
  ASSUME Typed, NEW c \in Conns, Close(c)
  PROVE  pool' \subseteq Conns /\ pend' \in [Conns -> SUBSET Statement]
BY DEF Typed, Close, Return, Rollback

\* A request begins.
LEMMA BeginTyped ==
  ASSUME Typed, NEW w \in Workers, NEW x, x \in Thread, Formed(x), Begin(w, x)
  PROVE  Typed'
<1>1. /\ thr' \in [Workers -> Thread] /\ \A v \in Workers : Formed(thr'[v])
  BY ThreadTyped DEF Begin
<1>2. calls' \in 0..MaxCalls
  BY StoresAssumption DEF Begin, Typed
<1> QED
  BY <1>1, <1>2 DEF Begin, Typed

\* What a thread is when its request begins.
Starting(x) ==
    /\ x \in Thread /\ Formed(x) /\ x.at \in {"lookup", "connect", "lock"}
    /\ x.conn = None /\ x.end = None /\ x.start <= now

\* A thread that reads.
LEMMA ReadTyped ==
  ASSUME Typed, NEW s \in Stores, NEW x \in Thread, x.at \in {"lookup", "connect"},
         x.store = s, x.conn = None, x.val = None, x.end = None, x.todo = {}, x.all = {}, x.start = now,
         x.at = "lookup" => x.direct = FALSE
  PROVE  Starting(x)
<1>1. now \in Nat
  BY DEF Typed, Instants
<1> QED
  BY <1>1 DEF Formed, Writing, Starting

\* A thread that writes.
LEMMA WriteTyped ==
  ASSUME Typed, NEW w \in Workers, NEW s \in Stores, NEW S \in SUBSET Statement, Batch(s, S),
         Write(w, s, S)
  PROVE  \E x : Starting(x) /\ Begin(w, x)
<1> DEFINE x == [Idle EXCEPT !.at = "lock", !.store = s, !.todo = S, !.all = S]
<1>1. /\ x \in Thread /\ x.at = "lock" /\ x.store = s /\ x.conn = None /\ x.val = None
      /\ x.end = None /\ x.todo = S /\ x.all = S /\ x.start = 0
  BY IdleTyped, Names DEF Thread, Typed
<1>2. Begin(w, x)
  BY DEF Write
<1> HIDE DEF x
<1>3. Formed(x)
  BY <1>1 DEF Formed, Writing
<1>4. Starting(x)
  BY <1>1, <1>3 DEF Starting, Typed, Instants
<1> QED
  BY <1>2, <1>4

\* Every request that writes has a batch.
LEMMA WritersTyped ==
  ASSUME Typed, NEW w \in Workers,
         UpdateSettings(w) \/ ResetSetting(w) \/ Accept(w) \/ Revoke(w) \/ SetState(w)
  PROVE  \E s \in Stores, S \in SUBSET Statement : Batch(s, S) /\ Write(w, s, S)
<1>1. CASE UpdateSettings(w)
  <2>0. PICK D \in (SUBSET Keys) \ {{}} : \E e \in [D -> Values \cup {"bad", "empty"}] :
           Write(w, "settings", {[row |-> k, to |-> e[k]] : k \in D})
    BY <1>1 DEF UpdateSettings
  <2>1. PICK e \in [D -> Values \cup {"bad", "empty"}] :
           Write(w, "settings", {[row |-> k, to |-> e[k]] : k \in D})
    BY <2>0
  <2> DEFINE S == {[row |-> k, to |-> e[k]] : k \in D}
  <2>2. S \subseteq Statement /\ \A f \in S : f.row \in Keys
    BY Names DEF Statement, Data
  <2>3. \A f, g \in S : f.row = g.row => f = g
    OBVIOUS
  <2>4. Write(w, "settings", S)
    BY <2>1
  <2> HIDE DEF S
  <2>5. Batch("settings", S)
    BY <2>2, <2>3, Names, StoresAssumption DEF Batch
  <2> QED
    BY <2>2, <2>4, <2>5, Names
<1>2. CASE ResetSetting(w)
  <2>1. PICK k \in Keys : Write(w, "settings", Cleared(k))
    BY <1>2 DEF ResetSetting
  <2>2. Cleared(k) \subseteq Statement /\ Batch("settings", Cleared(k))
    BY Names, StoresAssumption DEF Cleared, Statement, Data, Batch
  <2> QED
    BY <2>1, <2>2, Names
<1>3. CASE Accept(w) \/ Revoke(w)
  <2>1. /\ Consented \subseteq Statement /\ Batch("eula", Consented)
        /\ Withdrawn \subseteq Statement /\ Batch("eula", Withdrawn)
    BY Names DEF Consented, Withdrawn, Statement, Data, Batch
  <2> QED
    BY <1>3, <2>1, Names DEF Accept, Revoke
<1>4. CASE SetState(w)
  <2>1. ASSUME NEW r \in {"step", "completed"}, NEW v \in {"yes", None}
        PROVE  {[row |-> r, to |-> v]} \subseteq Statement /\ Batch("setup", {[row |-> r, to |-> v]})
    BY Names DEF Statement, Data, Batch
  <2> QED
    BY <1>4, <2>1, Names DEF SetState
<1> QED
  BY <1>1, <1>2, <1>3, <1>4

Begins(w) ==
    \/ \E s \in Stores : Read(w, s)
    \/ \E s \in {"eula", "setup"} : ReadDirectly(w, s)
    \/ UpdateSettings(w) \/ ResetSetting(w) \/ Accept(w) \/ Revoke(w) \/ SetState(w)

\* Every request begins so.
LEMMA Begun ==
  ASSUME Typed, NEW w \in Workers, Begins(w)
  PROVE  \E x : Starting(x) /\ Begin(w, x)
<1>1. ASSUME NEW s \in Stores, Read(w, s)
      PROVE  \E x : Starting(x) /\ Begin(w, x)
  <2> DEFINE x == [Idle EXCEPT !.at = "lookup", !.store = s, !.start = now]
  <2>1. /\ x \in Thread /\ x.at = "lookup" /\ x.store = s /\ x.conn = None /\ x.val = None
        /\ x.end = None /\ x.todo = {} /\ x.all = {} /\ x.start = now /\ x.direct = FALSE
    BY IdleTyped, Names DEF Thread, Typed
  <2>2. Begin(w, x)
    BY <1>1 DEF Read
  <2> HIDE DEF x
  <2> QED
    BY <2>1, <2>2, ReadTyped
<1>2. ASSUME NEW s \in Stores, ReadDirectly(w, s)
      PROVE  \E x : Starting(x) /\ Begin(w, x)
  <2> DEFINE x == [Idle EXCEPT !.at = "connect", !.store = s, !.direct = TRUE, !.start = now]
  <2>1. /\ x \in Thread /\ x.at = "connect" /\ x.store = s /\ x.conn = None /\ x.val = None
        /\ x.end = None /\ x.todo = {} /\ x.all = {} /\ x.start = now
    BY IdleTyped, Names DEF Thread, Typed
  <2>2. Begin(w, x)
    BY <1>2 DEF ReadDirectly
  <2> HIDE DEF x
  <2> QED
    BY <2>1, <2>2, ReadTyped
<1>3. CASE UpdateSettings(w) \/ ResetSetting(w) \/ Accept(w) \/ Revoke(w) \/ SetState(w)
  BY <1>3, WritersTyped, WriteTyped
<1> QED
  BY <1>1, <1>2, <1>3, Names DEF Begins

\* A thread moves on in its request.
Moves(w) ==
    /\ thr' \in [Workers -> Thread]
    /\ \A v \in Workers : v # w => thr'[v] = thr[v]
    /\ thr'[w].store = thr[w].store /\ thr'[w].direct = thr[w].direct
    /\ thr'[w].all = thr[w].all /\ thr'[w].start = thr[w].start

\* The cache is asked.
LEMMA LookupMoves ==
  ASSUME Typed, NEW w \in Workers, Lookup(w)
  PROVE  /\ Moves(w) /\ thr[w].at = "lookup" /\ thr'[w].conn = thr[w].conn
         /\ thr'[w].todo = thr[w].todo
         /\ \/ /\ Fresh(w) /\ thr'[w].at = "answer"
               /\ thr'[w].val = cache[thr[w].store].val /\ thr'[w].end = cache[thr[w].store].end
            \/ ~Fresh(w) /\ thr'[w].at = "connect" /\ thr'[w].val = thr[w].val /\ thr'[w].end = thr[w].end
<1>1. thr[w] \in Thread /\ thr[w].at = "lookup" /\ thr[w].store \in Stores
  BY DEF Typed, Formed, Lookup
<1>2. CASE Fresh(w)
  <2>1. thr' = [thr EXCEPT ![w].at = "answer", ![w].val = cache[thr[w].store].val,
                           ![w].end = cache[thr[w].store].end]
    BY <1>2 DEF Lookup
  <2>2. cache[thr[w].store] \in Cached(thr[w].store)
    BY <1>1, <1>2 DEF Fresh, Typed
  <2>3. cache[thr[w].store].val \in Vals /\ cache[thr[w].store].end \in Instants \cup {None}
    BY <1>1, <2>2 DEF Cached, Vals
  <2> QED
    BY <1>1, <1>2, <2>1, <2>3, Names, ZenonT(60) DEF Typed, Thread, Moves
<1>3. CASE ~Fresh(w)
  BY <1>1, <1>3, Names DEF Typed, Thread, Moves, Lookup
<1> QED
  BY <1>2, <1>3

\* A reader takes a connection.
LEMMA ConnectMoves ==
  ASSUME Typed, NEW w \in Workers, ReadConnect(w)
  PROVE  /\ Moves(w) /\ thr[w].at = "connect" /\ thr'[w].at = "query"
         /\ thr'[w].todo = thr[w].todo /\ thr'[w].val = thr[w].val /\ thr'[w].end = thr[w].end
         /\ \E c \in Conns : Connect(c) /\ thr'[w].conn = c
<1>1. PICK c \in Conns : Connect(c) /\ thr' = [thr EXCEPT ![w].at = "query", ![w].conn = c]
  BY DEF ReadConnect
<1>2. thr[w] \in Thread /\ thr[w].at = "connect"
  BY DEF Typed, ReadConnect
<1>3. Moves(w) /\ thr'[w].conn = c /\ thr'[w].at = "query"
      /\ thr'[w].todo = thr[w].todo /\ thr'[w].val = thr[w].val /\ thr'[w].end = thr[w].end
  BY <1>1, <1>2, Names, ZenonT(60) DEF Typed, Thread, Moves
<1> QED
  BY <1>1, <1>2, <1>3

\* The table answers.
LEMMA QueryMoves ==
  ASSUME Typed, NEW w \in Workers, Query(w)
  PROVE  /\ Moves(w) /\ thr[w].at = "query"
         /\ thr'[w].at = (IF thr[w].direct THEN "answer" ELSE "fill")
         /\ thr'[w].todo = thr[w].todo /\ thr'[w].end = thr[w].end
         /\ thr'[w].val = Content(thr[w].store) /\ thr'[w].conn = None
         /\ thr[w].conn \in Conns
<1>1. thr[w] \in Thread /\ thr[w].at = "query" /\ thr[w].store \in Stores /\ thr[w].conn \in Conns
  BY DEF Typed, Formed, Query, Thread
<1>2. Content(thr[w].store) \in Vals
  BY <1>1, ContentTyped DEF Typed, Vals
<1>3. thr' = [thr EXCEPT ![w].at = IF thr[w].direct THEN "answer" ELSE "fill",
                         ![w].conn = None, ![w].val = Content(thr[w].store)]
  BY DEF Query
<1> QED
  BY <1>1, <1>2, <1>3, Names, ZenonT(60) DEF Typed, Thread, Moves

\* The reader fills the cache.
LEMMA FillMoves ==
  ASSUME Typed, NEW w \in Workers, Fill(w)
  PROVE  /\ Moves(w) /\ thr[w].at = "fill" /\ thr'[w].at = "answer"
         /\ thr'[w].todo = thr[w].todo /\ thr'[w].end = thr[w].end
         /\ thr'[w].val = thr[w].val /\ thr'[w].conn = thr[w].conn
BY Names DEF Typed, Thread, Moves, Fill

\* A writer has the lock and a connection.
LEMMA LockMoves ==
  ASSUME Typed, NEW w \in Workers, Lock(w)
  PROVE  /\ Moves(w) /\ thr[w].at = "lock" /\ thr'[w].at = "write" /\ lock = None /\ lock' = w
         /\ thr'[w].todo = thr[w].todo /\ thr'[w].val = thr[w].val /\ thr'[w].end = thr[w].end
         /\ \E c \in Conns : Connect(c) /\ thr'[w].conn = c
<1>1. PICK c \in Conns : Connect(c) /\ thr' = [thr EXCEPT ![w].at = "write", ![w].conn = c]
  BY DEF Lock
<1>2. thr[w] \in Thread /\ thr[w].at = "lock" /\ lock = None /\ lock' = w
  BY DEF Typed, Lock
<1>3. Moves(w) /\ thr'[w].conn = c /\ thr'[w].at = "write"
      /\ thr'[w].todo = thr[w].todo /\ thr'[w].val = thr[w].val /\ thr'[w].end = thr[w].end
  BY <1>1, <1>2, Names, ZenonT(60) DEF Typed, Thread, Moves
<1> QED
  BY <1>1, <1>2, <1>3

\* A statement is executed.
LEMMA ExecuteMoves ==
  ASSUME Typed, NEW w \in Workers, Execute(w)
  PROVE  /\ Moves(w) /\ thr[w].at = "write" /\ thr'[w].at = "write"
         /\ thr'[w].val = thr[w].val /\ thr'[w].end = thr[w].end
         /\ thr[w].conn \in Conns /\ thr'[w].conn = thr[w].conn
         /\ \E e \in thr[w].todo :
               /\ ~Invalid(e) /\ thr'[w].todo = thr[w].todo \ {e}
               /\ pend' = IF Skipped(e) THEN pend ELSE [pend EXCEPT ![thr[w].conn] = @ \cup {e}]
<1>1. PICK e \in thr[w].todo :
        /\ ~Invalid(e)
        /\ thr' = [thr EXCEPT ![w].todo = @ \ {e}]
        /\ pend' = IF Skipped(e) THEN pend ELSE [pend EXCEPT ![thr[w].conn] = @ \cup {e}]
  BY DEF Execute
<1>2. thr[w] \in Thread /\ thr[w].at = "write" /\ thr[w].conn \in Conns
  BY DEF Typed, Formed, Execute, Thread
<1>3. thr'[w].todo = thr[w].todo \ {e} /\ thr'[w] \in Thread
  BY <1>1, <1>2 DEF Typed, Thread
<1>4. Moves(w) /\ thr'[w].at = "write" /\ thr'[w].val = thr[w].val /\ thr'[w].end = thr[w].end
      /\ thr'[w].conn = thr[w].conn
  BY <1>1, <1>2, <1>3 DEF Typed, Thread, Moves
<1> QED
  BY <1>1, <1>2, <1>3, <1>4

\* A value that is marked keeps the rest.
LEMMA EndedKeeps ==
  ASSUME Typed, NEW x \in Thread, NEW y
  PROVE  /\ Ended(x, y) \in Thread
         /\ Ended(x, y).at = x.at /\ Ended(x, y).store = x.store /\ Ended(x, y).direct = x.direct
         /\ Ended(x, y).conn = x.conn /\ Ended(x, y).todo = x.todo /\ Ended(x, y).all = x.all
         /\ Ended(x, y).val = x.val /\ Ended(x, y).start = x.start /\ Ended(x, y).changed = x.changed
         /\ Ended(x, y).end = IF x.val = y THEN None ELSE IF x.end = None THEN now ELSE x.end
BY DEF Ended, Thread, Typed

\* So does an entry of a cache.
LEMMA EndedEntry ==
  ASSUME Typed, NEW s \in Stores, NEW x \in Cached(s), NEW y
  PROVE  /\ Ended(x, y) \in Cached(s)
         /\ Ended(x, y).val = x.val /\ Ended(x, y).ts = x.ts
         /\ Ended(x, y).end = IF x.val = y THEN None ELSE IF x.end = None THEN now ELSE x.end
BY DEF Ended, Cached, Typed

\* A commit leaves the thread of another worker as it is, but for the time at which
\* what it has read ended.
Aside(v) ==
    /\ thr'[v].at = thr[v].at /\ thr'[v].store = thr[v].store /\ thr'[v].direct = thr[v].direct
    /\ thr'[v].conn = thr[v].conn /\ thr'[v].todo = thr[v].todo /\ thr'[v].all = thr[v].all
    /\ thr'[v].val = thr[v].val /\ thr'[v].start = thr[v].start
    /\ thr'[v].changed = thr[v].changed
    /\ thr[v].at \notin {"fill", "answer"} => thr'[v] = thr[v]

AsideEnd(v) ==
    \A s \in Stores : thr[v].at \in {"fill", "answer"} /\ thr[v].store = s => thr'[v].end =
          IF thr[v].val = Content(s)' THEN None
          ELSE IF thr[v].end = None THEN now ELSE thr[v].end

\* It leaves a cache so, too.
EntryEnd(s) ==
    /\ cache[s] = None => cache'[s] = None
    /\ cache[s] # None =>
          /\ cache[s] \in Cached(s) /\ cache'[s] \in Cached(s)
          /\ cache'[s].val = cache[s].val /\ cache'[s].ts = cache[s].ts
          /\ cache'[s].end = IF cache[s].val = Content(s)' THEN None
                             ELSE IF cache[s].end = None THEN now ELSE cache[s].end

\* What a commit makes of the threads and of the caches.
LEMMA CommitMoves ==
  ASSUME Typed, NEW w \in Workers, Commit(w), db' \in [Rows -> Data]
  PROVE  /\ thr' \in [Workers -> Thread]
         /\ thr[w].at = "write" /\ thr[w].conn \in Conns
         /\ thr'[w] = [thr[w] EXCEPT !.at = "close", !.changed = (db' # db)]
         /\ \A v \in Workers \ {w} : Aside(v) /\ AsideEnd(v)
         /\ cache' \in [Stores -> Entry]
         /\ \A s \in Stores : EntryEnd(s)
<1> DEFINE new == [s \in Stores |-> [r \in RowsOf(s) |-> db'[r]]]
<1>1. \A s \in Stores : new[s] = Content(s)'
  BY DEF Content
<1>2. thr' = [v \in Workers |->
                    IF v = w THEN [thr[v] EXCEPT !.at = "close", !.changed = (db' # db)]
                    ELSE IF thr[v].at \in {"fill", "answer"}
                    THEN Ended(thr[v], new[thr[v].store])
                    ELSE thr[v]]
  BY DEF Commit
<1>3. cache' = [s \in Stores |-> IF cache[s] = None THEN None ELSE Ended(cache[s], new[s])]
  BY DEF Commit
<1>4. thr[w] \in Thread /\ thr[w].at = "write" /\ thr[w].conn \in Conns
  BY DEF Typed, Formed, Commit, Thread
<1> HIDE DEF new
<1>5. thr'[w] = [thr[w] EXCEPT !.at = "close", !.changed = (db' # db)] /\ thr'[w] \in Thread
  BY <1>2, <1>4, Names DEF Thread
<1>6. ASSUME NEW v \in Workers \ {w}
      PROVE  /\ thr'[v] \in Thread
             /\ Aside(v) /\ AsideEnd(v)
  <2>1. thr[v] \in Thread /\ (thr[v].at \in {"fill", "answer"} => thr[v].store \in Stores)
    BY DEF Typed, Formed
  <2>2. CASE thr[v].at \in {"fill", "answer"}
    <3>1. \A s \in Stores : thr[v].store = s => thr'[v] = Ended(thr[v], Content(s)')
      BY <1>1, <1>2, <2>2
    <3>2. PICK s \in Stores : thr[v].store = s
      BY <2>1, <2>2
    <3>3. thr'[v] = Ended(thr[v], Content(s)')
      BY <3>1, <3>2
    <3> QED
      BY <2>1, <2>2, <3>2, <3>3, EndedKeeps DEF Aside, AsideEnd
  <2>3. CASE thr[v].at \notin {"fill", "answer"}
    BY <1>2, <2>1, <2>3 DEF Aside, AsideEnd
  <2> QED
    BY <2>2, <2>3
<1>7. ASSUME NEW s \in Stores
      PROVE  cache'[s] \in Entry /\ EntryEnd(s)
  <2>1. CASE cache[s] = None
    BY <1>3, <2>1 DEF Entry, EntryEnd
  <2>2. CASE cache[s] # None
    <3>1. cache[s] \in Cached(s)
      BY <2>2 DEF Typed
    <3>2. cache'[s] = Ended(cache[s], Content(s)')
      BY <1>1, <1>3, <2>2
    <3> HIDE DEF Entry
    <3>3. cache'[s] \in Cached(s) /\ cache'[s].val = cache[s].val /\ cache'[s].ts = cache[s].ts
          /\ cache'[s].end = IF cache[s].val = Content(s)' THEN None
                             ELSE IF cache[s].end = None THEN now ELSE cache[s].end
      BY <3>1, <3>2, EndedEntry
    <3> QED
      BY <2>2, <3>1, <3>3 DEF Entry, EntryEnd
  <2> QED
    BY <2>1, <2>2
<1>8. thr' \in [Workers -> Thread]
  BY <1>2, <1>5, <1>6
<1>9. cache' \in [Stores -> Entry]
  BY <1>3, <1>7
<1> QED
  BY <1>4, <1>5, <1>6, <1>7, <1>8, <1>9

\* A writer closes its connection.
LEMMA CloseMoves ==
  ASSUME Typed, NEW w \in Workers, CloseWriter(w)
  PROVE  /\ thr' \in [Workers -> Thread] /\ \A v \in Workers : v # w => thr'[v] = thr[v]
         /\ thr[w].at = "close" /\ thr[w].conn \in Conns
         /\ \/ ~WritesThrough(w) /\ ~Invalidates(w) /\ thr'[w] = Idle
            \/ /\ Moves(w) /\ thr'[w].conn = None /\ thr'[w].todo = thr[w].todo
               /\ thr'[w].val = thr[w].val /\ thr'[w].end = thr[w].end
               /\ \/ thr'[w].at = "through" /\ WritesThrough(w)
                  \/ thr'[w].at = "clear" /\ ~WritesThrough(w) /\ Invalidates(w)
<1>1. thr[w] \in Thread /\ thr[w].at = "close" /\ thr[w].conn \in Conns
  BY DEF Typed, Formed, CloseWriter, Thread
<1>2. CASE WritesThrough(w)
  <2>1. thr' = [thr EXCEPT ![w] = [@ EXCEPT !.at = "through", !.conn = None]]
    BY <1>2 DEF CloseWriter
  <2> QED
    BY <1>1, <1>2, <2>1, Names, ZenonT(60) DEF Typed, Thread, Moves
<1>3. CASE ~WritesThrough(w) /\ Invalidates(w)
  <2>1. thr' = [thr EXCEPT ![w] = [@ EXCEPT !.at = "clear", !.conn = None]]
    BY <1>3 DEF CloseWriter
  <2> QED
    BY <1>1, <1>3, <2>1, Names, ZenonT(60) DEF Typed, Thread, Moves
<1>4. CASE ~WritesThrough(w) /\ ~Invalidates(w)
  <2>1. thr' = [thr EXCEPT ![w] = Idle]
    BY <1>4 DEF CloseWriter
  <2> QED
    BY <1>1, <1>4, <2>1, IdleTyped DEF Typed
<1> QED
  BY <1>2, <1>3, <1>4

-----------------------------------------------------------------------------
(* What a transaction holds.                                               *)

Written(t) == {e \in t.all \ t.todo : ~Skipped(e)}

\* A connection holds what the request that has it has executed, and no other
\* holds anything.
Pending ==
    /\ \A w \in Workers : thr[w].at = "write" =>
          /\ pend[thr[w].conn] = Written(thr[w])
          /\ \A e \in thr[w].all \ thr[w].todo : ~Invalid(e)
    /\ \A c \in Conns : pend[c] # {} => \E w \in Workers : thr[w].at = "write" /\ thr[w].conn = c

\* What a commit makes of the rows: every statement of the request, none of them
\* invalid.
LEMMA AppliedWhole ==
  ASSUME Typed, Pending, NEW w \in Workers, Commit(w)
  PROVE  /\ db' \in [Rows -> Data]
         /\ \A e \in thr[w].all : ~Invalid(e)
         /\ \A e \in thr[w].all : ~Skipped(e) => db'[e.row] = e.to
         /\ \A r \in Rows : db'[r] = IF \E e \in thr[w].all : e.row = r /\ ~Skipped(e)
                                     THEN (CHOOSE e \in thr[w].all : e.row = r).to ELSE db[r]
<1> DEFINE c == thr[w].conn
           S == thr[w].all
<1>1. /\ thr[w] \in Thread /\ thr[w].at = "write" /\ c \in Conns /\ thr[w].todo = {}
      /\ Batch(thr[w].store, S)
  BY DEF Typed, Formed, Commit, Thread, AllExecuted, Writing
<1>2. pend[c] = {e \in S : ~Skipped(e)} /\ \A e \in S : ~Invalid(e)
  BY <1>1 DEF Pending, Written
<1>3. db' = [r \in Rows |-> IF \E e \in pend[c] : e.row = r
                    THEN (CHOOSE e \in pend[c] : e.row = r).to ELSE db[r]]
  BY DEF Commit, Applied
<1>4. \A e, f \in S : e.row = f.row => e = f
  BY <1>1 DEF Batch
<1>5. S \subseteq Statement /\ db \in [Rows -> Data]
  BY <1>1 DEF Thread, Typed
<1> HIDE DEF S, c
<1>6. ASSUME NEW r \in Rows, NEW e \in S, e.row = r, ~Skipped(e)
      PROVE  db'[r] = e.to /\ e.to \in Data /\ (CHOOSE f \in S : f.row = r) = e
  <2>1. (CHOOSE f \in S : f.row = r) = e
    BY <1>4, <1>6
  <2>2. e \in pend[c]
    BY <1>2, <1>6
  <2>3. (CHOOSE f \in pend[c] : f.row = r) \in pend[c] /\ (CHOOSE f \in pend[c] : f.row = r).row = r
    BY <1>6, <2>2
  <2>4. (CHOOSE f \in pend[c] : f.row = r) = e
    BY <1>2, <1>4, <1>6, <2>2, <2>3
  <2>5. db'[r] = e.to
    BY <1>3, <1>6, <2>2, <2>4
  <2>6. e.to \in Data
    BY <1>2, <1>5, <1>6 DEF Skipped, Invalid, Statement
  <2> QED
    BY <2>1, <2>5, <2>6
<1>7. ASSUME NEW r \in Rows, ~\E e \in S : e.row = r /\ ~Skipped(e)
      PROVE  db'[r] = db[r]
  BY <1>2, <1>3, <1>7
<1>8. db' \in [Rows -> Data]
  <2>1. \A r \in Rows : db'[r] \in Data
    BY <1>5, <1>6, <1>7
  <2> QED
    BY <1>3, <2>1
<1>9. \A e \in S : e.row \in Rows
  BY <1>5 DEF Statement
<1> QED
  BY <1>2, <1>6, <1>7, <1>8, <1>9 DEF S

\* The lock is held from the connection to the end of a write through, so what
\* is written through is what the table has.
Locked ==
    \A w \in Workers :
        /\ thr[w].at \in {"write", "close", "through"} => lock = w
        /\ (thr[w].at = "close" /\ WritesThrough(w)) \/ thr[w].at = "through"
              => \A e \in thr[w].all : db[e.row] = e.to

-----------------------------------------------------------------------------
(* Every step keeps the types.                                             *)

\* A thread that moves on, and keeps the rest of what its point says.
LEMMA FormedMoves ==
  ASSUME Typed, NEW w \in Workers, thr' \in [Workers -> Thread],
         \A v \in Workers : v # w => thr'[v] = thr[v], Formed(thr'[w])
  PROVE  \A v \in Workers : Formed(thr'[v])
BY DEF Typed

\* Reads.
LEMMA ReadersTyped ==
  ASSUME Typed, NEW w \in Workers,
         Lookup(w) \/ ReadConnect(w) \/ Query(w) \/ Fill(w) \/ Answer(w)
  PROVE  Typed'
<1>1. CASE Lookup(w)
  <2>1. Moves(w) /\ Formed(thr[w]) /\ thr[w].at = "lookup" /\ thr[w].store \in Stores
    BY <1>1, LookupMoves DEF Typed, Formed
  <2>2. Fresh(w) => cache[thr[w].store].val \in Contents(thr[w].store)
    BY <2>1 DEF Fresh, Typed, Cached
  <2>3. Formed(thr'[w])
    BY <1>1, <2>1, <2>2, LookupMoves DEF Formed, Moves, Writing
  <2> QED
    BY <1>1, <2>1, <2>3, FormedMoves DEF Lookup, Typed, Moves
<1>2. CASE ReadConnect(w)
  <2>1. Moves(w) /\ Formed(thr[w]) /\ pool' \subseteq Conns
    BY <1>2, ConnectMoves, ConnectTyped DEF Typed
  <2>2. Formed(thr'[w])
    BY <1>2, <2>1, ConnectMoves, StoresAssumption DEF Formed, Moves, Writing
  <2> QED
    BY <1>2, <2>1, <2>2, FormedMoves DEF ReadConnect, Typed, Moves
<1>3. CASE Query(w)
  <2>1. Moves(w) /\ Formed(thr[w]) /\ Close(thr[w].conn) /\ thr[w].conn \in Conns /\ thr[w].store \in Stores
    BY <1>3, QueryMoves DEF Typed, Query, Formed
  <2>2. pool' \subseteq Conns /\ pend' \in [Conns -> SUBSET Statement]
    BY <2>1, CloseTyped
  <2>3. Content(thr[w].store) \in Contents(thr[w].store)
    BY <2>1, ContentTyped DEF Typed
  <2>4. Formed(thr'[w])
    BY <1>3, <2>1, <2>3, QueryMoves DEF Formed, Moves, Writing
  <2> QED
    BY <1>3, <2>1, <2>2, <2>4, FormedMoves DEF Query, Typed, Moves
<1>4. CASE Fill(w)
  <2>1. Moves(w) /\ Formed(thr[w]) /\ thr[w].store \in Stores /\ thr[w] \in Thread /\ thr[w].at = "fill"
    BY <1>4, FillMoves DEF Typed, Formed
  <2>2. Formed(thr'[w])
    BY <1>4, <2>1, FillMoves DEF Formed, Moves, Writing
  <2> DEFINE x == [val |-> thr[w].val, ts |-> Stamp(w), end |-> thr[w].end]
  <2>3. x \in Cached(thr[w].store)
    BY <2>1 DEF Formed, Cached, Thread, Stamp
  <2>4. cache' = [cache EXCEPT ![thr[w].store] = x]
    BY <1>4 DEF Fill
  <2> HIDE DEF x
  <2>5. x \in Entry
    BY <2>1, <2>3 DEF Entry
  <2> HIDE DEF Entry
  <2>6. cache' \in [Stores -> Entry] /\ \A s \in Stores : cache'[s] = None \/ cache'[s] \in Cached(s)
    BY <2>3, <2>4, <2>5 DEF Typed
  <2>7. raced' \subseteq Stores
    BY <1>4, <2>1 DEF Fill, Typed
  <2> QED
    BY <1>4, <2>1, <2>2, <2>6, <2>7, FormedMoves DEF Fill, Typed, Moves
<1>5. CASE Answer(w)
  BY <1>5, IdleTyped, ThreadTyped DEF Answer, Typed
<1> QED
  BY <1>1, <1>2, <1>3, <1>4, <1>5

\* Writes up to the commit.
LEMMA TransactionsTyped ==
  ASSUME Typed, Pending, NEW w \in Workers,
         Lock(w) \/ Execute(w) \/ Refuse(w) \/ Commit(w)
  PROVE  Typed'
<1>1. CASE Lock(w)
  <2>1. Moves(w) /\ Formed(thr[w]) /\ pool' \subseteq Conns
    BY <1>1, LockMoves, ConnectTyped DEF Typed
  <2>2. Formed(thr'[w])
    BY <1>1, <2>1, LockMoves, StoresAssumption DEF Formed, Moves, Writing
  <2> QED
    BY <1>1, <2>1, <2>2, FormedMoves DEF Lock, Typed, Moves
<1>2. CASE Execute(w)
  <2>1. Moves(w) /\ Formed(thr[w]) /\ thr[w].conn \in Conns /\ thr[w] \in Thread
    BY <1>2, ExecuteMoves DEF Typed
  <2>2. PICK e \in thr[w].todo :
           /\ ~Invalid(e) /\ thr'[w].todo = thr[w].todo \ {e}
           /\ pend' = IF Skipped(e) THEN pend ELSE [pend EXCEPT ![thr[w].conn] = @ \cup {e}]
    BY <1>2, ExecuteMoves
  <2>3. Formed(thr'[w])
    BY <1>2, <2>1, <2>2, ExecuteMoves DEF Formed, Moves, Writing
  <2>4. e \in Statement
    BY <2>1 DEF Thread
  <2>5. pend' \in [Conns -> SUBSET Statement]
    BY <2>1, <2>2, <2>4 DEF Typed
  <2> QED
    BY <1>2, <2>1, <2>3, <2>5, FormedMoves DEF Execute, Typed, Moves
<1>3. CASE Refuse(w)
  <2>1. thr[w].conn \in Conns /\ Close(thr[w].conn) /\ thr' = [thr EXCEPT ![w] = Idle]
    BY <1>3 DEF Refuse, Typed, Formed, Thread
  <2>2. pool' \subseteq Conns /\ pend' \in [Conns -> SUBSET Statement]
    BY <2>1, CloseTyped
  <2>3. thr' \in [Workers -> Thread] /\ \A v \in Workers : Formed(thr'[v])
    BY <2>1, IdleTyped, ThreadTyped
  <2> QED
    BY <1>3, <2>2, <2>3 DEF Refuse, Typed
<1>4. CASE Commit(w)
  <2>1. db' \in [Rows -> Data]
    BY <1>4, AppliedWhole
  <2>2. /\ thr' \in [Workers -> Thread] /\ cache' \in [Stores -> Entry]
        /\ \A s \in Stores : cache'[s] = None \/ cache'[s] \in Cached(s)
        /\ thr[w].at = "write" /\ thr[w].conn \in Conns
    BY <1>4, <2>1, CommitMoves DEF EntryEnd
  <2>3. Formed(thr'[w])
    <3>1. Formed(thr[w]) /\ thr[w] \in Thread
      BY DEF Typed
    <3>2. /\ thr'[w].at = "close" /\ thr'[w].store = thr[w].store /\ thr'[w].conn = thr[w].conn
          /\ thr'[w].val = thr[w].val /\ thr'[w].end = thr[w].end /\ thr'[w].todo = thr[w].todo
          /\ thr'[w].all = thr[w].all
      <4>1. thr'[w] = [thr[w] EXCEPT !.at = "close", !.changed = (db' # db)]
        BY <1>4, <2>1, CommitMoves
      <4> QED
        BY <3>1, <4>1 DEF Thread
    <3> QED
      BY <2>2, <3>1, <3>2 DEF Formed, Writing
  <2>4. ASSUME NEW v \in Workers \ {w}
        PROVE  Formed(thr'[v])
    <3>1. Formed(thr[v]) /\ thr[v] \in Thread
      BY DEF Typed
    <3>2. /\ thr'[v].at = thr[v].at /\ thr'[v].store = thr[v].store
          /\ thr'[v].conn = thr[v].conn /\ thr'[v].todo = thr[v].todo /\ thr'[v].all = thr[v].all
          /\ thr'[v].val = thr[v].val
          /\ thr[v].at \notin {"fill", "answer"} => thr'[v] = thr[v]
      <4>1. Aside(v)
        BY <1>4, <2>1, CommitMoves
      <4> QED
        BY <4>1 DEF Aside
    <3> QED
      BY <3>1, <3>2 DEF Formed, Writing
  <2>5. pend' \in [Conns -> SUBSET Statement]
    BY <1>4 DEF Commit, Typed
  <2>6. UNCHANGED <<pool, lock, now, calls, raced>>
    BY <1>4 DEF Commit
  <2> QED
    BY <2>1, <2>2, <2>3, <2>4, <2>5, <2>6 DEF Typed
<1> QED
  BY <1>1, <1>2, <1>3, <1>4

\* What is written through is what the table has of the completion.
LEMMA WrittenThrough ==
  ASSUME Typed, Locked, NEW w \in Workers, WriteThrough(w)
  PROVE  \E f \in thr[w].all :
            /\ f.row = "completed" /\ f.to \in Data /\ db["completed"] = f.to
            /\ cache' = [cache EXCEPT !["setup"] =
                            [val |-> [r \in {"completed"} |-> f.to], ts |-> now, end |-> None]]
<1> DEFINE e == CHOOSE x \in thr[w].all : TRUE
<1>1. Formed(thr[w]) /\ thr[w].at = "through"
  BY DEF WriteThrough, Typed
<1>2. PICK f \in thr[w].all : f.row = "completed"
  BY <1>1 DEF Formed
<1>3. thr[w].all = {f}
  BY <1>1, <1>2 DEF Formed, Batch, Writing
<1>4. e = f
  BY <1>3
<1>5. db["completed"] = f.to
  BY <1>1, <1>2 DEF Locked
<1>6. f.to \in Data
  BY <1>5, Names DEF Typed
<1>7. cache' = [cache EXCEPT !["setup"] = [val |-> [r \in {e.row} |-> e.to], ts |-> now,
                                            end |-> IF db[e.row] = e.to THEN None ELSE now]]
  BY DEF WriteThrough
<1> HIDE DEF e
<1> QED
  BY <1>2, <1>4, <1>5, <1>6, <1>7

\* What follows a commit.
LEMMA AfterwardsTyped ==
  ASSUME Typed, Locked, NEW w \in Workers, CloseWriter(w) \/ WriteThrough(w) \/ Clear(w)
  PROVE  Typed'
<1>1. CASE CloseWriter(w)
  <2>1. /\ thr' \in [Workers -> Thread] /\ \A v \in Workers : v # w => thr'[v] = thr[v]
        /\ thr[w].at = "close" /\ thr[w].conn \in Conns /\ Close(thr[w].conn)
        /\ Formed(thr[w]) /\ thr[w] \in Thread
    BY <1>1, CloseMoves DEF CloseWriter, Typed
  <2>2. pool' \subseteq Conns /\ pend' \in [Conns -> SUBSET Statement]
    BY <2>1, CloseTyped
  <2>3. Formed(thr'[w])
    <3>1. CASE thr'[w] = Idle
      BY <3>1, IdleTyped
    <3>2. CASE thr'[w] # Idle
      BY <1>1, <2>1, <3>2, CloseMoves DEF Formed, Moves, Writing, WritesThrough
    <3> QED
      BY <3>1, <3>2
  <2>4. lock' \in Workers \cup {None}
    BY <1>1 DEF CloseWriter
  <2> QED
    BY <1>1, <2>1, <2>2, <2>3, <2>4, FormedMoves DEF CloseWriter, Typed
<1>2. CASE WriteThrough(w)
  <2>1. PICK f \in thr[w].all : /\ f.row = "completed" /\ f.to \in Data
                                /\ cache' = [cache EXCEPT !["setup"] =
                                      [val |-> [r \in {"completed"} |-> f.to], ts |-> now, end |-> None]]
    BY <1>2, WrittenThrough
  <2> DEFINE y == [val |-> [r \in {"completed"} |-> f.to], ts |-> now, end |-> None]
  <2>2. y \in Cached("setup")
    BY <2>1, Names DEF Cached, Contents, Typed
  <2> HIDE DEF y
  <2>3. y \in Entry
    BY <2>2, Names DEF Entry
  <2> HIDE DEF Entry
  <2>4. cache' = [cache EXCEPT !["setup"] = y]
    BY <2>1 DEF y
  <2>5. cache' \in [Stores -> Entry] /\ \A s \in Stores : cache'[s] = None \/ cache'[s] \in Cached(s)
    BY <2>2, <2>3, <2>4 DEF Typed
  <2>6. lock' \in Workers \cup {None} /\ raced' \subseteq Stores /\ thr' = [thr EXCEPT ![w] = Idle]
    BY <1>2 DEF WriteThrough, Typed
  <2> QED
    BY <1>2, <2>5, <2>6, IdleTyped, ThreadTyped DEF WriteThrough, Typed
<1>3. CASE Clear(w)
  <2>1. thr[w].store \in Stores
    BY <1>3 DEF Typed, Formed, Clear
  <2>2. cache' \in [Stores -> Entry] /\ \A s \in Stores : cache'[s] = None \/ cache'[s] \in Cached(s)
    <3>1. None \in Entry
      BY DEF Entry
    <3> HIDE DEF Entry
    <3> QED
      BY <1>3, <2>1, <3>1 DEF Clear, Typed
  <2> QED
    BY <1>3, <2>1, <2>2, IdleTyped, ThreadTyped DEF Clear, Typed
<1> QED
  BY <1>1, <1>2, <1>3

\* Every step keeps the types.
LEMMA TypedStep ==
  ASSUME Typed, Pending, Locked, [Next]_vars
  PROVE  Typed'
<1>1. CASE UNCHANGED vars
  BY <1>1 DEF vars, Typed
<1>2. CASE Tick
  <2>1. now' \in Instants
    BY <1>2, StoresAssumption DEF Tick, Typed, Instants
  <2> QED
    BY <1>2, <2>1 DEF Tick, Typed
<1>3. ASSUME NEW w \in Workers, Begins(w)
      PROVE  Typed'
  BY <1>3, Begun, BeginTyped DEF Starting
<1> QED
  BY <1>1, <1>2, <1>3, ReadersTyped, TransactionsTyped, AfterwardsTyped DEF Next, Begins

-----------------------------------------------------------------------------
(* The pool.                                                               *)

\* There is a connection nobody has for a thread that asks for one.
LEMMA FreeConnection ==
  ASSUME Typed, PoolSound, NEW w \in Workers, thr[w].conn = None
  PROVE  \E d \in Conns : d \notin pool \cup InUse
<1> DEFINE Others == Workers \ {w}
           held == [v \in Others |-> thr[v].conn]
           Held == {held[v] : v \in Others}
<1>1. IsFiniteSet(Conns) /\ IsFiniteSet(Workers) /\ PoolMax \in Nat
      /\ Cardinality(Conns) >= Cardinality(Workers) + PoolMax
  BY StoresAssumption
<1>2. IsFiniteSet(Others) /\ Cardinality(Others) = Cardinality(Workers) - 1
  BY <1>1, FS_RemoveElement
<1>3. IsFiniteSet(Held) /\ Cardinality(Held) <= Cardinality(Others)
  <2>1. held \in Surjection(Others, Held)
    BY DEF Surjection
  <2> QED
    BY <1>2, <2>1, FS_Surjection
<1>4. IsFiniteSet(pool) /\ Cardinality(pool) <= PoolMax
  BY <1>1, FS_Subset DEF Typed, PoolSound
<1>5. /\ IsFiniteSet(pool \cup Held)
      /\ Cardinality(pool \cup Held) <= Cardinality(pool) + Cardinality(Held)
  <2>1. IsFiniteSet(pool \cup Held) /\ IsFiniteSet(pool \cap Held)
        /\ Cardinality(pool \cup Held)
              = Cardinality(pool) + Cardinality(Held) - Cardinality(pool \cap Held)
    BY <1>3, <1>4, FS_Union, FS_Intersection
  <2> QED
    BY <1>3, <1>4, <2>1, FS_CardinalityType
<1>6. /\ Cardinality(Conns) \in Nat /\ Cardinality(Workers) \in Nat /\ Cardinality(Held) \in Nat
      /\ Cardinality(pool) \in Nat /\ Cardinality(pool \cup Held) \in Nat
  BY <1>1, <1>3, <1>4, <1>5, FS_CardinalityType
<1>7. Cardinality(pool \cup Held) < Cardinality(Conns)
  BY <1>1, <1>2, <1>3, <1>4, <1>5, <1>6
<1>8. ~(Conns \subseteq pool \cup Held)
  BY <1>5, <1>6, <1>7, FS_Subset
<1>9. PICK d \in Conns : d \notin pool \cup Held
  BY <1>8
<1>10. d # None
  BY StoresAssumption
<1>11. d \notin InUse
  BY <1>9, <1>10 DEF InUse
<1> QED
  BY <1>9, <1>11

\* A thread that asks for a connection gets one that no other thread has, and
\* the pool keeps no more than it had.
LEMMA Taken ==
  ASSUME Typed, PoolSound, NEW w \in Workers, thr[w].conn = None, NEW c \in Conns, Connect(c)
  PROVE  /\ \A v \in Workers : thr[v].conn # c
         /\ c \notin pool' /\ pool' \subseteq pool /\ Cardinality(pool') <= PoolMax
<1>1. IsFiniteSet(pool) /\ Cardinality(pool) <= PoolMax /\ PoolMax \in Nat
  BY StoresAssumption, FS_Subset DEF Typed, PoolSound
<1>2. /\ \A v \in Workers : thr[v].conn # c
      /\ c \notin pool' /\ pool' \subseteq pool
  <2>1. CASE c \in pool /\ \E kept \in SUBSET (pool \ {c}) : pool' = kept
    BY <2>1, StoresAssumption DEF PoolSound
  <2>2. CASE c = (CHOOSE d \in Conns : d \notin pool \cup InUse) /\ pool' = {}
    <3>1. c \notin pool \cup InUse
      BY <2>2, FreeConnection
    <3> QED
      BY <2>2, <3>1 DEF InUse
  <2> QED
    BY <2>1, <2>2 DEF Connect
<1>3. Cardinality(pool') <= Cardinality(pool) /\ Cardinality(pool) \in Nat /\ Cardinality(pool') \in Nat
  BY <1>1, <1>2, FS_Subset, FS_CardinalityType
<1> QED
  BY <1>1, <1>2, <1>3

\* A connection that goes back has no transaction, and finds room or is closed.
LEMMA Returned ==
  ASSUME Typed, PoolSound, NEW c \in Conns, c \notin pool, Close(c)
  PROVE  /\ pool' \subseteq pool \cup {c} /\ Cardinality(pool') <= PoolMax
         /\ pend'[c] = {} /\ \A d \in Conns : d # c => pend'[d] = pend[d]
<1>1. IsFiniteSet(pool) /\ Cardinality(pool) \in Nat /\ PoolMax \in Nat /\ Cardinality(pool) <= PoolMax
  BY StoresAssumption, FS_Subset, FS_CardinalityType DEF Typed, PoolSound
<1>2. Cardinality(pool \cup {c}) = Cardinality(pool) + 1
  BY <1>1, FS_AddElement
<1>3. pool' = IF Cardinality(pool) < PoolMax THEN pool \cup {c} ELSE pool
  BY DEF Close, Return
<1>4. Cardinality(pool') <= PoolMax
  BY <1>1, <1>2, <1>3
<1> QED
  BY <1>3, <1>4 DEF Close, Rollback, Typed

\* A step that leaves connections and transactions alone.
LEMMA QuietPool ==
  ASSUME Typed, PoolSound, Pending, UNCHANGED <<pool, pend>>,
         \A v \in Workers :
            /\ thr'[v].conn = thr[v].conn /\ (thr'[v].at = "write" <=> thr[v].at = "write")
            /\ thr[v].at = "write" => thr'[v].all = thr[v].all /\ thr'[v].todo = thr[v].todo
  PROVE  PoolSound' /\ Pending'
<1>1. PoolSound'
  BY DEF PoolSound
<1>2. Pending'
  BY DEF Pending, Written
<1> QED
  BY <1>1, <1>2

\* A thread takes a connection that had nothing written.
LEMMA ConnectPool ==
  ASSUME Typed, PoolSound, Pending, NEW w \in Workers, ReadConnect(w) \/ Lock(w)
  PROVE  PoolSound' /\ Pending'
<1>1. /\ Moves(w) /\ thr[w].conn = None /\ thr[w].at # "write"
      /\ \E c \in Conns : Connect(c) /\ thr'[w].conn = c
      /\ thr'[w].todo = thr[w].todo /\ (thr'[w].at = "write" => thr'[w].todo = thr'[w].all)
  <2>1. Formed(thr[w])
    BY DEF Typed
  <2> QED
    BY <2>1, ConnectMoves, LockMoves DEF Formed, Moves
<1>2. PICK c \in Conns : Connect(c) /\ thr'[w].conn = c
  BY <1>1
<1>3. /\ \A v \in Workers : thr[v].conn # c
      /\ c \notin pool' /\ pool' \subseteq pool /\ Cardinality(pool') <= PoolMax
  BY <1>1, <1>2, Taken
<1>4. pend' = pend /\ \A v \in Workers : v # w => thr'[v] = thr[v]
  BY <1>1 DEF ReadConnect, Lock, Moves
<1>5. pend[c] = {}
  BY <1>3 DEF Pending
<1>6. PoolSound'
  BY <1>2, <1>3, <1>4 DEF PoolSound
<1>7. Pending'
  BY <1>1, <1>2, <1>3, <1>4, <1>5 DEF Pending, Written
<1> QED
  BY <1>6, <1>7

\* A connection is closed.
LEMMA ClosePool ==
  ASSUME Typed, PoolSound, Pending, NEW w \in Workers, Query(w) \/ Refuse(w) \/ CloseWriter(w)
  PROVE  PoolSound' /\ Pending'
<1>1. /\ thr[w].conn \in Conns /\ Close(thr[w].conn) /\ thr[w].at \in {"query", "write", "close"}
      /\ \A v \in Workers : v # w => thr'[v] = thr[v]
      /\ thr'[w].conn = None /\ thr'[w].at # "write"
  <2>1. CASE Query(w)
    <3>1. Close(thr[w].conn)
      BY <2>1 DEF Query
    <3> QED
      BY <2>1, <3>1, QueryMoves DEF Moves
  <2>2. CASE Refuse(w)
    BY <2>2, IdleTyped DEF Refuse, Typed, Formed, Thread
  <2>3. CASE CloseWriter(w)
    <3>1. Close(thr[w].conn)
      BY <2>3 DEF CloseWriter
    <3> QED
      BY <2>3, <3>1, CloseMoves, IdleTyped
  <2> QED
    BY <2>1, <2>2, <2>3
<1>2. PICK c \in Conns : c = thr[w].conn
  BY <1>1
<1>3. c # None /\ c \notin pool /\ \A v \in Workers : v # w => thr[v].conn # c
  BY <1>1, <1>2, StoresAssumption DEF PoolSound
<1>4. /\ pool' \subseteq pool \cup {c} /\ Cardinality(pool') <= PoolMax
      /\ pend'[c] = {} /\ \A d \in Conns : d # c => pend'[d] = pend[d]
  BY <1>1, <1>2, <1>3, Returned
<1>5. pool \subseteq Conns /\ \A v \in Workers : thr[v].conn \in Conns \cup {None}
  BY DEF Typed, Thread
<1>6. PoolSound'
  <2>1. \A d \in pool' : pend'[d] = {}
    BY <1>4, <1>5 DEF PoolSound
  <2>2. ASSUME NEW v \in Workers, thr'[v].conn # None
        PROVE  thr'[v].conn \notin pool' /\ \A u \in Workers \ {v} : thr'[u].conn # thr'[v].conn
    BY <1>1, <1>2, <1>3, <1>4, <2>2 DEF PoolSound
  <2> QED
    BY <1>4, <2>1, <2>2 DEF PoolSound
<1>7. Pending'
  <2>1. ASSUME NEW v \in Workers, thr'[v].at = "write"
        PROVE  /\ pend'[thr'[v].conn] = Written(thr'[v])
               /\ \A e \in thr'[v].all \ thr'[v].todo : ~Invalid(e)
    <3>1. v # w /\ thr'[v] = thr[v] /\ thr[v].conn \in Conns /\ thr[v].conn # c
      BY <1>1, <1>3, <2>1 DEF Typed, Formed, Thread
    <3> QED
      BY <1>4, <2>1, <3>1 DEF Pending
  <2>2. ASSUME NEW d \in Conns, pend'[d] # {}
        PROVE  \E v \in Workers : thr'[v].at = "write" /\ thr'[v].conn = d
    <3>1. d # c /\ pend[d] # {}
      BY <1>4, <2>2
    <3> QED
      BY <1>1, <1>2, <3>1 DEF Pending
  <2> QED
    BY <2>1, <2>2 DEF Pending
<1> QED
  BY <1>6, <1>7

\* A statement is executed on its connection.
LEMMA ExecutePool ==
  ASSUME Typed, PoolSound, Pending, NEW w \in Workers, Execute(w)
  PROVE  PoolSound' /\ Pending'
<1>1. /\ Moves(w) /\ thr[w].at = "write" /\ thr'[w].at = "write"
      /\ thr[w].conn \in Conns /\ thr'[w].conn = thr[w].conn /\ pool' = pool
  BY ExecuteMoves DEF Execute
<1>2. PICK e \in thr[w].todo :
         /\ ~Invalid(e) /\ thr'[w].todo = thr[w].todo \ {e}
         /\ pend' = IF Skipped(e) THEN pend ELSE [pend EXCEPT ![thr[w].conn] = @ \cup {e}]
  BY ExecuteMoves
<1>3. PICK c \in Conns : c = thr[w].conn
  BY <1>1
<1>4. c # None /\ c \notin pool /\ \A v \in Workers : v # w => thr[v].conn # c /\ thr'[v] = thr[v]
  BY <1>1, <1>3, StoresAssumption DEF PoolSound, Moves
<1>5. \A d \in Conns : d # c => pend'[d] = pend[d]
  BY <1>2, <1>3 DEF Typed
<1>6. thr[w].todo \subseteq thr[w].all /\ thr'[w].all = thr[w].all /\ pool \subseteq Conns
  BY <1>1 DEF Typed, Formed, Moves
<1>7. PoolSound'
  <2>1. \A v \in Workers : thr'[v].conn = thr[v].conn
    BY <1>1, <1>4
  <2> QED
    BY <1>1, <1>4, <1>5, <1>6, <2>1 DEF PoolSound
<1>8. pend'[c] = Written(thr'[w])
  <2>1. pend[c] = {f \in thr[w].all \ thr[w].todo : ~Skipped(f)}
    BY <1>1, <1>3 DEF Pending, Written
  <2>2. pend'[c] = IF Skipped(e) THEN pend[c] ELSE pend[c] \cup {e}
    BY <1>2, <1>3 DEF Typed
  <2> QED
    BY <1>2, <1>6, <2>1, <2>2 DEF Written
<1>9. Pending'
  <2>1. ASSUME NEW v \in Workers, thr'[v].at = "write"
        PROVE  /\ pend'[thr'[v].conn] = Written(thr'[v])
               /\ \A f \in thr'[v].all \ thr'[v].todo : ~Invalid(f)
    <3>1. CASE v = w
      BY <1>1, <1>2, <1>3, <1>6, <1>8, <3>1 DEF Pending
    <3>2. CASE v # w
      <4>1. thr'[v] = thr[v] /\ thr[v].conn \in Conns /\ thr[v].conn # c
        BY <1>4, <2>1, <3>2 DEF Typed, Formed, Thread
      <4> QED
        BY <1>5, <2>1, <4>1 DEF Pending
    <3> QED
      BY <3>1, <3>2
  <2>2. ASSUME NEW d \in Conns, pend'[d] # {}
        PROVE  \E v \in Workers : thr'[v].at = "write" /\ thr'[v].conn = d
    <3>1. CASE d = c
      BY <1>1, <1>3, <3>1
    <3>2. CASE d # c
      BY <1>1, <1>4, <1>5, <2>2, <3>2 DEF Pending
    <3> QED
      BY <3>1, <3>2
  <2> QED
    BY <2>1, <2>2 DEF Pending
<1> QED
  BY <1>7, <1>9

\* A commit leaves nothing in its connection.
LEMMA CommitPool ==
  ASSUME Typed, PoolSound, Pending, NEW w \in Workers, Commit(w)
  PROVE  PoolSound' /\ Pending'
<1>1. /\ thr[w].at = "write" /\ thr[w].conn \in Conns /\ thr[w] \in Thread
      /\ thr'[w] = [thr[w] EXCEPT !.at = "close", !.changed = (db' # db)]
      /\ \A v \in Workers \ {w} :
            /\ thr'[v].at = thr[v].at /\ thr'[v].conn = thr[v].conn
            /\ thr'[v].todo = thr[v].todo /\ thr'[v].all = thr[v].all
  <2>1. /\ thr[w].at = "write" /\ thr[w].conn \in Conns
        /\ thr'[w] = [thr[w] EXCEPT !.at = "close", !.changed = (db' # db)]
        /\ \A v \in Workers \ {w} : Aside(v)
    BY AppliedWhole, CommitMoves
  <2> QED
    BY <2>1 DEF Aside, Typed
<1>2. thr'[w].conn = thr[w].conn /\ thr'[w].at = "close"
  BY <1>1 DEF Thread
<1>3. PICK c \in Conns : c = thr[w].conn
  BY <1>1
<1>4. pool' = pool /\ pend'[c] = {} /\ \A d \in Conns : d # c => pend'[d] = pend[d]
  BY <1>3 DEF Commit, Typed
<1>5. \A v \in Workers : thr'[v].conn = thr[v].conn
  BY <1>1, <1>2
<1>6. c # None /\ c \notin pool /\ \A v \in Workers : v # w => thr[v].conn # c
  BY <1>1, <1>3, StoresAssumption DEF PoolSound
<1>7. PoolSound'
  <2>1. pool \subseteq Conns
    BY DEF Typed
  <2> QED
    BY <1>4, <1>5, <2>1 DEF PoolSound
<1>8. Pending'
  <2>1. ASSUME NEW v \in Workers, thr'[v].at = "write"
        PROVE  /\ pend'[thr'[v].conn] = Written(thr'[v])
               /\ \A f \in thr'[v].all \ thr'[v].todo : ~Invalid(f)
    <3>1. v # w
      BY <1>2, <2>1
    <3>2. /\ thr[v].at = "write" /\ thr'[v].conn = thr[v].conn /\ thr[v].conn # c /\ thr[v].conn \in Conns
          /\ thr'[v].todo = thr[v].todo /\ thr'[v].all = thr[v].all
      BY <1>1, <1>6, <2>1, <3>1 DEF Typed, Formed, Thread
    <3> QED
      BY <1>4, <3>2 DEF Pending, Written
  <2>2. ASSUME NEW d \in Conns, pend'[d] # {}
        PROVE  \E v \in Workers : thr'[v].at = "write" /\ thr'[v].conn = d
    <3>1. d # c /\ pend[d] # {}
      BY <1>4, <2>2
    <3>2. PICK v \in Workers : thr[v].at = "write" /\ thr[v].conn = d
      BY <3>1 DEF Pending
    <3> QED
      BY <1>1, <1>3, <3>1, <3>2
  <2> QED
    BY <2>1, <2>2 DEF Pending
<1> QED
  BY <1>7, <1>8

\* Every step keeps the pool and the transactions.
LEMMA PoolStep ==
  ASSUME Typed, PoolSound, Pending, [Next]_vars
  PROVE  PoolSound' /\ Pending'
<1>1. CASE UNCHANGED vars
  BY <1>1, QuietPool DEF vars
<1>2. CASE Tick
  BY <1>2, QuietPool DEF Tick
<1>3. ASSUME NEW w \in Workers, Begins(w)
      PROVE  PoolSound' /\ Pending'
  <2>1. PICK x : Starting(x) /\ Begin(w, x)
    BY <1>3, Begun
  <2>2. thr[w] = Idle /\ thr'[w] = x /\ UNCHANGED <<pool, pend>> /\ \A v \in Workers : v # w => thr'[v] = thr[v]
    BY <2>1 DEF Begin, Typed
  <2>3. x.conn = None /\ x.at # "write"
    BY <2>1 DEF Starting
  <2> QED
    BY <2>2, <2>3, IdleTyped, QuietPool
<1>4. ASSUME NEW w \in Workers, Lookup(w) \/ Fill(w)
      PROVE  PoolSound' /\ Pending'
  <2>1. /\ Moves(w) /\ thr[w].at # "write" /\ thr'[w].at # "write" /\ thr'[w].conn = thr[w].conn
        /\ UNCHANGED <<pool, pend>>
    BY <1>4, LookupMoves, FillMoves DEF Lookup, Fill
  <2> QED
    BY <2>1, QuietPool DEF Moves
<1>5. ASSUME NEW w \in Workers, Answer(w) \/ WriteThrough(w) \/ Clear(w)
      PROVE  PoolSound' /\ Pending'
  <2>1. /\ thr[w].at \in {"answer", "through", "clear"} /\ thr' = [thr EXCEPT ![w] = Idle]
        /\ UNCHANGED <<pool, pend>>
    BY <1>5 DEF Answer, WriteThrough, Clear
  <2>2. thr[w].conn = None /\ thr'[w] = Idle /\ \A v \in Workers : v # w => thr'[v] = thr[v]
    BY <2>1 DEF Typed, Formed
  <2> QED
    BY <2>1, <2>2, IdleTyped, QuietPool
<1> QED
  BY <1>1, <1>2, <1>3, <1>4, <1>5, ConnectPool, ClosePool, ExecutePool, CommitPool DEF Next, Begins

-----------------------------------------------------------------------------
(* The lock.                                                               *)

Holding == {"write", "close", "through"}

\* A step that nobody with the lock takes, and that nobody takes it by.
LEMMA QuietLock ==
  ASSUME Locked, db' = db, lock' = lock,
         \A v \in Workers : thr'[v] = thr[v] \/ thr'[v].at \notin Holding
  PROVE  Locked'
BY DEF Locked, Holding, WritesThrough

\* Only one thread holds the lock.
LEMMA OneHolder ==
  ASSUME Locked, NEW w \in Workers, thr[w].at \in Holding
  PROVE  lock = w /\ \A v \in Workers : v # w => thr[v].at \notin Holding
BY DEF Locked, Holding

\* The completion is committed as it was asked for: it is no secret.
LEMMA CompletionApplied ==
  ASSUME Typed, Pending, NEW w \in Workers, Commit(w), WritesThrough(w)
  PROVE  \A e \in thr[w].all : db'[e.row] = e.to
<1>1. PICK e \in thr[w].all : e.row = "completed"
  BY DEF WritesThrough
<1>2. thr[w].all = {e}
  BY <1>1 DEF Typed, Formed, Commit, Writing, Batch
<1>3. ~Skipped(e)
  BY <1>1, StoresAssumption DEF Skipped
<1>4. db'[e.row] = e.to
  BY <1>3, AppliedWhole
<1> QED
  BY <1>2, <1>4

\* Every step keeps what the lock stands for.
LEMMA LockedStep ==
  ASSUME Typed, Pending, Locked, [Next]_vars
  PROVE  Locked'
<1>1. CASE UNCHANGED vars
  BY <1>1, QuietLock DEF vars
<1>2. CASE Tick
  BY <1>2, QuietLock DEF Tick
<1>3. ASSUME NEW w \in Workers, Begins(w)
      PROVE  Locked'
  <2>1. PICK x : Starting(x) /\ Begin(w, x)
    BY <1>3, Begun
  <2>2. thr'[w] = x /\ UNCHANGED <<db, lock>> /\ \A v \in Workers : v # w => thr'[v] = thr[v]
    BY <2>1 DEF Begin, Typed
  <2>3. x.at \notin Holding
    BY <2>1 DEF Starting, Holding
  <2> QED
    BY <2>2, <2>3, QuietLock
<1>4. ASSUME NEW w \in Workers, Lookup(w) \/ ReadConnect(w) \/ Query(w) \/ Fill(w)
      PROVE  Locked'
  <2>1. Moves(w) /\ thr'[w].at \notin Holding
    BY <1>4, LookupMoves, ConnectMoves, QueryMoves, FillMoves DEF Holding
  <2>2. UNCHANGED <<db, lock>>
    BY <1>4 DEF Lookup, ReadConnect, Query, Fill
  <2> QED
    BY <2>1, <2>2, QuietLock DEF Moves
<1>5. ASSUME NEW w \in Workers, Answer(w) \/ Clear(w)
      PROVE  Locked'
  <2>1. thr'[w] = Idle /\ UNCHANGED <<db, lock>> /\ \A v \in Workers : v # w => thr'[v] = thr[v]
    BY <1>5 DEF Answer, Clear, Typed
  <2> QED
    BY <2>1, IdleTyped, QuietLock DEF Holding
<1>6. ASSUME NEW w \in Workers, Lock(w)
      PROVE  Locked'
  <2>1. Moves(w) /\ thr'[w].at = "write" /\ lock = None /\ lock' = w
    BY <1>6, LockMoves
  <2>2. \A v \in Workers : v # w => thr'[v] = thr[v] /\ thr[v].at \notin Holding
    BY <2>1, StoresAssumption DEF Moves, Locked, Holding
  <2> QED
    BY <2>1, <2>2 DEF Locked, Holding
<1>7. ASSUME NEW w \in Workers, Execute(w)
      PROVE  Locked'
  <2>1. Moves(w) /\ thr[w].at = "write" /\ thr'[w].at = "write" /\ UNCHANGED <<db, lock>>
    BY <1>7, ExecuteMoves DEF Execute
  <2>2. lock' = w /\ \A v \in Workers : v # w => thr'[v] = thr[v] /\ thr[v].at \notin Holding
    BY <2>1, OneHolder DEF Moves, Holding
  <2> QED
    BY <2>1, <2>2 DEF Locked, Holding
<1>8. ASSUME NEW w \in Workers, Refuse(w) \/ WriteThrough(w)
      PROVE  Locked'
  <2>1. thr[w].at \in Holding /\ thr'[w] = Idle /\ \A v \in Workers : v # w => thr'[v] = thr[v]
    BY <1>8 DEF Refuse, WriteThrough, Typed, Holding
  <2>2. \A v \in Workers : thr'[v].at \notin Holding
    BY <2>1, OneHolder, IdleTyped DEF Holding
  <2> QED
    BY <2>2 DEF Locked, Holding
<1>9. ASSUME NEW w \in Workers, Commit(w)
      PROVE  Locked'
  <2>1. /\ thr[w].at = "write" /\ thr[w] \in Thread
        /\ thr'[w] = [thr[w] EXCEPT !.at = "close", !.changed = (db' # db)]
        /\ \A v \in Workers \ {w} : thr'[v].at = thr[v].at
    BY <1>9, AppliedWhole, CommitMoves DEF Typed, Aside
  <2>2. thr'[w].at = "close" /\ thr'[w].all = thr[w].all
    BY <2>1 DEF Thread
  <2>3. lock' = w /\ \A v \in Workers : v # w => thr'[v].at \notin Holding
    BY <1>9, <2>1, OneHolder DEF Commit, Holding
  <2>4. WritesThrough(w) => \A e \in thr'[w].all : db'[e.row] = e.to
    BY <1>9, <2>2, CompletionApplied
  <2> QED
    BY <2>2, <2>3, <2>4 DEF Locked, Holding, WritesThrough
<1>10. ASSUME NEW w \in Workers, CloseWriter(w)
      PROVE  Locked'
  <2>1. thr[w].at = "close" /\ db' = db /\ lock' = (IF WritesThrough(w) THEN w ELSE None)
    BY <1>10 DEF CloseWriter, KeepsLock
  <2>2. \A v \in Workers : v # w => thr'[v] = thr[v] /\ thr'[v].at \notin Holding
    BY <1>10, <2>1, OneHolder, CloseMoves DEF Holding
  <2>3. CASE WritesThrough(w)
    <3>1. thr'[w].at = "through" /\ thr'[w].all = thr[w].all
      BY <1>10, <2>3, CloseMoves DEF Moves
    <3>2. \A e \in thr[w].all : db[e.row] = e.to
      BY <2>1, <2>3 DEF Locked
    <3> QED
      BY <2>1, <2>2, <2>3, <3>1, <3>2 DEF Locked, Holding
  <2>4. CASE ~WritesThrough(w)
    <3>1. thr'[w].at \notin Holding
      BY <1>10, <2>4, CloseMoves, IdleTyped DEF Holding
    <3> QED
      BY <2>2, <3>1 DEF Locked, Holding
  <2> QED
    BY <2>3, <2>4
<1> QED
  BY <1>1, <1>2, <1>3, <1>4, <1>5, <1>6, <1>7, <1>8, <1>9, <1>10 DEF Next, Begins

-----------------------------------------------------------------------------
(* What the caches and the readers have, and when it was true.             *)

Timely ==
    /\ \A s \in Stores : cache[s] # None =>
          /\ cache[s].ts <= now
          /\ cache[s].end # None => cache[s].ts <= cache[s].end
    /\ \A w \in Workers :
          /\ thr[w].start <= now
          /\ thr[w].at = "fill" /\ thr[w].end # None => thr[w].start <= thr[w].end
          /\ thr[w].at = "answer" /\ thr[w].end # None =>
                /\ thr[w].direct => thr[w].start <= thr[w].end
                /\ thr[w].start < thr[w].end + TTL

\* What has not ended is what the table has.
Exact ==
    /\ \A s \in Stores : cache[s] # None => (cache[s].end = None <=> cache[s].val = Content(s))
    /\ \A w \in Workers : \A s \in Stores :
          thr[w].at \in {"fill", "answer"} /\ thr[w].store = s
             => (thr[w].end = None <=> thr[w].val = Content(s))

\* A writer that has committed will write the cache of the store, or drop it.
Owes(w, s) ==
    /\ thr[w].store = s
    /\ \/ thr[w].at \in {"through", "clear"}
       \/ thr[w].at = "close" /\ (WritesThrough(w) \/ Invalidates(w))

\* What a cache has although the table has it no longer was put there by a slow
\* reader, or its writer is not done.
Followed ==
    \A s \in Stores : cache[s] # None /\ cache[s].end # None
        => s \in raced \/ \E w \in Workers : Owes(w, s)

Dated == Timely /\ Exact /\ Followed

\* A step that leaves the tables and the caches alone, and readers that have their
\* answer, and writers that have committed.
LEMMA QuietDates ==
  ASSUME Typed, Dated, UNCHANGED <<db, cache, raced, now>>, NEW w \in Workers,
         \A v \in Workers : v # w => thr'[v] = thr[v],
         thr'[w].start <= now, thr'[w].at \notin {"fill", "answer"},
         thr[w].at \notin {"close", "through", "clear"}
  PROVE  Dated'
<1>1. Timely'
  BY DEF Dated, Timely
<1>2. \A s \in Stores : Content(s)' = Content(s)
  BY DEF Content
<1>3. Exact'
  BY <1>2 DEF Dated, Exact
<1>4. \A s \in Stores, v \in Workers : Owes(v, s) => Owes(v, s)'
  BY DEF Owes, WritesThrough, Invalidates
<1>5. Followed'
  BY <1>4 DEF Dated, Followed
<1> QED
  BY <1>1, <1>3, <1>5 DEF Dated

\* The cache answers: what it has is younger than its time to live.
LEMMA LookupDated ==
  ASSUME Typed, Dated, NEW w \in Workers, Lookup(w), Fresh(w)
  PROVE  Dated'
<1> DEFINE c == cache[thr[w].store]
<1>1. /\ Moves(w) /\ thr'[w].at = "answer" /\ thr'[w].val = c.val /\ thr'[w].end = c.end
      /\ thr[w].at = "lookup" /\ UNCHANGED <<db, cache, raced, now>>
  BY LookupMoves DEF Lookup
<1>2. /\ thr[w].store \in Stores /\ thr[w].direct = FALSE /\ c # None /\ c \in Cached(thr[w].store)
      /\ thr[w].start < c.ts + TTL /\ thr[w].start \in Nat
  BY <1>1 DEF Typed, Formed, Fresh, Thread, Instants
<1>3. c.ts \in Nat /\ c.end \in Nat \cup {None} /\ TTL \in Nat
  BY <1>2, StoresAssumption DEF Cached, Instants
<1>4. c.end # None => thr[w].start < c.end + TTL
  BY <1>2, <1>3 DEF Dated, Timely
<1>5. Timely'
  BY <1>1, <1>2, <1>4 DEF Dated, Timely, Moves
<1>6. \A s \in Stores : Content(s)' = Content(s)
  BY <1>1 DEF Content
<1>7. Exact'
  BY <1>1, <1>2, <1>6 DEF Dated, Exact, Moves
<1>8. \A s \in Stores, v \in Workers : Owes(v, s) => Owes(v, s)'
  BY <1>1 DEF Owes, WritesThrough, Invalidates, Moves
<1>9. Followed'
  BY <1>1, <1>8 DEF Dated, Followed
<1> QED
  BY <1>5, <1>7, <1>9 DEF Dated

\* The table answers: what it says is true.
LEMMA QueryDated ==
  ASSUME Typed, Dated, NEW w \in Workers, Query(w)
  PROVE  Dated'
<1>1. /\ Moves(w) /\ thr[w].at = "query" /\ thr'[w].at \in {"fill", "answer"}
      /\ thr'[w].end = thr[w].end /\ thr'[w].val = Content(thr[w].store)
  BY QueryMoves
<1>2. UNCHANGED <<db, cache, raced, now>>
  BY DEF Query
<1>3. thr'[w].end = None
  BY <1>1 DEF Typed, Formed
<1>4. Timely'
  BY <1>1, <1>2, <1>3 DEF Dated, Timely, Moves
<1>5. \A s \in Stores : Content(s)' = Content(s)
  BY <1>2 DEF Content
<1>6. \A s \in Stores : thr'[w].store = s => thr'[w].val = Content(s)
  BY <1>1 DEF Moves
<1>7. Exact'
  BY <1>1, <1>2, <1>3, <1>5, <1>6 DEF Dated, Exact, Moves
<1>8. \A s \in Stores, v \in Workers : Owes(v, s) => Owes(v, s)'
  BY <1>1, <1>2 DEF Owes, WritesThrough, Invalidates, Moves
<1>9. Followed'
  BY <1>2, <1>8 DEF Dated, Followed
<1> QED
  BY <1>4, <1>7, <1>9 DEF Dated

\* A reader fills the cache with what was true when it began, or later.
LEMMA FillDated ==
  ASSUME Typed, Dated, NEW w \in Workers, Fill(w)
  PROVE  Dated'
<1> DEFINE s == thr[w].store
           x == [val |-> thr[w].val, ts |-> thr[w].start, end |-> thr[w].end]
<1>1. /\ Moves(w) /\ thr[w].at = "fill" /\ thr'[w].at = "answer"
      /\ thr'[w].end = thr[w].end /\ thr'[w].val = thr[w].val
  BY FillMoves
<1>2. /\ UNCHANGED <<db, now>> /\ cache' = [cache EXCEPT ![s] = x]
      /\ raced' = IF thr[w].end = None THEN raced \ {s} ELSE raced \cup {s}
  BY DEF Fill, Stamp
<1>3. s \in Stores /\ thr[w].start \in Nat /\ thr[w].end \in Nat \cup {None} /\ thr[w] \in Thread
  BY <1>1 DEF Typed, Formed, Thread, Instants
<1>4. x.val = thr[w].val /\ x.ts = thr[w].start /\ x.end = thr[w].end
  OBVIOUS
<1> HIDE DEF x, s
<1>5. cache'[s] = x /\ \A q \in Stores : q # s => cache'[q] = cache[q]
  BY <1>2, <1>3 DEF Typed
<1>6. TTL \in Nat \ {0} /\ None \notin Nat
  BY StoresAssumption
<1>7. Timely'
  <2>1. \A q \in Stores : cache'[q] # None =>
          /\ cache'[q].ts <= now'
          /\ cache'[q].end # None => cache'[q].ts <= cache'[q].end
    BY <1>1, <1>2, <1>4, <1>5 DEF Dated, Timely
  <2>2. thr[w].end # None => thr[w].start <= thr[w].end /\ thr[w].start < thr[w].end + TTL
    BY <1>1, <1>3, <1>6 DEF Dated, Timely
  <2> QED
    BY <1>1, <1>2, <2>1, <2>2 DEF Dated, Timely, Moves
<1>8. \A q \in Stores : Content(q)' = Content(q)
  BY <1>2 DEF Content
<1>9. Exact'
  <2>1. thr[w].end = None <=> thr[w].val = Content(s)
    BY <1>1, <1>3 DEF Dated, Exact, s
  <2>2. \A q \in Stores : cache'[q] # None => (cache'[q].end = None <=> cache'[q].val = Content(q)')
    BY <1>4, <1>5, <1>8, <2>1 DEF Dated, Exact
  <2>3. ASSUME NEW v \in Workers, NEW q \in Stores, thr'[v].at \in {"fill", "answer"}, thr'[v].store = q
        PROVE  thr'[v].end = None <=> thr'[v].val = Content(q)'
    <3>1. CASE v = w
      BY <1>1, <1>8, <2>1, <2>3, <3>1 DEF s, Moves
    <3>2. CASE v # w
      BY <1>1, <1>8, <2>3, <3>2 DEF Dated, Exact, Moves
    <3> QED
      BY <3>1, <3>2
  <2> QED
    BY <2>2, <2>3 DEF Exact
<1>10. \A q \in Stores, v \in Workers : Owes(v, q) => Owes(v, q)'
  BY <1>1, <1>2 DEF Owes, WritesThrough, Invalidates, Moves
<1>11. Followed'
  BY <1>2, <1>4, <1>5, <1>10 DEF Dated, Followed
<1> QED
  BY <1>7, <1>9, <1>11 DEF Dated

\* What a request changes is in its own store.
LEMMA ChangesOwn ==
  ASSUME Typed, Pending, NEW w \in Workers, Commit(w), NEW s \in Stores, Content(s)' # Content(s)
  PROVE  /\ thr[w].store = s /\ db' # db
         /\ s = "setup" => WritesThrough(w)
<1>1. PICK r \in RowsOf(s) : db'[r] # db[r]
  BY DEF Content
<1>2. r \in Rows
  BY DEF Rows
<1>3. PICK e \in thr[w].all : e.row = r
  BY <1>1, <1>2, AppliedWhole
<1>4. Batch(thr[w].store, thr[w].all) /\ thr[w].store \in Stores
  BY DEF Typed, Formed, Commit, Writing
<1>5. r \in RowsOf(thr[w].store) \/ (thr[w].store = "setup" /\ r = "step")
  BY <1>3, <1>4 DEF Batch
<1>6. thr[w].store = s
  BY <1>1, <1>4, <1>5, Names, StoresAssumption
<1>7. s = "setup" => WritesThrough(w)
  BY <1>1, <1>3, Names DEF WritesThrough
<1> QED
  BY <1>1, <1>6, <1>7

\* A commit ends what it replaces, and its writer owes the cache of its store.
LEMMA CommitDated ==
  ASSUME Typed, Pending, Locked, Dated, NEW w \in Workers, Commit(w)
  PROVE  Dated'
<1>1. db' \in [Rows -> Data]
  BY AppliedWhole
<1>2. /\ thr[w].at = "write" /\ thr[w] \in Thread
      /\ thr'[w] = [thr[w] EXCEPT !.at = "close", !.changed = (db' # db)]
      /\ UNCHANGED <<pool, lock, now, calls, raced>>
  BY <1>1, CommitMoves DEF Commit, Typed
<1>3. /\ thr'[w].at = "close" /\ thr'[w].store = thr[w].store /\ thr'[w].all = thr[w].all
      /\ thr'[w].changed = (db' # db) /\ thr'[w].start = thr[w].start
  BY <1>2 DEF Thread
<1>4. ASSUME NEW v \in Workers \ {w}
      PROVE  /\ thr'[v].at = thr[v].at /\ thr'[v].store = thr[v].store /\ thr'[v].direct = thr[v].direct
             /\ thr'[v].val = thr[v].val /\ thr'[v].start = thr[v].start /\ thr'[v].all = thr[v].all
             /\ thr'[v].changed = thr[v].changed
             /\ \A s \in Stores : thr[v].at \in {"fill", "answer"} /\ thr[v].store = s => thr'[v].end =
                   IF thr[v].val = Content(s)' THEN None
                   ELSE IF thr[v].end = None THEN now ELSE thr[v].end
  <2>1. Aside(v) /\ AsideEnd(v)
    BY <1>1, CommitMoves
  <2> QED
    BY <2>1 DEF Aside, AsideEnd
<1>5. ASSUME NEW s \in Stores, cache'[s] # None
      PROVE  /\ cache[s] # None /\ cache[s] \in Cached(s)
             /\ cache'[s].val = cache[s].val /\ cache'[s].ts = cache[s].ts
             /\ cache'[s].end = IF cache[s].val = Content(s)' THEN None
                                ELSE IF cache[s].end = None THEN now ELSE cache[s].end
  <2>1. EntryEnd(s)
    BY <1>1, CommitMoves
  <2> QED
    BY <1>5, <2>1 DEF EntryEnd
<1>6. now \in Nat /\ None \notin Nat /\ TTL \in Nat \ {0}
  BY StoresAssumption DEF Typed, Instants
<1>7. Timely'
  <2>1. ASSUME NEW s \in Stores, cache'[s] # None
        PROVE  /\ cache'[s].ts <= now'
               /\ cache'[s].end # None => cache'[s].ts <= cache'[s].end
    BY <1>2, <1>5, <2>1 DEF Dated, Timely
  <2>2. ASSUME NEW v \in Workers
        PROVE  /\ thr'[v].start <= now'
               /\ thr'[v].at = "fill" /\ thr'[v].end # None => thr'[v].start <= thr'[v].end
               /\ thr'[v].at = "answer" /\ thr'[v].end # None =>
                     /\ thr'[v].direct => thr'[v].start <= thr'[v].end
                     /\ thr'[v].start < thr'[v].end + TTL
    <3>1. CASE v = w
      BY <1>2, <1>3, <3>1 DEF Dated, Timely
    <3>2. CASE v # w /\ thr[v].at \in {"fill", "answer"}
      <4>1. thr[v].store \in Stores /\ thr[v].start \in Nat /\ thr[v].start <= now
        BY <3>2 DEF Typed, Formed, Dated, Timely, Thread, Instants
      <4>2. thr'[v].end = None \/ thr'[v].end = now \/ (thr[v].end # None /\ thr'[v].end = thr[v].end)
        BY <1>4, <3>2, <4>1
      <4>3. thr[v].start < now + TTL
        BY <1>6, <4>1
      <4> QED
        BY <1>2, <1>4, <3>2, <4>1, <4>2, <4>3 DEF Dated, Timely
    <3>3. CASE v # w /\ thr[v].at \notin {"fill", "answer"}
      BY <1>2, <1>4, <3>3 DEF Dated, Timely
    <3> QED
      BY <3>1, <3>2, <3>3
  <2> QED
    BY <2>1, <2>2 DEF Timely
<1>8. Exact'
  <2>1. \A s \in Stores : cache'[s] # None => (cache'[s].end = None <=> cache'[s].val = Content(s)')
    BY <1>5, <1>6
  <2>2. ASSUME NEW v \in Workers, NEW s \in Stores, thr'[v].at \in {"fill", "answer"}, thr'[v].store = s
        PROVE  thr'[v].end = None <=> thr'[v].val = Content(s)'
    <3>1. v # w
      BY <1>3, <2>2
    <3> QED
      BY <1>4, <1>6, <2>2, <3>1
  <2> QED
    BY <2>1, <2>2 DEF Exact
<1>9. Followed'
  <2> SUFFICES ASSUME NEW s \in Stores, cache'[s] # None, cache'[s].end # None, s \notin raced
               PROVE  \E v \in Workers : Owes(v, s)'
    BY <1>2 DEF Followed
  <2>1. CASE cache[s].end # None
    <3>1. PICK v \in Workers : Owes(v, s)
      BY <1>5, <2>1 DEF Dated, Followed
    <3>2. v # w /\ thr[v].at = "clear" /\ thr[v].store = s
      BY <1>2, <3>1, OneHolder DEF Owes, Holding
    <3> QED
      BY <1>4, <3>2 DEF Owes
  <2>2. CASE cache[s].end = None
    <3>1. Content(s)' # Content(s)
      BY <1>5, <2>2 DEF Dated, Exact
    <3>2. thr[w].store = s /\ db' # db /\ (s = "setup" => WritesThrough(w))
      BY <3>1, ChangesOwn
    <3>3. thr'[w].changed = TRUE
      BY <1>3, <3>2
    <3>4. WritesThrough(w)' \/ Invalidates(w)'
      BY <1>3, <3>2, <3>3 DEF WritesThrough, Invalidates, Stores
    <3> QED
      BY <1>3, <3>2, <3>4 DEF Owes
  <2> QED
    BY <2>1, <2>2
<1> QED
  BY <1>7, <1>8, <1>9 DEF Dated

\* The writer closes its connection and owes what it owed.
LEMMA CloseDated ==
  ASSUME Typed, Dated, NEW w \in Workers, CloseWriter(w)
  PROVE  Dated'
<1>1. UNCHANGED <<db, cache, now, raced>>
  BY DEF CloseWriter
<1>2. /\ \A v \in Workers : v # w => thr'[v] = thr[v]
      /\ thr[w].at = "close" /\ thr'[w].at \notin {"fill", "answer"}
      /\ thr'[w].start <= now
      /\ WritesThrough(w) \/ Invalidates(w) =>
            thr'[w].at \in {"through", "clear"} /\ thr'[w].store = thr[w].store
  <2>1. thr[w].start <= now /\ 0 <= now
    BY DEF Dated, Timely, Typed, Instants
  <2> QED
    BY <2>1, CloseMoves, IdleTyped DEF Moves
<1>3. Timely'
  BY <1>1, <1>2 DEF Dated, Timely
<1>4. \A s \in Stores : Content(s)' = Content(s)
  BY <1>1 DEF Content
<1>5. Exact'
  BY <1>1, <1>2, <1>4 DEF Dated, Exact
<1>6. \A s \in Stores, v \in Workers : Owes(v, s) => Owes(v, s)'
  BY <1>1, <1>2 DEF Owes, WritesThrough, Invalidates
<1>7. Followed'
  BY <1>1, <1>6 DEF Dated, Followed
<1> QED
  BY <1>3, <1>5, <1>7 DEF Dated

\* What is written through is true.
LEMMA WriteThroughDated ==
  ASSUME Typed, Locked, Dated, NEW w \in Workers, WriteThrough(w)
  PROVE  Dated'
<1>1. /\ thr[w].at = "through" /\ thr' = [thr EXCEPT ![w] = Idle]
      /\ UNCHANGED <<db, now>> /\ raced' = raced \ {"setup"}
  BY DEF WriteThrough
<1>2. thr'[w] = Idle /\ \A v \in Workers : v # w => thr'[v] = thr[v]
  BY <1>1 DEF Typed
<1>3. PICK f \in thr[w].all :
            /\ f.row = "completed" /\ db["completed"] = f.to
            /\ cache' = [cache EXCEPT !["setup"] =
                            [val |-> [r \in {"completed"} |-> f.to], ts |-> now, end |-> None]]
  BY WrittenThrough
<1>4. thr[w].store = "setup"
  <2>1. Batch(thr[w].store, thr[w].all) /\ thr[w].store \in Stores
    BY <1>1 DEF Typed, Formed, Writing
  <2>2. "completed" \in RowsOf(thr[w].store) \/ thr[w].store = "setup"
    BY <1>3, <2>1 DEF Batch
  <2> QED
    BY <2>1, <2>2, Names, StoresAssumption
<1> DEFINE x == [val |-> [r \in {"completed"} |-> f.to], ts |-> now, end |-> None]
<1>5. x.ts = now /\ x.end = None /\ x.val = [r \in {"completed"} |-> f.to]
  OBVIOUS
<1>6. x.val = Content("setup")
  BY <1>3, <1>5, Names DEF Content
<1>7. cache' = [cache EXCEPT !["setup"] = x]
  BY <1>3
<1> HIDE DEF x
<1>8. cache'["setup"] = x /\ \A s \in Stores : s # "setup" => cache'[s] = cache[s]
  BY <1>7, Names DEF Typed
<1>9. \A s \in Stores : Content(s)' = Content(s)
  BY <1>1 DEF Content
<1>10. now \in Nat
  BY DEF Typed, Instants
<1>11. Timely'
  BY <1>1, <1>2, <1>5, <1>8, <1>10, IdleTyped DEF Dated, Timely
<1>12. Exact'
  <2>1. ASSUME NEW s \in Stores, cache'[s] # None
        PROVE  cache'[s].end = None <=> cache'[s].val = Content(s)'
    BY <1>5, <1>6, <1>8, <1>9, <2>1 DEF Dated, Exact
  <2>2. \A v \in Workers : thr'[v] = thr[v] \/ thr'[v].at \notin {"fill", "answer"}
    BY <1>2, IdleTyped
  <2> QED
    BY <1>9, <2>1, <2>2 DEF Dated, Exact
<1>13. \A s \in Stores, v \in Workers : Owes(v, s) => s = "setup" \/ Owes(v, s)'
  BY <1>1, <1>2, <1>4 DEF Owes, WritesThrough, Invalidates
<1>14. Followed'
  BY <1>1, <1>5, <1>8, <1>13 DEF Dated, Followed
<1> QED
  BY <1>11, <1>12, <1>14 DEF Dated

\* A cache that is dropped says nothing.
LEMMA ClearDated ==
  ASSUME Typed, Dated, NEW w \in Workers, Clear(w)
  PROVE  Dated'
<1> DEFINE s == thr[w].store
<1>1. /\ thr[w].at = "clear" /\ thr' = [thr EXCEPT ![w] = Idle]
      /\ UNCHANGED <<db, now>> /\ raced' = raced \ {s} /\ cache' = [cache EXCEPT ![s] = None]
  BY DEF Clear
<1>2. thr'[w] = Idle /\ \A v \in Workers : v # w => thr'[v] = thr[v]
  BY <1>1 DEF Typed
<1>3. s \in Stores /\ cache'[s] = None /\ \A q \in Stores : q # s => cache'[q] = cache[q]
  BY <1>1 DEF Typed, Formed
<1>4. \A q \in Stores : Content(q)' = Content(q)
  BY <1>1 DEF Content
<1>5. now \in Nat
  BY DEF Typed, Instants
<1>6. \A q \in Stores, v \in Workers : Owes(v, q) => s = q \/ Owes(v, q)'
  BY <1>1, <1>2 DEF Owes, WritesThrough, Invalidates
<1> HIDE DEF s
<1>7. Timely'
  BY <1>1, <1>2, <1>3, <1>5, IdleTyped DEF Dated, Timely
<1>8. Exact'
  <2>1. \A v \in Workers : thr'[v] = thr[v] \/ thr'[v].at \notin {"fill", "answer"}
    BY <1>2, IdleTyped
  <2> QED
    BY <1>3, <1>4, <2>1 DEF Dated, Exact
<1>9. Followed'
  BY <1>1, <1>3, <1>6 DEF Dated, Followed
<1> QED
  BY <1>7, <1>8, <1>9 DEF Dated

\* Every step keeps the dates.
LEMMA DatedStep ==
  ASSUME Typed, Pending, Locked, Dated, [Next]_vars
  PROVE  Dated'
<1>1. CASE UNCHANGED vars
  <2>1. \A s \in Stores : Content(s)' = Content(s) /\ \A w \in Workers : Owes(w, s)' = Owes(w, s)
    BY <1>1 DEF vars, Content, Owes, WritesThrough, Invalidates
  <2> QED
    BY <1>1, <2>1 DEF vars, Dated, Timely, Exact, Followed
<1>2. CASE Tick
  <2>1. UNCHANGED <<db, cache, thr, raced>> /\ now' = now + 1 /\ now \in Nat
    BY <1>2 DEF Tick, Typed, Instants
  <2>2. \A s \in Stores : Content(s)' = Content(s) /\ \A w \in Workers : Owes(w, s)' = Owes(w, s)
    BY <2>1 DEF Content, Owes, WritesThrough, Invalidates
  <2>3. \A s \in Stores : cache[s] # None => cache[s].ts \in Nat
    BY DEF Typed, Cached, Instants
  <2>4. \A w \in Workers : thr[w].start \in Nat
    BY DEF Typed, Thread, Instants
  <2>5. Timely'
    BY <2>1, <2>3, <2>4 DEF Dated, Timely
  <2> QED
    BY <2>1, <2>2, <2>5 DEF Dated, Exact, Followed
<1>3. ASSUME NEW w \in Workers, Begins(w)
      PROVE  Dated'
  <2>1. PICK x : Starting(x) /\ Begin(w, x)
    BY <1>3, Begun
  <2>2. /\ thr[w] = Idle /\ thr'[w] = x /\ UNCHANGED <<db, cache, raced, now>>
        /\ \A v \in Workers : v # w => thr'[v] = thr[v]
    BY <2>1 DEF Begin, Typed
  <2>3. x.start <= now /\ x.at \notin {"fill", "answer"}
    BY <2>1 DEF Starting
  <2> QED
    BY <2>2, <2>3, IdleTyped, QuietDates
<1>4. ASSUME NEW w \in Workers, (Lookup(w) /\ ~Fresh(w)) \/ ReadConnect(w) \/ Lock(w) \/ Execute(w)
      PROVE  Dated'
  <2>1. /\ Moves(w) /\ thr'[w].at \notin {"fill", "answer"}
        /\ thr[w].at \notin {"close", "through", "clear"}
    BY <1>4, LookupMoves, ConnectMoves, LockMoves, ExecuteMoves
  <2>2. UNCHANGED <<db, cache, raced, now>>
    BY <1>4 DEF Lookup, ReadConnect, Lock, Execute
  <2>3. thr'[w].start <= now
    BY <2>1 DEF Moves, Dated, Timely
  <2> QED
    BY <2>1, <2>2, <2>3, QuietDates DEF Moves
<1>5. ASSUME NEW w \in Workers, Answer(w) \/ Refuse(w)
      PROVE  Dated'
  <2>1. /\ thr[w].at \notin {"close", "through", "clear"} /\ thr' = [thr EXCEPT ![w] = Idle]
        /\ UNCHANGED <<db, cache, raced, now>>
    BY <1>5 DEF Answer, Refuse
  <2>2. thr'[w] = Idle /\ (\A v \in Workers : v # w => thr'[v] = thr[v]) /\ 0 <= now
    BY <2>1 DEF Typed, Instants
  <2> QED
    BY <2>1, <2>2, IdleTyped, QuietDates
<1> QED
  BY <1>1, <1>2, <1>3, <1>4, <1>5, LookupDated, QueryDated, FillDated, CommitDated, CloseDated,
     WriteThroughDated, ClearDated DEF Next, Begins

-----------------------------------------------------------------------------
(* The theorems.                                                           *)

\* The inductive invariant.
IInv == Typed /\ PoolSound /\ Pending /\ Locked /\ Dated

\* It holds at the start.
LEMMA InitInv == Init => IInv
<1> SUFFICES ASSUME Init PROVE IInv
  OBVIOUS
<1>1. Typed
  <2>1. cache \in [Stores -> Entry] /\ \A s \in Stores : cache[s] = None
    <3>1. None \in Entry
      BY DEF Entry
    <3> HIDE DEF Entry
    <3> QED
      BY <3>1 DEF Init
  <2>2. thr \in [Workers -> Thread] /\ \A w \in Workers : Formed(thr[w])
    BY IdleTyped DEF Init
  <2>3. now \in Instants /\ calls \in 0..MaxCalls
    BY StoresAssumption DEF Init, Instants
  <2> QED
    BY <2>1, <2>2, <2>3 DEF Init, Typed, Data
<1>2. PoolSound
  BY IdleTyped, FS_EmptySet, StoresAssumption DEF Init, PoolSound
<1>3. Pending /\ Locked
  BY IdleTyped DEF Init, Pending, Locked
<1>4. Dated
  <2>1. \A w \in Workers : thr[w].at = "idle" /\ thr[w].start = 0
    BY IdleTyped DEF Init
  <2>2. now = 0 /\ \A s \in Stores : cache[s] = None
    BY DEF Init
  <2> QED
    BY <2>1, <2>2 DEF Dated, Timely, Exact, Followed
<1> QED
  BY <1>1, <1>2, <1>3, <1>4 DEF IInv

\* Every step keeps it.
LEMMA InvStep == IInv /\ [Next]_vars => IInv'
BY TypedStep, PoolStep, LockedStep, DatedStep DEF IInv

\* So it always holds.
LEMMA Invariant == Spec => []IInv
<1>1. Init => IInv
  BY InitInv
<1>2. IInv /\ [Next]_vars => IInv'
  BY InvStep
<1> QED
  BY <1>1, <1>2, PTL DEF Spec

\* The variables keep their types: among them, what a reader has read or was
\* answered is a value of its own store, and what is in a cache is one of that
\* cache's store.
THEOREM TypesHold == Spec => []TypeOK
<1>1. IInv => TypeOK
  BY DEF IInv, Typed, TypeOK, Formed, Thread
<1> QED
  BY <1>1, Invariant, PTL

\* No two threads have one connection of the pool (check_store._acquire), none has
\* one that is idle in it, and no idle one has a transaction open.
THEOREM PoolIsSound == Spec => []PoolSound
<1>1. IInv => PoolSound
  BY DEF IInv
<1> QED
  BY <1>1, Invariant, PTL

\* Only a commit changes the tables.
LEMMA OnlyCommits ==
  ASSUME Next, db' # db
  PROVE  \E w \in Workers : Commit(w)
BY ZenonT(60) DEF Next, Tick, Read, ReadDirectly, Write, Begin, Lookup, ReadConnect, Query, Fill, Answer,
       UpdateSettings, ResetSetting, Accept, Revoke, SetState, Lock, Execute, Refuse, CloseWriter,
       WriteThrough, Clear

\* The tables change by all the statements of one request or not at all.
THEOREM RequestsAreWhole == Spec => CommitsWhole
<1>1. IInv /\ [Next]_vars => [db' # db => \E w \in Workers : WholeRequest(w)]_vars
  <2> SUFFICES ASSUME IInv, Next, db' # db
               PROVE  \E w \in Workers : WholeRequest(w)
    BY DEF vars
  <2>1. PICK w \in Workers : Commit(w)
    BY OnlyCommits
  <2>2. WholeRequest(w)
    BY <2>1, AppliedWhole DEF IInv, WholeRequest, Commit
  <2> QED
    BY <2>2
<1> QED
  BY <1>1, Invariant, PTL DEF Spec, CommitsWhole

\* Whatever a store answers was true less than a time to live before the request.
THEOREM StalenessIsBounded == Spec => []BoundedStaleness
<1>1. ASSUME IInv PROVE BoundedStaleness
  <2> SUFFICES ASSUME NEW w \in Workers, thr[w].at = "answer", thr[w].end # None
               PROVE  thr[w].start < thr[w].end + (IF thr[w].direct THEN 1 ELSE TTL)
    BY DEF BoundedStaleness
  <2>1. thr[w].start \in Nat /\ thr[w].end \in Nat
    BY <1>1 DEF IInv, Typed, Thread, Instants
  <2>2. (thr[w].direct => thr[w].start <= thr[w].end) /\ thr[w].start < thr[w].end + TTL
    BY <1>1 DEF IInv, Dated, Timely
  <2> QED
    BY <2>1, <2>2
<1> QED
  BY <1>1, Invariant, PTL

\* What a cache has is what the table has, but for a slow reader's fill and for a
\* writer between its commit and the cache.
THEOREM CacheIsCurrent == Spec => []CacheFollowsTable
<1>1. ASSUME IInv PROVE CacheFollowsTable
  <2> SUFFICES ASSUME NEW s \in Stores, Settled(s), s \notin raced, cache[s] # None
               PROVE  cache[s].val = Content(s)
    BY DEF CacheFollowsTable
  <2>1. \A w \in Workers : ~Owes(w, s)
    BY DEF Settled, Owes
  <2>2. cache[s].end = None
    BY <1>1, <2>1 DEF IInv, Dated, Followed
  <2> QED
    BY <1>1, <2>2 DEF IInv, Dated, Exact
<1> QED
  BY <1>1, Invariant, PTL

=============================================================================
