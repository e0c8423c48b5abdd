---------------------------- MODULE FirstRunProofs ----------------------------
(***************************************************************************)
(* Proofs about FirstRun, for any usernames, any number of request threads *)
(* and any bounds: types, AdministratorExists, SingleCompletion and        *)
(* StepsDone.                                                              *)
(*                                                                         *)
(* Without an administrator no thread is past the point where one has been *)
(* created, and whoever will create users creates one first (Poor). And    *)
(* only the holder of the lock, or create_app before it serves requests,   *)
(* is about to complete a setup, which is then not completed (Pending).    *)
(***************************************************************************)
EXTENDS FirstRun, SequenceTheorems, TLAPS

Todos == {<<>>} \cup {<<a>> : a \in Account} \cup [1..2 -> Account]

Thread == [at : Points, op : Ops, todo : Todos, overlapped : BOOLEAN]

\* Which operation is at which point; create_app runs the automatic setup.
Serves(t) ==
    /\ t.op # "auto" /\ t.at # "boot"
    /\ t.at = "idle" <=> t.op = "none"
    /\ t.at = "step" => t.op \in {"users", "plugins", "finalize"}
    /\ t.at = "names" => t.op \in {"users", "complete"}
    /\ t.at \in {"lock", "complete", "unlock"} => t.op \in {"complete", "finalize"}
    /\ t.at = "accept" => t.op \in {"eula", "complete"}
    /\ t.at = "create" => t.op \in {"users", "complete"}
    /\ t.at = "mark" => t.op \in {"eula", "users", "plugins", "complete"}
    /\ t.at \in {"unset", "blank"} => t.op = "reset"

Boots(t) ==
    \/ t = Idle
    \/ t.op = "auto" /\ t.at \in {"boot", "accept", "create", "mark", "complete"}

\* There is somebody to create.
Filled(t) ==
    (\/ t.at = "create"
     \/ t.op \in {"complete", "auto"} /\ t.at \in {"names", "lock", "accept"}) => t.todo # <<>>

\* About to complete the setup.
Pending(t) ==
    \/ t.at = "complete"
    \/ t.op \in {"complete", "auto"} /\ t.at \in {"accept", "create", "mark"}

Holds(t) == Pending(t) \/ t.at = "unlock"

HasAdmin == Admins # {}

\* What a thread is not, or has before it, as long as there is no administrator.
Poor(t) ==
    /\ t.at \notin {"complete", "unlock"}
    /\ t.at = "mark" => t.op = "eula"
    /\ t.at = "lock" => t.op = "complete"
    /\ t.op \in {"users", "complete", "auto"} /\ t.at \in {"step", "names", "lock", "accept", "create"}
          => t.todo # <<>> /\ Head(t.todo).role = "admin"

Fine(v) ==
    /\ IF v = Boss THEN Boots(thr[v]) /\ (up => thr[v] = Idle)
       ELSE Serves(thr[v]) /\ (~up => thr[v] = Idle) /\ (Holds(thr[v]) => lock = v)
    /\ Filled(thr[v])
    /\ ~HasAdmin => Poor(thr[v])
    /\ ~stale /\ Pending(thr[v]) => ~completed

Typed == TypeOK /\ thr \in [Threads -> Thread]

Founded == completed \/ ~FirstBoot \/ step \in {"users", "plugins"} => HasAdmin

Once ==
    /\ ~completed => won = 0
    /\ ~stale => won <= 1
    /\ ~stale /\ completed => cache # "false"

IInv == Typed /\ (\A v \in Threads : Fine(v)) /\ Founded /\ Once

-----------------------------------------------------------------------------
(* Lists of users to create, steps, and threads.                           *)

\* A list of two accounts.
LEMMA PairTyped ==
  ASSUME NEW q \in [1..2 -> Account]
  PROVE  /\ q \in Seq(Account) /\ Len(q) = 2 /\ q # <<>> /\ Head(q) = q[1]
         /\ Tail(q) = <<q[2]>>
<1>1. q \in Seq(Account)
  BY SeqDef
<1>2. Len(q) = 2
  <2>1. 1..Len(q) = 1..2 /\ Len(q) \in Nat
    BY <1>1, LenProperties
  <2> QED
    BY <2>1
<1>3. q # <<>> /\ Head(q) = q[1]
  BY <1>1, <1>2
<1>4. Tail(q) \in Seq(Account) /\ Len(Tail(q)) = 1 /\ Tail(q)[1] = q[2]
  <2>1. /\ Tail(q) \in Seq(Account) /\ Len(Tail(q)) = Len(q) - 1
        /\ \A i \in 1..Len(Tail(q)) : Tail(q)[i] = q[i + 1]
    BY <1>1, <1>3, HeadTailProperties
  <2>2. Len(Tail(q)) = 1
    BY <1>2, <2>1
  <2>3. 1 \in 1..Len(Tail(q)) /\ 1 + 1 = 2
    BY <2>2
  <2> QED
    BY <2>1, <2>2, <2>3
<1>5. <<q[2]>> \in Seq(Account) /\ Len(<<q[2]>>) = 1 /\ <<q[2]>>[1] = q[2]
  OBVIOUS
<1>6. Tail(q) = <<q[2]>>
  <2>1. \A i \in 1..Len(Tail(q)) : i = 1
    <3>1. \A n : n = 1 => \A i \in 1..n : i = 1
      OBVIOUS
    <3> QED
      BY <1>4, <3>1, Zenon
  <2>2. \A i \in 1..Len(Tail(q)) : Tail(q)[i] = <<q[2]>>[i]
    BY <1>4, <1>5, <2>1
  <2> QED
    BY <1>4, <1>5, <2>2, SeqEqual
<1> QED
  BY <1>1, <1>2, <1>3, <1>6

\* The accounts that are still to be created.
LEMMA TodoTyped ==
  ASSUME NEW q \in Todos, q # <<>>
  PROVE  /\ Head(q) \in Account
         /\ Tail(q) \in Todos
         /\ Len(q) = 1 <=> Tail(q) = <<>>
<1>1. CASE \E a \in Account : q = <<a>>
  <2>1. PICK a \in Account : q = <<a>>
    BY <1>1
  <2>2. Head(q) = a /\ Tail(q) = <<>> /\ Len(q) = 1
    BY <2>1
  <2> QED
    BY <2>1, <2>2 DEF Todos
<1>2. CASE q \in [1..2 -> Account]
  <2>1. Len(q) = 2 /\ Head(q) = q[1] /\ Tail(q) = <<q[2]>>
    BY <1>2, PairTyped
  <2>2. q[1] \in Account /\ q[2] \in Account
    BY <1>2
  <2>4. <<q[2]>> \in Todos /\ <<q[2]>> # <<>>
    BY <2>2 DEF Todos
  <2> QED
    <3>1. Head(q) \in Account
      BY <2>1, <2>2
    <3>2. Tail(q) \in Todos /\ Tail(q) # <<>>
      BY <2>1, <2>4
    <3>3. Len(q) # 1
      BY <2>1
    <3> QED
      BY <3>1, <3>2, <3>3
<1> QED
  BY <1>1, <1>2 DEF Todos

\* The automatic setup creates its administrator first.
LEMMA OrderedTyped ==
  ASSUME NEW p \in AdminFirst
  PROVE  p \in Todos /\ p # <<>> /\ Head(p).role = "admin"
<1>1. CASE \E n \in Names : p = <<[name |-> n, role |-> "admin"]>>
  <2>1. PICK n \in Names : p = <<[name |-> n, role |-> "admin"]>>
    BY <1>1
  <2>2. [name |-> n, role |-> "admin"] \in Account
    BY DEF Account, Roles
  <2> QED
    BY <2>1, <2>2 DEF Todos
<1>2. CASE p \in [1..2 -> Account] /\ p[1].role = "admin"
  <2>1. p # <<>> /\ Head(p) = p[1]
    BY <1>2, PairTyped
  <2> QED
    BY <1>2, <2>1 DEF Todos
<1> QED
  BY <1>1, <1>2 DEF AdminFirst, Ordered

\* The places of the wizard's steps.
LEMMA Indices ==
  /\ Index("eula") = 1 /\ Index("users") = 2 /\ Index("plugins") = 3
<1>1. Len(Steps) = 4 /\ Steps[1] = "eula" /\ Steps[2] = "users" /\ Steps[3] = "plugins"
      /\ Steps[4] = "summary"
  BY DEF Steps
<1>2. \A i \in 1..Len(Steps) : i \in {1, 2, 3, 4}
  BY <1>1
<1>3. Index("eula") \in 1..Len(Steps) /\ Steps[Index("eula")] = "eula"
  BY <1>1 DEF Index
<1>4. Index("users") \in 1..Len(Steps) /\ Steps[Index("users")] = "users"
  BY <1>1 DEF Index
<1>5. Index("plugins") \in 1..Len(Steps) /\ Steps[Index("plugins")] = "plugins"
  BY <1>1 DEF Index
<1> QED
  BY <1>1, <1>2, <1>3, <1>4, <1>5

\* What a reached step says of the recorded one.
LEMMA Reached ==
  ASSUME step \in {"", "eula", "users", "plugins"}
  PROVE  /\ StepReached("users") => step \in {"users", "plugins"}
         /\ StepReached("plugins") => step = "plugins"
<1>1. CASE step = ""
  BY <1>1 DEF StepReached
<1>2. CASE step = "eula"
  BY <1>2, Indices DEF StepReached
<1>3. CASE step = "users"
  BY <1>3, Indices DEF StepReached
<1>4. CASE step = "plugins"
  BY <1>4
<1> QED
  BY <1>1, <1>2, <1>3, <1>4

\* A thread with nothing to do.
LEMMA IdleTyped == Idle \in Thread /\ Idle.at = "idle" /\ Idle.op = "none"
  BY DEF Idle, Thread, Points, Ops, Todos

\* A thread that goes on, and one that begins.
LEMMA MovedTyped ==
  ASSUME NEW t \in Thread, NEW a \in Points
  PROVE  LET x == [t EXCEPT !.at = a] IN
         x \in Thread /\ x.at = a /\ x.op = t.op /\ x.todo = t.todo
  BY DEF Thread

\* A thread that a reset overlaps.
LEMMA MarkedTyped ==
  ASSUME NEW t \in Thread
  PROVE  LET x == [t EXCEPT !.overlapped = TRUE] IN
         x \in Thread /\ x.at = t.at /\ x.op = t.op /\ x.todo = t.todo
  BY DEF Thread

\* An idle thread owes nothing.
LEMMA IdleFine ==
  /\ Serves(Idle) /\ Boots(Idle) /\ Filled(Idle) /\ ~Pending(Idle) /\ ~Holds(Idle) /\ Poor(Idle)
<1>1. Serves(Idle)
  BY IdleTyped DEF Serves
<1>2. Boots(Idle)
  BY Zenon DEF Boots
<1>3. Filled(Idle)
  BY IdleTyped DEF Filled
<1>4. ~Pending(Idle) /\ ~Holds(Idle)
  BY IdleTyped DEF Pending, Holds
<1>5. Poor(Idle)
  BY IdleTyped DEF Poor
<1> QED
  BY <1>1, <1>2, <1>3, <1>4, <1>5

\* The thread of create_app is none of those that serve.
LEMMA BossApart == Boss \in Threads /\ Boss \notin Workers /\ Workers \subseteq Threads
                   /\ \A v \in Threads : v # Boss => v \in Workers
  BY FirstRunAssumption DEF Threads

-----------------------------------------------------------------------------
(* Types.                                                                  *)

\* What TypeOK says of the threads.
LEMMA ThreadsTyped ==
  ASSUME NEW f \in [Threads -> Thread]
  PROVE  \A w \in Threads :
            /\ f[w].at \in Points /\ f[w].op \in Ops /\ f[w].overlapped \in BOOLEAN
            /\ f[w].todo \in {<<>>} \cup {<<a>> : a \in Account} \cup [1..2 -> Account]
<1> TAKE w \in Threads
<1>1. f[w] \in Thread
  OBVIOUS
<1> QED
  BY <1>1 DEF Thread, Todos

\* What a step has to show for the types.
LEMMA TypedThreads ==
  ASSUME Typed, thr' \in [Threads -> Thread], UNCHANGED <<users, bounds, won, done>>,
         completed' \in BOOLEAN, step' \in {"", "eula", "users", "plugins"}, eula' \in BOOLEAN,
         cache' \in {"true", "false", None}, late' \in {"true", "false", None},
         lock' \in Workers \cup {None}, up' \in BOOLEAN, stale' \in BOOLEAN, torn' \in BOOLEAN
  PROVE  Typed'
<1>1. \A w \in Threads :
            /\ thr'[w].at \in Points /\ thr'[w].op \in Ops /\ thr'[w].overlapped \in BOOLEAN
            /\ thr'[w].todo \in {<<>>} \cup {<<a>> : a \in Account} \cup [1..2 -> Account]
  BY ThreadsTyped
<1> QED
  BY <1>1 DEF Typed, TypeOK, bounds

\* What a cached answer may be.
LEMMA CacheTyped ==
  ASSUME Typed, ReadRow \/ FillCache \/ Expire
  PROVE  Typed'
<1>1. /\ thr' = thr /\ UNCHANGED <<users, bounds, won, done, completed, step, eula, lock, up, torn>>
      /\ cache' \in {"true", "false", None} /\ late' \in {"true", "false", None}
  BY DEF ReadRow, FillCache, Expire, AsText, Typed, TypeOK, stored, history
<1>2. stale' \in BOOLEAN
  BY DEF ReadRow, FillCache, Expire, Typed, TypeOK, history
<1> QED
  BY <1>1, <1>2, TypedThreads DEF Typed, TypeOK

\* A thread that goes to another point.
LEMMA GotoTyped ==
  ASSUME Typed, NEW w \in Threads, NEW a \in Points, Goto(w, a)
  PROVE  /\ thr' \in [Threads -> Thread]
         /\ thr'[w].at = a /\ thr'[w].op = thr[w].op /\ thr'[w].todo = thr[w].todo
         /\ \A v \in Threads : v # w => thr'[v] = thr[v]
BY MovedTyped DEF Typed, Goto

\* A thread that ends.
LEMMA EndsTyped ==
  ASSUME Typed, NEW w \in Threads, Ends(w)
  PROVE  /\ thr' \in [Threads -> Thread] /\ thr'[w] = Idle
         /\ \A v \in Threads : v # w => thr'[v] = thr[v]
BY IdleTyped DEF Typed, Ends

\* A thread that begins.
LEMMA BeginTyped ==
  ASSUME Typed, NEW w \in Workers, NEW a \in Points, NEW op \in Ops, NEW q \in Todos, NEW t,
         Begin(w, t), t \in Thread, t.at = a, t.op = op, t.todo = q
  PROVE  /\ Typed'
         /\ thr'[w].at = a /\ thr'[w].op = op /\ thr'[w].todo = q
         /\ \A v \in Threads : v # w => thr'[v] = thr[v]
<1> DEFINE x == [t EXCEPT !.overlapped = Resetting]
<1>1. Resetting \in BOOLEAN
  BY DEF Resetting
<1>2. x \in Thread /\ x.at = a /\ x.op = op /\ x.todo = q
  BY <1>1 DEF Thread
<1>3. w \in Threads /\ thr' = [thr EXCEPT ![w] = x]
  BY BossApart DEF Begin
<1>4. thr' \in [Threads -> Thread]
  BY <1>2, <1>3 DEF Typed
<1>5. \A v \in Threads :
            /\ thr'[v].at \in Points /\ thr'[v].op \in Ops /\ thr'[v].overlapped \in BOOLEAN
            /\ thr'[v].todo \in {<<>>} \cup {<<b>> : b \in Account} \cup [1..2 -> Account]
  BY <1>4, ThreadsTyped
<1>6. requests' \in 0..MaxRequests
  <2>1. requests \in 0..MaxRequests
    BY DEF Typed, TypeOK
  <2>2. requests < MaxRequests /\ requests' = requests + 1
    BY DEF Begin
  <2> QED
    BY <2>1, <2>2, FirstRunAssumption
<1>7. Typed'
  BY <1>4, <1>5, <1>6, ZenonT(60) DEF Begin, Typed, TypeOK, stored, memory, history
<1> QED
  BY <1>2, <1>3, <1>7 DEF Typed

-----------------------------------------------------------------------------
(* Steps.                                                                  *)

\* The other threads, when one makes a step.
LEMMA OthersFine ==
  ASSUME IInv, NEW w \in Threads, up' = up, HasAdmin => HasAdmin',
         \A v \in Threads : v # w =>
            /\ thr[v] = Idle => thr'[v] = Idle
            /\ thr'[v].at = thr[v].at /\ thr'[v].op = thr[v].op /\ thr'[v].todo = thr[v].todo,
         \A v \in Workers : v # w /\ lock = v => lock' = v,
         ~stale' /\ completed' =>
            ~stale /\ (completed \/ \A v \in Threads : v # w => ~Pending(thr[v]))
  PROVE  \A v \in Threads : v # w => Fine(v)'
<1> SUFFICES ASSUME NEW v \in Threads, v # w PROVE Fine(v)'
  OBVIOUS
<1>1. Fine(v)
  BY DEF IInv
<1>2. /\ Pending(thr'[v]) <=> Pending(thr[v])
      /\ Holds(thr'[v]) <=> Holds(thr[v])
      /\ Filled(thr'[v]) <=> Filled(thr[v])
      /\ Poor(thr'[v]) <=> Poor(thr[v])
      /\ Serves(thr'[v]) <=> Serves(thr[v])
      /\ Boots(thr[v]) => Boots(thr'[v])
  BY DEF Pending, Holds, Filled, Poor, Serves, Boots
<1>3. v # Boss => v \in Workers
  BY BossApart
<1>4. ~stale' /\ Pending(thr'[v]) => ~completed'
  BY <1>1, <1>2 DEF Fine
<1>5. ~HasAdmin' => Poor(thr'[v])
  BY <1>1, <1>2 DEF Fine
<1> QED
  BY <1>1, <1>2, <1>3, <1>4, <1>5 DEF Fine

\* A step that leaves alone what decides whether the setup is completed.
LEMMA CalmStep ==
  ASSUME IInv, NEW w \in Threads, Typed', \A v \in Threads : v # w => thr'[v] = thr[v],
         UNCHANGED <<up, completed, step, users, cache, won, stale>>,
         \A v \in Workers : v # w /\ lock = v => lock' = v,
         Fine(w)'
  PROVE  IInv'
<1>1. (HasAdmin' <=> HasAdmin) /\ (FirstBoot' <=> FirstBoot)
  BY DEF HasAdmin, Admins, FirstBoot, UserCount
<1>2. \A v \in Threads : v # w => Fine(v)'
  BY <1>1, OthersFine DEF IInv
<1>3. Founded'
  BY <1>1 DEF IInv, Founded
<1>4. Once'
  BY DEF IInv, Once
<1> QED
  BY <1>2, <1>3, <1>4 DEF IInv

\* What a thread keeps when the tables stay: all that is left to show of it.
LEMMA FineBy ==
  ASSUME NEW w \in Threads, UNCHANGED <<up, completed, users, stale>>, Fine(w),
         w = Boss => Boots(thr'[w]) /\ (up => thr'[w] = Idle),
         w # Boss => Serves(thr'[w]) /\ (~up => thr'[w] = Idle) /\ (Holds(thr'[w]) => lock' = w),
         Filled(thr'[w]), ~HasAdmin => Poor(thr'[w]),
         ~stale /\ Pending(thr'[w]) => ~completed
  PROVE  Fine(w)'
<1>1. HasAdmin' <=> HasAdmin
  BY DEF HasAdmin, Admins
<1> QED
  BY <1>1 DEF Fine

\* A worker that serves does so while the process is up.
LEMMA Working ==
  ASSUME IInv, NEW w \in Threads, thr[w].at \in {"step", "names", "lock", "unlock", "unset", "blank"}
  PROVE  w \in Workers /\ w # Boss /\ up /\ thr[w] \in Thread /\ Serves(thr[w])
<1>1. Fine(w) /\ thr[w] \in Thread
  BY DEF IInv, Typed
<1>2. thr[w] # Idle
  BY IdleTyped
<1>3. ~Boots(thr[w])
  BY <1>2 DEF Boots
<1> QED
  BY <1>1, <1>2, <1>3, BossApart DEF Fine

\* A request that ends.
LEMMA EndStep ==
  ASSUME IInv, NEW w \in Threads, Ends(w),
         UNCHANGED <<stored, cache, late, up, bounds, won, done, stale>>, torn' \in BOOLEAN,
         lock' \in Workers \cup {None}, \A v \in Workers : v # w /\ lock = v => lock' = v
  PROVE  IInv'
<1>1. Typed /\ Fine(w)
  BY DEF IInv
<1>2. thr' \in [Threads -> Thread] /\ thr'[w] = Idle /\ \A v \in Threads : v # w => thr'[v] = thr[v]
  BY <1>1, EndsTyped
<1>3. Typed'
  BY <1>1, <1>2, TypedThreads, ZenonT(60) DEF Typed, TypeOK, stored
<1>4. Fine(w)'
  BY <1>1, <1>2, FineBy, IdleFine DEF stored
<1> QED
  BY <1>2, <1>3, <1>4, CalmStep DEF stored

\* A request that goes on, having changed the consent at most.
LEMMA GoOn ==
  ASSUME IInv, NEW w \in Threads, NEW a \in Points, Goto(w, a),
         UNCHANGED <<completed, step, users, cache, late, up, bounds, history>>,
         eula' \in BOOLEAN, lock' \in Workers \cup {None},
         \A v \in Workers : v # w /\ lock = v => lock' = v,
         NEW x, x = thr'[w],
         w = Boss => ~up /\ Boots(x),
         w # Boss => up /\ Serves(x) /\ (Holds(x) => lock' = w),
         Filled(x), ~HasAdmin => Poor(x), ~stale /\ Pending(x) => ~completed
  PROVE  IInv'
<1>1. Typed /\ Fine(w)
  BY DEF IInv
<1>2. thr' \in [Threads -> Thread] /\ \A v \in Threads : v # w => thr'[v] = thr[v]
  BY <1>1, GotoTyped
<1>3. Typed'
  BY <1>1, <1>2, TypedThreads, ZenonT(60) DEF Typed, TypeOK, history
<1>4. Fine(w)'
  BY <1>1, FineBy DEF history
<1> QED
  BY <1>2, <1>3, <1>4, CalmStep DEF history

\* Every point a thread can be at.
LEMMA AllPoints ==
  {"idle", "step", "names", "lock", "accept", "create", "mark", "complete", "unlock", "unset",
   "blank", "boot"} \subseteq Points
BY DEF Points

\* Each point of a request keeps the invariant: the check of the step,
LEMMA CheckStepStep ==
  ASSUME IInv, NEW w \in Threads, CheckStep(w)
  PROVE  IInv'
<1>0. /\ thr[w].at = "step" /\ UNCHANGED <<stored, memory, up, bounds, history>>
      /\ w \in Workers /\ w # Boss /\ up /\ Serves(thr[w]) /\ Typed /\ Fine(w)
  BY Working DEF CheckStep, IInv
<1>i. /\ UNCHANGED <<completed, step, eula, users, cache, late, lock, up, bounds, history>>
      /\ UNCHANGED <<won, done, stale, torn>>
      /\ eula' \in BOOLEAN /\ torn' \in BOOLEAN /\ lock' \in Workers \cup {None}
  BY <1>0 DEF Typed, TypeOK, stored, memory, history
<1>1. CASE Ends(w)
  BY <1>1, <1>i, EndStep DEF stored
<1>2. ASSUME StepReached(Required(thr[w].op)), NEW a \in Points, Goto(w, a),
             \/ thr[w].op = "users" /\ a = "names"
             \/ thr[w].op = "plugins" /\ a = "mark"
             \/ thr[w].op = "finalize" /\ a = "lock"
      PROVE  IInv'
  <2>1. thr'[w].at = a /\ thr'[w].op = thr[w].op /\ thr'[w].todo = thr[w].todo
    BY <1>0, <1>2, GotoTyped
  <2>2. thr[w].op \in {"plugins", "finalize"} => HasAdmin
    <3>1. thr[w].op \in {"plugins", "finalize"} => step \in {"users", "plugins"}
      BY <1>0, <1>2, Reached DEF Required, Typed, TypeOK
    <3> QED
      BY <3>1 DEF IInv, Founded
  <2>3. Serves(thr'[w]) /\ ~Holds(thr'[w]) /\ ~Pending(thr'[w]) /\ Filled(thr'[w])
    BY <1>2, <2>1 DEF Serves, Holds, Pending, Filled
  <2>4. ~HasAdmin => Poor(thr'[w])
    BY <1>0, <1>2, <2>1, <2>2 DEF Fine, Poor
  <2> QED
    BY <1>0, <1>2, <1>i, <2>3, <2>4, GoOn
<1> QED
  <2>1. thr[w].op \in {"users", "plugins", "finalize"}
    BY <1>0 DEF Serves
  <2> QED
    BY <1>1, <1>2, <2>1, AllPoints DEF CheckStep

\* the look for the name,
LEMMA CheckNamesStep ==
  ASSUME IInv, NEW w \in Threads, CheckNames(w)
  PROVE  IInv'
<1>0. /\ thr[w].at = "names" /\ UNCHANGED <<stored, memory, up, bounds, history>>
      /\ w \in Workers /\ w # Boss /\ up /\ Serves(thr[w]) /\ Typed /\ Fine(w)
  BY Working DEF CheckNames, IInv
<1>i. /\ UNCHANGED <<completed, step, eula, users, cache, late, lock, up, bounds, history>>
      /\ UNCHANGED <<won, done, stale, torn>>
      /\ eula' \in BOOLEAN /\ torn' \in BOOLEAN /\ lock' \in Workers \cup {None}
  BY <1>0 DEF Typed, TypeOK, stored, memory, history
<1>1. CASE Ends(w)
  BY <1>1, <1>i, EndStep DEF stored
<1>2. ASSUME NEW a \in Points, Goto(w, a),
             \/ thr[w].op = "complete" /\ a = "lock"
             \/ thr[w].op = "users" /\ thr[w].todo = <<>> /\ a = "mark"
             \/ thr[w].op = "users" /\ thr[w].todo # <<>> /\ a = "create"
      PROVE  IInv'
  <2>1. thr'[w].at = a /\ thr'[w].op = thr[w].op /\ thr'[w].todo = thr[w].todo
    BY <1>0, <1>2, GotoTyped
  <2>3. Serves(thr'[w]) /\ ~Holds(thr'[w]) /\ ~Pending(thr'[w]) /\ Filled(thr'[w])
    BY <1>0, <1>2, <2>1 DEF Serves, Holds, Pending, Filled, Fine
  <2>4. ~HasAdmin => Poor(thr'[w])
    BY <1>0, <1>2, <2>1 DEF Fine, Poor
  <2> QED
    BY <1>0, <1>2, <1>i, <2>3, <2>4, GoOn
<1> QED
  <2>1. thr[w].op \in {"users", "complete"}
    BY <1>0 DEF Serves
  <2> QED
    BY <1>0, <1>1, <1>2, <2>1, AllPoints DEF CheckNames

\* A setup that is required is not completed, as far as the cache is right.
LEMMA RequiredOpen ==
  ASSUME IInv, SetupRequired, ~stale
  PROVE  ~completed
BY DEF IInv, Once, SetupRequired

\* taking _setup_complete_lock and checking again,
LEMMA TakeLockStep ==
  ASSUME IInv, NEW w \in Threads, TakeLock(w)
  PROVE  IInv'
<1>0. /\ thr[w].at = "lock" /\ UNCHANGED <<stored, cache, late, up, bounds, history>>
      /\ w \in Workers /\ w # Boss /\ up /\ Serves(thr[w]) /\ Typed /\ Fine(w) /\ lock = None
  BY Working DEF TakeLock, IInv
<1>i. /\ UNCHANGED <<completed, step, eula, users, cache, late, up, bounds, history>>
      /\ UNCHANGED <<won, done, stale, torn>>
      /\ eula' \in BOOLEAN /\ torn' \in BOOLEAN
  BY <1>0 DEF Typed, TypeOK, stored, history
<1>l. lock' \in Workers \cup {None} /\ \A v \in Workers : v # w /\ lock = v => lock' = v
  BY <1>0, FirstRunAssumption DEF TakeLock
<1>1. CASE Ends(w)
  BY <1>1, <1>i, <1>l, EndStep DEF stored
<1>2. ASSUME NEW a \in Points, Goto(w, a), SetupRequired, lock' = w,
             \/ thr[w].op = "complete" /\ a = "accept"
             \/ thr[w].op = "finalize" /\ a = "complete"
      PROVE  IInv'
  <2>1. thr'[w].at = a /\ thr'[w].op = thr[w].op /\ thr'[w].todo = thr[w].todo
    BY <1>0, <1>2, GotoTyped
  <2>2. Serves(thr'[w]) /\ Filled(thr'[w])
    BY <1>0, <1>2, <2>1 DEF Serves, Filled, Fine
  <2>3. ~HasAdmin => Poor(thr'[w])
    BY <1>0, <1>2, <2>1 DEF Fine, Poor
  <2>4. ~stale => ~completed
    BY <1>2, RequiredOpen
  <2> QED
    BY <1>0, <1>2, <1>i, <1>l, <2>2, <2>3, <2>4, GoOn
<1> QED
  <2>1. thr[w].op \in {"complete", "finalize"}
    BY <1>0 DEF Serves
  <2> QED
    BY <1>0, <1>1, <1>2, <2>1, AllPoints DEF TakeLock, StillRequired

\* the consent,
LEMMA AcceptEulaStep ==
  ASSUME IInv, NEW w \in Threads, AcceptEula(w)
  PROVE  IInv'
<1>0. /\ thr[w].at = "accept" /\ UNCHANGED <<completed, step, users, memory, up, bounds, history>>
      /\ eula' = TRUE /\ Typed /\ Fine(w) /\ thr[w] # Idle
  BY IdleTyped DEF AcceptEula, IInv
<1>i. /\ UNCHANGED <<cache, late, lock>> /\ eula' \in BOOLEAN /\ lock' \in Workers \cup {None}
      /\ \A v \in Workers : v # w /\ lock = v => lock' = v
  BY <1>0 DEF Typed, TypeOK, memory
<1>1. PICK a \in Points : Goto(w, a) /\ a = IF thr[w].op = "eula" THEN "mark" ELSE "create"
  BY AllPoints DEF AcceptEula
<1>2. thr'[w].at = a /\ thr'[w].op = thr[w].op /\ thr'[w].todo = thr[w].todo
  BY <1>0, <1>1, GotoTyped
<1>3. w = Boss => ~up /\ Boots(thr'[w])
  BY <1>0, <1>1, <1>2 DEF Fine, Boots
<1>4. w # Boss => up /\ Serves(thr'[w]) /\ (Holds(thr'[w]) => lock' = w)
  BY <1>0, <1>1, <1>2, <1>i DEF Fine, Serves, Holds, Pending
<1>5. thr[w].op \in {"eula", "complete", "auto"}
  BY <1>0, BossApart DEF Fine, Boots, Serves
<1>6. Filled(thr'[w]) /\ (~HasAdmin => Poor(thr'[w]))
  BY <1>0, <1>1, <1>2, <1>5 DEF Fine, Filled, Poor
<1>7. ~stale /\ Pending(thr'[w]) => ~completed
  BY <1>0, <1>1, <1>2, <1>5 DEF Fine, Pending
<1> QED
  BY <1>0, <1>1, <1>i, <1>3, <1>4, <1>6, <1>7, GoOn

\* the release of the lock,
LEMMA ReleaseLockStep ==
  ASSUME IInv, NEW w \in Threads, ReleaseLock(w)
  PROVE  IInv'
<1>0. /\ thr[w].at = "unlock" /\ UNCHANGED <<stored, cache, late, up, bounds, history>>
      /\ w \in Workers /\ w # Boss /\ lock' = None /\ Ends(w) /\ Typed /\ Fine(w)
  BY Working DEF ReleaseLock, IInv
<1>1. lock = w
  BY <1>0 DEF Fine, Holds
<1> QED
  BY <1>0, <1>1, EndStep DEF Typed, TypeOK, history

\* a failure at any point,
LEMMA FailsStep ==
  ASSUME IInv, NEW w \in Threads, FailsAtAnyStep(w)
  PROVE  IInv'
<1>0. /\ UNCHANGED <<stored, cache, late, up, bounds, won, done, stale>> /\ Ends(w) /\ Typed
      /\ lock' = IF lock = w THEN None ELSE lock
  BY DEF FailsAtAnyStep, IInv
<1>1. torn' \in BOOLEAN
  BY <1>0 DEF FailsAtAnyStep, Typed, TypeOK
<1> QED
  BY <1>0, <1>1, EndStep DEF Typed, TypeOK

\* Any step, from what it does to the thread, the tables and the cache.
LEMMA TypedStep ==
  ASSUME Typed, thr' \in [Threads -> Thread], UNCHANGED <<eula, late, lock, up, bounds>>,
         completed' \in BOOLEAN, step' \in {"", "eula", "users", "plugins"},
         users' \in [Names -> Roles \cup {None}], cache' \in {"true", "false", None},
         won' \in 0..2, done' \subseteq {"eula", "users", "plugins"},
         stale' \in BOOLEAN, torn' \in BOOLEAN
  PROVE  Typed'
<1>1. \A w \in Threads :
            /\ thr'[w].at \in Points /\ thr'[w].op \in Ops /\ thr'[w].overlapped \in BOOLEAN
            /\ thr'[w].todo \in {<<>>} \cup {<<a>> : a \in Account} \cup [1..2 -> Account]
  BY ThreadsTyped
<1> QED
  BY <1>1 DEF Typed, TypeOK, bounds

\* the new account,
LEMMA CreateUserStep ==
  ASSUME IInv, NEW w \in Threads, CreateUser(w)
  PROVE  IInv'
<1> DEFINE q == thr[w].todo
           a == Head(q)
           x == [thr[w] EXCEPT !.todo = Tail(q), !.at = IF Len(q) = 1 THEN "mark" ELSE "create"]
<1>0. /\ thr[w].at = "create" /\ UNCHANGED <<completed, step, eula, memory, up, bounds, history>>
      /\ users[a.name] = None /\ users' = [users EXCEPT ![a.name] = a.role]
      /\ thr' = [thr EXCEPT ![w] = x] /\ Typed /\ Fine(w) /\ thr[w] \in Thread
  BY DEF CreateUser, IInv, Typed
<1>i. UNCHANGED <<cache, late, lock, won, done, stale, torn>>
  BY <1>0 DEF memory, history
<1>1. q \in Todos /\ q # <<>>
  BY <1>0 DEF Fine, Filled, Thread
<1>2. a \in Account /\ Tail(q) \in Todos /\ (Len(q) = 1 <=> Tail(q) = <<>>)
  BY <1>1, TodoTyped
<1>3. x \in Thread /\ x.op = thr[w].op /\ x.todo = Tail(q)
      /\ x.at \in {"mark", "create"} /\ (x.at = "create" => Tail(q) # <<>>)
  BY <1>0, <1>2, AllPoints DEF Thread
<1>4. thr' \in [Threads -> Thread] /\ \A v \in Threads : thr'[v] = IF v = w THEN x ELSE thr[v]
  BY <1>0, <1>3 DEF Typed
<1>5. users \in [Names -> Roles \cup {None}] /\ a.name \in Names /\ a.role \in Roles
  BY <1>0, <1>2 DEF Typed, TypeOK, Account
<1>6. Typed'
  BY <1>0, <1>i, <1>4, <1>5, TypedStep DEF Typed, TypeOK
<1>7. HasAdmin'
  <2>1. CASE HasAdmin
    <3>1. PICK n \in Names : users[n] = "admin"
      BY <2>1 DEF HasAdmin, Admins
    <3>2. n # a.name
      BY <1>0, <3>1, FirstRunAssumption
    <3>3. users'[n] = "admin"
      BY <1>0, <1>5, <3>1, <3>2
    <3> QED
      BY <3>3 DEF HasAdmin, Admins
  <2>2. CASE ~HasAdmin
    <3>1. thr[w].op \in {"users", "complete", "auto"}
      BY <1>0, IdleTyped DEF Fine, Boots, Serves
    <3>2. a.role = "admin"
      BY <1>0, <2>2, <3>1 DEF Fine, Poor
    <3>3. users'[a.name] = "admin"
      BY <1>0, <1>5, <3>2
    <3> QED
      BY <1>5, <3>3 DEF HasAdmin, Admins
  <2> QED
    BY <2>1, <2>2
<1>8. \A v \in Threads : v # w => Fine(v)'
  BY <1>0, <1>i, <1>4, <1>7, OthersFine
<1>9. Fine(w)'
  <2>1. thr[w].op \in {"users", "complete", "auto"} /\ thr[w] # Idle
    BY <1>0, IdleTyped DEF Fine, Boots, Serves
  <2>2. thr'[w] = x
    BY <1>4
  <2>3. w = Boss => Boots(x) /\ ~up
    BY <1>0, <1>3, <2>1 DEF Fine, Boots
  <2>4. w # Boss => Serves(x) /\ up /\ (Holds(x) => lock = w)
    BY <1>0, <1>3, <2>1 DEF Fine, Serves, Holds, Pending
  <2>5. Filled(x) /\ (~stale /\ Pending(x) => ~completed)
    BY <1>0, <1>3, <2>1 DEF Fine, Filled, Pending
  <2> QED
    BY <1>0, <1>i, <1>7, <2>2, <2>3, <2>4, <2>5 DEF Fine
<1>10. Founded' /\ Once'
  BY <1>0, <1>i, <1>7 DEF IInv, Founded, Once
<1> QED
  BY <1>6, <1>8, <1>9, <1>10 DEF IInv

\* the step of the wizard,
LEMMA MarkStepStep ==
  ASSUME IInv, NEW w \in Threads, MarkStep(w)
  PROVE  IInv'
<1>0. /\ thr[w].at = "mark" /\ UNCHANGED <<completed, eula, users, memory, up, bounds, won, stale>>
      /\ step' = MarkOf(thr[w].op) /\ Typed /\ Fine(w) /\ thr[w] \in Thread /\ thr[w] # Idle
  BY IdleTyped DEF MarkStep, IInv, Typed
<1>1. thr[w].op \in {"eula", "users", "plugins", "complete", "auto"}
  BY <1>0 DEF Fine, Boots, Serves
<1>2. /\ UNCHANGED <<cache, late, lock>> /\ step' \in {"eula", "users", "plugins"}
      /\ done' \subseteq {"eula", "users", "plugins"} /\ torn' \in BOOLEAN
  <2>1. done \subseteq {"eula", "users", "plugins"}
    BY <1>0 DEF Typed, TypeOK
  <2>2. done' \subseteq {"eula", "users", "plugins"}
    BY <1>1, <2>1 DEF MarkStep
  <2>3. step' \in {"eula", "users", "plugins"}
    BY <1>0, <1>1 DEF MarkOf
  <2>4. torn' \in BOOLEAN
    BY DEF MarkStep
  <2> QED
    BY <1>0, <2>2, <2>3, <2>4 DEF memory
<1>3. (HasAdmin' <=> HasAdmin) /\ (FirstBoot' <=> FirstBoot)
  BY <1>0 DEF HasAdmin, Admins, FirstBoot, UserCount
<1>4. step' # "eula" => HasAdmin
  BY <1>0, <1>1 DEF MarkOf, Fine, Poor
<1>5. Founded' /\ Once'
  BY <1>0, <1>2, <1>3, <1>4 DEF IInv, Founded, Once
<1>6. ASSUME thr' \in [Threads -> Thread], \A v \in Threads : v # w => thr'[v] = thr[v], Fine(w)'
      PROVE  IInv'
  <2>1. Typed'
    BY <1>0, <1>2, <1>6, TypedStep DEF Typed, TypeOK
  <2>2. \A v \in Threads : v # w => Fine(v)'
    BY <1>0, <1>2, <1>3, <1>6, OthersFine
  <2> QED
    BY <1>5, <1>6, <2>1, <2>2 DEF IInv
<1>7. CASE thr[w].op \in {"complete", "auto"} /\ Goto(w, "complete")
  <2>1. /\ thr' \in [Threads -> Thread]
        /\ thr'[w].at = "complete" /\ thr'[w].op = thr[w].op /\ thr'[w].todo = thr[w].todo
        /\ \A v \in Threads : v # w => thr'[v] = thr[v]
    BY <1>0, <1>7, AllPoints, GotoTyped
  <2>2. w = Boss => Boots(thr'[w]) /\ ~up
    BY <1>0, <1>1, <1>7, <2>1 DEF Fine, Boots
  <2>3. w # Boss => Serves(thr'[w]) /\ up /\ (Holds(thr'[w]) => lock = w)
    BY <1>0, <1>1, <1>7, <2>1 DEF Fine, Serves, Holds, Pending
  <2>4. Filled(thr'[w]) /\ (~stale /\ Pending(thr'[w]) => ~completed)
    BY <1>0, <1>7, <2>1 DEF Fine, Filled, Pending
  <2>5. HasAdmin
    BY <1>0, <1>7 DEF Fine, Poor
  <2>6. Fine(w)'
    BY <1>0, <1>2, <1>3, <2>2, <2>3, <2>4, <2>5 DEF Fine
  <2> QED
    BY <1>6, <2>1, <2>6
<1>8. CASE Ends(w)
  <2>1. thr' \in [Threads -> Thread] /\ thr'[w] = Idle /\ \A v \in Threads : v # w => thr'[v] = thr[v]
    BY <1>0, <1>8, EndsTyped
  <2>2. Fine(w)'
    BY <1>0, <2>1, FineBy, IdleFine
  <2> QED
    BY <1>6, <2>1, <2>2
<1> QED
  BY <1>7, <1>8 DEF MarkStep

\* the completion,
LEMMA CompleteSetupStep ==
  ASSUME IInv, NEW w \in Threads, CompleteSetup(w)
  PROVE  IInv'
<1>0. /\ thr[w].at = "complete" /\ UNCHANGED <<step, eula, users, late, lock, up, bounds, done, stale, torn>>
      /\ completed' = TRUE /\ cache' = "true" /\ won' = IF won < 2 THEN won + 1 ELSE won
      /\ Typed /\ Fine(w) /\ thr[w] \in Thread /\ thr[w] # Idle
  BY IdleTyped DEF CompleteSetup, IInv, Typed
<1>1. PICK a \in {"boot", "unlock"} :
        Goto(w, a) /\ a = IF thr[w].op = "auto" THEN "boot" ELSE "unlock"
  BY DEF CompleteSetup
<1>2. /\ thr' \in [Threads -> Thread]
      /\ thr'[w].at = a /\ thr'[w].op = thr[w].op /\ thr'[w].todo = thr[w].todo
      /\ \A v \in Threads : v # w => thr'[v] = thr[v]
  BY <1>0, <1>1, AllPoints, GotoTyped
<1>3. HasAdmin /\ HasAdmin' /\ Pending(thr[w])
  BY <1>0 DEF Fine, Poor, HasAdmin, Admins, Pending
<1>4. won \in 0..2 /\ won' \in 0..2 /\ (won = 0 => won' = 1)
  <2>1. won \in 0..2
    BY <1>0 DEF Typed, TypeOK
  <2> QED
    BY <1>0, <2>1
<1>5. Typed'
  BY <1>0, <1>2, <1>4, TypedStep DEF Typed, TypeOK
<1>6. ASSUME NEW v \in Threads, v # w PROVE ~Pending(thr[v])
  <2>1. Fine(v)
    BY DEF IInv
  <2>2. CASE w = Boss
    BY <1>0, <1>6, <2>1, <2>2, IdleFine DEF Fine
  <2>3. CASE v = Boss
    BY <1>0, <1>6, <2>1, <2>3, IdleFine DEF Fine
  <2>4. CASE w # Boss /\ v # Boss
    BY <1>0, <1>3, <1>6, <2>1, <2>4 DEF Fine, Holds
  <2> QED
    BY <2>2, <2>3, <2>4
<1>7. \A v \in Threads : v # w => Fine(v)'
  BY <1>0, <1>2, <1>3, <1>6, OthersFine
<1>8. Fine(w)'
  <2>1. w = Boss => Boots(thr'[w]) /\ ~up
    BY <1>0, <1>1, <1>2 DEF Fine, Boots
  <2>2. w # Boss => Serves(thr'[w]) /\ up /\ lock = w
    BY <1>0, <1>1, <1>2, <1>3 DEF Fine, Serves, Holds
  <2>3. Filled(thr'[w]) /\ ~Pending(thr'[w])
    BY <1>1, <1>2 DEF Filled, Pending
  <2> QED
    BY <1>0, <1>3, <2>1, <2>2, <2>3 DEF Fine
<1>9. ~stale => won = 0
  BY <1>0, <1>3 DEF Fine, IInv, Once
<1>10. Founded' /\ Once'
  BY <1>0, <1>3, <1>4, <1>9 DEF Founded, Once
<1> QED
  BY <1>5, <1>7, <1>8, <1>10 DEF IInv

\* The two halves of a reset mark the requests that are under way.
LEMMA OverlappedTyped ==
  ASSUME Typed, NEW w \in Threads, NEW x \in Thread, thr' = [Overlapped EXCEPT ![w] = x]
  PROVE  /\ thr' \in [Threads -> Thread] /\ thr'[w] = x
         /\ \A v \in Threads : v # w =>
               /\ thr[v] = Idle => thr'[v] = Idle
               /\ thr'[v].at = thr[v].at /\ thr'[v].op = thr[v].op /\ thr'[v].todo = thr[v].todo
<1>1. \A v \in Threads :
        /\ Overlapped[v] \in Thread /\ (thr[v] = Idle => Overlapped[v] = Idle)
        /\ Overlapped[v].at = thr[v].at /\ Overlapped[v].op = thr[v].op
        /\ Overlapped[v].todo = thr[v].todo
  BY MarkedTyped DEF Typed, Overlapped
<1>2. Overlapped \in [Threads -> Thread]
  BY <1>1 DEF Overlapped
<1> QED
  BY <1>1, <1>2

\* the first half of a reset,
LEMMA ResetCompletedStep ==
  ASSUME IInv, NEW w \in Threads, ResetCompleted(w)
  PROVE  IInv'
<1> DEFINE x == [Overlapped[w] EXCEPT !.at = "blank"]
<1>0. /\ thr[w].at = "unset" /\ completed' = FALSE /\ cache' = "false" /\ won' = 0 /\ done' = {}
      /\ stale' = FALSE /\ UNCHANGED <<step, eula, users, late, lock, up, bounds, torn>>
      /\ w \in Workers /\ w # Boss /\ up /\ Serves(thr[w]) /\ thr[w] \in Thread /\ Typed
  BY Working DEF ResetCompleted, IInv
<1>1. x \in Thread /\ x.at = "blank" /\ x.op = thr[w].op
  <2>1. Overlapped[w] \in Thread /\ Overlapped[w].op = thr[w].op
    BY <1>0, MarkedTyped DEF Overlapped
  <2> QED
    BY <2>1, AllPoints, MovedTyped
<1>2. thr' = [Overlapped EXCEPT ![w] = x]
  BY DEF ResetCompleted
<1>3. /\ thr' \in [Threads -> Thread] /\ thr'[w] = x
      /\ \A v \in Threads : v # w =>
            /\ thr[v] = Idle => thr'[v] = Idle
            /\ thr'[v].at = thr[v].at /\ thr'[v].op = thr[v].op /\ thr'[v].todo = thr[v].todo
  BY <1>0, <1>1, <1>2, OverlappedTyped
<1>4. Typed'
  <2>1. 0 \in 0..2 /\ {} \subseteq {"eula", "users", "plugins"} /\ FALSE \in BOOLEAN
    OBVIOUS
  <2> QED
    BY <1>0, <1>3, <2>1, TypedStep DEF Typed, TypeOK
<1>5. (HasAdmin' <=> HasAdmin) /\ (FirstBoot' <=> FirstBoot)
  BY <1>0 DEF HasAdmin, Admins, FirstBoot, UserCount
<1>6. \A v \in Threads : v # w => Fine(v)'
  BY <1>0, <1>3, <1>5, OthersFine
<1>7. Fine(w)'
  <2>1. x.op = "reset"
    BY <1>0, <1>1 DEF Serves
  <2>2. Serves(x) /\ ~Holds(x) /\ Filled(x) /\ Poor(x)
    BY <1>1, <2>1 DEF Serves, Holds, Pending, Filled, Poor
  <2> QED
    BY <1>0, <1>3, <2>2 DEF Fine
<1>8. Founded' /\ Once'
  BY <1>0, <1>5 DEF IInv, Founded, Once
<1> QED
  BY <1>4, <1>6, <1>7, <1>8 DEF IInv

\* its second half,
LEMMA ResetStepStep ==
  ASSUME IInv, NEW w \in Threads, ResetStep(w)
  PROVE  IInv'
<1>0. /\ thr[w].at = "blank" /\ step' = "" /\ torn' = FALSE
      /\ UNCHANGED <<completed, eula, users, memory, up, bounds, won, done, stale>>
      /\ thr' = [Overlapped EXCEPT ![w] = Idle]
      /\ w \in Workers /\ w # Boss /\ up /\ Typed
  BY Working DEF ResetStep, AfterReset, IInv
<1>i. UNCHANGED <<cache, late, lock>>
  BY <1>0 DEF memory
<1>1. /\ thr' \in [Threads -> Thread] /\ thr'[w] = Idle
      /\ \A v \in Threads : v # w =>
            /\ thr[v] = Idle => thr'[v] = Idle
            /\ thr'[v].at = thr[v].at /\ thr'[v].op = thr[v].op /\ thr'[v].todo = thr[v].todo
  BY <1>0, IdleTyped, OverlappedTyped
<1>2. Typed'
  BY <1>0, <1>i, <1>1, TypedStep DEF Typed, TypeOK
<1>3. (HasAdmin' <=> HasAdmin) /\ (FirstBoot' <=> FirstBoot)
  BY <1>0 DEF HasAdmin, Admins, FirstBoot, UserCount
<1>4. \A v \in Threads : v # w => Fine(v)'
  BY <1>0, <1>i, <1>1, <1>3, OthersFine DEF IInv, Once
<1>5. Fine(w)'
  BY <1>0, <1>1, IdleFine DEF Fine
<1>6. Founded' /\ Once'
  BY <1>0, <1>i, <1>3 DEF IInv, Founded, Once
<1> QED
  BY <1>2, <1>4, <1>5, <1>6 DEF IInv

\* A request begins.
LEMMA BeginStep ==
  ASSUME IInv, NEW w \in Workers, NEW t \in Thread, Begin(w, t), Serves(t), ~Holds(t),
         Filled(t), ~HasAdmin => Poor(t)
  PROVE  IInv'
<1>0. w \in Threads /\ w # Boss /\ up /\ UNCHANGED <<stored, memory, auto, up, restarts, history>>
  BY BossApart DEF Begin
<1>i. UNCHANGED <<completed, step, users, cache, lock, won, stale, up>>
  BY <1>0 DEF stored, memory, history
<1>1. /\ Typed' /\ thr'[w].at = t.at /\ thr'[w].op = t.op /\ thr'[w].todo = t.todo
      /\ \A v \in Threads : v # w => thr'[v] = thr[v]
  <2>1. t.at \in Points /\ t.op \in Ops /\ t.todo \in Todos
    BY DEF Thread
  <2> QED
    BY <2>1, BeginTyped DEF IInv
<1>2. Serves(thr'[w]) /\ ~Holds(thr'[w]) /\ ~Pending(thr'[w]) /\ Filled(thr'[w])
      /\ (~HasAdmin => Poor(thr'[w]))
  BY <1>1 DEF Serves, Holds, Pending, Filled, Poor
<1>3. Fine(w)'
  BY <1>0, <1>i, <1>2, FineBy DEF IInv
<1> QED
  BY <1>0, <1>i, <1>1, <1>3, CalmStep

\* and so any step of a request.
LEMMA RequestStep ==
  ASSUME IInv, NEW w \in Workers,
         \/ Eula(w) \/ ApiUsers(w) \/ WizardUsers(w) \/ Plugins(w) \/ Finalize(w)
         \/ Complete(w) \/ Reset(w)
  PROVE  IInv'
<1>0. \A a \in Points, op \in Ops :
        LET t == [Idle EXCEPT !.at = a, !.op = op] IN
        t \in Thread /\ t.at = a /\ t.op = op
  BY IdleTyped DEF Thread
<1>o. {"eula", "users", "plugins", "finalize", "complete", "reset", "auto"} \subseteq Ops
  BY DEF Ops
<1>1. CASE Eula(w)
  <2> DEFINE t == [Idle EXCEPT !.at = "accept", !.op = "eula"]
  <2>1. t \in Thread /\ t.at = "accept" /\ t.op = "eula"
    BY <1>0, <1>o, AllPoints
  <2>2. Serves(t) /\ ~Holds(t) /\ Filled(t) /\ Poor(t)
    BY <2>1 DEF Serves, Holds, Pending, Filled, Poor
  <2> QED
    BY <1>1, <2>1, <2>2, BeginStep DEF Eula
<1>2. CASE ApiUsers(w)
  <2>1. PICK p \in AdminFirst : Begin(w, [Idle EXCEPT !.at = "step", !.op = "users", !.todo = p])
    BY <1>2 DEF ApiUsers
  <2> DEFINE t == [Idle EXCEPT !.at = "step", !.op = "users", !.todo = p]
  <2>2. p \in Todos /\ p # <<>> /\ Head(p).role = "admin"
    BY OrderedTyped
  <2>3. t \in Thread /\ t.at = "step" /\ t.op = "users" /\ t.todo = p
    <3>1. "step" \in Points /\ "names" \in Points /\ "users" \in Ops /\ "complete" \in Ops
      BY <1>o, AllPoints
    <3> QED
      BY <2>2, <3>1, IdleTyped DEF Thread
  <2>4. Serves(t) /\ ~Holds(t) /\ Filled(t) /\ Poor(t)
    BY <2>2, <2>3 DEF Serves, Holds, Pending, Filled, Poor
  <2> QED
    BY <2>1, <2>3, <2>4, BeginStep
<1>3. CASE WizardUsers(w)
  <2>1. PICK p \in {<<>>} \cup {<<a>> : a \in [name : Names, role : {"user"}]} :
          Begin(w, [Idle EXCEPT !.at = "step", !.op = "users", !.todo = p])
    BY <1>3 DEF WizardUsers
  <2> DEFINE t == [Idle EXCEPT !.at = "step", !.op = "users", !.todo = p]
  <2>2. p \in Todos
    <3>1. [name : Names, role : {"user"}] \subseteq Account
      BY DEF Account, Roles
    <3> QED
      BY <2>1, <3>1 DEF Todos
  <2>3. t \in Thread /\ t.at = "step" /\ t.op = "users" /\ t.todo = p
    <3>1. "step" \in Points /\ "names" \in Points /\ "users" \in Ops /\ "complete" \in Ops
      BY <1>o, AllPoints
    <3> QED
      BY <2>2, <3>1, IdleTyped DEF Thread
  <2>4. Serves(t) /\ ~Holds(t) /\ Filled(t)
    BY <2>3 DEF Serves, Holds, Pending, Filled
  <2>5. HasAdmin
    BY <1>3 DEF WizardUsers, IInv, Founded
  <2> QED
    BY <2>1, <2>3, <2>4, <2>5, BeginStep
<1>4. CASE Plugins(w) \/ Finalize(w)
  <2>1. PICK op \in {"plugins", "finalize"} : Begin(w, [Idle EXCEPT !.at = "step", !.op = op])
    BY <1>4 DEF Plugins, Finalize
  <2> DEFINE t == [Idle EXCEPT !.at = "step", !.op = op]
  <2>2. t \in Thread /\ t.at = "step" /\ t.op = op
    <3>1. "step" \in Points /\ op \in Ops
      BY <1>o, AllPoints
    <3> QED
      BY <1>0, <3>1
  <2>3. Serves(t) /\ ~Holds(t) /\ Filled(t) /\ Poor(t)
    BY <2>2 DEF Serves, Holds, Pending, Filled, Poor
  <2> QED
    BY <2>1, <2>2, <2>3, BeginStep
<1>5. CASE Complete(w)
  <2>1. PICK p \in AdminFirst : Begin(w, [Idle EXCEPT !.at = "names", !.op = "complete", !.todo = p])
    BY <1>5 DEF Complete
  <2> DEFINE t == [Idle EXCEPT !.at = "names", !.op = "complete", !.todo = p]
  <2>2. p \in Todos /\ p # <<>> /\ Head(p).role = "admin"
    BY OrderedTyped
  <2>3. t \in Thread /\ t.at = "names" /\ t.op = "complete" /\ t.todo = p
    <3>1. "step" \in Points /\ "names" \in Points /\ "users" \in Ops /\ "complete" \in Ops
      BY <1>o, AllPoints
    <3> QED
      BY <2>2, <3>1, IdleTyped DEF Thread
  <2>4. Serves(t) /\ ~Holds(t) /\ Filled(t) /\ Poor(t)
    BY <2>2, <2>3 DEF Serves, Holds, Pending, Filled, Poor
  <2> QED
    BY <2>1, <2>3, <2>4, BeginStep
<1>6. CASE Reset(w)
  <2> DEFINE t == [Idle EXCEPT !.at = "unset", !.op = "reset"]
  <2>1. t \in Thread /\ t.at = "unset" /\ t.op = "reset"
    BY <1>0, <1>o, AllPoints
  <2>2. Serves(t) /\ ~Holds(t) /\ Filled(t) /\ Poor(t)
    BY <2>1 DEF Serves, Holds, Pending, Filled, Poor
  <2> QED
    BY <1>6, <2>1, <2>2, BeginStep DEF Reset
<1> QED
  BY <1>1, <1>2, <1>3, <1>4, <1>5, <1>6

\* Filling the cache, or an entry that expires, keeps the invariant.
LEMMA CacheStep ==
  ASSUME IInv, ReadRow \/ FillCache \/ Expire
  PROVE  IInv'
<1>1. Typed'
  BY CacheTyped DEF IInv
<1>2. UNCHANGED <<completed, step, users, lock, thr, up, won>>
  BY DEF ReadRow, FillCache, Expire, stored, history
<1>3. stale => stale'
  BY DEF ReadRow, FillCache, Expire, history
<1>4. (HasAdmin' <=> HasAdmin) /\ (FirstBoot' <=> FirstBoot)
  BY <1>2 DEF HasAdmin, Admins, FirstBoot, UserCount
<1>5. ASSUME NEW v \in Threads PROVE Fine(v)'
  <2>1. Fine(v)
    BY DEF IInv
  <2> QED
    BY <1>2, <1>3, <1>4, <2>1 DEF Fine
<1>6. Founded'
  BY <1>2, <1>4 DEF IInv, Founded
<1>7. ~stale' /\ completed => cache' # "false"
  <2>1. CASE ReadRow
    BY <2>1 DEF ReadRow, history, IInv, Once
  <2>2. CASE FillCache
    BY <2>2, Zenon DEF FillCache
  <2>3. CASE Expire
    BY <2>3, FirstRunAssumption DEF Expire
  <2> QED
    BY <2>1, <2>2, <2>3
<1>8. Once'
  BY <1>2, <1>3, <1>7 DEF IInv, Once
<1> QED
  BY <1>1, <1>5, <1>6, <1>8 DEF IInv

\* create_app, before anything else.
LEMMA BootTyped ==
  LET b == [Idle EXCEPT !.at = "boot", !.op = "auto"] IN
  /\ b \in Thread /\ b.at = "boot" /\ b.op = "auto"
  /\ Boots(b) /\ Filled(b) /\ Poor(b) /\ ~Pending(b)
<1> DEFINE b == [Idle EXCEPT !.at = "boot", !.op = "auto"]
<1>1. "boot" \in Points /\ "auto" \in Ops
  BY AllPoints DEF Ops
<1>2. b \in Thread /\ b.at = "boot" /\ b.op = "auto"
  BY <1>1, IdleTyped DEF Thread
<1> HIDE DEF b
<1>3. Boots(b) /\ Filled(b) /\ Poor(b) /\ ~Pending(b)
  BY <1>2 DEF Boots, Filled, Poor, Pending
<1> QED
  BY <1>2, <1>3 DEF b

\* So do the end of the process,
LEMMA RestartStep ==
  ASSUME IInv, Restart
  PROVE  IInv'
<1> DEFINE b == [Idle EXCEPT !.at = "boot", !.op = "auto"]
<1>0. /\ restarts < MaxRestarts /\ restarts' = restarts + 1
      /\ cache' = None /\ late' = None /\ lock' = None /\ up' = FALSE
      /\ thr' = [w \in Threads |-> IF w = Boss THEN b ELSE Idle]
      /\ UNCHANGED <<completed, step, eula, users, auto, requests, won, done, stale>> /\ Typed
      /\ torn' \in BOOLEAN
  BY DEF Restart, IInv, stored
<1>1. b \in Thread /\ Boots(b) /\ Filled(b) /\ Poor(b) /\ ~Pending(b)
  BY BootTyped
<1> HIDE DEF b
<1>2. thr' \in [Threads -> Thread] /\ \A v \in Threads : thr'[v] = IF v = Boss THEN b ELSE Idle
  BY <1>0, <1>1, IdleTyped
<1>3. \A w \in Threads :
            /\ thr'[w].at \in Points /\ thr'[w].op \in Ops /\ thr'[w].overlapped \in BOOLEAN
            /\ thr'[w].todo \in {<<>>} \cup {<<a>> : a \in Account} \cup [1..2 -> Account]
  BY <1>2, ThreadsTyped
<1>4. restarts' \in 0..MaxRestarts
  <2>1. restarts \in 0..MaxRestarts
    BY <1>0 DEF Typed, TypeOK
  <2> QED
    BY <1>0, <2>1, FirstRunAssumption
<1>5. Typed'
  BY <1>0, <1>2, <1>3, <1>4 DEF Typed, TypeOK
<1>6. (HasAdmin' <=> HasAdmin) /\ (FirstBoot' <=> FirstBoot)
  BY <1>0 DEF HasAdmin, Admins, FirstBoot, UserCount
<1>7. \A v \in Threads : Fine(v)'
  BY <1>0, <1>1, <1>2, IdleFine DEF Fine
<1>8. Founded' /\ Once'
  BY <1>0, <1>6, FirstRunAssumption DEF IInv, Founded, Once
<1> QED
  BY <1>5, <1>7, <1>8 DEF IInv

\* the beginning of the automatic setup,
LEMMA AutoSetupStep ==
  ASSUME IInv, AutoSetup
  PROVE  IInv'
<1> DEFINE q == <<[name |-> EnvAdmin, role |-> "admin"]>>
           x == [thr[Boss] EXCEPT !.at = "accept", !.todo = q]
<1>0. /\ thr[Boss].at = "boot" /\ SetupRequired /\ thr' = [thr EXCEPT ![Boss] = x]
      /\ UNCHANGED <<stored, memory, up, bounds, history>>
      /\ Typed /\ Fine(Boss) /\ Boss \in Threads /\ thr[Boss] \in Thread /\ thr[Boss] # Idle
  BY BossApart, IdleTyped DEF AutoSetup, IInv, Typed
<1>i. UNCHANGED <<completed, step, eula, users, cache, late, lock, won, done, stale, torn>>
  BY <1>0 DEF stored, memory, history
<1>1. q \in Todos /\ q # <<>> /\ Head(q).role = "admin"
  <2>1. [name |-> EnvAdmin, role |-> "admin"] \in Account
    BY FirstRunAssumption DEF Account, Roles
  <2> QED
    BY <2>1 DEF Todos
<1> HIDE DEF q
<1>2. x \in Thread /\ x.at = "accept" /\ x.op = thr[Boss].op /\ x.todo = q
  BY <1>0, <1>1, AllPoints DEF Thread
<1>3. thr' \in [Threads -> Thread] /\ \A v \in Threads : thr'[v] = IF v = Boss THEN x ELSE thr[v]
  BY <1>0, <1>2 DEF Typed
<1>4. Typed'
  BY <1>0, <1>i, <1>3, TypedStep DEF Typed, TypeOK
<1>5. thr[Boss].op = "auto" /\ ~up
  BY <1>0 DEF Fine, Boots
<1>6. Boots(x) /\ Filled(x) /\ Poor(x)
  BY <1>1, <1>2, <1>5 DEF Boots, Filled, Poor
<1>7. ~stale => ~completed
  BY <1>0, RequiredOpen
<1>8. Fine(Boss)'
  BY <1>0, <1>i, <1>3, <1>5, <1>6, <1>7, FineBy
<1> QED
  BY <1>0, <1>i, <1>3, <1>4, <1>8, CalmStep

\* and everything create_app does.
LEMMA BootStep ==
  ASSUME IInv, Boot
  PROVE  IInv'
<1>0. /\ thr[Boss].at = "boot" /\ users' = EnsureAdmin /\ up' = TRUE /\ Ends(Boss)
      /\ UNCHANGED <<completed, step, eula, memory, bounds, history>>
      /\ Typed /\ Fine(Boss) /\ Boss \in Threads /\ thr[Boss] # Idle
  BY BossApart, IdleTyped DEF Boot, IInv
<1>i. UNCHANGED <<cache, late, lock, won, done, stale, torn>>
  BY <1>0 DEF memory, history
<1>1. thr' \in [Threads -> Thread] /\ thr'[Boss] = Idle
      /\ \A v \in Threads : v # Boss => thr'[v] = thr[v]
  BY <1>0, EndsTyped
<1>2. ~up
  BY <1>0 DEF Fine
<1>3. \A v \in Threads : thr'[v] = Idle
  BY <1>1, <1>2 DEF IInv, Fine
<1>4. users \in [Names -> Roles \cup {None}] /\ EnvAdmin \in Names /\ "admin" \in Roles
  BY <1>0, FirstRunAssumption DEF Typed, TypeOK, Roles
<1>5. users' \in [Names -> Roles \cup {None}]
  BY <1>0, <1>4 DEF EnsureAdmin
<1>6. Typed'
  <2>1. \A w \in Threads :
            /\ thr'[w].at \in Points /\ thr'[w].op \in Ops /\ thr'[w].overlapped \in BOOLEAN
            /\ thr'[w].todo \in {<<>>} \cup {<<a>> : a \in Account} \cup [1..2 -> Account]
    BY <1>1, ThreadsTyped
  <2> QED
    BY <1>0, <1>i, <1>1, <1>5, <2>1, ZenonT(60) DEF Typed, TypeOK, bounds
<1>7. \A v \in Threads : Fine(v)'
  BY <1>3, IdleFine DEF Fine
<1>8. Founded'
  <2>1. CASE users' = users
    <3>1. (HasAdmin' <=> HasAdmin) /\ (FirstBoot' <=> FirstBoot)
      BY <2>1 DEF HasAdmin, Admins, FirstBoot, UserCount
    <3> QED
      BY <1>0, <3>1 DEF IInv, Founded
  <2>2. CASE users' = [users EXCEPT ![EnvAdmin] = "admin"]
    <3>1. users'[EnvAdmin] = "admin"
      BY <1>4, <2>2
    <3> QED
      BY <1>4, <3>1 DEF Founded, HasAdmin, Admins
  <2> QED
    BY <1>0, <2>1, <2>2 DEF EnsureAdmin
<1>9. Once'
  BY <1>0, <1>i DEF IInv, Once
<1> QED
  BY <1>6, <1>7, <1>8, <1>9 DEF IInv

-----------------------------------------------------------------------------
(* The theorems.                                                           *)

\* The invariant holds at the first start,
LEMMA InitIInv == Init => IInv
<1> SUFFICES ASSUME Init PROVE IInv
  OBVIOUS
<1> DEFINE b == [Idle EXCEPT !.at = "boot", !.op = "auto"]
<1>1. b \in Thread /\ Boots(b) /\ Filled(b) /\ Poor(b) /\ ~Pending(b)
  BY BootTyped
<1>2. thr = [w \in Threads |-> IF w = Boss THEN b ELSE Idle]
  BY DEF Init
<1> HIDE DEF b
<1>3. thr \in [Threads -> Thread] /\ \A v \in Threads : thr[v] = IF v = Boss THEN b ELSE Idle
  BY <1>1, <1>2, IdleTyped
<1>4. \A w \in Threads :
            /\ thr[w].at \in Points /\ thr[w].op \in Ops /\ thr[w].overlapped \in BOOLEAN
            /\ thr[w].todo \in {<<>>} \cup {<<a>> : a \in Account} \cup [1..2 -> Account]
  BY <1>3, ThreadsTyped
<1>5. 0 \in 0..MaxRequests /\ 0 \in 0..MaxRestarts /\ 0 \in 0..2
  BY FirstRunAssumption
<1>6. Typed
  BY <1>3, <1>4, <1>5 DEF Init, Typed, TypeOK
<1>7. \A v \in Threads : Fine(v)
  BY <1>1, <1>3, IdleFine DEF Init, Fine
<1>8. FirstBoot
  BY DEF Init, FirstBoot, UserCount
<1>9. Founded /\ Once
  <2>1. completed = FALSE /\ step = "" /\ won = 0 /\ cache = None
    BY DEF Init
  <2>2. ~completed /\ step \notin {"users", "plugins"} /\ won <= 1
    <3>1. ~completed
      BY <2>1, Zenon
    <3>2. step \notin {"users", "plugins"}
      BY <2>1
    <3>3. won <= 1
      <4>1. 0 <= 1
        OBVIOUS
      <4> QED
        BY <2>1, <4>1, Zenon
    <3> QED
      BY <3>1, <3>2, <3>3, Zenon
  <2>3. Founded
    BY <1>8, <2>2, Zenon DEF Founded
  <2>4. Once
    BY <2>1, <2>2, Zenon DEF Once
  <2> QED
    BY <2>3, <2>4
<1> QED
  BY <1>6, <1>7, <1>9 DEF IInv

\* and in every state that can be reached.
LEMMA SpecIInv == Spec => []IInv
<1>1. ASSUME IInv, [Next]_vars PROVE IInv'
  <2>1. CASE UNCHANGED vars
    <3>1. /\ UNCHANGED <<completed, step, eula, users, cache, late, lock, thr, up, auto, requests,
                         restarts, won, done, stale, torn>>
      BY <2>1 DEF vars, stored, memory, bounds, history
    <3>2. (HasAdmin' <=> HasAdmin) /\ (FirstBoot' <=> FirstBoot)
      BY <3>1 DEF HasAdmin, Admins, FirstBoot, UserCount
    <3>3. Typed'
      BY <1>1, <3>1, TypedStep DEF IInv, Typed, TypeOK, bounds
    <3>4. \A v \in Threads : Fine(v)'
      BY <1>1, <3>1, <3>2 DEF IInv, Fine
    <3>5. Founded' /\ Once'
      BY <1>1, <3>1, <3>2 DEF IInv, Founded, Once
    <3> QED
      BY <3>3, <3>4, <3>5 DEF IInv
  <2>2. ASSUME NEW w \in Threads,
               \/ CheckStep(w) \/ CheckNames(w) \/ TakeLock(w) \/ AcceptEula(w)
               \/ CreateUser(w) \/ MarkStep(w) \/ CompleteSetup(w)
               \/ ReleaseLock(w) \/ ResetCompleted(w) \/ ResetStep(w) \/ FailsAtAnyStep(w)
        PROVE  IInv'
    BY <1>1, <2>2, CheckStepStep, CheckNamesStep, TakeLockStep, AcceptEulaStep, CreateUserStep,
       MarkStepStep, CompleteSetupStep, ReleaseLockStep, ResetCompletedStep, ResetStepStep, FailsStep
  <2> QED
    BY <1>1, <2>1, <2>2, CacheStep, RestartStep, AutoSetupStep, BootStep, RequestStep DEF Next
<1> QED
  BY InitIInv, <1>1, PTL DEF Spec

\* Variables have their types; the lock is only ever held by a request.
THEOREM FirstRunTypes == Spec => []TypeOK
<1>1. IInv => TypeOK
  BY DEF IInv, Typed
<1> QED
  BY SpecIInv, <1>1, PTL

\* setup and setup_store: wherever requests fail and the process ends, there is an
\* administrator as soon as there is a user, and once the setup is completed.
THEOREM NobodyLockedOut == Spec => []AdministratorExists
<1>1. IInv => AdministratorExists
  BY DEF IInv, Founded, AdministratorExists, HasAdmin
<1> QED
  BY SpecIInv, <1>1, PTL

\* setup_store.complete_setup_atomic: as long as no reader puts the replaced value
\* back in the cache, the setup completes once between two resets.
THEOREM CompletesOnce == Spec => []SingleCompletion
<1>1. IInv => SingleCompletion
  BY DEF IInv, Once, SingleCompletion
<1> QED
  BY SpecIInv, <1>1, PTL

-----------------------------------------------------------------------------
(* The steps of a setup. That a finalize which is let through finds them   *)
(* all done is not kept by itself: it rests on what the recorded step says *)
(* of the steps done since the last reset, on what each request found when *)
(* it looked, and on a reset having marked whoever looked before it.       *)

All == {"eula", "users", "plugins"}

StepsUpTo(s) ==
    CASE s = "" -> {} [] s = "eula" -> {"eula"} [] s = "users" -> {"eula", "users"} [] OTHER -> All

\* The steps a request found done when it looked at the recorded one.
Found(t) ==
    CASE t.op = "users" /\ t.at \in {"names", "create", "mark"} -> StepsUpTo("eula")
      [] t.op = "plugins" /\ t.at = "mark" -> StepsUpTo("users")
      [] t.op = "finalize" /\ t.at \in {"lock", "complete"} -> StepsUpTo("plugins")
      [] OTHER -> {}

\* A request that has written the consent.
Consents(t) ==
    \/ t.at = "mark" /\ t.op \in {"eula", "complete", "auto"}
    \/ t.at = "create" /\ t.op \in {"complete", "auto"}

Trace(v) ==
    /\ Consents(thr[v]) => eula
    /\ v # Boss => torn \/ thr[v].overlapped \/ Found(thr[v]) \subseteq done
    /\ v # Boss /\ Resetting => thr[v] = Idle \/ thr[v].overlapped

Traced ==
    /\ torn \/ Resetting \/ StepsUpTo(step) \subseteq done
    /\ "eula" \in done => eula
    /\ \A v \in Threads : Trace(v)

\* An idle request has found nothing.
LEMMA IdleTraced == Found(Idle) = {} /\ ~Consents(Idle)
<1>1. Found(Idle) = {}
  BY IdleTyped DEF Found
<1> QED
  BY <1>1, IdleTyped DEF Consents

\* What follows from a step that is reached.
LEMMA ReachedUpTo ==
  ASSUME step \in {"", "eula", "users", "plugins"}
  PROVE  /\ StepReached("eula") => StepsUpTo("eula") \subseteq StepsUpTo(step)
         /\ StepReached("users") => StepsUpTo("users") \subseteq StepsUpTo(step)
         /\ StepReached("plugins") => StepsUpTo("plugins") \subseteq StepsUpTo(step)
<1>1. StepReached("eula") => step # ""
  BY DEF StepReached
<1>2. StepsUpTo("eula") = {"eula"} /\ StepsUpTo("users") = {"eula", "users"}
      /\ StepsUpTo("plugins") = All
  BY DEF StepsUpTo
<1> QED
  BY <1>1, <1>2, Reached DEF All

\* One thread goes on, between two resets or aside of them.
LEMMA TraceOn ==
  ASSUME IInv, Traced, NEW w \in Threads, \A v \in Threads : v # w => thr'[v] = thr[v],
         thr'[w].at = "blank" <=> thr[w].at = "blank", eula => eula', torn => torn',
         done \subseteq done',
         torn' \/ Resetting \/ StepsUpTo(step') \subseteq done',
         "eula" \in done' => eula',
         Consents(thr'[w]) => eula',
         w # Boss => torn' \/ thr'[w].overlapped \/ Found(thr'[w]) \subseteq done',
         w # Boss /\ Resetting => thr'[w] = Idle \/ thr'[w].overlapped
  PROVE  Traced'
<1>1. Resetting' <=> Resetting
  <2>1. \A v \in Threads : thr'[v].at = "blank" <=> thr[v].at = "blank"
    OBVIOUS
  <2> QED
    BY <2>1, BossApart DEF Resetting
<1>2. Trace(w)'
  BY <1>1 DEF Trace
<1>3. ASSUME NEW v \in Threads, v # w PROVE Trace(v)'
  <2>1. Trace(v) /\ thr'[v] = thr[v]
    BY <1>3 DEF Traced
  <2> QED
    BY <1>1, <2>1 DEF Trace
<1> QED
  BY <1>1, <1>2, <1>3 DEF Traced

\* A thread that goes to another point, where it has found no more than before.
LEMMA TraceGoto ==
  ASSUME IInv, Traced, NEW w \in Threads, NEW a \in Points, Goto(w, a),
         UNCHANGED <<step, done, torn>>, a # "blank", thr[w].at \notin {"blank", "idle"},
         eula => eula', Consents(thr'[w]) => eula',
         w # Boss => torn \/ thr[w].overlapped \/ Found(thr'[w]) \subseteq done
  PROVE  Traced'
<1>1. thr[w] \in Thread /\ thr[w] # Idle
  BY IdleTyped DEF IInv, Typed
<1>2. thr'[w] = [thr[w] EXCEPT !.at = a] /\ \A v \in Threads : v # w => thr'[v] = thr[v]
  BY DEF Goto, IInv, Typed
<1>3. thr'[w].at = a /\ thr'[w].overlapped = thr[w].overlapped
  BY <1>1, <1>2 DEF Thread
<1>4. w # Boss /\ Resetting => thr[w].overlapped
  BY <1>1 DEF Traced, Trace
<1> QED
  BY <1>2, <1>3, <1>4, TraceOn DEF Traced

\* A request that ends, at any point but the middle of a reset.
LEMMA TraceEnds ==
  ASSUME IInv, Traced, NEW w \in Threads, Ends(w), thr[w].at # "blank",
         UNCHANGED <<step, done, torn, eula>>
  PROVE  Traced'
<1>1. thr'[w] = Idle /\ \A v \in Threads : v # w => thr'[v] = thr[v]
  BY EndsTyped DEF IInv
<1>2. Found(thr'[w]) = {} /\ ~Consents(thr'[w]) /\ thr'[w].at # "blank"
  BY <1>1, IdleTraced, IdleTyped
<1> QED
  BY <1>1, <1>2, TraceOn DEF Traced

\* The points of a request.
LEMMA TracePoints ==
  ASSUME IInv, Traced, NEW w \in Threads,
         \/ CheckStep(w) \/ CheckNames(w) \/ TakeLock(w) \/ AcceptEula(w)
         \/ CreateUser(w) \/ CompleteSetup(w) \/ ReleaseLock(w)
  PROVE  Traced'
<1>0. /\ Typed /\ Fine(w) /\ Trace(w) /\ thr[w] \in Thread
      /\ step \in {"", "eula", "users", "plugins"}
  BY DEF IInv, Typed, Traced, TypeOK
<1>1. ASSUME NEW a \in Points, Goto(w, a)
      PROVE  thr'[w].at = a /\ thr'[w].op = thr[w].op
  BY <1>0, <1>1, GotoTyped
<1>2. CASE CheckStep(w)
  <2>0. thr[w].at = "step" /\ w # Boss /\ UNCHANGED <<step, done, torn, eula>> /\ Serves(thr[w])
    BY <1>2, Working DEF CheckStep, stored, history
  <2>1. CASE Ends(w)
    BY <2>0, <2>1, TraceEnds
  <2>2. ASSUME StepReached(Required(thr[w].op)), NEW a \in Points, Goto(w, a),
               \/ thr[w].op = "users" /\ a = "names"
               \/ thr[w].op = "plugins" /\ a = "mark"
               \/ thr[w].op = "finalize" /\ a = "lock"
        PROVE  Traced'
    <3>1. thr'[w].at = a /\ thr'[w].op = thr[w].op
      BY <1>1, <2>2
    <3>2. Found(thr'[w]) \subseteq StepsUpTo(step)
      <4>1. CASE thr[w].op = "users" /\ a = "names"
        <5>1. Found(thr'[w]) = StepsUpTo("eula") /\ Required(thr[w].op) = "eula"
          BY <3>1, <4>1 DEF Found, Required
        <5> QED
          BY <1>0, <2>2, <5>1, ReachedUpTo
      <4>2. CASE thr[w].op = "plugins" /\ a = "mark"
        <5>1. Found(thr'[w]) = StepsUpTo("users") /\ Required(thr[w].op) = "users"
          BY <3>1, <4>2 DEF Found, Required
        <5> QED
          BY <1>0, <2>2, <5>1, ReachedUpTo
      <4>3. CASE thr[w].op = "finalize" /\ a = "lock"
        <5>1. Found(thr'[w]) = StepsUpTo("plugins") /\ Required(thr[w].op) = "plugins"
          BY <3>1, <4>3 DEF Found, Required
        <5> QED
          BY <1>0, <2>2, <5>1, ReachedUpTo
      <4> QED
        BY <2>2, <4>1, <4>2, <4>3
    <3>3. torn \/ thr[w].overlapped \/ Found(thr'[w]) \subseteq done
      <4>1. thr[w] # Idle
        BY <2>0, IdleTyped
      <4> QED
        BY <1>0, <2>0, <3>2, <4>1 DEF Traced, Trace
    <3>4. ~Consents(thr'[w]) /\ a # "blank"
      BY <2>2, <3>1 DEF Consents
    <3> QED
      BY <2>0, <2>2, <3>3, <3>4, TraceGoto
  <2> QED
    <3>1. thr[w].op \in {"users", "plugins", "finalize"}
      BY <2>0 DEF Serves
    <3> QED
      BY <1>2, <2>1, <2>2, <3>1, AllPoints DEF CheckStep
<1>3. CASE CheckNames(w)
  <2>0. thr[w].at = "names" /\ w # Boss /\ UNCHANGED <<step, done, torn, eula>> /\ Serves(thr[w])
    BY <1>3, Working DEF CheckNames, stored, history
  <2>1. CASE Ends(w)
    BY <2>0, <2>1, TraceEnds
  <2>2. ASSUME NEW a \in Points, Goto(w, a),
               \/ thr[w].op = "complete" /\ a = "lock"
               \/ thr[w].op = "users" /\ a \in {"mark", "create"}
        PROVE  Traced'
    <3>1. thr'[w].at = a /\ thr'[w].op = thr[w].op
      BY <1>1, <2>2
    <3>2. Found(thr'[w]) \subseteq Found(thr[w]) /\ ~Consents(thr'[w])
      BY <2>0, <2>2, <3>1 DEF Found, Consents
    <3> QED
      BY <1>0, <2>0, <2>2, <3>2, TraceGoto DEF Trace
  <2> QED
    <3>1. thr[w].op \in {"users", "complete"}
      BY <2>0 DEF Serves
    <3> QED
      BY <1>3, <2>1, <2>2, <3>1, AllPoints DEF CheckNames
<1>4. CASE TakeLock(w)
  <2>0. thr[w].at = "lock" /\ w # Boss /\ UNCHANGED <<step, done, torn, eula>> /\ Serves(thr[w])
    BY <1>4, Working DEF TakeLock, stored, history
  <2>1. CASE Ends(w)
    BY <2>0, <2>1, TraceEnds
  <2>2. ASSUME NEW a \in Points, Goto(w, a),
               \/ thr[w].op = "complete" /\ a = "accept"
               \/ thr[w].op = "finalize" /\ a = "complete"
        PROVE  Traced'
    <3>1. thr'[w].at = a /\ thr'[w].op = thr[w].op
      BY <1>1, <2>2
    <3>2. Found(thr'[w]) \subseteq Found(thr[w]) /\ ~Consents(thr'[w])
      BY <2>0, <2>2, <3>1 DEF Found, Consents
    <3> QED
      BY <1>0, <2>0, <2>2, <3>2, TraceGoto DEF Trace
  <2> QED
    <3>1. thr[w].op \in {"finalize", "complete"}
      BY <2>0 DEF Serves
    <3> QED
      BY <1>4, <2>1, <2>2, <3>1, AllPoints DEF TakeLock
<1>5. CASE AcceptEula(w)
  <2>0. thr[w].at = "accept" /\ UNCHANGED <<step, done, torn>> /\ eula'
    BY <1>5 DEF AcceptEula, history
  <2>1. PICK a \in {"mark", "create"} : Goto(w, a) /\ a = IF thr[w].op = "eula" THEN "mark" ELSE "create"
    BY <1>5 DEF AcceptEula
  <2>2. a \in Points
    BY <2>1, AllPoints
  <2>3. thr'[w].at = a /\ thr'[w].op = thr[w].op /\ (thr[w].op = "eula" => a = "mark")
        /\ (thr[w].op # "eula" => a = "create")
    BY <1>1, <2>1, <2>2
  <2>4. w # Boss => Found(thr'[w]) = {}
    <3>1. w # Boss => thr[w].op \in {"eula", "complete"}
      BY <1>0, <2>0 DEF Fine, Serves
    <3> QED
      BY <2>3, <3>1 DEF Found
  <2> QED
    BY <2>0, <2>1, <2>2, <2>4, TraceGoto
<1>6. CASE CreateUser(w)
  <2> DEFINE b == IF Len(thr[w].todo) = 1 THEN "mark" ELSE "create"
             x == [thr[w] EXCEPT !.todo = Tail(thr[w].todo), !.at = b]
  <2>1. thr[w].at = "create" /\ UNCHANGED <<step, done, torn, eula>> /\ thr' = [thr EXCEPT ![w] = x]
    BY <1>6 DEF CreateUser, history
  <2>2. x.at \in {"mark", "create"} /\ x.op = thr[w].op /\ x.overlapped = thr[w].overlapped
    BY <1>0 DEF Thread
  <2>3. thr'[w] = x /\ \A v \in Threads : v # w => thr'[v] = thr[v]
    BY <1>0, <2>1 DEF Typed
  <2> HIDE DEF x
  <2>4. thr[w].op \in {"users", "complete", "auto"} /\ (w # Boss => thr[w].op # "auto")
        /\ thr[w] # Idle
    BY <1>0, <2>1, IdleTyped, BossApart DEF Fine, Serves, Boots
  <2>5. Consents(x) => eula
    BY <1>0, <2>1, <2>2, <2>4 DEF Trace, Consents
  <2>6. Found(x) \subseteq Found(thr[w])
    BY <2>1, <2>2, <2>4 DEF Found
  <2>7. w # Boss => torn \/ x.overlapped \/ Found(x) \subseteq done
    BY <1>0, <2>2, <2>6 DEF Trace
  <2>8. w # Boss /\ Resetting => x.overlapped
    BY <1>0, <2>2, <2>4 DEF Trace
  <2>9. x.at # "blank" /\ thr[w].at # "blank"
    BY <2>1, <2>2
  <2> QED
    BY <2>1, <2>3, <2>5, <2>7, <2>8, <2>9, TraceOn DEF Traced
<1>7. CASE CompleteSetup(w)
  <2>0. thr[w].at = "complete" /\ UNCHANGED <<step, done, torn, eula>>
    BY <1>7 DEF CompleteSetup
  <2>1. PICK a \in {"boot", "unlock"} : Goto(w, a)
    BY <1>7 DEF CompleteSetup
  <2>2. a \in Points
    BY <2>1, AllPoints
  <2>3. thr'[w].at = a
    BY <1>1, <2>1, <2>2
  <2>4. Found(thr'[w]) = {} /\ ~Consents(thr'[w])
    BY <2>1, <2>3 DEF Found, Consents
  <2> QED
    BY <2>0, <2>1, <2>2, <2>4, TraceGoto
<1>8. CASE ReleaseLock(w)
  BY <1>8, TraceEnds DEF ReleaseLock, stored, history
<1> QED
  BY <1>2, <1>3, <1>4, <1>5, <1>6, <1>7, <1>8

\* The step that is recorded.
LEMMA TraceMark ==
  ASSUME IInv, Traced, NEW w \in Threads, MarkStep(w)
  PROVE  Traced'
<1>0. /\ Typed /\ Fine(w) /\ Trace(w) /\ thr[w] \in Thread /\ thr[w].at = "mark"
      /\ eula' = eula /\ step' = MarkOf(thr[w].op) /\ torn' = (torn \/ thr[w].overlapped)
      /\ done \subseteq All
  BY DEF IInv, Typed, Traced, TypeOK, MarkStep, All
<1>1. thr[w].op \in {"eula", "users", "plugins", "complete", "auto"}
      /\ (w # Boss => thr[w].op # "auto") /\ (w = Boss => thr[w].op = "auto") /\ thr[w] # Idle
  BY <1>0, IdleTyped, BossApart DEF Fine, Serves, Boots
<1>2. thr[w].op \in {"eula", "complete", "auto"} => eula
  BY <1>0 DEF Trace, Consents
<1>3. done \subseteq done' /\ (torn' \/ StepsUpTo(step') \subseteq done')
  <2>1. CASE thr[w].op \in {"complete", "auto"}
    <3>1. done' = All
      BY <2>1 DEF MarkStep, All
    <3>2. StepsUpTo(step') \subseteq All
      BY <1>0, <2>1 DEF StepsUpTo, MarkOf, All
    <3> QED
      BY <1>0, <3>1, <3>2
  <2>2. CASE thr[w].op = "eula"
    BY <1>0, <2>2 DEF MarkStep, StepsUpTo, MarkOf
  <2>3. CASE thr[w].op = "users"
    <3>1. Found(thr[w]) = {"eula"}
      BY <1>0, <2>3 DEF Found, StepsUpTo
    <3>2. torn' \/ "eula" \in done
      BY <1>0, <1>1, <2>3, <3>1 DEF Trace
    <3>3. done' = done \cup {"users"} /\ step' = "users"
      BY <1>0, <2>3 DEF MarkStep, MarkOf
    <3> QED
      BY <3>2, <3>3 DEF StepsUpTo
  <2>4. CASE thr[w].op = "plugins"
    <3>1. Found(thr[w]) = {"eula", "users"}
      BY <1>0, <2>4 DEF Found, StepsUpTo
    <3>2. torn' \/ {"eula", "users"} \subseteq done
      BY <1>0, <1>1, <2>4, <3>1 DEF Trace
    <3>3. done' = done \cup {"plugins"} /\ step' = "plugins"
      BY <1>0, <2>4 DEF MarkStep, MarkOf
    <3> QED
      BY <3>2, <3>3 DEF StepsUpTo, All
  <2> QED
    BY <1>1, <2>1, <2>2, <2>3, <2>4
<1>4. "eula" \in done' => eula'
  <2>1. "eula" \in done' => "eula" \in done \/ thr[w].op \in {"eula", "complete", "auto"}
    BY <1>1 DEF MarkStep
  <2> QED
    BY <1>0, <1>2, <2>1 DEF Traced
<1>5. CASE Ends(w)
  <2>1. thr'[w] = Idle /\ \A v \in Threads : v # w => thr'[v] = thr[v]
    BY <1>0, <1>5, EndsTyped
  <2>2. Found(thr'[w]) = {} /\ ~Consents(thr'[w]) /\ thr'[w].at # "blank"
    BY <2>1, IdleTraced, IdleTyped
  <2> QED
    BY <1>0, <1>3, <1>4, <2>1, <2>2, TraceOn
<1>6. CASE Goto(w, "complete") /\ thr[w].op \in {"complete", "auto"}
  <2>1. thr'[w] = [thr[w] EXCEPT !.at = "complete"] /\ \A v \in Threads : v # w => thr'[v] = thr[v]
    BY <1>0, <1>6 DEF Goto, Typed
  <2>2. thr'[w].at = "complete" /\ thr'[w].op = thr[w].op /\ thr'[w].overlapped = thr[w].overlapped
    BY <1>0, <2>1 DEF Thread
  <2>3. Found(thr'[w]) = {} /\ ~Consents(thr'[w]) /\ thr'[w].at # "blank"
    BY <1>6, <2>2 DEF Found, Consents
  <2>4. w # Boss /\ Resetting => thr'[w].overlapped
    BY <1>0, <1>1, <2>2 DEF Trace
  <2> QED
    BY <1>0, <1>3, <1>4, <2>1, <2>3, <2>4, TraceOn
<1> QED
  BY <1>5, <1>6 DEF MarkStep

\* A reset marks every request that is under way.
LEMMA TraceReset ==
  ASSUME IInv, Traced, NEW w \in Threads, ResetCompleted(w) \/ ResetStep(w)
  PROVE  Traced'
<1>0. w \in Workers /\ w # Boss /\ up /\ thr[w] \in Thread /\ Typed
  BY Working DEF ResetCompleted, ResetStep, IInv
<1>1. thr[Boss] = Idle /\ Boss \in Threads
  BY <1>0, BossApart DEF IInv, Fine
<1>2. \A v \in Threads : Overlapped[v] = IF thr[v] = Idle THEN Idle ELSE [thr[v] EXCEPT !.overlapped = TRUE]
  BY DEF Overlapped
<1>3. ASSUME NEW v \in Threads
      PROVE  /\ Overlapped[v].at = thr[v].at /\ Overlapped[v].op = thr[v].op
             /\ (Overlapped[v] = Idle \/ Overlapped[v].overlapped = TRUE)
  <2>1. thr[v] \in Thread
    BY <1>0 DEF Typed
  <2>2. CASE thr[v] = Idle
    BY <1>2, <2>2
  <2>3. CASE thr[v] # Idle
    BY <1>2, <2>1, <2>3 DEF Thread
  <2> QED
    BY <2>2, <2>3
<1>4. DOMAIN Overlapped = Threads
  BY DEF Overlapped
<1>5. \A v \in Threads : Consents(thr[v]) => eula
  BY DEF Traced, Trace
<1>6. ASSUME NEW x, thr' = [Overlapped EXCEPT ![w] = x], x = Idle \/ x.overlapped = TRUE,
             ~Consents(x), eula' = eula
      PROVE  \A v \in Threads : Trace(v)'
  <2> SUFFICES ASSUME NEW v \in Threads PROVE Trace(v)'
    OBVIOUS
  <2>1. thr'[v] = IF v = w THEN x ELSE Overlapped[v]
    BY <1>4, <1>6
  <2>2. thr'[v] = Idle \/ thr'[v].overlapped = TRUE
    BY <1>3, <1>6, <2>1
  <2>3. Consents(thr'[v]) => eula'
    BY <1>3, <1>5, <1>6, <2>1, ZenonT(60) DEF Consents
  <2>4. thr'[v] = Idle => Found(thr'[v]) \subseteq done'
    BY IdleTraced
  <2> QED
    BY <2>2, <2>3, <2>4 DEF Trace
<1>7. CASE ResetCompleted(w)
  <2> DEFINE x == [Overlapped[w] EXCEPT !.at = "blank"]
  <2>1. thr[w].at = "unset" /\ done' = {} /\ eula' = eula /\ thr' = [Overlapped EXCEPT ![w] = x]
    BY <1>7 DEF ResetCompleted
  <2>2. thr[w] # Idle
    BY <2>1, IdleTyped
  <2>3. x.at = "blank" /\ x.overlapped = TRUE
    BY <1>0, <1>2, <2>2 DEF Thread
  <2>4. ~Consents(x)
    BY <2>3 DEF Consents
  <2>5. Resetting'
    BY <1>0, <1>4, <2>1, <2>3 DEF Resetting
  <2> QED
    BY <1>6, <2>1, <2>3, <2>4, <2>5 DEF Traced
<1>8. CASE ResetStep(w)
  <2>1. step' = "" /\ done' = done /\ eula' = eula /\ thr' = [Overlapped EXCEPT ![w] = Idle]
    BY <1>8 DEF ResetStep, AfterReset
  <2>2. StepsUpTo(step') \subseteq done'
    BY <2>1 DEF StepsUpTo
  <2> QED
    BY <1>6, <2>1, <2>2, IdleTraced DEF Traced
<1> QED
  BY <1>7, <1>8

\* A failure, and the end of the process.
LEMMA TraceFails ==
  ASSUME IInv, Traced, Restart \/ \E w \in Threads : FailsAtAnyStep(w)
  PROVE  Traced'
<1>1. ASSUME NEW w \in Threads, FailsAtAnyStep(w) PROVE Traced'
  <2>0. /\ UNCHANGED <<step, done, eula>> /\ Ends(w)
        /\ torn' = (torn \/ thr[w].at = "blank")
    BY <1>1 DEF FailsAtAnyStep, stored
  <2>1. CASE thr[w].at # "blank"
    <3>1. torn \in BOOLEAN
      BY DEF IInv, Typed, TypeOK
    <3>2. torn' = torn
      BY <2>0, <2>1, <3>1
    <3> QED
      BY <2>0, <2>1, <3>2, TraceEnds
  <2>2. CASE thr[w].at = "blank"
    <3>1. thr'[w] = Idle /\ \A v \in Threads : v # w => thr'[v] = thr[v]
      BY <2>0, EndsTyped DEF IInv
    <3>2. torn' = TRUE
      BY <2>0, <2>2
    <3>3. Resetting' => Resetting
      BY <3>1, IdleTyped, BossApart DEF Resetting
    <3>4. \A v \in Threads : Trace(v)'
      BY <2>0, <3>1, <3>2, <3>3, IdleTraced DEF Traced, Trace
    <3> QED
      BY <2>0, <3>2, <3>4 DEF Traced
  <2> QED
    BY <2>1, <2>2
<1>2. CASE Restart
  <2> DEFINE b == [Idle EXCEPT !.at = "boot", !.op = "auto"]
  <2>1. /\ UNCHANGED <<step, done, eula>> /\ torn' = (torn \/ Resetting)
        /\ \A v \in Threads : thr'[v] = IF v = Boss THEN b ELSE Idle
    BY <1>2 DEF Restart, stored
  <2>2. b.at = "boot"
    BY BootTyped DEF Idle
  <2>3. ~Consents(b)
    BY <2>2 DEF Consents
  <2> HIDE DEF b
  <2>4. \A v \in Threads : thr'[v].at # "blank"
    BY <2>1, <2>2, IdleTyped
  <2>5. ~Resetting'
    BY <2>4, BossApart DEF Resetting
  <2>6. \A v \in Threads : Trace(v)'
    BY <2>1, <2>3, <2>5, IdleTraced DEF Trace
  <2> QED
    BY <2>1, <2>6 DEF Traced
<1> QED
  BY <1>1, <1>2

\* What a request is when it begins.
Starts(t) ==
    /\ t.at \in {"accept", "step", "names", "unset"} /\ t.op # "auto"
    /\ t.at = "names" => t.op = "complete"
    /\ {"at", "op", "overlapped"} \subseteq DOMAIN t

\* A request that begins while a reset is under way is marked at once.
LEMMA TraceBegin ==
  ASSUME IInv, Traced, NEW w \in Workers,
         \/ Eula(w) \/ ApiUsers(w) \/ WizardUsers(w) \/ Plugins(w) \/ Finalize(w)
         \/ Complete(w) \/ Reset(w)
  PROVE  Traced'
<1>1. \E t : Begin(w, t) /\ Starts(t)
  <2>1. CASE ApiUsers(w) \/ WizardUsers(w)
    <3>1. \E p : Begin(w, [Idle EXCEPT !.at = "step", !.op = "users", !.todo = p])
      BY <2>1 DEF ApiUsers, WizardUsers
    <3>2. PICK p : Begin(w, [Idle EXCEPT !.at = "step", !.op = "users", !.todo = p])
      BY <3>1
    <3>3. Starts([Idle EXCEPT !.at = "step", !.op = "users", !.todo = p])
      BY DEF Starts, Idle
    <3> QED
      BY <3>2, <3>3
  <2>2. CASE Complete(w)
    <3>1. \E p : Begin(w, [Idle EXCEPT !.at = "names", !.op = "complete", !.todo = p])
      BY <2>2 DEF Complete
    <3>2. PICK p : Begin(w, [Idle EXCEPT !.at = "names", !.op = "complete", !.todo = p])
      BY <3>1
    <3>3. Starts([Idle EXCEPT !.at = "names", !.op = "complete", !.todo = p])
      BY DEF Starts, Idle
    <3> QED
      BY <3>2, <3>3
  <2>3. /\ Starts([Idle EXCEPT !.at = "accept", !.op = "eula"])
        /\ Starts([Idle EXCEPT !.at = "step", !.op = "plugins"])
        /\ Starts([Idle EXCEPT !.at = "step", !.op = "finalize"])
        /\ Starts([Idle EXCEPT !.at = "unset", !.op = "reset"])
    BY DEF Starts, Idle
  <2> QED
    BY <2>1, <2>2, <2>3 DEF Eula, Plugins, Finalize, Reset
<1>2. PICK t : Begin(w, t) /\ Starts(t)
  BY <1>1
<1> DEFINE x == [t EXCEPT !.overlapped = Resetting]
<1>3. x.at = t.at /\ x.op = t.op /\ x.overlapped = Resetting
  BY <1>2 DEF Starts
<1>4. /\ w \in Threads /\ thr' = [thr EXCEPT ![w] = x] /\ thr[w] = Idle
      /\ UNCHANGED <<step, eula, done, torn>>
  BY <1>2, BossApart DEF Begin, stored, history
<1>5. thr'[w] = x /\ \A v \in Threads : v # w => thr'[v] = thr[v]
  BY <1>4 DEF IInv, Typed
<1>6. Found(x) = {} /\ ~Consents(x) /\ x.at # "blank"
  BY <1>2, <1>3 DEF Starts, Found, Consents
<1> HIDE DEF x
<1> QED
  BY <1>3, <1>4, <1>5, <1>6, IdleTyped, TraceOn DEF Traced

\* The cache, and create_app before it serves.
LEMMA TraceAside ==
  ASSUME IInv, Traced, ReadRow \/ FillCache \/ Expire \/ AutoSetup \/ Boot
  PROVE  Traced'
<1>1. CASE ReadRow \/ FillCache \/ Expire
  <2>1. UNCHANGED <<step, eula, done, torn, thr>>
    BY <1>1 DEF ReadRow, FillCache, Expire, stored, history
  <2>2. \A v \in Threads : Trace(v)'
    BY <2>1 DEF Traced, Trace, Resetting
  <2> QED
    BY <2>1, <2>2 DEF Traced, Resetting
<1>2. CASE AutoSetup
  <2> DEFINE x == [thr[Boss] EXCEPT !.at = "accept", !.todo = <<[name |-> EnvAdmin, role |-> "admin"]>>]
  <2>0. Boss \in Threads /\ thr[Boss] \in Thread
    BY BossApart DEF IInv, Typed
  <2>1. x.at = "accept"
    BY <2>0 DEF Thread
  <2>2. thr[Boss].at = "boot" /\ thr' = [thr EXCEPT ![Boss] = x] /\ UNCHANGED <<step, eula, done, torn>>
    BY <1>2 DEF AutoSetup, stored, history
  <2>3. thr'[Boss] = x /\ \A v \in Threads : v # Boss => thr'[v] = thr[v]
    BY <2>0, <2>2 DEF IInv, Typed
  <2>4. ~Consents(x)
    BY <2>1 DEF Consents
  <2> HIDE DEF x
  <2> QED
    BY <2>0, <2>1, <2>2, <2>3, <2>4, TraceOn DEF Traced
<1>3. CASE Boot
  <2>1. Boss \in Threads /\ Ends(Boss) /\ thr[Boss].at # "blank" /\ UNCHANGED <<step, eula, done, torn>>
    BY <1>3, BossApart DEF Boot, history
  <2> QED
    BY <2>1, TraceEnds
<1> QED
  BY <1>1, <1>2, <1>3

\* The trace holds at the first start and after every step.
LEMMA SpecTraced == Spec => []Traced
<1>1. Init => Traced
  <2> SUFFICES ASSUME Init PROVE Traced
    OBVIOUS
  <2> DEFINE b == [Idle EXCEPT !.at = "boot", !.op = "auto"]
  <2>1. b.at = "boot"
    BY DEF Idle
  <2>2. ~Consents(b)
    BY <2>1 DEF Consents
  <2>3. \A v \in Threads : thr[v] = IF v = Boss THEN b ELSE Idle
    BY DEF Init
  <2> HIDE DEF b
  <2>4. \A v \in Threads : thr[v].at # "blank"
    BY <2>1, <2>3, IdleTyped
  <2>5. ~Resetting
    BY <2>4, BossApart DEF Resetting
  <2>6. \A v \in Threads : Trace(v)
    BY <2>2, <2>3, <2>5, IdleTraced DEF Trace
  <2>7. StepsUpTo(step) = {} /\ done = {}
    BY DEF Init, StepsUpTo
  <2> QED
    BY <2>6, <2>7 DEF Traced
<1>2. IInv /\ Traced /\ [Next]_vars => Traced'
  <2> SUFFICES ASSUME IInv, Traced, [Next]_vars PROVE Traced'
    OBVIOUS
  <2>1. CASE UNCHANGED vars
    <3>1. UNCHANGED <<step, eula, done, torn, thr>>
      BY <2>1 DEF vars, stored, history
    <3>2. \A v \in Threads : Trace(v)'
      BY <3>1 DEF Traced, Trace, Resetting
    <3> QED
      BY <3>1, <3>2 DEF Traced, Resetting
  <2>2. ASSUME NEW w \in Threads,
               \/ CheckStep(w) \/ CheckNames(w) \/ TakeLock(w) \/ AcceptEula(w)
               \/ CreateUser(w) \/ MarkStep(w) \/ CompleteSetup(w)
               \/ ReleaseLock(w) \/ ResetCompleted(w) \/ ResetStep(w) \/ FailsAtAnyStep(w)
        PROVE  Traced'
    BY <2>2, TracePoints, TraceMark, TraceReset, TraceFails
  <2> QED
    BY <2>1, <2>2, TraceAside, TraceFails, TraceBegin DEF Next
<1> QED
  BY SpecIInv, <1>1, <1>2, PTL DEF Spec

\* setup: a finalize that goes through had the EULA, users and plugins steps of
\* this setup done, unless a reset ran meanwhile or ended halfway.
THEOREM FinalizedInOrder == Spec => StepsDone
<1>1. IInv /\ Traced =>
        \A w \in Workers : thr[w].op = "finalize" /\ thr[w].at = "complete"
          => torn \/ thr[w].overlapped \/ (eula /\ done = {"eula", "users", "plugins"})
  <2> SUFFICES ASSUME IInv, Traced, NEW w \in Workers,
                      thr[w].op = "finalize", thr[w].at = "complete",
                      ~torn, ~thr[w].overlapped
               PROVE  eula /\ done = {"eula", "users", "plugins"}
    OBVIOUS
  <2>1. w \in Threads /\ w # Boss
    BY BossApart
  <2>2. Found(thr[w]) = {"eula", "users", "plugins"}
    BY DEF Found, StepsUpTo, All
  <2>3. Found(thr[w]) \subseteq done
    BY <2>1 DEF Traced, Trace
  <2>4. done \subseteq {"eula", "users", "plugins"}
    BY DEF IInv, Typed, TypeOK
  <2> QED
    BY <2>2, <2>3, <2>4 DEF Traced
<1>2. IInv /\ Traced /\ [Next]_vars =>
        [\A w \in Workers :
            thr[w].op = "finalize" /\ thr[w].at = "complete" /\ thr'[w].at = "unlock"
              => torn \/ thr[w].overlapped \/ (eula /\ done = {"eula", "users", "plugins"})]_vars
  BY <1>1
<1> QED
  BY SpecIInv, SpecTraced, <1>2, PTL DEF Spec, StepsDone

=============================================================================
