------------------------------- MODULE FirstRun -------------------------------
(***************************************************************************)
(* The first-run setup: its steps (EULA, users, plugins, summary) as wizard *)
(* pages and as API calls, the call that does all of it at once, the reset, *)
(* and the automatic setup at boot. Requests run in threads that switch at *)
(* every access to a store; the process may end at any of them, and only   *)
(* the database survives.                                                  *)
(*                                                                         *)
(* Accounts change only through the setup here (see Accounts for the rest).*)
(* Passwords, plugin rows and tokens are left out: that the database refuses *)
(* them is FailsAtAnyStep.                                                 *)
(***************************************************************************)
EXTENDS Naturals, Sequences

CONSTANTS
    Names,        \* usernames
    EnvAdmin,     \* OPENACE_ADMIN_USER
    Workers,      \* threads that serve requests
    Boss,         \* the thread that runs create_app
    None,
    MaxRequests,  \* bound: requests
    MaxRestarts   \* bound: restarts of the process

ASSUME FirstRunAssumption ==
    /\ EnvAdmin \in Names /\ Boss \notin Workers
    /\ None \notin Names \cup Workers \cup {Boss, "admin", "user", "true", "false"}
    /\ MaxRequests \in Nat /\ MaxRestarts \in Nat

VARIABLES
    completed,  \* setup_state.setup_completed is "true"
    step,       \* setup_state.setup_step
    eula,       \* a consent that is not revoked exists
    users,      \* role of each user, None without one
    cache,      \* setup_store._setup_complete_cache
    late,       \* a value some request has read from the row and not yet cached
    lock,       \* holder of _setup_complete_lock
    thr,        \* what each thread is at
    auto,       \* OPENACE_AUTO_SETUP, with a password and the EULA accepted
    up,         \* create_app has returned
    requests,   \* requests so far
    restarts,   \* restarts so far
    won,        \* history: completions since the last reset, two at most
    done,       \* history: steps done since the last reset
    stale,      \* history: the cache took a value the completion had replaced
    torn        \* history: the step outlived a reset

Threads == Workers \cup {Boss}

stored == <<completed, step, eula, users>>
memory == <<cache, late, lock>>
bounds == <<auto, requests, restarts>>
history == <<won, done, stale, torn>>
vars == <<stored, memory, thr, up, bounds, history>>

Steps == <<"eula", "users", "plugins", "summary">>
Roles == {"admin", "user"}
Account == [name : Names, role : Roles]
Ops == {"none", "eula", "users", "plugins", "finalize", "complete", "reset", "auto"}
Points == {"idle", "step", "names", "lock", "accept", "create", "mark",
           "complete", "unlock", "unset", "blank", "boot"}

\* overlapped is a history: a reset was under way at some time of the request.
Idle == [at |-> "idle", op |-> "none", todo |-> <<>>, overlapped |-> FALSE]

Init ==
    /\ completed = FALSE /\ step = "" /\ eula = FALSE
    /\ users = [n \in Names |-> None]
    /\ cache = None /\ late = None /\ lock = None
    /\ thr = [w \in Threads |-> IF w = Boss THEN [Idle EXCEPT !.at = "boot", !.op = "auto"] ELSE Idle]
    /\ auto \in BOOLEAN
    /\ up = FALSE /\ requests = 0 /\ restarts = 0
    /\ won = 0 /\ done = {} /\ stale = FALSE /\ torn = FALSE

Index(s) == CHOOSE i \in 1..Len(Steps) : Steps[i] = s

StepReached(s) == step # "" /\ Index(step) >= Index(s)

UserCount == {n \in Names : users[n] # None}
FirstBoot == UserCount = {}
Admins == {n \in Names : users[n] = "admin"}

\* is_setup_required: the cache, or else the row.
SetupRequired == IF cache = None THEN ~completed ELSE cache = "false"

-----------------------------------------------------------------------------
(* The cache of is_setup_required, as any request may leave it.            *)

AsText(b) == IF b THEN "true" ELSE "false"

ReadRow ==
    /\ up /\ cache = None /\ late = None
    /\ late' = AsText(completed)
    /\ UNCHANGED <<stored, cache, lock, thr, up, bounds, history>>

FillCache ==
    /\ late # None
    /\ cache' = late /\ late' = None
    /\ stale' = (stale \/ (completed /\ cache' = "false"))
    /\ UNCHANGED <<stored, lock, thr, up, bounds, won, done, torn>>

Expire ==
    /\ cache # None
    /\ cache' = None
    /\ UNCHANGED <<stored, late, lock, thr, up, bounds, history>>

-----------------------------------------------------------------------------
(* Requests. The guard lets through who sets up an application without     *)
(* users, or an administrator.                                             *)

Guard == SetupRequired /\ (FirstBoot \/ Admins # {})

Resetting == \E v \in Workers : thr[v].at = "blank"

Begin(w, t) ==
    /\ up /\ thr[w] = Idle /\ requests < MaxRequests
    /\ requests' = requests + 1
    /\ thr' = [thr EXCEPT ![w] = [t EXCEPT !.overlapped = Resetting]]
    /\ UNCHANGED <<stored, memory, auto, up, restarts, history>>

Eula(w) == Guard /\ Begin(w, [Idle EXCEPT !.at = "accept", !.op = "eula"])

\* Who is created: an administrator, first of all, and perhaps another user.
\* More administrators would change nothing.
Ordered(first, second) ==
    {<<[name |-> n, role |-> "admin"]>> : n \in Names}
        \cup {p \in [1..2 -> Account] :
                 p[1].name # p[2].name /\ p[1].role = first /\ p[2].role = second}

\* Mutant: the administrator is created last.
AdminLast == Ordered("user", "admin")

AdminFirst == Ordered("admin", "user")

ApiUsers(w) ==
    /\ Guard
    /\ \E p \in AdminFirst : Begin(w, [Idle EXCEPT !.at = "step", !.op = "users", !.todo = p])

\* With users already there, the wizard also skips the step or adds more of them.
WizardUsers(w) ==
    /\ Guard /\ ~FirstBoot
    /\ \E p \in {<<>>} \cup {<<a>> : a \in [name : Names, role : {"user"}]} :
          Begin(w, [Idle EXCEPT !.at = "step", !.op = "users", !.todo = p])

Plugins(w) == Guard /\ Begin(w, [Idle EXCEPT !.at = "step", !.op = "plugins"])

Finalize(w) == Guard /\ Begin(w, [Idle EXCEPT !.at = "step", !.op = "finalize"])

\* All at once: no step is required, and whether a setup is comes later.
Complete(w) ==
    /\ FirstBoot \/ Admins # {}
    /\ \E p \in AdminFirst : Begin(w, [Idle EXCEPT !.at = "names", !.op = "complete", !.todo = p])

Reset(w) == Admins # {} /\ Begin(w, [Idle EXCEPT !.at = "unset", !.op = "reset"])

-----------------------------------------------------------------------------
(* Their steps.                                                            *)

Goto(w, point) == thr' = [thr EXCEPT ![w].at = point]
Ends(w) == thr' = [thr EXCEPT ![w] = Idle]

Required(op) == CASE op = "users" -> "eula" [] op = "plugins" -> "users" [] op = "finalize" -> "plugins"

\* The step is looked at once, and not again.
CheckStep(w) ==
    /\ thr[w].at = "step"
    /\ IF ~StepReached(Required(thr[w].op)) THEN Ends(w)
       ELSE Goto(w, CASE thr[w].op = "users" -> "names"
                      [] thr[w].op = "plugins" -> "mark"
                      [] thr[w].op = "finalize" -> "lock")
    /\ UNCHANGED <<stored, memory, up, bounds, history>>

\* 409 when a name is taken. A skipped step needs users.
CheckNames(w) ==
    /\ thr[w].at = "names"
    /\ IF \E i \in DOMAIN thr[w].todo : users[thr[w].todo[i].name] # None THEN Ends(w)
       ELSE Goto(w, IF thr[w].op = "complete" THEN "lock"
                    ELSE IF thr[w].todo = <<>> THEN "mark" ELSE "create")
    /\ UNCHANGED <<stored, memory, up, bounds, history>>

\* Mutant: whether a setup is required is not asked again under the lock.
WasRequired == TRUE

StillRequired == SetupRequired

\* complete_setup_atomic.
TakeLock(w) ==
    /\ thr[w].at = "lock" /\ lock = None
    /\ IF StillRequired
       THEN lock' = w /\ Goto(w, IF thr[w].op = "complete" THEN "accept" ELSE "complete")
       ELSE Ends(w) /\ UNCHANGED lock
    /\ UNCHANGED <<stored, cache, late, up, bounds, history>>

AcceptEula(w) ==
    /\ thr[w].at = "accept"
    /\ eula' = TRUE
    /\ Goto(w, IF thr[w].op = "eula" THEN "mark" ELSE "create")
    /\ UNCHANGED <<completed, step, users, memory, up, bounds, history>>

\* Creating a name that has been taken meanwhile fails: see FailsAtAnyStep.
CreateUser(w) ==
    /\ thr[w].at = "create"
    /\ LET a == Head(thr[w].todo) IN
       /\ users[a.name] = None
       /\ users' = [users EXCEPT ![a.name] = a.role]
    /\ thr' = [thr EXCEPT ![w].todo = Tail(@),
                          ![w].at = IF Len(thr[w].todo) = 1 THEN "mark" ELSE "create"]
    /\ UNCHANGED <<completed, step, eula, memory, up, bounds, history>>

\* Mutant: the plugins step writes down the page that comes next.
MarkNext(op) == IF op \in {"eula", "users"} THEN op ELSE "summary"

\* The step each handler leaves behind.
MarkOf(op) == IF op \in {"eula", "users"} THEN op ELSE "plugins"

MarkStep(w) ==
    /\ thr[w].at = "mark"
    /\ step' = MarkOf(thr[w].op)
    /\ done' = IF thr[w].op \in {"complete", "auto"} THEN {"eula", "users", "plugins"}
               ELSE done \cup {thr[w].op}
    /\ torn' = (torn \/ thr[w].overlapped)
    /\ IF thr[w].op \in {"complete", "auto"} THEN Goto(w, "complete") ELSE Ends(w)
    /\ UNCHANGED <<completed, eula, users, memory, up, bounds, won, stale>>

\* set_state writes the completion through to the cache.
CompleteSetup(w) ==
    /\ thr[w].at = "complete"
    /\ completed' = TRUE /\ cache' = "true"
    /\ won' = IF won < 2 THEN won + 1 ELSE won
    /\ Goto(w, IF thr[w].op = "auto" THEN "boot" ELSE "unlock")
    /\ UNCHANGED <<step, eula, users, late, lock, up, bounds, done, stale, torn>>

\* Once the administrator's token is made and the plugins are started.
ReleaseLock(w) ==
    /\ thr[w].at = "unlock"
    /\ lock' = None
    /\ Ends(w)
    /\ UNCHANGED <<stored, cache, late, up, bounds, history>>

Overlapped == [v \in Threads |-> IF thr[v] = Idle THEN thr[v] ELSE [thr[v] EXCEPT !.overlapped = TRUE]]

ResetCompleted(w) ==
    /\ thr[w].at = "unset"
    /\ completed' = FALSE /\ cache' = "false"
    /\ won' = 0 /\ done' = {} /\ stale' = FALSE
    /\ thr' = [Overlapped EXCEPT ![w].at = "blank"]
    /\ UNCHANGED <<step, eula, users, late, lock, up, bounds, torn>>

\* Mutant: the reset leaves the step.
KeptStep == step

AfterReset == ""

ResetStep(w) ==
    /\ thr[w].at = "blank"
    /\ step' = AfterReset /\ torn' = FALSE
    /\ thr' = [Overlapped EXCEPT ![w] = Idle]
    /\ UNCHANGED <<completed, eula, users, memory, up, bounds, won, done, stale>>

\* A database error, or a name taken since it was checked: the request ends
\* there, and the lock is released. At boot the process ends.
FailsAtAnyStep(w) ==
    /\ up /\ thr[w] # Idle
    /\ lock' = IF lock = w THEN None ELSE lock
    /\ torn' = (torn \/ thr[w].at = "blank")
    /\ Ends(w)
    /\ UNCHANGED <<stored, cache, late, up, bounds, won, done, stale>>

-----------------------------------------------------------------------------
(* The process.                                                            *)

Restart ==
    /\ restarts < MaxRestarts
    /\ restarts' = restarts + 1
    /\ cache' = None /\ late' = None /\ lock' = None /\ up' = FALSE
    /\ thr' = [w \in Threads |-> IF w = Boss THEN [Idle EXCEPT !.at = "boot", !.op = "auto"] ELSE Idle]
    /\ torn' = (torn \/ Resetting)
    /\ UNCHANGED <<stored, auto, requests, won, done, stale>>

\* It creates an administrator whatever the users table holds.
AutoSetup ==
    /\ thr[Boss].at = "boot" /\ auto /\ SetupRequired
    /\ thr' = [thr EXCEPT ![Boss].at = "accept",
                          ![Boss].todo = <<[name |-> EnvAdmin, role |-> "admin"]>>]
    /\ UNCHANGED <<stored, memory, up, bounds, history>>

\* A completed setup without users gets an administrator.
EnsureAdmin ==
    IF ~SetupRequired /\ FirstBoot THEN [users EXCEPT ![EnvAdmin] = "admin"] ELSE users

Boot ==
    /\ thr[Boss].at = "boot" /\ ~(auto /\ SetupRequired)
    /\ users' = EnsureAdmin
    /\ up' = TRUE
    /\ Ends(Boss)
    /\ UNCHANGED <<completed, step, eula, memory, bounds, history>>

Next ==
    \/ ReadRow \/ FillCache \/ Expire \/ Restart \/ AutoSetup \/ Boot
    \/ \E w \in Workers :
          \/ Eula(w) \/ ApiUsers(w) \/ WizardUsers(w) \/ Plugins(w) \/ Finalize(w)
          \/ Complete(w) \/ Reset(w)
    \/ \E w \in Threads :
          \/ CheckStep(w) \/ CheckNames(w) \/ TakeLock(w) \/ AcceptEula(w)
          \/ CreateUser(w) \/ MarkStep(w) \/ CompleteSetup(w)
          \/ ReleaseLock(w) \/ ResetCompleted(w) \/ ResetStep(w) \/ FailsAtAnyStep(w)

Spec == Init /\ [][Next]_vars

-----------------------------------------------------------------------------
(* Properties.                                                             *)

\* Variables have their types.
TypeOK ==
    /\ completed \in BOOLEAN /\ eula \in BOOLEAN
    /\ step \in {"", "eula", "users", "plugins"}
    /\ users \in [Names -> Roles \cup {None}]
    /\ cache \in {"true", "false", None} /\ late \in {"true", "false", None}
    /\ lock \in Workers \cup {None}
    /\ \A w \in Threads :
          /\ thr[w].at \in Points /\ thr[w].op \in Ops /\ thr[w].overlapped \in BOOLEAN
          /\ thr[w].todo \in {<<>>} \cup {<<a>> : a \in Account} \cup [1..2 -> Account]
    /\ auto \in BOOLEAN /\ up \in BOOLEAN
    /\ requests \in 0..MaxRequests /\ restarts \in 0..MaxRestarts
    /\ won \in 0..2 /\ done \subseteq {"eula", "users", "plugins"}
    /\ stale \in BOOLEAN /\ torn \in BOOLEAN

\* Concurrent completions cannot both succeed (setup_store.py:111), be they of
\* the wizard, the API or the call that does it all: the setup completes once
\* between two resets. Only a reader that puts the replaced value back in the
\* cache can open it a second time.
SingleCompletion == ~stale => won <= 1

\* Nobody is locked out, wherever a request or the process ends: as soon as there
\* is a user there is an administrator, who may go on with the setup, and a
\* completed setup has one.
AdministratorExists == completed \/ ~FirstBoot => Admins # {}

\* A setup is finalized after the EULA, users and plugins steps of this setup,
\* not of the one before the last reset. Only a request that ran while a reset
\* did, or a reset that ended halfway, lets old steps count.
StepsDone ==
    [][\A w \in Workers :
          thr[w].op = "finalize" /\ thr[w].at = "complete" /\ thr'[w].at = "unlock"
              => torn \/ thr[w].overlapped \/ (eula /\ done = {"eula", "users", "plugins"})]_vars

=============================================================================
