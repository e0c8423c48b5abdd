------------------------------- MODULE Accounts -------------------------------
(***************************************************************************)
(* Accounts, sessions, tokens and the guard in front of every request:     *)
(* auth_store over its three tables, _auth_guard with its four ways to     *)
(* authenticate, and the routes that change accounts. A request is a thread *)
(* that switches at every access to a table, a cache or a limiter, so other *)
(* requests and time come between any two of them.                         *)
(*                                                                         *)
(* AUTH_ENABLED is on. Requests come from one address: attempts of others  *)
(* count apart. A write may be refused before or after it is authenticated, *)
(* whatever its Origin and CSRF token are and however many came before it. *)
(* Refusals by validation change nothing and are left out, and so are      *)
(* last_login, descriptions and the rename, whose effect is that of any    *)
(* other update. What a request says is chosen where it is first read.     *)
(***************************************************************************)
EXTENDS Naturals, Functions

CONSTANTS
    Names,         \* usernames
    Passwords,
    Credentials,   \* names and passwords that requests carry
    First,         \* the name and password of the administrator of the setup
    FirstPassword,
    Sessions,      \* session identifiers: each is given out once
    Tokens,        \* API tokens, likewise
    Threads,
    None,
    MaxUsers,      \* bound: accounts, numbered as the table does
    Life,          \* SESSION_DURATION_HOURS
    BasicTTL,      \* _BASIC_AUTH_TTL_S
    LoginLimit, LoginWindow,   \* password attempts per window
    MaxTime,       \* bound: instants
    MaxRequests    \* bound: requests

ASSUME AccountsAssumption ==
    /\ Credentials \subseteq Names \X Passwords
    /\ First \in Names /\ FirstPassword \in Passwords
    /\ None \notin Names \cup Passwords \cup Sessions \cup Tokens \cup {"session", "token", "basic"}
    /\ MaxUsers \in Nat \ {0}
    /\ Life \in Nat \ {0} /\ BasicTTL \in Nat \ {0}
    /\ LoginLimit \in Nat /\ LoginWindow \in Nat
    /\ MaxTime \in Nat /\ MaxRequests \in Nat

VARIABLES
    users,     \* rows of users
    sessions,  \* rows of sessions, and what became of those that went
    tokens,    \* rows of api_tokens
    basic,     \* _basic_auth_cache
    tries,     \* _login_attempts: how many there were at each instant of the window
    thr,       \* what each thread is at
    now,       \* the clock
    requests   \* requests so far

tables == <<users, sessions, tokens>>
vars == <<tables, basic, tries, thr, now, requests>>

Instants == 0..MaxTime
Ids == 1..MaxUsers
\* A viewer may do what a user may, as far as this module goes.
Roles == {"admin", "user"}

\* What the guard knows of an account: with a password, that it was the right one.
Whos == [id : Ids, role : Roles, pw : Passwords \cup {None}]

\* A row that is not in its table is kept as what it was.
Account == [in : BOOLEAN, used : BOOLEAN, name : Names, pw : Passwords, role : Roles,
            enabled : BOOLEAN, exp : Instants \cup {None}]
SessionRow == [is : {"unused", "in", "ended", "expired", "overtaken"}, user : Ids,
               made : Instants, exp : 0..(MaxTime + Life)]
TokenRow == [is : {"unused", "in", "ended"}, user : Ids, exp : Instants \cup {None}]

\* An account that has expired before now is like one that is disabled; that a
\* later expiry comes is like setting it then.
Changes == [field : {"role"}, to : Roles] \cup [field : {"enabled"}, to : {"yes", "no", "NO"}]
           \cup [field : {"pw"}, to : Passwords] \cup [field : {"exp"}, to : {now}]

\* A page, a login, a logout, or an operation of administrators.
Ops == {"read", "login", "logout", "admin"}

Idle == [at |-> "idle", op |-> "read", session |-> None, token |-> None, form |-> None,
         target |-> None, change |-> None, began |-> 0, start |-> 0,
         user |-> None, method |-> None, end |-> None]

InUsers(i) == users[i].in
InTable(s) == sessions[s].is = "in"

\* is_user_expired.
Expired(u) == u.exp # None /\ u.exp < now

\* _is_valid, in _try_authenticate.
Valid(i) == users[i].in /\ users[i].enabled /\ ~Expired(users[i])

\* What was looked up is still true after this step.
StillTrue(u) ==
    LET a == users'[u.id] IN
    /\ a.in /\ a.enabled /\ (a.exp = None \/ a.exp >= now')
    /\ a.role = u.role /\ (u.pw = None \/ a.pw = u.pw)

\* History: an account that was looked up, for a request or for the cache, keeps
\* the time when it was true for the last time, if it is not any more.
Ended(x) == IF x.end = None /\ ~StillTrue(x.user) THEN [x EXCEPT !.end = now] ELSE x
Aged(f) == thr' = [t \in Threads |-> IF f[t].method = None THEN f[t] ELSE Ended(f[t])]
AgedCache(f) == basic' = [c \in Credentials |-> IF f[c] = None THEN None ELSE Ended(f[c])]

NoTries == [a \in Instants |-> 0]

\* The setup left an administrator.
Init ==
    /\ users = [i \in Ids |->
                  [in |-> i = 1, used |-> i = 1, name |-> First, pw |-> FirstPassword,
                   role |-> "admin", enabled |-> TRUE, exp |-> None]]
    /\ sessions = [s \in Sessions |-> [is |-> "unused", user |-> 1, made |-> 0, exp |-> 0]]
    /\ tokens = [k \in Tokens |-> [is |-> "unused", user |-> 1, exp |-> None]]
    /\ basic = [c \in Credentials |-> None]
    /\ tries = NoTries
    /\ thr = [t \in Threads |-> Idle]
    /\ now = 0 /\ requests = 0

\* Attempts that leave their window and cached credentials past their time to
\* live are dropped as they age: the code ignores them where it reads and purges
\* them now and then.
Kept(c) == basic[c] # None /\ (now + 1) - basic[c].ts < BasicTTL

Tick ==
    /\ now < MaxTime
    /\ now' = now + 1
    /\ UNCHANGED <<tables, requests>>
    /\ tries' = [a \in Instants |-> IF (now + 1) - a < LoginWindow THEN tries[a] ELSE 0]
    /\ AgedCache([c \in Credentials |-> IF Kept(c) THEN basic[c] ELSE None])
    /\ Aged(thr)

Go(t, at) == thr' = [thr EXCEPT ![t].at = at]
Finish(t) == thr' = [thr EXCEPT ![t] = Idle]

-----------------------------------------------------------------------------
(* The guard.                                                              *)

\* Clients use the sessions and tokens they were given.
Cookies == {s \in Sessions : sessions[s].is # "unused"}
Issued == {k \in Tokens : tokens[k].is # "unused"}

\* Where the guard looks first, and next.
FirstOf(s, k, password) ==
    IF s # None THEN "session" ELSE IF k # None THEN "token"
    ELSE IF password THEN "attempt" ELSE "in"

\* A write of another Origin, or one too many for the limiter of writes, is refused
\* unread.
OriginRefuses(op) == op # "read"

\* A cookie, a token, a password, or none of them.
Ask(t) ==
    /\ thr[t] = Idle /\ requests < MaxRequests
    /\ requests' = requests + 1
    /\ \E op \in Ops, s \in Cookies \cup {None}, k \in Issued \cup {None} :
       \/ OriginRefuses(op) /\ UNCHANGED thr
       \/ \E password \in BOOLEAN :
             thr' = [thr EXCEPT ![t] = [Idle EXCEPT !.at = FirstOf(s, k, password), !.op = op,
                                                    !.session = s, !.token = k, !.began = now]]
    /\ UNCHANGED <<tables, basic, tries, now>>

\* Mutant: a session is renewed while it has much of its life left.
RenewEarly(s) == 4 * (sessions[s].exp - now) > sessions[s].exp - sessions[s].made

ShouldRenew(s) == 4 * (sessions[s].exp - now) < sessions[s].exp - sessions[s].made

Who(i, pw) == [id |-> i, role |-> users[i].role, pw |-> pw]

\* Without a valid account, the next credential is tried: the token, or else a
\* password, if there is one.
Another(t) ==
    \/ thr[t].token # None /\ Go(t, "token")
    \/ thr[t].token = None /\ \E at \in {"attempt", "in"} : Go(t, at)

\* get_session_with_user.
BySession(t) ==
    LET s == thr[t].session
        live == InTable(s) /\ sessions[s].exp >= now
        i == sessions[s].user
    IN
    /\ thr[t].at = "session"
    /\ \/ InTable(s) /\ ~live /\ Go(t, "expired")
       \/ /\ live /\ Valid(i)
          /\ thr' = [thr EXCEPT ![t].at = IF ShouldRenew(s) THEN "renew" ELSE "in",
                                ![t].user = Who(i, None), ![t].method = "session"]
       \/ ~InTable(s) /\ Another(t)
       \/ live /\ ~Valid(i) /\ Another(t)
    /\ UNCHANGED <<tables, basic, tries, now, requests>>

BeingRenewed(s) == \E t \in Threads : thr[t].at = "renew" /\ thr[t].session = s

\* The session is gone for a reason; by expiry, it may have been renewed meanwhile
\* or be about to be.
Removed(s, why) ==
    IF ~InTable(s) THEN sessions[s]
    ELSE [sessions[s] EXCEPT !.is =
            IF why = "expired" /\ (sessions[s].exp >= now \/ BeingRenewed(s))
            THEN "overtaken" ELSE why]

\* What was found expired is deleted by a later statement, under the lock.
DeleteExpired(t) ==
    LET s == thr[t].session IN
    /\ thr[t].at = "expired"
    /\ sessions' = [sessions EXCEPT ![s] = Removed(s, "expired")]
    /\ Another(t)
    /\ UNCHANGED <<users, tokens, basic, tries, now, requests>>

\* An update of a row that is gone changes nothing.
Renew(t) ==
    LET s == thr[t].session IN
    /\ thr[t].at = "renew"
    /\ sessions' = IF InTable(s) THEN [sessions EXCEPT ![s].exp = now + Life] ELSE sessions
    /\ Go(t, "in")
    /\ UNCHANGED <<users, tokens, basic, tries, now, requests>>

\* get_token_with_user, for a bearer token or a parameter of the query.
ByToken(t) ==
    LET k == tokens[thr[t].token]
        valid == k.is = "in" /\ ~Expired(k) /\ Valid(k.user)
    IN
    /\ thr[t].at = "token"
    /\ IF valid
       THEN thr' = [thr EXCEPT ![t].at = "in", ![t].user = Who(k.user, None),
                               ![t].method = "token"]
       ELSE \E at \in {"attempt", "in"} : Go(t, at)
    /\ UNCHANGED <<tables, basic, tries, now, requests>>

LoginAdmits == SumFunction(tries) < LoginLimit

\* check_and_record_login_attempt: a refused one leaves the request anonymous.
Attempt(t) ==
    /\ thr[t].at = "attempt"
    /\ IF LoginAdmits
       THEN tries' = [tries EXCEPT ![now] = @ + 1]
            /\ thr' = [thr EXCEPT ![t].at = "lookup", ![t].start = now]
       ELSE Go(t, "in") /\ UNCHANGED tries
    /\ UNCHANGED <<tables, basic, now, requests>>

Lookup(t) ==
    /\ thr[t].at = "lookup"
    /\ \E c \in Credentials :
          LET e == basic[c] IN
          thr' = IF e # None /\ thr[t].start < e.ts + BasicTTL
                 THEN [thr EXCEPT ![t].at = "clear", ![t].user = e.user,
                                  ![t].end = e.end, ![t].method = "basic"]
                 ELSE [thr EXCEPT ![t].at = "verify", ![t].form = c]
    /\ UNCHANGED <<tables, basic, tries, now, requests>>

\* verify_password.
Verified(c) == {i \in Ids : Valid(i) /\ users[i].name = c[1] /\ users[i].pw = c[2]}

Verify(t) ==
    LET c == thr[t].form IN
    /\ thr[t].at = "verify"
    /\ \/ Verified(c) = {} /\ thr' = [thr EXCEPT ![t].at = "in", ![t].form = None]
       \/ \E i \in Verified(c) :
             thr' = [thr EXCEPT ![t].at = "fill", ![t].user = Who(i, c[2]),
                                ![t].method = "basic"]
    /\ UNCHANGED <<tables, basic, tries, now, requests>>

\* Mutant: verified credentials are stamped when they are stored.
StampOfFill(t) == now

Stamp(t) == thr[t].start

Fill(t) ==
    /\ thr[t].at = "fill"
    /\ basic' = [basic EXCEPT ![thr[t].form] =
                    [user |-> thr[t].user, ts |-> Stamp(t), end |-> thr[t].end]]
    /\ thr' = [thr EXCEPT ![t].at = "clear", ![t].form = None]
    /\ UNCHANGED <<tables, tries, now, requests>>

ClearAttempts(t) ==
    /\ thr[t].at = "clear"
    /\ tries' = NoTries
    /\ Go(t, "in")
    /\ UNCHANGED <<tables, basic, now, requests>>

\* One request in a hundred deletes what has expired.
Cleanup(t) ==
    /\ thr[t].at = "in" /\ \E s \in Sessions : InTable(s) /\ sessions[s].exp < now
    /\ sessions' = [s \in Sessions |->
                      IF sessions[s].exp < now THEN Removed(s, "expired") ELSE sessions[s]]
    /\ UNCHANGED <<users, tokens, basic, tries, thr, now, requests>>

\* Login and logout are open to all, a page to every account, accounts and
\* tokens to administrators.
MayPass(t) ==
    \/ thr[t].op \in {"login", "logout"}
    \/ thr[t].op = "read" /\ thr[t].user # None
    \/ thr[t].op = "admin" /\ thr[t].user # None /\ thr[t].user.role = "admin"

\* A write that a session lets in may lack its CSRF token: login and logout need
\* none. The session is renewed by then.
CsrfRefuses(t) == thr[t].op = "admin" /\ thr[t].method = "session"

\* A page is rendered, a logout without a cookie does nothing.
Answer(t) ==
    /\ thr[t].at = "in"
    /\ \/ ~MayPass(t) \/ CsrfRefuses(t)
       \/ thr[t].op = "read"
       \/ thr[t].op = "logout" /\ thr[t].session = None
    /\ Finish(t)
    /\ UNCHANGED <<tables, basic, tries, now, requests>>

Admitted(t, op) == thr[t].at = "in" /\ thr[t].op = op /\ MayPass(t)

\* Of what the guard knows, a handler uses the account only.
Handle(t, at, target, change) ==
    thr' = [thr EXCEPT ![t] = [Idle EXCEPT !.at = at, !.op = "admin", !.user = thr[t].user,
                                           !.target = target, !.change = change]]

-----------------------------------------------------------------------------
(* Login and logout.                                                       *)

LoginAttempt(t) ==
    /\ Admitted(t, "login")
    /\ IF LoginAdmits
       THEN /\ tries' = [tries EXCEPT ![now] = @ + 1]
            /\ thr' = [thr EXCEPT ![t] = [Idle EXCEPT !.at = "check", !.op = "login",
                                                      !.session = thr[t].session]]
       ELSE Finish(t) /\ UNCHANGED tries
    /\ UNCHANGED <<tables, basic, now, requests>>

LoginVerify(t) ==
    /\ thr[t].at = "check"
    /\ \/ (\E c \in Credentials : Verified(c) = {}) /\ Finish(t)
       \/ \E c \in Credentials : \E i \in Verified(c) :
             thr' = [thr EXCEPT ![t].at = "welcome", ![t].user = Who(i, None)]
    /\ UNCHANGED <<tables, basic, tries, now, requests>>

LoginClear(t) ==
    /\ thr[t].at = "welcome"
    /\ tries' = NoTries
    /\ Go(t, IF thr[t].session = None THEN "insert" ELSE "replace")
    /\ UNCHANGED <<tables, basic, now, requests>>

\* The session of the old cookie is deleted, and so is one that logs out.
ReplaceSession(t) ==
    LET s == thr[t].session IN
    /\ thr[t].at = "replace"
    /\ sessions' = [sessions EXCEPT ![s] = Removed(s, "ended")]
    /\ thr' = [thr EXCEPT ![t].at = "insert", ![t].session = None]
    /\ UNCHANGED <<users, tokens, basic, tries, now, requests>>

Logout(t) ==
    LET s == thr[t].session IN
    /\ Admitted(t, "logout") /\ s # None
    /\ sessions' = [sessions EXCEPT ![s] = Removed(s, "ended")]
    /\ Finish(t)
    /\ UNCHANGED <<users, tokens, basic, tries, now, requests>>

\* Mutant: the database does not enforce foreign keys.
NoReference(i) == TRUE

\* A row that refers to an account that is gone is refused.
References(i) == InUsers(i)

CreateSession(t) ==
    LET i == thr[t].user.id IN
    /\ thr[t].at = "insert"
    /\ IF References(i)
       THEN \E s \in Sessions :
               /\ sessions[s].is = "unused"
               /\ sessions' = [sessions EXCEPT ![s] =
                                 [is |-> "in", user |-> i, made |-> now, exp |-> now + Life]]
       ELSE UNCHANGED sessions
    /\ Finish(t)
    /\ UNCHANGED <<users, tokens, basic, tries, now, requests>>

-----------------------------------------------------------------------------
(* Accounts and tokens.                                                    *)

Taken(n) == \E i \in Ids : InUsers(i) /\ users[i].name = n

NextId == {i \in Ids : ~users[i].used /\ \A j \in 1..(i - 1) : users[j].used}

NameFree(t) ==
    /\ Admitted(t, "admin")
    /\ \E n \in Names : IF Taken(n) THEN Finish(t) ELSE Handle(t, "create", n, None)
    /\ UNCHANGED <<tables, basic, tries, now, requests>>

\* The name is unique: what another request created meanwhile is not replaced.
CreateUser(t) ==
    LET n == thr[t].target IN
    /\ thr[t].at = "create"
    /\ \/ Taken(n) /\ UNCHANGED users
       \/ /\ ~Taken(n)
          /\ \E i \in NextId, r \in Roles :
                users' = [users EXCEPT ![i] =
                   [in |-> TRUE, used |-> TRUE, name |-> n, pw |-> FirstPassword, role |-> r,
                    enabled |-> TRUE, exp |-> None]]
    /\ Finish(t)
    /\ UNCHANGED <<sessions, tokens, basic, tries, now, requests>>

\* Only what _parse_bool takes for true enables an account.
Changed(u, c) ==
    [u EXCEPT ![c.field] = IF c.field = "enabled" THEN c.to = "yes" ELSE c.to]

\* Mutant: an administrator may change the own account like any other.
NothingForbidden(c) == FALSE

\* An administrator may not degrade or disable the own account, but the guard
\* does not know every value that disables.
SelfForbidden(c) ==
    c \in [field : {"role"}, to : Roles \ {"admin"}] \cup [field : {"enabled"}, to : {"no"}]

\* An update that says what the row says already is left out, and so is the odd
\* spelling where it makes no difference.
FindToChange(t) ==
    /\ Admitted(t, "admin")
    /\ \E i \in Ids, c \in Changes :
          IF InUsers(i) /\ ~(thr[t].user.id = i /\ SelfForbidden(c))
          THEN /\ Changed(users[i], c) # users[i]
               /\ (c.field = "enabled" /\ c.to = "NO") => thr[t].user.id = i
               /\ Handle(t, "update", i, c)
          ELSE Finish(t)
    /\ UNCHANGED <<tables, basic, tries, now, requests>>

\* Nor delete it.
FindToDelete(t) ==
    /\ Admitted(t, "admin")
    /\ \E i \in Ids :
          IF InUsers(i) /\ thr[t].user.id # i
          THEN Handle(t, "delete", i, None)
          ELSE Finish(t)
    /\ UNCHANGED <<tables, basic, tries, now, requests>>

UpdateUser(t) ==
    LET i == thr[t].target IN
    /\ thr[t].at = "update"
    /\ users' = IF InUsers(i) THEN [users EXCEPT ![i] = Changed(@, thr[t].change)] ELSE users
    /\ UNCHANGED <<sessions, tokens, tries, now, requests>>
    /\ Aged([thr EXCEPT ![t] = [Idle EXCEPT !.at = "forget"]]) /\ AgedCache(basic)

\* One transaction; the cache is left alone when there was nothing to delete.
DeleteUser(t) ==
    LET i == thr[t].target IN
    /\ thr[t].at = "delete"
    /\ sessions' = [s \in Sessions |->
                      IF sessions[s].user = i THEN Removed(s, "ended") ELSE sessions[s]]
    /\ tokens' = [k \in Tokens |->
                    IF tokens[k].is = "in" /\ tokens[k].user = i
                    THEN [tokens[k] EXCEPT !.is = "ended"] ELSE tokens[k]]
    /\ users' = [users EXCEPT ![i].in = FALSE]
    /\ UNCHANGED <<tries, now, requests>>
    /\ Aged([thr EXCEPT ![t] = IF InUsers(i) THEN [Idle EXCEPT !.at = "forget"] ELSE Idle])
    /\ AgedCache(basic)

\* _invalidate_basic_auth_cache.
Forget(t) ==
    /\ thr[t].at = "forget"
    /\ basic' = [c \in Credentials |-> None]
    /\ Finish(t)
    /\ UNCHANGED <<tables, tries, now, requests>>

Owner(t) ==
    /\ Admitted(t, "admin")
    /\ \E i \in Ids :
          IF InUsers(i) THEN Handle(t, "issue", i, None) ELSE Finish(t)
    /\ UNCHANGED <<tables, basic, tries, now, requests>>

CreateToken(t) ==
    LET i == thr[t].target IN
    /\ thr[t].at = "issue"
    /\ IF References(i)
       THEN \E k \in Tokens, e \in {now, None} :
               /\ tokens[k].is = "unused"
               /\ tokens' = [tokens EXCEPT ![k] = [is |-> "in", user |-> i, exp |-> e]]
       ELSE UNCHANGED tokens
    /\ Finish(t)
    /\ UNCHANGED <<users, sessions, basic, tries, now, requests>>

DeleteToken(t) ==
    /\ Admitted(t, "admin")
    /\ \E k \in Issued :
          tokens' = IF tokens[k].is = "in" THEN [tokens EXCEPT ![k].is = "ended"] ELSE tokens
    /\ Finish(t)
    /\ UNCHANGED <<users, sessions, basic, tries, now, requests>>

-----------------------------------------------------------------------------
Next ==
    \/ Tick
    \/ \E t \in Threads :
          \/ Ask(t)
          \/ BySession(t) \/ DeleteExpired(t) \/ Renew(t) \/ ByToken(t)
          \/ Attempt(t) \/ Lookup(t) \/ Verify(t) \/ Fill(t) \/ ClearAttempts(t)
          \/ Cleanup(t) \/ Answer(t)
          \/ LoginAttempt(t) \/ LoginVerify(t) \/ LoginClear(t)
          \/ ReplaceSession(t) \/ CreateSession(t) \/ Logout(t)
          \/ NameFree(t) \/ CreateUser(t)
          \/ FindToChange(t) \/ UpdateUser(t) \/ FindToDelete(t) \/ DeleteUser(t) \/ Forget(t)
          \/ Owner(t) \/ CreateToken(t) \/ DeleteToken(t)

Spec == Init /\ [][Next]_vars

-----------------------------------------------------------------------------
(* Properties.                                                             *)

Points == {"idle", "session", "expired", "renew", "token", "attempt", "lookup", "verify",
           "fill", "clear", "in", "check", "welcome", "replace", "insert",
           "create", "update", "delete", "forget", "issue"}

\* Variables have their types, of which the foreign keys are part: a session or
\* token in its table belongs to an account that exists, though a login or the
\* creation of a token that read the account may overlap with its deletion.
TypeOK ==
    /\ users \in [Ids -> Account] /\ sessions \in [Sessions -> SessionRow]
    /\ tokens \in [Tokens -> TokenRow]
    /\ \A s \in Sessions : InTable(s) => InUsers(sessions[s].user)
    /\ \A k \in Tokens : tokens[k].is = "in" => InUsers(tokens[k].user)
    /\ \A i, j \in Ids : InUsers(i) /\ InUsers(j) /\ users[i].name = users[j].name => i = j
    /\ \A c \in Credentials :
          basic[c] # None => basic[c].user \in Whos /\ basic[c].ts \in Instants
    /\ tries \in [Instants -> Nat]
    /\ \A t \in Threads :
          /\ thr[t].at \in Points /\ thr[t].op \in Ops
          /\ thr[t].user # None => thr[t].user \in Whos
    /\ now \in Instants /\ requests \in 0..MaxRequests

\* Who passes the guard was entitled to it: with a session or a token, at some
\* time since the request arrived; with a password, less than a time to live
\* before, whatever updates, deletions, slow verifications and expiries come in
\* between. So an account that was deleted, disabled or degraded does not live on in
\* a session or a token, nor for longer than the time to live in the cache of verified
\* passwords, and neither does an old password there. Of sessions and tokens it says
\* nothing when a password changes: they survive that.
GrantIsRecent ==
    \A t \in Threads : thr[t].at = "in" /\ thr[t].user # None /\ thr[t].end # None =>
        IF thr[t].method = "basic" THEN thr[t].began < thr[t].end + BasicTTL
        ELSE thr[t].began <= thr[t].end

\* A session lives while it is used: one that lets a request in has a quarter of a
\* lifetime, at least, to live from the time when the request arrived, unless it
\* was ended by a logout, a login or the deletion of the account, or found expired
\* and deleted by others around the time of a renewal.
KeptWhileUsed ==
    \A t \in Threads : thr[t].at = "in" /\ thr[t].method = "session" =>
        LET s == sessions[thr[t].session] IN
        s.is \in {"ended", "overtaken"} \/ 4 * (s.exp - thr[t].began) >= Life

\* An enabled administrator remains, if expired perhaps. The last one goes only by a
\* request of somebody who was let in as an administrator (possibly by an answer from the
\* cache that was true a time to live before) and is none any more, or by the own hand
\* with a value that disables and the guard does not know.
Administrators == {i \in Ids : users[i].in /\ users[i].enabled /\ users[i].role = "admin"}
Excused(t) ==
    /\ thr[t].at \in {"update", "delete"}
    /\ \/ thr[t].user.id \notin Administrators
       \/ thr[t].at = "update" /\ thr[t].change = [field |-> "enabled", to |-> "NO"]
LastAdministrator ==
    [][Administrators # {} /\ Administrators' = {}
         => \E t \in Threads : Excused(t) /\ thr'[t] # thr[t]]_vars

=============================================================================
