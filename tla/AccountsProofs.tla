--------------------------- MODULE AccountsProofs ---------------------------
(***************************************************************************)
(* Proofs about Accounts, for any names, passwords, sessions, tokens,      *)
(* threads, lifetimes, limits and bounds: types and references, the guard  *)
(* (GrantIsRecent), the life of sessions (KeptWhileUsed) and the last      *)
(* administrator.                                                          *)
(***************************************************************************)
EXTENDS Accounts, TLAPS

AllChanges == [field : {"role"}, to : Roles] \cup [field : {"enabled"}, to : {"yes", "no", "NO"}]
              \cup [field : {"pw"}, to : Passwords] \cup [field : {"exp"}, to : Instants]

Methods == {"session", "token", "basic"}

Thread == [at : Points, op : Ops, session : Sessions \cup {None}, token : Tokens \cup {None},
           form : Credentials \cup {None}, target : Ids \cup Names \cup {None},
           change : AllChanges \cup {None}, began : Instants, start : Instants,
           user : Whos \cup {None}, method : Methods \cup {None}, end : Instants \cup {None}]

\* What the point of a thread says of the rest.
Formed(x) ==
    /\ x.at \in {"session", "expired", "renew", "replace"} => x.session \in Sessions
    /\ x.at = "token" => x.token \in Tokens
    /\ x.at \in {"verify", "fill"} => x.form \in Credentials
    /\ x.at \in {"fill", "welcome", "replace", "insert", "create", "update", "delete", "issue"}
          => x.user \in Whos
    /\ x.at = "create" => x.target \in Names
    /\ x.at \in {"update", "delete", "issue"} => x.target \in Ids
    /\ x.method # None => x.at \in {"renew", "fill", "clear", "in"}
    /\ x.method = None => x.end = None
    /\ x.method = "session" => x.at \in {"renew", "in"} /\ x.session \in Sessions
    /\ x.at = "fill" => x.method = "basic"

\* Administrators do not harm themselves, as far as the guard knows.
Unharmed(x) ==
    /\ x.at = "update" =>
          x.change \in AllChanges /\ (x.target = x.user.id => ~SelfForbidden(x.change))
    /\ x.at = "delete" => x.target # x.user.id

\* When the request arrived, the credentials were verified and the account was lost.
Recent(x) ==
    /\ x.began <= now /\ x.start <= now
    /\ x.at \in {"lookup", "verify", "fill"} => x.began <= x.start
    /\ x.end # None =>
          /\ x.at = "fill" => x.start <= x.end
          /\ IF x.method = "basic" THEN x.began < x.end + BasicTTL ELSE x.began <= x.end

Entry == [user : Whos, ts : Instants, end : Instants \cup {None}]

Stamped(e) == e.ts <= now /\ (e.end # None => e.ts <= e.end)

Rows ==
    /\ users \in [Ids -> Account] /\ sessions \in [Sessions -> SessionRow]
    /\ tokens \in [Tokens -> TokenRow]
    /\ \A s \in Sessions : InTable(s) => InUsers(sessions[s].user)
    /\ \A k \in Tokens : tokens[k].is = "in" => InUsers(tokens[k].user)
    /\ \A i, j \in Ids : InUsers(i) /\ InUsers(j) /\ users[i].name = users[j].name => i = j
    /\ \A i \in Ids : InUsers(i) => users[i].used

Shaped ==
    /\ Rows
    /\ basic \in [Credentials -> Entry \cup {None}]
    /\ \A c \in Credentials : basic[c] # None => Stamped(basic[c])
    /\ tries \in [Instants -> Nat]
    /\ thr \in [Threads -> Thread]
    /\ \A t \in Threads : Formed(thr[t]) /\ Unharmed(thr[t]) /\ Recent(thr[t])
    /\ now \in Instants /\ requests \in 0..MaxRequests

\* The life of a session, and of one that a request uses.
Living ==
    /\ \A s \in Sessions : sessions[s].is # "unused" =>
          sessions[s].made <= now /\ sessions[s].made + Life <= sessions[s].exp
    /\ \A t \in Threads : thr[t].method = "session" =>
          LET s == sessions[thr[t].session] IN
          /\ s.is # "unused"
          /\ thr[t].at = "renew" => s.is \in {"in", "ended", "overtaken"}
          /\ thr[t].at = "in" => s.is \in {"ended", "overtaken"} \/ Life <= 4 * (s.exp - thr[t].began)

Fit(x) == x \in Thread /\ Formed(x) /\ Unharmed(x) /\ Recent(x)

-----------------------------------------------------------------------------
(* Threads.                                                                *)

\* Constants of the types.
LEMMA Sorts ==
  /\ 1 \in Ids /\ Ids \subseteq Nat /\ 0 \in Instants /\ Instants \subseteq Nat
  /\ {"idle", "session", "expired", "renew", "token", "attempt", "lookup", "verify",
      "fill", "clear", "in", "check", "welcome", "replace", "insert",
      "create", "update", "delete", "forget", "issue"} = Points
  /\ None \notin Methods /\ None \notin Sessions /\ None \notin Tokens
  /\ Life \in Nat /\ Life > 0 /\ BasicTTL \in Nat /\ BasicTTL > 0 /\ MaxTime \in Nat
BY AccountsAssumption DEF Ids, Instants, Points, Methods

\* What an administrator changes, now, is a change.
LEMMA ChangesTyped ==
  ASSUME now \in Instants
  PROVE  Changes \subseteq AllChanges
BY DEF Changes, AllChanges

\* The idle thread.
LEMMA IdleFit ==
  ASSUME now \in Instants
  PROVE  /\ Fit(Idle)
         /\ Idle.at = "idle" /\ Idle.op = "read" /\ Idle.session = None /\ Idle.token = None
         /\ Idle.form = None /\ Idle.target = None /\ Idle.change = None /\ Idle.began = 0
         /\ Idle.start = 0 /\ Idle.user = None /\ Idle.method = None /\ Idle.end = None
<1>1. /\ Idle.at = "idle" /\ Idle.op = "read" /\ Idle.session = None /\ Idle.token = None
      /\ Idle.form = None /\ Idle.target = None /\ Idle.change = None /\ Idle.began = 0
      /\ Idle.start = 0 /\ Idle.user = None /\ Idle.method = None /\ Idle.end = None
  BY DEF Idle
<1>2. Idle \in Thread
  BY Sorts DEF Idle, Thread, Points, Ops
<1>3. Formed(Idle)
  BY <1>1, Sorts DEF Formed, Methods
<1>4. Unharmed(Idle)
  BY <1>1 DEF Unharmed
<1>5. Recent(Idle)
  BY <1>1 DEF Recent, Instants
<1> QED
  BY <1>1, <1>2, <1>3, <1>4, <1>5 DEF Fit

\* A thread goes on.
LEMMA GoKeeps ==
  ASSUME NEW x \in Thread, NEW a \in Points
  PROVE  LET y == [x EXCEPT !.at = a] IN
         /\ y \in Thread /\ y.at = a /\ y.op = x.op /\ y.session = x.session /\ y.token = x.token
         /\ y.form = x.form /\ y.target = x.target /\ y.change = x.change /\ y.began = x.began
         /\ y.start = x.start /\ y.user = x.user /\ y.method = x.method /\ y.end = x.end
BY DEF Thread

Known(x, a, u, m) == [x EXCEPT !.at = a, !.user = u, !.method = m]

Arrived(a, o, s, k) ==
    [Idle EXCEPT !.at = a, !.op = o, !.session = s, !.token = k, !.began = now]

Hit(x, e) == [x EXCEPT !.at = "clear", !.user = e.user, !.end = e.end, !.method = "basic"]

Formfilled(x, a, f) == [x EXCEPT !.at = a, !.form = f]

Handled(a, u, i, c) ==
    [Idle EXCEPT !.at = a, !.op = "admin", !.user = u, !.target = i, !.change = c]

\* The guard knows the account.
LEMMA KnownFields ==
  ASSUME NEW x \in Thread, NEW a \in Points, NEW u \in Whos, NEW m \in Methods
  PROVE  LET y == Known(x, a, u, m) IN
         /\ y \in Thread /\ y.at = a /\ y.op = x.op /\ y.session = x.session /\ y.token = x.token
         /\ y.form = x.form /\ y.target = x.target /\ y.change = x.change /\ y.began = x.began
         /\ y.start = x.start /\ y.user = u /\ y.method = m /\ y.end = x.end
BY ZenonT(60) DEF Thread, Known

\* A request that has arrived.
LEMMA ArrivedFields ==
  ASSUME now \in Instants, NEW a \in Points, NEW o \in Ops, NEW s \in Sessions \cup {None},
         NEW k \in Tokens \cup {None}
  PROVE  LET y == Arrived(a, o, s, k) IN
         /\ y \in Thread /\ y.at = a /\ y.op = o /\ y.session = s /\ y.token = k /\ y.began = now
         /\ y.start = 0 /\ y.user = None /\ y.method = None /\ y.end = None
<1>1. PICK x : x = Idle
  OBVIOUS
<1>2. x \in Thread /\ x.start = 0 /\ x.user = None /\ x.method = None /\ x.end = None
  BY <1>1, IdleFit DEF Fit
<1>3. LET y == [x EXCEPT !.at = a, !.op = o, !.session = s, !.token = k, !.began = now] IN
         /\ y \in Thread /\ y.at = a /\ y.op = o /\ y.session = s /\ y.token = k /\ y.began = now
         /\ y.start = x.start /\ y.user = x.user /\ y.method = x.method /\ y.end = x.end
  BY <1>2, ZenonT(60) DEF Thread
<1> QED
  BY <1>1, <1>2, <1>3 DEF Arrived

\* The cache knows the account.
LEMMA HitFields ==
  ASSUME NEW x \in Thread, NEW e \in Entry
  PROVE  LET y == Hit(x, e) IN
         /\ y \in Thread /\ y.at = "clear" /\ y.session = x.session /\ y.began = x.began
         /\ y.start = x.start /\ y.user = e.user /\ y.method = "basic" /\ y.end = e.end
<1>1. e.user \in Whos /\ e.end \in Instants \cup {None}
  BY DEF Entry
<1>2. "clear" \in Points /\ "basic" \in Methods
  BY Sorts DEF Methods
<1> QED
  BY <1>1, <1>2, ZenonT(60) DEF Thread, Hit

\* The name and password of a request are known, or forgotten.
LEMMA FormFields ==
  ASSUME NEW x \in Thread, NEW a \in Points, NEW f \in Credentials \cup {None}
  PROVE  LET y == Formfilled(x, a, f) IN
         /\ y \in Thread /\ y.at = a /\ y.form = f /\ y.session = x.session /\ y.began = x.began
         /\ y.start = x.start /\ y.user = x.user /\ y.method = x.method /\ y.end = x.end
BY ZenonT(60) DEF Thread, Formfilled

\* An operation of an administrator.
LEMMA HandledFields ==
  ASSUME now \in Instants, NEW a \in Points, NEW u \in Whos,
         NEW i \in Ids \cup Names \cup {None}, NEW c \in AllChanges \cup {None}
  PROVE  LET y == Handled(a, u, i, c) IN
         /\ y \in Thread /\ y.at = a /\ y.user = u /\ y.target = i /\ y.change = c
         /\ y.began = 0 /\ y.start = 0 /\ y.method = None /\ y.end = None
<1>1. PICK x : x = Idle
  OBVIOUS
<1>2. /\ x \in Thread /\ x.began = 0 /\ x.start = 0 /\ x.method = None /\ x.end = None
      /\ "admin" \in Ops /\ u \in Whos \cup {None}
  BY <1>1, IdleFit DEF Fit, Ops
<1>3. PICK y : y = [x EXCEPT !.at = a, !.op = "admin", !.user = u]
  OBVIOUS
<1>4. /\ y \in Thread /\ y.at = a /\ y.user = u
      /\ y.began = x.began /\ y.start = x.start /\ y.method = x.method /\ y.end = x.end
  BY <1>2, <1>3 DEF Thread
<1>5. PICK z : z = [y EXCEPT !.target = i, !.change = c]
  OBVIOUS
<1>6. /\ z \in Thread /\ z.at = a /\ z.user = u /\ z.target = i /\ z.change = c
      /\ z.began = y.began /\ z.start = y.start /\ z.method = y.method /\ z.end = y.end
  BY <1>4, <1>5 DEF Thread
<1>7. z = Handled(a, u, i, c)
  BY <1>1, <1>3, <1>5 DEF Handled
<1> QED
  BY <1>2, <1>4, <1>6, <1>7

\* It may go on to a point that asks for nothing.
LEMMA GoFit ==
  ASSUME NEW x, Fit(x), NEW a \in Points, a \notin {"fill", "update", "delete", "create", "issue", "lookup", "verify"},
         x.method = None \/ a \in {"renew", "clear", "in"}, x.method = "session" => a \in {"renew", "in"},
         a \in {"session", "expired", "renew", "replace"} => x.session \in Sessions,
         a = "token" => x.token \in Tokens,
         a \in {"welcome", "replace", "insert"} => x.user \in Whos
  PROVE  Fit([x EXCEPT !.at = a])
<1> DEFINE y == [x EXCEPT !.at = a]
<1>1. /\ y \in Thread /\ y.at = a /\ y.op = x.op /\ y.session = x.session /\ y.token = x.token
      /\ y.form = x.form /\ y.target = x.target /\ y.change = x.change /\ y.began = x.began
      /\ y.start = x.start /\ y.user = x.user /\ y.method = x.method /\ y.end = x.end
  BY GoKeeps DEF Fit
<1> HIDE DEF y
<1>2. Formed(y)
  BY <1>1 DEF Fit, Formed
<1>3. Unharmed(y)
  BY <1>1 DEF Unharmed
<1>4. Recent(y)
  BY <1>1 DEF Fit, Recent
<1> QED
  BY <1>1, <1>2, <1>3, <1>4 DEF Fit, y

\* One thread moves while the clock stands.
LEMMA OneMoves ==
  ASSUME Shaped, NEW t \in Threads, NEW x, Fit(x), thr' = [thr EXCEPT ![t] = x], now' = now
  PROVE  /\ thr' \in [Threads -> Thread] /\ thr'[t] = x /\ \A v \in Threads \ {t} : thr'[v] = thr[v]
         /\ \A v \in Threads : Formed(thr'[v]) /\ Unharmed(thr'[v]) /\ Recent(thr[v])'
<1>1. thr' \in [Threads -> Thread] /\ thr'[t] = x /\ \A v \in Threads \ {t} : thr'[v] = thr[v]
  BY DEF Shaped, Fit
<1>2. ASSUME NEW v \in Threads
      PROVE  Formed(thr'[v]) /\ Unharmed(thr'[v]) /\ Recent(thr[v])'
  <2>1. PICK y : y = thr'[v]
    OBVIOUS
  <2>2. Formed(y) /\ Unharmed(y) /\ Recent(y)
    BY <1>1, <2>1 DEF Shaped, Fit
  <2>3. Recent(thr[v])'
    BY <2>1, <2>2 DEF Recent
  <2> QED
    BY <2>1, <2>2, <2>3
<1> QED
  BY <1>1, <1>2

\* What a thread that is known to fit says of itself.
LEMMA ThreadFit ==
  ASSUME Shaped, NEW t \in Threads
  PROVE  Fit(thr[t]) /\ now \in Instants /\ now \in Nat
BY Sorts DEF Shaped, Fit

\* How a session comes to be used: it is looked up, or it was renewed.
Uses(t, x) ==
    \/ /\ thr[t].at = "session" /\ x.session = thr[t].session /\ x.session \in Sessions
       /\ x.began = thr[t].began
       /\ InTable(x.session) /\ sessions[x.session].exp >= now
       /\ x.at = IF ShouldRenew(x.session) THEN "renew" ELSE "in"
    \/ /\ thr[t].at = "renew" /\ thr[t].method = "session" /\ x.at = "in"
       /\ x.session = thr[t].session /\ x.began = thr[t].began

\* The step of a thread, as far as threads go.
Moved(t) ==
    \E x : Fit(x) /\ thr' = [thr EXCEPT ![t] = x] /\ (x.method = "session" => Uses(t, x))

\* A thread goes on without having been authenticated.
LEMMA GoMoves ==
  ASSUME Shaped, NEW t \in Threads, NEW a \in Points, Go(t, a),
         a \notin {"fill", "update", "delete", "create", "issue", "lookup", "verify"},
         thr[t].method # "session", thr[t].method = None \/ a \in {"clear", "in"},
         a \in {"session", "expired", "renew", "replace"} => thr[t].session \in Sessions,
         a = "token" => thr[t].token \in Tokens,
         a \in {"welcome", "replace", "insert"} => thr[t].user \in Whos
  PROVE  Moved(t)
<1> DEFINE x == [thr[t] EXCEPT !.at = a]
<1>1. Fit(thr[t])
  BY ThreadFit
<1>2. Fit(x)
  BY <1>1, GoFit
<1>3. x.method = thr[t].method
  BY <1>1, GoKeeps DEF Fit
<1>4. thr' = [thr EXCEPT ![t] = x]
  BY DEF Go
<1> HIDE DEF x
<1> QED
  BY <1>2, <1>3, <1>4 DEF Moved

\* The request is over.
LEMMA FinishMoves ==
  ASSUME Shaped, NEW t \in Threads, Finish(t)
  PROVE  Moved(t)
<1>1. Fit(Idle) /\ Idle.method # "session"
  BY ThreadFit, IdleFit, Sorts DEF Methods
<1> QED
  BY <1>1 DEF Moved, Finish

\* The next credential is tried.
LEMMA AnotherMoves ==
  ASSUME Shaped, NEW t \in Threads, Another(t), thr[t].at \in {"session", "expired"}
  PROVE  Moved(t)
<1>1. Fit(thr[t]) /\ thr[t].method = None /\ thr[t].token \in Tokens \cup {None}
  BY ThreadFit DEF Fit, Formed, Thread
<1>2. thr[t].method # "session"
  BY <1>1, Sorts DEF Methods
<1>3. CASE thr[t].token # None /\ Go(t, "token")
  BY <1>1, <1>2, <1>3, Sorts, GoMoves
<1>4. CASE \E at \in {"attempt", "in"} : Go(t, at)
  <2>1. PICK at \in {"attempt", "in"} : Go(t, at)
    BY <1>4
  <2> QED
    BY <1>1, <1>2, <2>1, Sorts, GoMoves
<1> QED
  BY <1>3, <1>4 DEF Another

\* A request arrives.
LEMMA AskMoves ==
  ASSUME Shaped, NEW t \in Threads, Ask(t)
  PROVE  Moved(t)
<1>0. thr[t] = Idle /\ Fit(Idle) /\ now \in Instants
  BY ThreadFit, IdleFit DEF Ask
<1>6. \E op \in Ops, s \in Cookies \cup {None}, k \in Issued \cup {None} :
        \/ OriginRefuses(op) /\ UNCHANGED thr
        \/ \E password \in BOOLEAN :
              thr' = [thr EXCEPT ![t] = [Idle EXCEPT !.at = FirstOf(s, k, password), !.op = op,
                                                     !.session = s, !.token = k, !.began = now]]
  BY DEF Ask
<1>1. PICK op \in Ops : \E s \in Cookies \cup {None}, k \in Issued \cup {None} :
        \/ OriginRefuses(op) /\ UNCHANGED thr
        \/ \E password \in BOOLEAN :
              thr' = [thr EXCEPT ![t] = [Idle EXCEPT !.at = FirstOf(s, k, password), !.op = op,
                                                     !.session = s, !.token = k, !.began = now]]
  BY <1>6
<1>2. PICK s \in Cookies \cup {None}, k \in Issued \cup {None} :
        \/ OriginRefuses(op) /\ UNCHANGED thr
        \/ \E password \in BOOLEAN :
              thr' = [thr EXCEPT ![t] = [Idle EXCEPT !.at = FirstOf(s, k, password), !.op = op,
                                                     !.session = s, !.token = k, !.began = now]]
  BY <1>1
<1>3. s \in Sessions \cup {None} /\ k \in Tokens \cup {None}
  BY DEF Cookies, Issued
<1>4. CASE UNCHANGED thr
  <2>1. thr' = [thr EXCEPT ![t] = Idle]
    BY <1>0, <1>4 DEF Shaped
  <2> QED
    BY <2>1, FinishMoves DEF Finish
<1>5. CASE \E password \in BOOLEAN :
              thr' = [thr EXCEPT ![t] = [Idle EXCEPT !.at = FirstOf(s, k, password), !.op = op,
                                                     !.session = s, !.token = k, !.began = now]]
  <2>1. PICK password \in BOOLEAN :
              thr' = [thr EXCEPT ![t] = [Idle EXCEPT !.at = FirstOf(s, k, password), !.op = op,
                                                     !.session = s, !.token = k, !.began = now]]
    BY <1>5
  <2> DEFINE a == FirstOf(s, k, password)
             x == Arrived(a, op, s, k)
  <2>2. /\ a \in {"session", "token", "attempt", "in"}
        /\ a = "session" => s \in Sessions
        /\ a = "token" => k \in Tokens
    BY <1>3 DEF FirstOf
  <2>3. thr' = [thr EXCEPT ![t] = x]
    BY <2>1 DEF Arrived
  <2>8. a \in Points
    BY <2>2, Sorts
  <2> HIDE DEF a
  <2>4. /\ x \in Thread /\ x.at = a /\ x.session = s /\ x.token = k /\ x.began = now
        /\ x.start = 0 /\ x.user = None /\ x.method = None /\ x.end = None
    BY <1>0, <1>3, <2>8, ArrivedFields
  <2> HIDE DEF x
  <2>5. Formed(x) /\ Unharmed(x)
    BY <2>2, <2>4, Sorts DEF Formed, Unharmed, Methods
  <2>6. Recent(x)
    BY <1>0, <2>2, <2>4, Sorts DEF Recent
  <2>7. x.method # "session"
    BY <2>4, Sorts DEF Methods
  <2> QED
    BY <2>3, <2>4, <2>5, <2>6, <2>7 DEF Moved, Fit
<1> QED
  BY <1>2, <1>4, <1>5

\* Who has an account is known.
LEMMA WhoTyped ==
  ASSUME Shaped, NEW i \in Ids, NEW pw \in Passwords \cup {None}
  PROVE  Who(i, pw) \in Whos /\ Who(i, pw).id = i
BY DEF Shaped, Rows, Account, Who, Whos

\* The account of a session, or none.
LEMMA BySessionMoves ==
  ASSUME Shaped, NEW t \in Threads, BySession(t)
  PROVE  Moved(t)
<1> DEFINE s == thr[t].session
           i == sessions[s].user
<1>1. Fit(thr[t]) /\ thr[t].at = "session" /\ s \in Sessions /\ thr[t].method = None
      /\ thr[t].user \in Whos \cup {None} /\ now \in Nat /\ thr[t] \in Thread
  BY ThreadFit DEF Fit, Formed, Thread, BySession
<1>2. sessions[s] \in SessionRow /\ i \in Ids
  BY <1>1 DEF Shaped, Rows, SessionRow
<1>3. CASE InTable(s) /\ ~(InTable(s) /\ sessions[s].exp >= now) /\ Go(t, "expired")
  <2>1. thr[t].method # "session"
    BY <1>1, Sorts DEF Methods
  <2> QED
    BY <1>1, <1>3, <2>1, Sorts, GoMoves
<1>4. CASE /\ InTable(s) /\ sessions[s].exp >= now /\ Valid(i)
           /\ thr' = [thr EXCEPT ![t].at = IF ShouldRenew(s) THEN "renew" ELSE "in",
                                 ![t].user = Who(i, None), ![t].method = "session"]
  <2> DEFINE a == IF ShouldRenew(s) THEN "renew" ELSE "in"
             u == Who(i, None)
             x == Known(thr[t], a, u, "session")
  <2>1. a \in {"renew", "in"} /\ u \in Whos
    BY <1>2, WhoTyped
  <2>2. thr' = [thr EXCEPT ![t] = x]
    BY <1>4 DEF Known
  <2>3. a = IF ShouldRenew(s) THEN "renew" ELSE "in"
    OBVIOUS
  <2>7. a \in Points /\ "session" \in Methods
    BY <2>1, Sorts DEF Methods
  <2> HIDE DEF a, u
  <2>4. /\ x \in Thread /\ x.at = a /\ x.user = u /\ x.method = "session" /\ x.session = s
        /\ x.began = thr[t].began /\ x.start = thr[t].start /\ x.end = thr[t].end
    BY <1>1, <2>1, <2>7, KnownFields
  <2> HIDE DEF x
  <2>5. Formed(x) /\ Unharmed(x) /\ Recent(x)
    BY <1>1, <2>1, <2>4, Sorts DEF Fit, Formed, Unharmed, Recent, Methods
  <2>6. Uses(t, x)
    BY <1>1, <1>4, <2>3, <2>4 DEF Uses
  <2> QED
    BY <2>2, <2>4, <2>5, <2>6 DEF Moved, Fit
<1>5. CASE Another(t)
  BY <1>1, <1>5, AnotherMoves
<1> QED
  BY <1>3, <1>4, <1>5 DEF BySession

\* The account of a token, or none.
LEMMA ByTokenMoves ==
  ASSUME Shaped, NEW t \in Threads, ByToken(t)
  PROVE  Moved(t)
<1> DEFINE k == tokens[thr[t].token]
           valid == k.is = "in" /\ ~Expired(k) /\ Valid(k.user)
<1>1. Fit(thr[t]) /\ thr[t].at = "token" /\ thr[t].token \in Tokens /\ thr[t].method = None
      /\ thr[t] \in Thread /\ now \in Nat /\ thr[t].method # "session"
  BY ThreadFit, Sorts DEF Fit, Formed, ByToken, Methods
<1>2. k.user \in Ids
  BY <1>1 DEF Shaped, Rows, TokenRow
<1>3. CASE valid
  <2> DEFINE u == Who(k.user, None)
             x == Known(thr[t], "in", u, "token")
  <2>1. thr' = [thr EXCEPT ![t] = x]
    BY <1>3 DEF ByToken, Known
  <2>2. u \in Whos
    BY <1>2, WhoTyped
  <2>7. "in" \in Points /\ "token" \in Methods
    BY Sorts DEF Methods
  <2> HIDE DEF u
  <2>3. /\ x \in Thread /\ x.at = "in" /\ x.user = u /\ x.method = "token"
        /\ x.began = thr[t].began /\ x.start = thr[t].start /\ x.end = thr[t].end
    BY <1>1, <2>2, <2>7, KnownFields
  <2> HIDE DEF x
  <2>4. Formed(x) /\ Unharmed(x) /\ Recent(x)
    BY <1>1, <2>2, <2>3, Sorts DEF Fit, Formed, Unharmed, Recent, Methods
  <2> QED
    BY <2>1, <2>3, <2>4 DEF Moved, Fit
<1>4. CASE ~valid
  <2>1. PICK at \in {"attempt", "in"} : Go(t, at)
    BY <1>4 DEF ByToken
  <2> QED
    BY <1>1, <2>1, Sorts, GoMoves
<1> QED
  BY <1>3, <1>4

\* What was found expired is deleted.
LEMMA DeleteExpiredMoves ==
  ASSUME Shaped, NEW t \in Threads, DeleteExpired(t)
  PROVE  Moved(t)
BY AnotherMoves DEF DeleteExpired

\* The session is renewed.
LEMMA RenewMoves ==
  ASSUME Shaped, NEW t \in Threads, Renew(t)
  PROVE  Moved(t)
<1> DEFINE x == [thr[t] EXCEPT !.at = "in"]
<1>1. Fit(thr[t]) /\ thr[t] \in Thread /\ thr[t].at = "renew" /\ "in" \in Points
  BY ThreadFit, Sorts DEF Fit, Renew
<1>2. Fit(x)
  BY <1>1, GoFit
<1>3. thr' = [thr EXCEPT ![t] = x]
  BY DEF Renew, Go
<1>4. x.at = "in" /\ x.method = thr[t].method /\ x.session = thr[t].session /\ x.began = thr[t].began
  BY <1>1, GoKeeps
<1> HIDE DEF x
<1>5. x.method = "session" => Uses(t, x)
  BY <1>1, <1>4 DEF Uses
<1> QED
  BY <1>2, <1>3, <1>5 DEF Moved

\* The limiter of passwords.
LEMMA AttemptMoves ==
  ASSUME Shaped, NEW t \in Threads, Attempt(t)
  PROVE  Moved(t)
<1>1. Fit(thr[t]) /\ thr[t] \in Thread /\ thr[t].at = "attempt" /\ thr[t].method = None
      /\ now \in Instants /\ now \in Nat /\ thr[t].method # "session"
  BY ThreadFit, Sorts DEF Fit, Formed, Attempt, Methods
<1>4. "lookup" \in Points
  BY Sorts
<1>2. CASE LoginAdmits
  <2> DEFINE x == [thr[t] EXCEPT !.at = "lookup", !.start = now]
  <2>1. thr' = [thr EXCEPT ![t] = x]
    BY <1>2 DEF Attempt
  <2>2. /\ x \in Thread /\ x.at = "lookup" /\ x.began = thr[t].began /\ x.start = now
        /\ x.method = None /\ x.end = thr[t].end
    BY <1>1, <1>4, ZenonT(60) DEF Thread
  <2> HIDE DEF x
  <2>3. Formed(x) /\ Unharmed(x) /\ Recent(x)
    BY <1>1, <2>2, Sorts DEF Fit, Formed, Unharmed, Recent, Methods
  <2>4. x.method # "session"
    BY <2>2, Sorts DEF Methods
  <2> QED
    BY <2>1, <2>2, <2>3, <2>4 DEF Moved, Fit
<1>3. CASE Go(t, "in")
  BY <1>1, <1>3, Sorts, GoMoves
<1> QED
  BY <1>2, <1>3 DEF Attempt

\* The cache of passwords is asked.
LEMMA LookupMoves ==
  ASSUME Shaped, NEW t \in Threads, Lookup(t)
  PROVE  Moved(t)
<1>1. Fit(thr[t]) /\ thr[t] \in Thread /\ thr[t].at = "lookup" /\ thr[t].method = None
      /\ now \in Nat
      /\ thr[t].began <= thr[t].start /\ thr[t].start <= now
      /\ thr[t].began \in Nat /\ thr[t].start \in Nat
  BY ThreadFit, Sorts DEF Fit, Formed, Recent, Thread, Lookup
<1>2. PICK c \in Credentials :
        thr' = IF basic[c] # None /\ thr[t].start < basic[c].ts + BasicTTL
               THEN [thr EXCEPT ![t].at = "clear", ![t].user = basic[c].user,
                                ![t].end = basic[c].end, ![t].method = "basic"]
               ELSE [thr EXCEPT ![t].at = "verify", ![t].form = c]
  BY DEF Lookup
<1>3. CASE basic[c] # None /\ thr[t].start < basic[c].ts + BasicTTL
  <2> DEFINE x == Hit(thr[t], basic[c])
  <2>1. thr' = [thr EXCEPT ![t] = x]
    BY <1>2, <1>3 DEF Hit
  <2>2. /\ basic[c] \in Entry /\ Stamped(basic[c])
    BY <1>3 DEF Shaped
  <2>3. /\ basic[c].ts \in Nat /\ basic[c].end \in Instants \cup {None}
    BY <2>2, Sorts DEF Entry
  <2>4. /\ x \in Thread /\ x.at = "clear" /\ x.began = thr[t].began /\ x.start = thr[t].start
        /\ x.method = "basic" /\ x.end = basic[c].end
    BY <1>1, <2>2, HitFields
  <2> HIDE DEF x
  <2>5. x.method # "session" /\ x.method # None
    BY <2>4, Sorts DEF Methods
  <2>6. Formed(x) /\ Unharmed(x)
    BY <2>4, <2>5 DEF Formed, Unharmed
  <2>7. Recent(x)
    <3>1. x.end # None => x.end \in Nat /\ basic[c].ts <= x.end
      BY <2>2, <2>3, <2>4, Sorts DEF Stamped
    <3>2. x.end # None => x.began < x.end + BasicTTL
      BY <1>1, <1>3, <2>3, <2>4, <3>1, Sorts
    <3> QED
      BY <1>1, <2>4, <3>2 DEF Recent
  <2> QED
    BY <2>1, <2>4, <2>5, <2>6, <2>7 DEF Moved, Fit
<1>4. CASE ~(basic[c] # None /\ thr[t].start < basic[c].ts + BasicTTL)
  <2> DEFINE x == Formfilled(thr[t], "verify", c)
  <2>1. thr' = [thr EXCEPT ![t] = x]
    BY <1>2, <1>4 DEF Formfilled
  <2>2. /\ x \in Thread /\ x.at = "verify" /\ x.form = c /\ x.began = thr[t].began
        /\ x.start = thr[t].start /\ x.method = None /\ x.end = thr[t].end
    <3>1. "verify" \in Points /\ "in" \in Points /\ None \in Credentials \cup {None}
      BY Sorts
    <3> QED
      BY <1>1, <3>1, FormFields
  <2> HIDE DEF x
  <2>3. Formed(x) /\ Unharmed(x) /\ Recent(x) /\ x.method # "session"
    BY <1>1, <2>2, Sorts DEF Fit, Formed, Unharmed, Recent, Methods
  <2> QED
    BY <2>1, <2>2, <2>3 DEF Moved, Fit
<1> QED
  BY <1>3, <1>4

\* The password is verified.
LEMMA VerifyMoves ==
  ASSUME Shaped, NEW t \in Threads, Verify(t)
  PROVE  Moved(t)
<1> DEFINE c == thr[t].form
<1>1. Fit(thr[t]) /\ thr[t] \in Thread /\ thr[t].at = "verify" /\ thr[t].method = None
      /\ thr[t].end = None /\ c \in Credentials /\ now \in Nat
  BY ThreadFit DEF Fit, Formed, Verify
<1>2. CASE thr' = [thr EXCEPT ![t].at = "in", ![t].form = None]
  <2> DEFINE x == Formfilled(thr[t], "in", None)
  <2>1. thr' = [thr EXCEPT ![t] = x]
    BY <1>2 DEF Formfilled
  <2>2. /\ x \in Thread /\ x.at = "in" /\ x.began = thr[t].began
        /\ x.start = thr[t].start /\ x.method = None /\ x.end = None
    <3>1. "verify" \in Points /\ "in" \in Points /\ None \in Credentials \cup {None}
      BY Sorts
    <3> QED
      BY <1>1, <3>1, FormFields
  <2> HIDE DEF x
  <2>3. Formed(x) /\ Unharmed(x) /\ Recent(x) /\ x.method # "session"
    BY <1>1, <2>2, Sorts DEF Fit, Formed, Unharmed, Recent, Methods
  <2> QED
    BY <2>1, <2>2, <2>3 DEF Moved, Fit
<1>3. CASE \E i \in Verified(c) :
             thr' = [thr EXCEPT ![t].at = "fill", ![t].user = Who(i, c[2]), ![t].method = "basic"]
  <2>1. PICK i \in Verified(c) :
             thr' = [thr EXCEPT ![t].at = "fill", ![t].user = Who(i, c[2]), ![t].method = "basic"]
    BY <1>3
  <2> DEFINE u == Who(i, c[2])
             x == Known(thr[t], "fill", u, "basic")
  <2>2. c[2] \in Passwords /\ i \in Ids
    BY <1>1, <2>1, AccountsAssumption DEF Verified
  <2>3. u \in Whos
    BY <2>2, WhoTyped
  <2>4. thr' = [thr EXCEPT ![t] = x]
    BY <2>1 DEF Known
  <2>5. "fill" \in Points /\ "basic" \in Methods
    BY Sorts DEF Methods
  <2> HIDE DEF u
  <2>6. /\ x \in Thread /\ x.at = "fill" /\ x.form = c /\ x.user = u /\ x.began = thr[t].began
        /\ x.start = thr[t].start /\ x.method = "basic" /\ x.end = None
    BY <1>1, <2>3, <2>5, KnownFields
  <2> HIDE DEF x
  <2>7. Formed(x) /\ Unharmed(x) /\ Recent(x) /\ x.method # "session"
    BY <1>1, <2>3, <2>6, Sorts DEF Fit, Formed, Unharmed, Recent, Methods
  <2> QED
    BY <2>4, <2>6, <2>7 DEF Moved, Fit
<1> QED
  BY <1>2, <1>3 DEF Verify

\* The cache is filled.
LEMMA FillMoves ==
  ASSUME Shaped, NEW t \in Threads, Fill(t)
  PROVE  Moved(t)
<1> DEFINE x == Formfilled(thr[t], "clear", None)
<1>1. Fit(thr[t]) /\ thr[t] \in Thread /\ thr[t].at = "fill" /\ thr[t].method = "basic" /\ now \in Nat
  BY ThreadFit DEF Fit, Formed, Fill
<1>2. thr' = [thr EXCEPT ![t] = x]
  BY DEF Fill, Formfilled
<1>3. /\ x \in Thread /\ x.at = "clear" /\ x.began = thr[t].began
      /\ x.start = thr[t].start /\ x.method = "basic" /\ x.end = thr[t].end
  BY <1>1, Sorts, FormFields
<1> HIDE DEF x
<1>4. Formed(x) /\ Unharmed(x) /\ Recent(x) /\ x.method # "session"
  BY <1>1, <1>3, Sorts DEF Fit, Formed, Unharmed, Recent, Methods
<1> QED
  BY <1>2, <1>3, <1>4 DEF Moved, Fit

\* The attempts are forgotten.
LEMMA ClearMoves ==
  ASSUME Shaped, NEW t \in Threads, ClearAttempts(t) \/ LoginClear(t)
  PROVE  Moved(t)
<1>1. Fit(thr[t]) /\ thr[t] \in Thread /\ thr[t].session \in Sessions \cup {None}
  BY ThreadFit DEF Fit, Thread
<1>2. CASE ClearAttempts(t)
  <2>1. CASE thr[t].method # "session"
    BY <1>1, <1>2, <2>1, Sorts, GoMoves DEF ClearAttempts
  <2>2. CASE thr[t].method = "session"
    BY <1>1, <1>2, <2>2, Sorts DEF Fit, Formed, ClearAttempts, Methods
  <2> QED
    BY <2>1, <2>2
<1>3. CASE LoginClear(t)
  <2>1. thr[t].method = None /\ thr[t].user \in Whos /\ thr[t].method # "session"
    BY <1>1, <1>3, Sorts DEF Fit, Formed, LoginClear, Methods
  <2>2. CASE thr[t].session = None
    BY <1>1, <1>3, <2>1, <2>2, Sorts, GoMoves DEF LoginClear
  <2>3. CASE thr[t].session # None
    BY <1>1, <1>3, <2>1, <2>3, Sorts, GoMoves DEF LoginClear
  <2> QED
    BY <2>2, <2>3
<1> QED
  BY <1>2, <1>3

\* A handler knows its administrator.
LEMMA HandleMoves ==
  ASSUME Shaped, NEW t \in Threads, NEW a \in Points, NEW i \in Ids \cup Names \cup {None},
         NEW c \in AllChanges \cup {None}, Admitted(t, "admin"), Handle(t, a, i, c),
         a \in {"create", "update", "delete", "issue"}, a = "create" => i \in Names,
         a # "create" => i \in Ids,
         a = "update" => c \in AllChanges /\ (i = thr[t].user.id => ~SelfForbidden(c)),
         a = "delete" => i # thr[t].user.id
  PROVE  Moved(t)
<1> DEFINE u == thr[t].user
           x == Handled(a, u, i, c)
<1>1. u \in Whos /\ now \in Instants
  BY ThreadFit DEF Fit, Thread, Admitted, MayPass
<1>2. thr' = [thr EXCEPT ![t] = x]
  BY DEF Handle, Handled
<1> HIDE DEF u
<1>3. /\ x \in Thread /\ x.at = a /\ x.user = u /\ x.target = i /\ x.change = c
      /\ x.began = 0 /\ x.start = 0 /\ x.method = None /\ x.end = None
  BY <1>1, HandledFields
<1> HIDE DEF x
<1>4. Formed(x) /\ x.method # "session"
  BY <1>1, <1>3, Sorts DEF Formed, Methods
<1>5. Unharmed(x)
  BY <1>3 DEF Unharmed, u
<1>6. Recent(x)
  BY <1>1, <1>3, Sorts DEF Recent
<1> QED
  BY <1>2, <1>3, <1>4, <1>5, <1>6 DEF Moved, Fit

\* Operations of administrators begin.
LEMMA NameFreeMoves ==
  ASSUME Shaped, NEW t \in Threads, NameFree(t)
  PROVE  Moved(t)
<1>1. PICK n \in Names : IF Taken(n) THEN Finish(t) ELSE Handle(t, "create", n, None)
  BY DEF NameFree
<1>2. Admitted(t, "admin")
  BY DEF NameFree
<1> QED
  BY <1>1, <1>2, Sorts, FinishMoves, HandleMoves

\* An account is looked up to be changed.
LEMMA FindToChangeMoves ==
  ASSUME Shaped, NEW t \in Threads, FindToChange(t)
  PROVE  Moved(t)
<1>0. \E i \in Ids : \E c \in Changes :
        IF InUsers(i) /\ ~(thr[t].user.id = i /\ SelfForbidden(c))
        THEN Handle(t, "update", i, c)
        ELSE Finish(t)
  BY DEF FindToChange
<1>1. PICK i \in Ids : \E c \in Changes :
        IF InUsers(i) /\ ~(thr[t].user.id = i /\ SelfForbidden(c))
        THEN Handle(t, "update", i, c)
        ELSE Finish(t)
  BY <1>0
<1>2. PICK c \in Changes :
        IF InUsers(i) /\ ~(thr[t].user.id = i /\ SelfForbidden(c))
        THEN Handle(t, "update", i, c)
        ELSE Finish(t)
  BY <1>1
<1>3. Admitted(t, "admin") /\ c \in AllChanges
  BY ThreadFit, ChangesTyped DEF FindToChange
<1> QED
  BY <1>2, <1>3, Sorts, FinishMoves, HandleMoves

\* An account is looked up to be deleted, or to be given a token.
LEMMA FindMoves ==
  ASSUME Shaped, NEW t \in Threads, FindToDelete(t) \/ Owner(t)
  PROVE  Moved(t)
<1>1. CASE FindToDelete(t)
  <2>1. PICK i \in Ids : IF InUsers(i) /\ thr[t].user.id # i
                         THEN Handle(t, "delete", i, None) ELSE Finish(t)
    BY <1>1 DEF FindToDelete
  <2>2. Admitted(t, "admin")
    BY <1>1 DEF FindToDelete
  <2> QED
    BY <2>1, <2>2, Sorts, FinishMoves, HandleMoves
<1>2. CASE Owner(t)
  <2>1. PICK i \in Ids : IF InUsers(i) THEN Handle(t, "issue", i, None) ELSE Finish(t)
    BY <1>2 DEF Owner
  <2>2. Admitted(t, "admin")
    BY <1>2 DEF Owner
  <2> QED
    BY <2>1, <2>2, Sorts, FinishMoves, HandleMoves
<1> QED
  BY <1>1, <1>2

\* Steps that end a request.
LEMMA EndMoves ==
  ASSUME Shaped, NEW t \in Threads,
         \/ Answer(t) \/ CreateSession(t) \/ Logout(t) \/ CreateUser(t) \/ Forget(t)
         \/ CreateToken(t) \/ DeleteToken(t)
  PROVE  Moved(t)
BY FinishMoves DEF Answer, CreateSession, Logout, CreateUser, Forget, CreateToken, DeleteToken

\* A login begins.
LEMMA LoginAttemptMoves ==
  ASSUME Shaped, NEW t \in Threads, LoginAttempt(t)
  PROVE  Moved(t)
<1>1. CASE LoginAdmits
  <2> DEFINE x == [Idle EXCEPT !.at = "check", !.op = "login", !.session = thr[t].session]
  <2>1. thr' = [thr EXCEPT ![t] = x]
    BY <1>1 DEF LoginAttempt
  <2>2. /\ Idle \in Thread /\ thr[t].session \in Sessions \cup {None} /\ now \in Nat
        /\ Idle.began = 0 /\ Idle.start = 0 /\ Idle.method = None /\ Idle.end = None
        /\ "check" \in Points /\ "login" \in Ops
    BY ThreadFit, IdleFit, Sorts DEF Fit, Thread, Ops
  <2>3. /\ x \in Thread /\ x.at = "check" /\ x.began = Idle.began /\ x.start = Idle.start
        /\ x.method = Idle.method /\ x.end = Idle.end
    BY <2>2, ZenonT(60) DEF Thread
  <2> HIDE DEF x
  <2>4. Formed(x) /\ Unharmed(x) /\ x.method # "session"
    BY <2>2, <2>3, Sorts DEF Formed, Unharmed, Methods
  <2>5. Recent(x)
    BY <2>2, <2>3 DEF Recent
  <2> QED
    BY <2>1, <2>3, <2>4, <2>5 DEF Moved, Fit
<1>2. CASE Finish(t)
  BY <1>2, FinishMoves
<1> QED
  BY <1>1, <1>2 DEF LoginAttempt

\* The password of a login is verified.
LEMMA LoginVerifyMoves ==
  ASSUME Shaped, NEW t \in Threads, LoginVerify(t)
  PROVE  Moved(t)
<1>1. Fit(thr[t]) /\ thr[t] \in Thread /\ thr[t].at = "check" /\ thr[t].method = None
      /\ thr[t].end = None
  BY ThreadFit DEF Fit, Formed, LoginVerify
<1>2. ASSUME NEW c \in Credentials, NEW i \in Verified(c),
             thr' = [thr EXCEPT ![t].at = "welcome", ![t].user = Who(i, None)]
      PROVE  Moved(t)
  <2> DEFINE u == Who(i, None)
             x == [thr[t] EXCEPT !.at = "welcome", !.user = u]
  <2>1. u \in Whos \cup {None} /\ u \in Whos
    BY WhoTyped DEF Verified
  <2>2. thr' = [thr EXCEPT ![t] = x]
    BY <1>2
  <2>3. "welcome" \in Points
    BY Sorts
  <2> HIDE DEF u
  <2>4. /\ x \in Thread /\ x.at = "welcome" /\ x.user = u /\ x.began = thr[t].began
        /\ x.start = thr[t].start /\ x.method = None /\ x.end = None
    BY <1>1, <2>1, <2>3 DEF Thread
  <2> HIDE DEF x
  <2>5. Formed(x) /\ Unharmed(x) /\ Recent(x) /\ x.method # "session"
    BY <1>1, <2>1, <2>4, Sorts DEF Fit, Formed, Unharmed, Recent, Methods
  <2> QED
    BY <2>2, <2>4, <2>5 DEF Moved, Fit
<1> QED
  BY <1>2, FinishMoves DEF LoginVerify

\* The old session of a login goes.
LEMMA ReplaceMoves ==
  ASSUME Shaped, NEW t \in Threads, ReplaceSession(t)
  PROVE  Moved(t)
<1> DEFINE x == [thr[t] EXCEPT !.at = "insert", !.session = None]
<1>1. Fit(thr[t]) /\ thr[t] \in Thread /\ thr[t].at = "replace" /\ thr[t].method = None
      /\ thr[t].end = None /\ thr[t].user \in Whos /\ "insert" \in Points
  BY ThreadFit, Sorts DEF Fit, Formed, ReplaceSession
<1>2. thr' = [thr EXCEPT ![t] = x]
  BY DEF ReplaceSession
<1>3. /\ x \in Thread /\ x.at = "insert" /\ x.user = thr[t].user /\ x.began = thr[t].began
      /\ x.start = thr[t].start /\ x.method = None /\ x.end = None
  BY <1>1 DEF Thread
<1> HIDE DEF x
<1>4. Formed(x) /\ Unharmed(x) /\ Recent(x) /\ x.method # "session"
  BY <1>1, <1>3, Sorts DEF Fit, Formed, Unharmed, Recent, Methods
<1> QED
  BY <1>2, <1>3, <1>4 DEF Moved, Fit

\* Every step of a thread but those that make others lose their account.
LEMMA StepMoves ==
  ASSUME Shaped, NEW t \in Threads,
         \/ Ask(t) \/ BySession(t) \/ DeleteExpired(t) \/ Renew(t) \/ ByToken(t)
         \/ Attempt(t) \/ Lookup(t) \/ Verify(t) \/ Fill(t) \/ ClearAttempts(t) \/ Answer(t)
         \/ LoginAttempt(t) \/ LoginVerify(t) \/ LoginClear(t)
         \/ ReplaceSession(t) \/ CreateSession(t) \/ Logout(t)
         \/ NameFree(t) \/ CreateUser(t) \/ FindToChange(t) \/ FindToDelete(t) \/ Forget(t)
         \/ Owner(t) \/ CreateToken(t) \/ DeleteToken(t)
  PROVE  Moved(t)
BY AskMoves, BySessionMoves, DeleteExpiredMoves, RenewMoves, ByTokenMoves, AttemptMoves, LookupMoves,
   VerifyMoves, FillMoves, ClearMoves, EndMoves, LoginAttemptMoves, LoginVerifyMoves, ReplaceMoves,
   NameFreeMoves, FindToChangeMoves, FindMoves

-----------------------------------------------------------------------------
(* Accounts that are lost.                                                 *)

Alike(x, y) ==
    /\ y.at = x.at /\ y.op = x.op /\ y.session = x.session /\ y.token = x.token /\ y.form = x.form
    /\ y.target = x.target /\ y.change = x.change /\ y.began = x.began /\ y.start = x.start
    /\ y.user = x.user /\ y.method = x.method

\* A thread whose account is lost is marked, and nothing else.
LEMMA EndedFit ==
  ASSUME now \in Instants, NEW x, Fit(x), x.method # None
  PROVE  Fit(Ended(x)) /\ Alike(x, Ended(x))
<1>1. CASE Ended(x) = x
  BY <1>1 DEF Alike
<1>2. CASE Ended(x) # x
  <2> DEFINE y == [x EXCEPT !.end = now]
  <2>1. Ended(x) = y
    BY <1>2 DEF Ended
  <2>2. y \in Thread /\ Alike(x, y) /\ y.end = now
    BY DEF Fit, Thread, Alike
  <2> HIDE DEF y
  <2>3. Formed(y)
    BY <2>2 DEF Fit, Formed, Alike
  <2>4. Unharmed(y)
    BY <2>2 DEF Fit, Unharmed, Alike
  <2>5. y.began <= now /\ y.start <= now /\ now < now + BasicTTL /\ now \in Nat
        /\ y.began \in Nat /\ y.start \in Nat
    <3>1. x.began <= now /\ x.start <= now /\ x.began \in Nat /\ x.start \in Nat
      BY Sorts DEF Fit, Recent, Thread
    <3>2. y.began = x.began /\ y.start = x.start
      BY <2>2 DEF Alike
    <3>3. now < now + BasicTTL /\ now \in Nat
      BY Sorts
    <3> QED
      BY <3>1, <3>2, <3>3
  <2>6. y.at \in {"lookup", "verify", "fill"} => y.began <= y.start
    BY <2>2 DEF Fit, Recent, Alike
  <2>7. Recent(y)
    BY <2>2, <2>5, <2>6, Sorts DEF Recent
  <2> QED
    BY <2>1, <2>2, <2>3, <2>4, <2>7 DEF Fit
<1> QED
  BY <1>1, <1>2

\* What was recent is so later.
LEMMA RecentLater ==
  ASSUME NEW x, Fit(x), now \in Instants, now' \in Instants, now <= now'
  PROVE  Recent(x)'
<1>1. x.began \in Nat /\ x.start \in Nat /\ now \in Nat /\ now' \in Nat
  BY Sorts DEF Fit, Thread
<1> QED
  BY <1>1 DEF Fit, Recent

\* All threads are marked that have to be.
LEMMA AgedFit ==
  ASSUME now \in Instants, now' \in Instants, now <= now',
         NEW f \in [Threads -> Thread], \A v \in Threads : Fit(f[v]), Aged(f)
  PROVE  /\ thr' \in [Threads -> Thread]
         /\ \A v \in Threads : Formed(thr'[v]) /\ Unharmed(thr'[v]) /\ Recent(thr[v])'
         /\ \A v \in Threads : Alike(f[v], thr'[v])
<1>1. thr' = [v \in Threads |-> IF f[v].method = None THEN f[v] ELSE Ended(f[v])]
  BY DEF Aged
<1>2. ASSUME NEW v \in Threads
      PROVE  Fit(thr'[v]) /\ Alike(f[v], thr'[v])
  <2>1. CASE f[v].method = None
    BY <1>1, <2>1 DEF Alike
  <2>2. CASE f[v].method # None
    BY <1>1, <2>2, EndedFit
  <2> QED
    BY <2>1, <2>2
<1>3. ASSUME NEW v \in Threads
      PROVE  Formed(thr'[v]) /\ Unharmed(thr'[v]) /\ Recent(thr[v])'
  <2>1. PICK y : y = thr'[v]
    OBVIOUS
  <2>2. Fit(y)
    BY <1>2, <2>1
  <2>3. Recent(y)'
    BY <2>2, RecentLater
  <2> QED
    BY <2>1, <2>2, <2>3 DEF Fit, Recent
<1>4. thr' \in [Threads -> Thread]
  BY <1>1, <1>2 DEF Fit
<1> QED
  BY <1>2, <1>3, <1>4

\* So are the entries of the cache.
LEMMA CacheAged ==
  ASSUME now \in Instants, now' \in Instants, now <= now',
         NEW f \in [Credentials -> Entry \cup {None}],
         \A c \in Credentials : f[c] # None => Stamped(f[c]), AgedCache(f)
  PROVE  /\ basic' \in [Credentials -> Entry \cup {None}]
         /\ \A c \in Credentials : basic'[c] # None => Stamped(basic[c])'
<1>1. basic' = [c \in Credentials |-> IF f[c] = None THEN None ELSE Ended(f[c])]
  BY DEF AgedCache
<1>2. ASSUME NEW c \in Credentials, f[c] # None
      PROVE  basic'[c] \in Entry /\ Stamped(basic[c])'
  <2>1. PICK e \in Entry : e = f[c] /\ Stamped(e)
    BY <1>2
  <2>2. basic'[c] = Ended(e)
    BY <1>1, <1>2, <2>1
  <2>3. PICK y : y = Ended(e)
    OBVIOUS
  <2>4. y \in Entry /\ y.ts = e.ts /\ (y.end = e.end \/ y.end = now)
    BY <2>1, <2>3 DEF Ended, Entry
  <2>5. now \in Nat /\ now' \in Nat /\ y.ts \in Nat
    BY <2>4, Sorts DEF Entry
  <2>6. Stamped(y)'
    BY <2>1, <2>4, <2>5 DEF Stamped
  <2> QED
    BY <2>2, <2>3, <2>4, <2>6 DEF Stamped
<1>3. ASSUME NEW c \in Credentials, f[c] = None
      PROVE  basic'[c] = None
  BY <1>1, <1>3
<1> QED
  BY <1>1, <1>2, <1>3

-----------------------------------------------------------------------------
(* Rows.                                                                   *)

\* What may become of a session.
RowStep(s) ==
    \/ sessions'[s] = sessions[s]
    \/ /\ InTable(s) /\ sessions'[s].is \in {"ended", "expired", "overtaken"}
       /\ sessions'[s].user = sessions[s].user /\ sessions'[s].made = sessions[s].made
       /\ sessions'[s].exp = sessions[s].exp
       /\ sessions'[s].is = "expired" => ~BeingRenewed(s)
    \/ /\ InTable(s) /\ sessions'[s].is = "in"
       /\ sessions'[s].user = sessions[s].user /\ sessions'[s].made = sessions[s].made
       /\ sessions'[s].exp = now + Life
    \/ /\ sessions[s].is = "unused" /\ sessions'[s].is = "in" /\ InUsers(sessions'[s].user)
       /\ sessions'[s].made = now /\ sessions'[s].exp = now + Life

\* A session goes.
LEMMA RemovedRow ==
  ASSUME Rows, NEW s \in Sessions, NEW why \in {"ended", "expired"}
  PROVE  LET y == Removed(s, why) IN
         /\ y \in SessionRow /\ y.is # "in"
         /\ \/ y = sessions[s]
            \/ /\ InTable(s) /\ y.is \in {"ended", "expired", "overtaken"}
               /\ y.user = sessions[s].user /\ y.made = sessions[s].made /\ y.exp = sessions[s].exp
               /\ y.is = "expired" => ~BeingRenewed(s)
<1>1. sessions[s] \in SessionRow
  BY DEF Rows
<1> QED
  BY <1>1 DEF Removed, SessionRow, InTable

\* Every step that changes sessions but not accounts.
LEMMA SessionSteps ==
  ASSUME Shaped, NEW t \in Threads,
         \/ DeleteExpired(t) \/ Renew(t) \/ Cleanup(t) \/ ReplaceSession(t) \/ CreateSession(t)
         \/ Logout(t)
  PROVE  sessions' \in [Sessions -> SessionRow] /\ \A s \in Sessions : RowStep(s)
<1>0. Rows /\ sessions \in [Sessions -> SessionRow] /\ thr[t] \in Thread /\ Formed(thr[t])
      /\ now \in Instants
  BY DEF Shaped, Rows
<1>1. ASSUME NEW s \in Sessions, NEW why \in {"ended", "expired"},
             sessions' = [sessions EXCEPT ![s] = Removed(s, why)]
      PROVE  sessions' \in [Sessions -> SessionRow] /\ \A r \in Sessions : RowStep(r)
  <2>1. PICK y : y = Removed(s, why)
    OBVIOUS
  <2>2. /\ y \in SessionRow
        /\ \/ y = sessions[s]
           \/ /\ InTable(s) /\ y.is \in {"ended", "expired", "overtaken"}
              /\ y.user = sessions[s].user /\ y.made = sessions[s].made /\ y.exp = sessions[s].exp
              /\ y.is = "expired" => ~BeingRenewed(s)
    BY <1>0, <2>1, RemovedRow
  <2>3. sessions' = [sessions EXCEPT ![s] = y]
    BY <1>1, <2>1
  <2> QED
    BY <1>0, <2>2, <2>3 DEF RowStep
<1>2. CASE DeleteExpired(t)
  <2>1. thr[t].session \in Sessions
    BY <1>0, <1>2 DEF DeleteExpired, Formed
  <2> QED
    BY <1>1, <1>2, <2>1 DEF DeleteExpired
<1>3. CASE ReplaceSession(t)
  <2>1. thr[t].session \in Sessions
    BY <1>0, <1>3 DEF ReplaceSession, Formed
  <2> QED
    BY <1>1, <1>3, <2>1 DEF ReplaceSession
<1>4. CASE Logout(t)
  <2>1. thr[t].session \in Sessions
    BY <1>0, <1>4 DEF Logout, Thread
  <2> QED
    BY <1>1, <1>4, <2>1 DEF Logout
<1>5. CASE Renew(t)
  <2> DEFINE s == thr[t].session
  <2>1. s \in Sessions /\ now + Life \in 0..(MaxTime + Life)
    BY <1>0, <1>5, Sorts DEF Renew, Formed, Instants
  <2>2. CASE InTable(s)
    <3>1. sessions' = [sessions EXCEPT ![s].exp = now + Life]
      BY <1>5, <2>2 DEF Renew
    <3> QED
      BY <1>0, <2>1, <2>2, <3>1 DEF RowStep, SessionRow, InTable
  <2>3. CASE ~InTable(s)
    BY <1>0, <1>5, <2>3 DEF Renew, RowStep
  <2> QED
    BY <2>2, <2>3
<1>6. CASE Cleanup(t)
  <2>1. sessions' = [s \in Sessions |->
                       IF sessions[s].exp < now THEN Removed(s, "expired") ELSE sessions[s]]
    BY <1>6 DEF Cleanup
  <2>2. ASSUME NEW s \in Sessions
        PROVE  sessions'[s] \in SessionRow /\ RowStep(s)
    <3>1. PICK y : y = Removed(s, "expired")
      OBVIOUS
    <3>2. /\ y \in SessionRow
          /\ \/ y = sessions[s]
             \/ /\ InTable(s) /\ y.is \in {"ended", "expired", "overtaken"}
                /\ y.user = sessions[s].user /\ y.made = sessions[s].made /\ y.exp = sessions[s].exp
                /\ y.is = "expired" => ~BeingRenewed(s)
      BY <1>0, <3>1, RemovedRow
    <3>3. sessions'[s] = y \/ sessions'[s] = sessions[s]
      BY <2>1, <3>1
    <3> QED
      BY <1>0, <3>2, <3>3 DEF RowStep
  <2> QED
    BY <2>1, <2>2
<1>7. CASE CreateSession(t)
  <2> DEFINE i == thr[t].user.id
  <2>1. CASE References(i)
    <3>1. PICK s \in Sessions :
             /\ sessions[s].is = "unused"
             /\ sessions' = [sessions EXCEPT ![s] =
                               [is |-> "in", user |-> i, made |-> now, exp |-> now + Life]]
      BY <1>7, <2>1 DEF CreateSession
    <3>2. i \in Ids
      BY <1>0, <1>7 DEF CreateSession, Formed, Whos
    <3>3. now + Life \in 0..(MaxTime + Life)
      BY <1>0, Sorts DEF Instants
    <3> HIDE DEF i
    <3>4. [is |-> "in", user |-> i, made |-> now, exp |-> now + Life] \in SessionRow
      BY <1>0, <3>2, <3>3 DEF SessionRow
    <3> QED
      BY <1>0, <2>1, <3>1, <3>4 DEF RowStep, References
  <2>2. CASE ~References(i)
    BY <1>0, <1>7, <2>2 DEF CreateSession, RowStep
  <2> QED
    BY <2>1, <2>2
<1> QED
  BY <1>2, <1>3, <1>4, <1>5, <1>6, <1>7

\* The references of sessions stay good.
LEMMA SessionRows ==
  ASSUME Rows, sessions' \in [Sessions -> SessionRow], \A s \in Sessions : RowStep(s),
         users' = users, tokens' = tokens
  PROVE  Rows'
<1>1. ASSUME NEW s \in Sessions, sessions'[s].is = "in"
      PROVE  InUsers(sessions'[s].user)
  BY <1>1 DEF Rows, RowStep, InTable
<1> QED
  BY <1>1 DEF Rows, InTable, InUsers

\* So do those of tokens.
LEMMA TokenRows ==
  ASSUME Shaped, NEW t \in Threads, CreateToken(t) \/ DeleteToken(t)
  PROVE  Rows'
<1>0. Rows /\ Formed(thr[t]) /\ now \in Instants
  BY DEF Shaped
<1>1. CASE CreateToken(t)
  <2> DEFINE i == thr[t].target
  <2>1. i \in Ids
    BY <1>0, <1>1 DEF CreateToken, Formed
  <2>2. CASE References(i)
    <3>1. PICK k \in Tokens : \E e \in {now, None} :
             tokens' = [tokens EXCEPT ![k] = [is |-> "in", user |-> i, exp |-> e]]
      BY <1>1, <2>2 DEF CreateToken
    <3>2. PICK e \in {now, None} :
             tokens' = [tokens EXCEPT ![k] = [is |-> "in", user |-> i, exp |-> e]]
      BY <3>1
    <3>3. PICK y : y = [is |-> "in", user |-> i, exp |-> e]
      OBVIOUS
    <3>4. y \in TokenRow /\ InUsers(y.user)
      BY <1>0, <2>1, <2>2, <3>3 DEF TokenRow, References
    <3>5. UNCHANGED <<users, sessions>>
      BY <1>1 DEF CreateToken
    <3>6. tokens' \in [Tokens -> TokenRow]
      BY <1>0, <3>2, <3>3, <3>4 DEF Rows
    <3>7. \A l \in Tokens : tokens'[l].is = "in" => InUsers(tokens'[l].user)
      BY <1>0, <3>2, <3>3, <3>4 DEF Rows
    <3> QED
      BY <1>0, <3>5, <3>6, <3>7 DEF Rows, InTable, InUsers
  <2>3. CASE ~References(i)
    BY <1>0, <1>1, <2>3 DEF CreateToken, Rows, InTable, InUsers
  <2> QED
    BY <2>2, <2>3
<1>2. CASE DeleteToken(t)
  <2>1. PICK k \in Tokens :
          tokens' = IF tokens[k].is = "in" THEN [tokens EXCEPT ![k].is = "ended"] ELSE tokens
    BY <1>2 DEF DeleteToken, Issued
  <2>2. tokens' \in [Tokens -> TokenRow]
    BY <1>0, <2>1 DEF Rows, TokenRow
  <2>3. \A l \in Tokens : tokens'[l].is = "in" => InUsers(tokens'[l].user)
    BY <1>0, <2>1 DEF Rows, TokenRow
  <2>4. UNCHANGED <<users, sessions>>
    BY <1>2 DEF DeleteToken
  <2> QED
    BY <1>0, <2>2, <2>3, <2>4 DEF Rows, InTable, InUsers
<1> QED
  BY <1>1, <1>2

\* A new account has a name of its own.
LEMMA CreateRows ==
  ASSUME Shaped, NEW t \in Threads, CreateUser(t)
  PROVE  Rows'
<1> DEFINE n == thr[t].target
<1>0. Rows /\ n \in Names
  BY DEF Shaped, CreateUser, Formed
<1>1. UNCHANGED <<sessions, tokens>>
  BY DEF CreateUser
<1>2. CASE UNCHANGED users
  BY <1>0, <1>1, <1>2 DEF Rows, InTable, InUsers
<1>3. CASE /\ ~Taken(n)
           /\ \E i \in NextId, r \in Roles :
                users' = [users EXCEPT ![i] =
                   [in |-> TRUE, used |-> TRUE, name |-> n, pw |-> FirstPassword, role |-> r,
                    enabled |-> TRUE, exp |-> None]]
  <2>1. PICK i \in NextId, r \in Roles :
                users' = [users EXCEPT ![i] =
                   [in |-> TRUE, used |-> TRUE, name |-> n, pw |-> FirstPassword, role |-> r,
                    enabled |-> TRUE, exp |-> None]]
    BY <1>3
  <2>2. PICK y : y = [in |-> TRUE, used |-> TRUE, name |-> n, pw |-> FirstPassword, role |-> r,
                      enabled |-> TRUE, exp |-> None]
    OBVIOUS
  <2>3. y \in Account /\ y.in /\ y.used /\ y.name = n
    BY <1>0, <2>2, AccountsAssumption DEF Account
  <2>4. i \in Ids /\ ~users[i].used
    BY DEF NextId
  <2>5. ~InUsers(i)
    BY <1>0, <2>4 DEF Rows
  <2>6. users' \in [Ids -> Account] /\ users'[i] = y /\ \A j \in Ids \ {i} : users'[j] = users[j]
    BY <1>0, <2>1, <2>2, <2>3, <2>4 DEF Rows
  <2>7. \A j \in Ids : InUsers(j) => j # i /\ users[j].name # n
    BY <1>3, <2>5 DEF Taken
  <2>8. ASSUME NEW j \in Ids, NEW k \in Ids, users'[j].in, users'[k].in, users'[j].name = users'[k].name
        PROVE  j = k
    BY <1>0, <2>3, <2>6, <2>7, <2>8 DEF Rows, InUsers
  <2>9. \A j \in Ids : users'[j].in => users'[j].used
    BY <1>0, <2>3, <2>6 DEF Rows, InUsers
  <2>10. \A j \in Ids : InUsers(j) => users'[j].in
    BY <2>6, <2>7 DEF InUsers
  <2>11. /\ \A s \in Sessions : sessions[s].is = "in" => users'[sessions[s].user].in
         /\ \A k \in Tokens : tokens[k].is = "in" => users'[tokens[k].user].in
    BY <1>0, <2>10 DEF Rows, InTable, SessionRow, TokenRow
  <2> QED
    BY <1>0, <1>1, <2>6, <2>8, <2>9, <2>11 DEF Rows, InTable, InUsers
<1> QED
  BY <1>2, <1>3 DEF CreateUser

\* What an update makes of an account.
LEMMA ChangedFields ==
  ASSUME NEW u \in Account, NEW c \in AllChanges
  PROVE  LET y == Changed(u, c) IN
         /\ y \in Account /\ y.in = u.in /\ y.used = u.used /\ y.name = u.name
         /\ ~SelfForbidden(c) /\ c # [field |-> "enabled", to |-> "NO"] =>
               (u.role = "admin" /\ u.enabled => y.role = "admin" /\ y.enabled)
<1>1. CASE c \in [field : {"role"}, to : Roles]
  <2>1. Changed(u, c) = [u EXCEPT !.role = c.to] /\ c.to \in Roles
    BY <1>1 DEF Changed
  <2>2. ~SelfForbidden(c) => c.to = "admin"
    BY <1>1 DEF SelfForbidden
  <2> QED
    BY <2>1, <2>2 DEF Account
<1>2. CASE c \in [field : {"enabled"}, to : {"yes", "no", "NO"}]
  <2>1. Changed(u, c) = [u EXCEPT !.enabled = (c.to = "yes")] /\ c.to \in {"yes", "no", "NO"}
    BY <1>2 DEF Changed
  <2>2. ~SelfForbidden(c) => c.to # "no"
    BY <1>2 DEF SelfForbidden
  <2>3. c # [field |-> "enabled", to |-> "NO"] => c.to # "NO"
    BY <1>2
  <2> QED
    BY <2>1, <2>2, <2>3 DEF Account
<1>3. CASE c \in [field : {"pw"}, to : Passwords]
  <2>1. Changed(u, c) = [u EXCEPT !.pw = c.to] /\ c.to \in Passwords
    BY <1>3 DEF Changed
  <2> QED
    BY <2>1 DEF Account
<1>4. CASE c \in [field : {"exp"}, to : Instants]
  <2>1. Changed(u, c) = [u EXCEPT !.exp = c.to] /\ c.to \in Instants
    BY <1>4 DEF Changed
  <2> QED
    BY <2>1 DEF Account
<1> QED
  BY <1>1, <1>2, <1>3, <1>4 DEF AllChanges

\* An account that is updated keeps its name and its place.
LEMMA UpdateRows ==
  ASSUME Shaped, NEW t \in Threads, UpdateUser(t)
  PROVE  Rows'
<1> DEFINE i == thr[t].target
           c == thr[t].change
<1>0. Rows /\ i \in Ids /\ c \in AllChanges
  BY DEF Shaped, UpdateUser, Formed, Unharmed
<1>1. UNCHANGED <<sessions, tokens>>
  BY DEF UpdateUser
<1>2. users' = IF InUsers(i) THEN [users EXCEPT ![i] = Changed(users[i], c)] ELSE users
  BY DEF UpdateUser
<1>3. users[i] \in Account
  BY <1>0 DEF Rows
<1>4. PICK y : y = Changed(users[i], c)
  OBVIOUS
<1>5. y \in Account /\ y.in = users[i].in /\ y.used = users[i].used /\ y.name = users[i].name
  BY <1>0, <1>3, <1>4, ChangedFields
<1>6. users' \in [Ids -> Account]
  BY <1>0, <1>2, <1>4, <1>5 DEF Rows
<1>7. \A j \in Ids : /\ users'[j].in = users[j].in /\ users'[j].used = users[j].used
                     /\ users'[j].name = users[j].name
  BY <1>0, <1>2, <1>4, <1>5 DEF Rows
<1>8. (\A s \in Sessions : sessions[s].user \in Ids) /\ \A k \in Tokens : tokens[k].user \in Ids
  BY <1>0 DEF Rows, SessionRow, TokenRow
<1> QED
  BY <1>0, <1>1, <1>6, <1>7, <1>8 DEF Rows, InTable, InUsers

\* What refers to an account that is deleted goes with it.
LEMMA DeleteRows ==
  ASSUME Shaped, NEW t \in Threads, DeleteUser(t)
  PROVE  /\ Rows' /\ \A s \in Sessions : RowStep(s)
<1> DEFINE i == thr[t].target
<1>0. Rows /\ i \in Ids
  BY DEF Shaped, DeleteUser, Formed
<1>1. /\ sessions' = [s \in Sessions |->
                        IF sessions[s].user = i THEN Removed(s, "ended") ELSE sessions[s]]
      /\ tokens' = [k \in Tokens |->
                      IF tokens[k].is = "in" /\ tokens[k].user = i
                      THEN [tokens[k] EXCEPT !.is = "ended"] ELSE tokens[k]]
      /\ users' = [users EXCEPT ![i].in = FALSE]
  BY DEF DeleteUser
<1> HIDE DEF i
<1>13. PICK z : z = [users[i] EXCEPT !.in = FALSE]
  OBVIOUS
<1>14. z \in Account /\ ~z.in /\ z.used = users[i].used /\ z.name = users[i].name
  BY <1>0, <1>13, ZenonT(60) DEF Rows, Account
<1>15. users' = [users EXCEPT ![i] = z]
  BY <1>1, <1>13
<1>2. users' \in [Ids -> Account]
  BY <1>0, <1>14, <1>15 DEF Rows
<1>3. /\ ~users'[i].in
      /\ \A j \in Ids : users'[j].used = users[j].used /\ users'[j].name = users[j].name
      /\ \A j \in Ids \ {i} : users'[j] = users[j]
  BY <1>0, <1>14, <1>15 DEF Rows
<1>4. ASSUME NEW s \in Sessions
      PROVE  /\ sessions'[s] \in SessionRow /\ RowStep(s)
             /\ sessions'[s].is = "in" =>
                   sessions'[s] = sessions[s] /\ sessions[s].user # i
  <2>1. PICK y : y = Removed(s, "ended")
    OBVIOUS
  <2>2. /\ y \in SessionRow /\ y.is # "in"
        /\ \/ y = sessions[s]
           \/ /\ InTable(s) /\ y.is \in {"ended", "expired", "overtaken"}
              /\ y.user = sessions[s].user /\ y.made = sessions[s].made /\ y.exp = sessions[s].exp
              /\ y.is = "expired" => ~BeingRenewed(s)
    BY <1>0, <2>1, RemovedRow
  <2>3. sessions'[s] = IF sessions[s].user = i THEN y ELSE sessions[s]
    BY <1>1, <2>1
  <2> QED
    BY <1>0, <2>2, <2>3 DEF RowStep, Rows
<1>5. ASSUME NEW k \in Tokens
      PROVE  /\ tokens'[k] \in TokenRow
             /\ tokens'[k].is = "in" => tokens'[k] = tokens[k] /\ tokens[k].user # i
  <2>1. tokens[k] \in TokenRow
    BY <1>0 DEF Rows
  <2> QED
    BY <1>1, <2>1 DEF TokenRow
<1>6. sessions' \in [Sessions -> SessionRow] /\ tokens' \in [Tokens -> TokenRow]
  BY <1>1, <1>4, <1>5
<1>7. \A s \in Sessions : sessions'[s].is = "in" => users'[sessions'[s].user].in
  BY <1>0, <1>3, <1>4 DEF Rows, SessionRow, InTable, InUsers
<1>8. \A k \in Tokens : tokens'[k].is = "in" => users'[tokens'[k].user].in
  BY <1>0, <1>3, <1>5 DEF Rows, TokenRow, InUsers
<1>9. \A j \in Ids : users'[j].in => users[j].in
  BY <1>3
<1>10. \A j, k \in Ids : users'[j].in /\ users'[k].in /\ users'[j].name = users'[k].name => j = k
  BY <1>0, <1>3, <1>9 DEF Rows, InUsers
<1>11. \A j \in Ids : users'[j].in => users'[j].used
  BY <1>0, <1>3, <1>9 DEF Rows, InUsers
<1>12. Rows'
  BY <1>2, <1>6, <1>7, <1>8, <1>10, <1>11 DEF Rows, InTable, InUsers
<1> QED
  BY <1>4, <1>12

-----------------------------------------------------------------------------
(* Every step.                                                             *)

\* Steps that leave the tables alone.
Guards(t) ==
    \/ Ask(t) \/ BySession(t) \/ ByToken(t) \/ Attempt(t) \/ Lookup(t) \/ Verify(t) \/ Fill(t)
    \/ ClearAttempts(t) \/ Answer(t) \/ LoginAttempt(t) \/ LoginVerify(t) \/ LoginClear(t)
    \/ NameFree(t) \/ FindToChange(t) \/ FindToDelete(t) \/ Owner(t) \/ Forget(t)

\* Steps that change sessions, and those that change accounts or tokens.
SessionChanges(t) ==
    \/ DeleteExpired(t) \/ Renew(t) \/ Cleanup(t) \/ ReplaceSession(t) \/ CreateSession(t) \/ Logout(t)

AccountChanges(t) ==
    CreateUser(t) \/ UpdateUser(t) \/ DeleteUser(t) \/ CreateToken(t) \/ DeleteToken(t)

\* Every step is one of these.
LEMMA Steps ==
  ASSUME Next
  PROVE  Tick \/ \E t \in Threads : Guards(t) \/ SessionChanges(t) \/ AccountChanges(t)
BY DEF Next, Guards, SessionChanges, AccountChanges

\* What they leave alone.
LEMMA GuardsKeep ==
  ASSUME NEW t \in Threads, Guards(t)
  PROVE  UNCHANGED <<tables, now>>
<1>1. CASE Ask(t) \/ BySession(t) \/ ByToken(t) \/ Attempt(t) \/ Lookup(t) \/ Verify(t)
  BY <1>1 DEF Ask, BySession, ByToken, Attempt, Lookup, Verify
<1>2. CASE Fill(t) \/ ClearAttempts(t) \/ Answer(t) \/ LoginAttempt(t) \/ LoginVerify(t) \/ LoginClear(t)
  BY <1>2 DEF Fill, ClearAttempts, Answer, LoginAttempt, LoginVerify, LoginClear
<1>3. CASE NameFree(t) \/ FindToChange(t) \/ FindToDelete(t) \/ Owner(t) \/ Forget(t)
  BY <1>3 DEF NameFree, FindToChange, FindToDelete, Owner, Forget
<1> QED
  BY <1>1, <1>2, <1>3 DEF Guards

\* And these.
LEMMA SessionChangesKeep ==
  ASSUME NEW t \in Threads, SessionChanges(t)
  PROVE  UNCHANGED <<users, tokens, basic, tries, now, requests>>
BY DEF SessionChanges, DeleteExpired, Renew, Cleanup, ReplaceSession, CreateSession, Logout

\* And these.
LEMMA AccountChangesKeep ==
  ASSUME NEW t \in Threads, AccountChanges(t)
  PROVE  /\ UNCHANGED <<tries, now, requests>>
         /\ ~DeleteUser(t) => sessions' = sessions
         /\ ~DeleteUser(t) /\ ~UpdateUser(t) => basic' = basic
BY DEF AccountChanges, CreateUser, UpdateUser, DeleteUser, CreateToken, DeleteToken

\* Every step keeps the rows; a session moves on.
LEMMA StepRows ==
  ASSUME Shaped, [Next]_vars
  PROVE  Rows' /\ \A s \in Sessions : RowStep(s)
<1>0. Rows
  BY DEF Shaped
<1>1. CASE UNCHANGED tables
  BY <1>0, <1>1 DEF tables, Rows, RowStep, InTable, InUsers
<1>2. ASSUME NEW t \in Threads, SessionChanges(t)
      PROVE  Rows' /\ \A s \in Sessions : RowStep(s)
  <2>1. sessions' \in [Sessions -> SessionRow] /\ \A s \in Sessions : RowStep(s)
    BY <1>2, SessionSteps DEF SessionChanges
  <2>2. users' = users /\ tokens' = tokens
    BY <1>2, SessionChangesKeep
  <2> QED
    BY <1>0, <2>1, <2>2, SessionRows
<1>3. ASSUME NEW t \in Threads, AccountChanges(t)
      PROVE  Rows' /\ \A s \in Sessions : RowStep(s)
  <2>1. CASE DeleteUser(t)
    BY <2>1, DeleteRows
  <2>2. CASE ~DeleteUser(t)
    <3>1. Rows'
      BY <1>3, <2>2, CreateRows, UpdateRows, TokenRows DEF AccountChanges
    <3>2. sessions' = sessions
      BY <1>3, <2>2, AccountChangesKeep
    <3> QED
      BY <3>1, <3>2 DEF RowStep
  <2> QED
    BY <2>1, <2>2
<1>4. CASE Tick
  BY <1>1, <1>4 DEF Tick
<1>5. CASE UNCHANGED vars
  BY <1>1, <1>5 DEF vars
<1>6. ASSUME NEW t \in Threads, Guards(t)
      PROVE  UNCHANGED tables
  BY <1>6, GuardsKeep
<1> QED
  BY <1>1, <1>2, <1>3, <1>4, <1>5, <1>6, Steps

\* The clock never goes back.
LEMMA StepClock ==
  ASSUME Shaped, [Next]_vars
  PROVE  now \in Instants /\ now' \in Instants /\ now <= now'
<1>0. now \in Instants /\ now \in Nat
  BY Sorts DEF Shaped
<1>1. CASE Tick
  BY <1>0, <1>1, Sorts DEF Tick, Instants
<1>2. CASE UNCHANGED now
  BY <1>0, <1>2
<1>3. ASSUME NEW t \in Threads, Guards(t) \/ SessionChanges(t) \/ AccountChanges(t)
      PROVE  UNCHANGED now
  BY <1>3, GuardsKeep, SessionChangesKeep, AccountChangesKeep
<1> QED
  BY <1>1, <1>2, <1>3, Steps DEF vars

\* A thread moves, or another loses its account, or time passes.
LEMMA StepThreads ==
  ASSUME Shaped, [Next]_vars
  PROVE  /\ thr' \in [Threads -> Thread]
         /\ \A v \in Threads : Formed(thr'[v]) /\ Unharmed(thr'[v]) /\ Recent(thr[v])'
<1>0. /\ now \in Instants /\ now' \in Instants /\ now <= now'
      /\ thr \in [Threads -> Thread] /\ \A v \in Threads : Fit(thr[v])
  BY StepClock, ThreadFit DEF Shaped
<1>1. ASSUME NEW t \in Threads, Moved(t), now' = now
      PROVE  /\ thr' \in [Threads -> Thread]
             /\ \A v \in Threads : Formed(thr'[v]) /\ Unharmed(thr'[v]) /\ Recent(thr[v])'
  <2>1. PICK x : Fit(x) /\ thr' = [thr EXCEPT ![t] = x]
    BY <1>1 DEF Moved
  <2> QED
    BY <1>1, <2>1, OneMoves
<1>2. CASE UNCHANGED <<thr, now>>
  BY <1>0, <1>2 DEF Fit, Recent
<1>3. CASE Tick
  BY <1>0, <1>3, AgedFit DEF Tick
<1>4. ASSUME NEW t \in Threads, UpdateUser(t) \/ DeleteUser(t)
      PROVE  /\ thr' \in [Threads -> Thread]
             /\ \A v \in Threads : Formed(thr'[v]) /\ Unharmed(thr'[v]) /\ Recent(thr[v])'
  <2> DEFINE y == [Idle EXCEPT !.at = "forget"]
  <2>1. Fit(Idle) /\ Fit(y)
    <3>1. Fit(Idle) /\ Idle.method = None /\ "forget" \in Points /\ None # "session"
      BY <1>0, IdleFit, Sorts DEF Methods
    <3> QED
      BY <3>1, GoFit
  <2> HIDE DEF y
  <2>2. ASSUME NEW z, Fit(z), Aged([thr EXCEPT ![t] = z])
        PROVE  /\ thr' \in [Threads -> Thread]
               /\ \A v \in Threads : Formed(thr'[v]) /\ Unharmed(thr'[v]) /\ Recent(thr[v])'
    <3>1. PICK f : f = [thr EXCEPT ![t] = z]
      OBVIOUS
    <3>2. f \in [Threads -> Thread] /\ \A v \in Threads : Fit(f[v])
      BY <1>0, <2>2, <3>1 DEF Fit
    <3> QED
      BY <1>0, <2>2, <3>1, <3>2, AgedFit
  <2>3. CASE UpdateUser(t)
    <3>1. Aged([thr EXCEPT ![t] = y])
      BY <2>3 DEF UpdateUser, y
    <3> QED
      BY <2>1, <2>2, <3>1
  <2>4. CASE DeleteUser(t)
    <3>1. Aged([thr EXCEPT ![t] = y]) \/ Aged([thr EXCEPT ![t] = Idle])
      BY <2>4 DEF DeleteUser, y
    <3> QED
      BY <2>1, <2>2, <3>1
  <2> QED
    BY <1>4, <2>3, <2>4
<1>5. ASSUME NEW t \in Threads, Guards(t)
      PROVE  Moved(t) /\ now' = now
  BY <1>5, StepMoves, GuardsKeep DEF Guards
<1>6. ASSUME NEW t \in Threads, SessionChanges(t)
      PROVE  (Moved(t) /\ now' = now) \/ UNCHANGED <<thr, now>>
  <2>1. now' = now
    BY <1>6, SessionChangesKeep
  <2>2. CASE Cleanup(t)
    BY <2>1, <2>2 DEF Cleanup
  <2>3. CASE ~Cleanup(t)
    BY <1>6, <2>1, <2>3, StepMoves DEF SessionChanges
  <2> QED
    BY <2>2, <2>3
<1>7. ASSUME NEW t \in Threads, AccountChanges(t)
      PROVE  (Moved(t) /\ now' = now) \/ UpdateUser(t) \/ DeleteUser(t)
  BY <1>7, StepMoves, AccountChangesKeep DEF AccountChanges
<1> QED
  BY <1>1, <1>2, <1>3, <1>4, <1>5, <1>6, <1>7, Steps DEF vars

\* The guard changes the cache only where it fills or clears it.
LEMMA GuardsCache ==
  ASSUME NEW t \in Threads, Guards(t), ~Fill(t), ~Forget(t)
  PROVE  basic' = basic
<1>1. CASE Ask(t) \/ BySession(t) \/ ByToken(t) \/ Attempt(t) \/ Lookup(t) \/ Verify(t)
  BY <1>1 DEF Ask, BySession, ByToken, Attempt, Lookup, Verify
<1>2. CASE ClearAttempts(t) \/ Answer(t) \/ LoginAttempt(t) \/ LoginVerify(t) \/ LoginClear(t)
  BY <1>2 DEF ClearAttempts, Answer, LoginAttempt, LoginVerify, LoginClear
<1>3. CASE NameFree(t) \/ FindToChange(t) \/ FindToDelete(t) \/ Owner(t)
  BY <1>3 DEF NameFree, FindToChange, FindToDelete, Owner
<1> QED
  BY <1>1, <1>2, <1>3 DEF Guards

\* What is in the cache was verified when its stamp says, or later.
LEMMA StepCache ==
  ASSUME Shaped, [Next]_vars
  PROVE  /\ basic' \in [Credentials -> Entry \cup {None}]
         /\ \A c \in Credentials : basic'[c] # None => Stamped(basic[c])'
<1>0. /\ now \in Instants /\ now' \in Instants /\ now <= now'
      /\ basic \in [Credentials -> Entry \cup {None}]
      /\ \A c \in Credentials : basic[c] # None => Stamped(basic[c])
  BY StepClock DEF Shaped
<1>1. CASE UNCHANGED <<basic, now>>
  BY <1>0, <1>1 DEF Stamped
<1>2. CASE Tick
  <2> DEFINE f == [c \in Credentials |-> IF Kept(c) THEN basic[c] ELSE None]
  <2>1. f \in [Credentials -> Entry \cup {None}] /\ \A c \in Credentials : f[c] # None => Stamped(f[c])
    BY <1>0
  <2>2. AgedCache(f)
    BY <1>2 DEF Tick
  <2> HIDE DEF f
  <2> QED
    BY <1>0, <2>1, <2>2, CacheAged
<1>3. ASSUME NEW t \in Threads, Fill(t)
      PROVE  /\ basic' \in [Credentials -> Entry \cup {None}]
             /\ \A c \in Credentials : basic'[c] # None => Stamped(basic[c])'
  <2> DEFINE x == thr[t]
             e == [user |-> x.user, ts |-> x.start, end |-> x.end]
  <2>1. /\ x \in Thread /\ x.form \in Credentials /\ x.user \in Whos /\ x.start \in Instants
        /\ x.end \in Instants \cup {None} /\ x.start <= now /\ (x.end # None => x.start <= x.end)
    BY <1>3, ThreadFit DEF Fill, Fit, Formed, Recent, Thread
  <2>2. basic' = [basic EXCEPT ![x.form] = e] /\ now' = now
    BY <1>3 DEF Fill, Stamp
  <2>3. e \in Entry /\ e.ts = x.start /\ e.end = x.end
    BY <2>1 DEF Entry
  <2> HIDE DEF x, e
  <2>4. Stamped(e)
    BY <2>1, <2>3 DEF Stamped
  <2>5. basic' \in [Credentials -> Entry \cup {None}]
    BY <1>0, <2>1, <2>2, <2>3
  <2>6. ASSUME NEW c \in Credentials, basic'[c] # None
        PROVE  Stamped(basic[c])'
    <3>1. basic'[c] = e \/ basic'[c] = basic[c]
      BY <1>0, <2>1, <2>2
    <3>2. PICK y : y = basic'[c]
      OBVIOUS
    <3>3. Stamped(y)
      BY <1>0, <2>4, <2>6, <3>1, <3>2
    <3> QED
      BY <2>2, <3>2, <3>3 DEF Stamped
  <2> QED
    BY <2>5, <2>6
<1>4. ASSUME NEW t \in Threads, Forget(t)
      PROVE  basic' = [c \in Credentials |-> None]
  BY <1>4 DEF Forget
<1>5. ASSUME NEW t \in Threads, UpdateUser(t) \/ DeleteUser(t)
      PROVE  AgedCache(basic)
  BY <1>5 DEF UpdateUser, DeleteUser
<1>6. ASSUME NEW t \in Threads, Guards(t), ~Fill(t), ~Forget(t)
      PROVE  UNCHANGED <<basic, now>>
  BY <1>6, GuardsCache, GuardsKeep
<1>7. ASSUME NEW t \in Threads, SessionChanges(t)
      PROVE  UNCHANGED <<basic, now>>
  BY <1>7, SessionChangesKeep
<1>8. ASSUME NEW t \in Threads, AccountChanges(t)
      PROVE  UNCHANGED <<basic, now>> \/ UpdateUser(t) \/ DeleteUser(t)
  BY <1>8, AccountChangesKeep
<1>9. CASE basic' = [c \in Credentials |-> None]
  BY <1>9
<1>10. CASE AgedCache(basic)
  BY <1>0, <1>10, CacheAged
<1> QED
  BY <1>1, <1>2, <1>3, <1>4, <1>5, <1>6, <1>7, <1>8, <1>9, <1>10, Steps DEF vars

\* The limiter and the requests are counted.
LEMMA StepCounts ==
  ASSUME Shaped, [Next]_vars
  PROVE  tries' \in [Instants -> Nat] /\ requests' \in 0..MaxRequests
<1>0. tries \in [Instants -> Nat] /\ requests \in 0..MaxRequests /\ now \in Instants
      /\ MaxRequests \in Nat
  BY AccountsAssumption DEF Shaped
<1>1. NoTries \in [Instants -> Nat]
  BY DEF NoTries
<1>2. CASE Tick
  BY <1>0, <1>2 DEF Tick
<1>3. ASSUME NEW t \in Threads, Guards(t)
      PROVE  tries' \in [Instants -> Nat] /\ requests' \in 0..MaxRequests
  <2>1. CASE Ask(t)
    <3>1. requests < MaxRequests /\ requests' = requests + 1 /\ tries' = tries
      BY <2>1 DEF Ask
    <3> QED
      BY <1>0, <3>1
  <2>2. CASE Attempt(t) \/ LoginAttempt(t)
    <3>1. tries' = [tries EXCEPT ![now] = @ + 1] \/ tries' = tries
      BY <2>2 DEF Attempt, LoginAttempt
    <3>2. requests' = requests
      BY <2>2 DEF Attempt, LoginAttempt
    <3> QED
      BY <1>0, <3>1, <3>2
  <2>3. CASE ClearAttempts(t) \/ LoginClear(t)
    BY <1>0, <1>1, <2>3 DEF ClearAttempts, LoginClear
  <2>4. CASE BySession(t) \/ ByToken(t) \/ Lookup(t) \/ Verify(t) \/ Fill(t) \/ Answer(t) \/ LoginVerify(t)
    BY <1>0, <2>4 DEF BySession, ByToken, Lookup, Verify, Fill, Answer, LoginVerify
  <2>5. CASE NameFree(t) \/ FindToChange(t) \/ FindToDelete(t) \/ Owner(t) \/ Forget(t)
    BY <1>0, <2>5 DEF NameFree, FindToChange, FindToDelete, Owner, Forget
  <2> QED
    BY <1>3, <2>1, <2>2, <2>3, <2>4, <2>5 DEF Guards
<1>4. ASSUME NEW t \in Threads, SessionChanges(t) \/ AccountChanges(t)
      PROVE  tries' = tries /\ requests' = requests
  BY <1>4, SessionChangesKeep, AccountChangesKeep
<1> QED
  BY <1>0, <1>2, <1>3, <1>4, Steps DEF vars

\* Shaped holds when the program starts.
LEMMA InitShaped == Init => Shaped
<1> SUFFICES ASSUME Init PROVE Shaped
  OBVIOUS
<1>1. now = 0 /\ requests = 0 /\ now \in Instants /\ requests \in 0..MaxRequests
  BY Sorts, AccountsAssumption DEF Init
<1>2. thr \in [Threads -> Thread] /\ \A t \in Threads : Formed(thr[t]) /\ Unharmed(thr[t]) /\ Recent(thr[t])
  <2>1. Fit(Idle) /\ thr = [t \in Threads |-> Idle]
    BY <1>1, IdleFit DEF Init
  <2> QED
    BY <2>1 DEF Fit
<1>3. basic = [c \in Credentials |-> None] /\ tries \in [Instants -> Nat]
  BY DEF Init, NoTries
<1>4. users \in [Ids -> Account] /\ \A i \in Ids : (users[i].in <=> i = 1) /\ (users[i].used <=> i = 1)
  BY AccountsAssumption, Zenon DEF Init, Account, Roles
<1>5. sessions \in [Sessions -> SessionRow] /\ \A s \in Sessions : sessions[s].is = "unused"
  BY Sorts DEF Init, SessionRow
<1>6. tokens \in [Tokens -> TokenRow] /\ \A k \in Tokens : tokens[k].is = "unused"
  BY Sorts DEF Init, TokenRow
<1>7. Rows
  BY <1>4, <1>5, <1>6 DEF Rows, InTable, InUsers
<1> QED
  BY <1>1, <1>2, <1>3, <1>7 DEF Shaped

\* Every step keeps Shaped.
LEMMA StepShaped == Shaped /\ [Next]_vars => Shaped'
<1> SUFFICES ASSUME Shaped, [Next]_vars PROVE Shaped'
  OBVIOUS
<1> QED
  BY StepRows, StepClock, StepThreads, StepCache, StepCounts DEF Shaped

\* Shaped holds always.
LEMMA AlwaysShaped == Spec => []Shaped
BY InitShaped, StepShaped, PTL DEF Spec

\* Variables have their types, and a session or token that is in its table belongs
\* to an account that exists: _ensure_auth_init's foreign keys and their cascade.
THEOREM TypesHold == Spec => []TypeOK
<1>1. Shaped => TypeOK
  <2> SUFFICES ASSUME Shaped PROVE TypeOK
    OBVIOUS
  <2>1. ASSUME NEW c \in Credentials, basic[c] # None
        PROVE  basic[c].user \in Whos /\ basic[c].ts \in Instants
    BY <2>1 DEF Shaped, Entry
  <2>2. ASSUME NEW t \in Threads
        PROVE  /\ thr[t].at \in Points /\ thr[t].op \in Ops
               /\ thr[t].user # None => thr[t].user \in Whos
    BY DEF Shaped, Thread
  <2> QED
    BY <2>1, <2>2 DEF Shaped, Rows, TypeOK
<1> QED
  BY <1>1, AlwaysShaped, PTL

\* Whoever passes the guard was entitled to it when the request arrived or later,
\* or, with a password, less than the time to live of _basic_auth_cache before.
THEOREM GrantsAreRecent == Spec => []GrantIsRecent
<1>1. Shaped => GrantIsRecent
  <2> SUFFICES ASSUME Shaped, NEW t \in Threads, thr[t].at = "in", thr[t].user # None, thr[t].end # None
               PROVE  IF thr[t].method = "basic" THEN thr[t].began < thr[t].end + BasicTTL
                      ELSE thr[t].began <= thr[t].end
    BY DEF GrantIsRecent
  <2> QED
    BY DEF Shaped, Recent
<1> QED
  BY <1>1, AlwaysShaped, PTL

-----------------------------------------------------------------------------
(* The life of a session.                                                  *)

\* Who comes from the table or renews is the one who uses a session anew.
LEMMA UsesAnew ==
  ASSUME NEW t \in Threads, NEW x, Uses(t, x),
         Guards(t) \/ SessionChanges(t) \/ AccountChanges(t), ~Cleanup(t)
  PROVE  BySession(t) \/ Renew(t)
<1>1. thr[t].at \in {"session", "renew"}
  BY DEF Uses
<1>2. ~Ask(t)
  <2>1. Ask(t) => thr[t] = Idle
    BY DEF Ask
  <2>2. Idle.at = "idle"
    BY DEF Idle
  <2> QED
    BY <1>1, <2>1, <2>2
<1>3. ~(ByToken(t) \/ Attempt(t) \/ Lookup(t) \/ Verify(t) \/ Fill(t) \/ ClearAttempts(t) \/ Answer(t))
  BY <1>1 DEF ByToken, Attempt, Lookup, Verify, Fill, ClearAttempts, Answer
<1>4. ~(LoginAttempt(t) \/ LoginVerify(t) \/ LoginClear(t) \/ NameFree(t) \/ FindToChange(t)
        \/ FindToDelete(t) \/ Owner(t) \/ Forget(t))
  BY <1>1 DEF LoginAttempt, LoginVerify, LoginClear, NameFree, FindToChange, FindToDelete, Owner, Forget,
              Admitted
<1>5. ~(DeleteExpired(t) \/ ReplaceSession(t) \/ CreateSession(t) \/ Logout(t))
  BY <1>1 DEF DeleteExpired, ReplaceSession, CreateSession, Logout, Admitted
<1>6. ~AccountChanges(t)
  BY <1>1 DEF AccountChanges, CreateUser, UpdateUser, DeleteUser, CreateToken, DeleteToken, Admitted
<1> QED
  BY <1>2, <1>3, <1>4, <1>5, <1>6 DEF Guards, SessionChanges

\* Of a thread that uses a session: its row, and what it is worth.
Used(x) ==
    LET s == sessions[x.session] IN
    /\ s.is # "unused"
    /\ x.at = "renew" => s.is \in {"in", "ended", "overtaken"}
    /\ x.at = "in" => s.is \in {"ended", "overtaken"} \/ Life <= 4 * (s.exp - x.began)

\* The instants of a row.
LEMMA RowInstants ==
  ASSUME NEW x \in SessionRow
  PROVE  x.made \in Nat /\ x.exp \in Nat
<1>1. x.made \in Instants /\ x.exp \in 0..(MaxTime + Life)
  BY DEF SessionRow
<1>2. MaxTime \in Nat /\ Life \in Nat
  BY Sorts
<1> QED
  BY <1>1, <1>2 DEF Instants

\* Rows of sessions keep their life.
LEMMA RowsLive ==
  ASSUME Shaped, Living, [Next]_vars, NEW s \in Sessions, sessions'[s].is # "unused"
  PROVE  sessions'[s].made <= now' /\ sessions'[s].made + Life <= sessions'[s].exp
<1>1. RowStep(s) /\ sessions[s] \in SessionRow /\ now \in Nat /\ now' \in Nat /\ now <= now'
  BY StepRows, StepClock, Sorts DEF Shaped, Rows
<1>2. sessions[s].made \in Nat /\ sessions[s].exp \in Nat
  BY <1>1, RowInstants
<1>3. sessions[s].is # "unused" => sessions[s].made <= now /\ sessions[s].made + Life <= sessions[s].exp
  BY DEF Living
<1> QED
  BY <1>1, <1>2, <1>3, Sorts DEF RowStep, InTable

\* A thread that goes on using its session.
LEMMA UsedKept ==
  ASSUME Shaped, Living, [Next]_vars, NEW v \in Threads, thr[v].method = "session"
  PROVE  Used(thr[v])'
         \/ ~(/\ thr'[v].session = thr[v].session /\ thr'[v].at = thr[v].at
              /\ thr'[v].began = thr[v].began)
<1> SUFFICES ASSUME thr'[v].session = thr[v].session, thr'[v].at = thr[v].at,
                    thr'[v].began = thr[v].began
             PROVE  Used(thr[v])'
  OBVIOUS
<1> DEFINE s == thr[v].session
<1>1. Fit(thr[v]) /\ s \in Sessions /\ thr[v].began \in Nat /\ thr[v].began <= now /\ now \in Nat
      /\ thr[v].at \in {"renew", "in"}
  BY ThreadFit, Sorts DEF Fit, Formed, Recent, Thread
<1>2. RowStep(s) /\ sessions[s] \in SessionRow
  BY <1>1, StepRows DEF Shaped, Rows
<1>3. sessions[s].exp \in Nat
  BY <1>2, Sorts DEF SessionRow
<1>4. /\ sessions[s].is # "unused"
      /\ thr[v].at = "renew" => sessions[s].is \in {"in", "ended", "overtaken"}
      /\ thr[v].at = "in" => sessions[s].is \in {"ended", "overtaken"}
                             \/ Life <= 4 * (sessions[s].exp - thr[v].began)
  BY DEF Living
<1>5. thr[v].at = "renew" => BeingRenewed(s)
  BY DEF BeingRenewed
<1>6. Life <= 4 * ((now + Life) - thr[v].began)
  BY <1>1, Sorts
<1> HIDE DEF s
<1>7. /\ sessions'[s].is # "unused"
      /\ thr[v].at = "renew" => sessions'[s].is \in {"in", "ended", "overtaken"}
      /\ thr[v].at = "in" => sessions'[s].is \in {"ended", "overtaken"}
                             \/ Life <= 4 * (sessions'[s].exp - thr[v].began)
  <2>1. CASE sessions'[s] = sessions[s]
    BY <1>4, <2>1
  <2>2. CASE /\ InTable(s) /\ sessions'[s].is \in {"ended", "expired", "overtaken"}
             /\ sessions'[s].exp = sessions[s].exp
             /\ sessions'[s].is = "expired" => ~BeingRenewed(s)
    BY <1>4, <1>5, <2>2 DEF InTable
  <2>3. CASE sessions'[s].is = "in" /\ sessions'[s].exp = now + Life
    BY <1>6, <2>3
  <2> QED
    BY <1>2, <2>1, <2>2, <2>3 DEF RowStep
<1> QED
  BY <1>7 DEF Used, s

\* A thread that comes to use one.
LEMMA UsedAnew ==
  ASSUME Shaped, Living, NEW t \in Threads, BySession(t) \/ Renew(t), NEW x \in Thread, Uses(t, x)
  PROVE  LET s == sessions'[x.session] IN
         /\ s.is # "unused"
         /\ x.at = "renew" => s.is \in {"in", "ended", "overtaken"}
         /\ x.at = "in" => s.is \in {"ended", "overtaken"} \/ Life <= 4 * (s.exp - x.began)
<1> DEFINE s == x.session
<1>1. Fit(thr[t]) /\ thr[t].began \in Nat /\ thr[t].began <= now /\ now \in Nat
  BY ThreadFit, Sorts DEF Fit, Recent, Thread
<1>2. x.began = thr[t].began /\ s = thr[t].session
  BY DEF Uses
<1>3. CASE BySession(t)
  <2>1. thr[t].at = "session" /\ sessions' = sessions
    BY <1>3 DEF BySession, tables
  <2>2. /\ s \in Sessions /\ InTable(s) /\ sessions[s].exp >= now
        /\ x.at = IF ShouldRenew(s) THEN "renew" ELSE "in"
    BY <2>1 DEF Uses
  <2>3. sessions[s].made \in Nat /\ sessions[s].exp \in Nat
    BY <2>2, RowInstants DEF Shaped, Rows
  <2>4. sessions[s].made + Life <= sessions[s].exp
    BY <2>2 DEF Living, InTable
  <2>5. ~ShouldRenew(s) => Life <= 4 * (sessions[s].exp - x.began)
    BY <1>1, <1>2, <2>2, <2>3, <2>4, Sorts DEF ShouldRenew
  <2> QED
    BY <2>1, <2>2, <2>5 DEF InTable
<1>4. CASE Renew(t)
  <2>1. thr[t].at = "renew" /\ thr[t].method = "session" /\ x.at = "in"
    BY <1>4 DEF Uses, Renew
  <2>2. s \in Sessions /\ sessions[s] \in SessionRow
    BY <1>1, <1>2, <2>1 DEF Fit, Formed, Shaped, Rows
  <2>3. sessions[s].is \in {"in", "ended", "overtaken"}
    BY <1>2, <2>1 DEF Living
  <2>4. CASE InTable(s)
    <3>1. sessions' = [sessions EXCEPT ![s].exp = now + Life]
      BY <1>2, <1>4, <2>4 DEF Renew
    <3>2. sessions'[s].exp = now + Life /\ sessions'[s].is = "in"
      BY <2>2, <2>4, <3>1 DEF Shaped, Rows, SessionRow, InTable
    <3>3. Life <= 4 * ((now + Life) - x.began)
      BY <1>1, <1>2, Sorts
    <3> QED
      BY <2>1, <3>2, <3>3
  <2>5. CASE ~InTable(s)
    BY <1>2, <1>4, <2>1, <2>3, <2>5 DEF Renew, InTable
  <2> QED
    BY <2>4, <2>5
<1> QED
  BY <1>3, <1>4

\* A thread that uses a session did so before, or comes to use it now.
LEMMA StepUses ==
  ASSUME Shaped, [Next]_vars, NEW v \in Threads, thr'[v].method = "session"
  PROVE  \/ /\ thr[v].method = "session" /\ thr'[v].session = thr[v].session
            /\ thr'[v].at = thr[v].at /\ thr'[v].began = thr[v].began
         \/ \E x \in Thread : /\ thr'[v] = x /\ Uses(v, x) /\ (BySession(v) \/ Renew(v))
<1> DEFINE Goal ==
      \/ /\ thr[v].method = "session" /\ thr'[v].session = thr[v].session
         /\ thr'[v].at = thr[v].at /\ thr'[v].began = thr[v].began
      \/ \E x \in Thread : /\ thr'[v] = x /\ Uses(v, x) /\ (BySession(v) \/ Renew(v))
<1>0. /\ now \in Instants /\ now' \in Instants /\ now <= now' /\ thr \in [Threads -> Thread]
      /\ \A u \in Threads : Fit(thr[u])
  BY StepClock, ThreadFit DEF Shaped
<1>1. ASSUME NEW t \in Threads, Moved(t), Guards(t) \/ SessionChanges(t) \/ AccountChanges(t), ~Cleanup(t)
      PROVE  Goal
  <2>1. PICK x : Fit(x) /\ thr' = [thr EXCEPT ![t] = x] /\ (x.method = "session" => Uses(t, x))
    BY <1>1 DEF Moved
  <2>2. CASE v # t
    BY <1>0, <2>1, <2>2
  <2>3. CASE v = t
    <3>1. thr'[v] = x /\ x \in Thread /\ Uses(t, x)
      BY <1>0, <2>1, <2>3 DEF Fit
    <3>2. BySession(t) \/ Renew(t)
      BY <1>1, <3>1, UsesAnew
    <3> QED
      BY <2>3, <3>1, <3>2
  <2> QED
    BY <2>2, <2>3
<1>2. CASE thr' = thr
  BY <1>2
<1>3. CASE Tick
  <2>1. Alike(thr[v], thr'[v])
    BY <1>0, <1>3, AgedFit DEF Tick
  <2> QED
    BY <2>1 DEF Alike
<1>4. ASSUME NEW t \in Threads, UpdateUser(t) \/ DeleteUser(t)
      PROVE  Goal
  <2>1. PICK z : Fit(z) /\ z.method = None /\ Aged([thr EXCEPT ![t] = z])
    <3> DEFINE y == [Idle EXCEPT !.at = "forget"]
    <3>1. Fit(Idle) /\ Idle.method = None /\ "forget" \in Points /\ Idle \in Thread /\ None # "session"
      BY <1>0, IdleFit, Sorts DEF Fit, Methods
    <3>2. Fit(y) /\ y.method = None
      BY <3>1, GoFit, GoKeeps
    <3> HIDE DEF y
    <3>3. UpdateUser(t) => Aged([thr EXCEPT ![t] = y])
      BY DEF UpdateUser, y
    <3>4. DeleteUser(t) => Aged([thr EXCEPT ![t] = y]) \/ Aged([thr EXCEPT ![t] = Idle])
      BY DEF DeleteUser, y
    <3> QED
      BY <1>4, <3>1, <3>2, <3>3, <3>4
  <2>2. PICK f : f = [thr EXCEPT ![t] = z]
    OBVIOUS
  <2>3. f \in [Threads -> Thread] /\ (\A u \in Threads : Fit(f[u])) /\ f[t] = z
        /\ \A u \in Threads \ {t} : f[u] = thr[u]
    BY <1>0, <2>1, <2>2 DEF Fit
  <2>4. Alike(f[v], thr'[v])
    BY <1>0, <2>1, <2>2, <2>3, AgedFit
  <2>5. None # "session"
    BY Sorts DEF Methods
  <2>6. v # t
    BY <2>1, <2>3, <2>4, <2>5 DEF Alike
  <2> QED
    BY <2>3, <2>4, <2>6 DEF Alike
<1>5. ASSUME NEW t \in Threads, Guards(t)
      PROVE  Moved(t)
  BY <1>5, StepMoves DEF Guards
<1>6. ASSUME NEW t \in Threads, SessionChanges(t), ~Cleanup(t)
      PROVE  Moved(t)
  BY <1>6, StepMoves DEF SessionChanges
<1>7. ASSUME NEW t \in Threads, AccountChanges(t), ~UpdateUser(t), ~DeleteUser(t)
      PROVE  Moved(t)
  BY <1>7, StepMoves DEF AccountChanges
<1>8. ASSUME NEW t \in Threads, Cleanup(t)
      PROVE  thr' = thr
  BY <1>8 DEF Cleanup
<1> HIDE DEF Goal
<1>9. ASSUME NEW t \in Threads, Guards(t) \/ SessionChanges(t) \/ AccountChanges(t)
      PROVE  Goal
  <2>1. CASE Cleanup(t)
    BY <1>2, <1>8, <2>1 DEF Goal
  <2>2. CASE UpdateUser(t) \/ DeleteUser(t)
    BY <1>4, <2>2
  <2>3. CASE ~Cleanup(t) /\ ~UpdateUser(t) /\ ~DeleteUser(t)
    <3>1. Moved(t)
      BY <1>5, <1>6, <1>7, <1>9, <2>3
    <3> QED
      BY <1>1, <1>9, <2>3, <3>1
  <2> QED
    BY <2>1, <2>2, <2>3
<1>10. Goal
  BY <1>2, <1>3, <1>9, Steps DEF vars, Goal
<1> QED
  BY <1>10 DEF Goal

\* Every step keeps Living.
LEMMA StepLiving ==
  ASSUME Shaped, Living, [Next]_vars
  PROVE  Living'
<1>1. ASSUME NEW v \in Threads, thr'[v].method = "session"
      PROVE  Used(thr[v])'
  <2>1. CASE /\ thr[v].method = "session" /\ thr'[v].session = thr[v].session
             /\ thr'[v].at = thr[v].at /\ thr'[v].began = thr[v].began
    BY <2>1, UsedKept
  <2>2. CASE \E x \in Thread : /\ thr'[v] = x /\ Uses(v, x) /\ (BySession(v) \/ Renew(v))
    <3>1. PICK x \in Thread : /\ thr'[v] = x /\ Uses(v, x) /\ (BySession(v) \/ Renew(v))
      BY <2>2
    <3>2. LET s == sessions'[x.session] IN
          /\ s.is # "unused"
          /\ x.at = "renew" => s.is \in {"in", "ended", "overtaken"}
          /\ x.at = "in" => s.is \in {"ended", "overtaken"} \/ Life <= 4 * (s.exp - x.began)
      BY <3>1, UsedAnew
    <3> QED
      BY <3>1, <3>2 DEF Used
  <2> QED
    BY <1>1, <2>1, <2>2, StepUses
<1> QED
  BY <1>1, RowsLive DEF Living, Used

\* A session that lets a request in lives for a quarter of SESSION_DURATION_HOURS
\* at least, from when the request arrived, unless it was ended on purpose or its
\* renewal met the deletion of what had been found expired.
THEOREM UsedSessionsLive == Spec => []KeptWhileUsed
<1>1. Init => Living
  <2> SUFFICES ASSUME Init PROVE Living
    OBVIOUS
  <2>1. \A t \in Threads : thr[t].method = None
    BY DEF Init, Idle
  <2>2. \A s \in Sessions : sessions[s].is = "unused"
    BY DEF Init
  <2>3. None # "session"
    BY Sorts DEF Methods
  <2> QED
    BY <2>1, <2>2, <2>3 DEF Living
<1>2. Shaped /\ Living /\ [Next]_vars => Living'
  BY StepLiving
<1>3. Shaped /\ Living => KeptWhileUsed
  <2> SUFFICES ASSUME Shaped, Living, NEW t \in Threads, thr[t].at = "in", thr[t].method = "session"
               PROVE  LET s == sessions[thr[t].session] IN
                      s.is \in {"ended", "overtaken"} \/ 4 * (s.exp - thr[t].began) >= Life
    BY DEF KeptWhileUsed
  <2>1. LET s == sessions[thr[t].session] IN
        s.is \in {"ended", "overtaken"} \/ Life <= 4 * (s.exp - thr[t].began)
    BY DEF Living
  <2>2. thr[t].session \in Sessions /\ thr[t].began \in Nat
    BY ThreadFit, Sorts DEF Fit, Formed, Thread
  <2>3. sessions[thr[t].session].exp \in Nat
    BY <2>2, RowInstants DEF Shaped, Rows
  <2> QED
    BY <2>1, <2>2, <2>3, Sorts
<1> QED
  BY <1>1, <1>2, <1>3, AlwaysShaped, PTL DEF Spec

-----------------------------------------------------------------------------
(* The last administrator.                                                 *)

\* An update takes away the last administrator only if it is excused.
LEMMA UpdateSpares ==
  ASSUME Shaped, NEW t \in Threads, UpdateUser(t), Administrators # {}, Administrators' = {}
  PROVE  Excused(t)
<1> DEFINE i == thr[t].target
           c == thr[t].change
<1>1. i \in Ids /\ c \in AllChanges /\ thr[t].user \in Whos /\ thr[t].at = "update"
      /\ (i = thr[t].user.id => ~SelfForbidden(c))
  BY DEF Shaped, UpdateUser, Formed, Unharmed
<1>2. users' = IF InUsers(i) THEN [users EXCEPT ![i] = Changed(users[i], c)] ELSE users
  BY DEF UpdateUser
<1>3. users \in [Ids -> Account] /\ users[i] \in Account
  BY <1>1 DEF Shaped, Rows
<1>4. Administrators \subseteq {i}
  <2>1. \A j \in Ids \ {i} : users'[j] = users[j]
    BY <1>2, <1>3
  <2> QED
    BY <2>1 DEF Administrators
<1>5. InUsers(i) /\ i \in Administrators
  <2>1. i \in Administrators
    BY <1>4
  <2> QED
    BY <2>1 DEF Administrators, InUsers
<1>6. PICK y : y = Changed(users[i], c)
  OBVIOUS
<1>7. users'[i] = y
  BY <1>1, <1>2, <1>3, <1>5, <1>6
<1>8. /\ y.in = users[i].in
      /\ ~SelfForbidden(c) /\ c # [field |-> "enabled", to |-> "NO"] =>
            (users[i].role = "admin" /\ users[i].enabled => y.role = "admin" /\ y.enabled)
  BY <1>1, <1>3, <1>6, ChangedFields
<1>9. users[i].in /\ users[i].enabled /\ users[i].role = "admin"
  BY <1>5 DEF Administrators
<1>10. ~(y.in /\ y.enabled /\ y.role = "admin")
  <2>1. i \notin Administrators'
    OBVIOUS
  <2> QED
    BY <1>1, <1>7, <2>1 DEF Administrators
<1>11. SelfForbidden(c) \/ c = [field |-> "enabled", to |-> "NO"]
  BY <1>8, <1>9, <1>10
<1>12. CASE c = [field |-> "enabled", to |-> "NO"]
  BY <1>1, <1>12 DEF Excused
<1>13. CASE SelfForbidden(c)
  <2>1. thr[t].user.id # i
    BY <1>1, <1>13
  <2>2. thr[t].user.id \notin Administrators
    BY <1>4, <2>1
  <2> QED
    BY <1>1, <2>2 DEF Excused
<1> QED
  BY <1>11, <1>12, <1>13

\* So does a deletion.
LEMMA DeleteSpares ==
  ASSUME Shaped, NEW t \in Threads, DeleteUser(t), Administrators # {}, Administrators' = {}
  PROVE  Excused(t)
<1> DEFINE i == thr[t].target
<1>1. i \in Ids /\ thr[t].user \in Whos /\ thr[t].at = "delete" /\ i # thr[t].user.id
  BY DEF Shaped, DeleteUser, Formed, Unharmed
<1>2. users' = [users EXCEPT ![i].in = FALSE] /\ users \in [Ids -> Account]
  BY DEF DeleteUser, Shaped, Rows
<1>3. Administrators \subseteq {i}
  <2>1. \A j \in Ids \ {i} : users'[j] = users[j]
    BY <1>2
  <2> QED
    BY <2>1 DEF Administrators
<1>4. thr[t].user.id \notin Administrators
  BY <1>1, <1>3
<1> QED
  BY <1>1, <1>4 DEF Excused

\* An account that is new takes no administrator away.
LEMMA CreateSpares ==
  ASSUME Shaped, NEW t \in Threads, CreateUser(t)
  PROVE  Administrators \subseteq Administrators'
<1> DEFINE n == thr[t].target
<1>0. users \in [Ids -> Account] /\ \A i \in Ids : InUsers(i) => users[i].used
  BY DEF Shaped, Rows
<1>1. CASE UNCHANGED users
  BY <1>1 DEF Administrators
<1>2. CASE \E i \in NextId, r \in Roles :
                users' = [users EXCEPT ![i] =
                   [in |-> TRUE, used |-> TRUE, name |-> n, pw |-> FirstPassword, role |-> r,
                    enabled |-> TRUE, exp |-> None]]
  <2>1. PICK i \in NextId, r \in Roles :
                users' = [users EXCEPT ![i] =
                   [in |-> TRUE, used |-> TRUE, name |-> n, pw |-> FirstPassword, role |-> r,
                    enabled |-> TRUE, exp |-> None]]
    BY <1>2
  <2>2. \A j \in Ids \ {i} : users'[j] = users[j]
    BY <1>0, <2>1
  <2>3. i \notin Administrators
    BY <1>0 DEF NextId, Administrators, InUsers
  <2> QED
    BY <2>2, <2>3 DEF Administrators
<1> QED
  BY <1>1, <1>2 DEF CreateUser

\* An enabled administrator remains after update_user and delete_user, whatever the
\* routes that race for it, but for the two ways that LastAdministrator names.
THEOREM AdministratorsRemain == Spec => LastAdministrator
<1> DEFINE A == Administrators # {} /\ Administrators' = {}
                  => \E t \in Threads : Excused(t) /\ thr'[t] # thr[t]
<1>1. Shaped /\ [Next]_vars => [A]_vars
  <2> SUFFICES ASSUME Shaped, [Next]_vars, Administrators # {}, Administrators' = {}
               PROVE  \E t \in Threads : Excused(t) /\ thr'[t] # thr[t]
    OBVIOUS
  <2>1. ASSUME UNCHANGED users PROVE FALSE
    BY <2>1 DEF Administrators
  <2>2. PICK t \in Threads : CreateUser(t) \/ UpdateUser(t) \/ DeleteUser(t)
    <3>1. ~Tick /\ ~UNCHANGED vars
      BY <2>1 DEF Tick, vars, tables
    <3>2. ASSUME NEW t \in Threads, Guards(t) \/ SessionChanges(t)
          PROVE  FALSE
      BY <2>1, <3>2, GuardsKeep, SessionChangesKeep DEF tables
    <3>3. ASSUME NEW t \in Threads, CreateToken(t) \/ DeleteToken(t)
          PROVE  FALSE
      BY <2>1, <3>3 DEF CreateToken, DeleteToken
    <3> QED
      BY <3>1, <3>2, <3>3, Steps DEF AccountChanges
  <2>3. ~CreateUser(t)
    BY CreateSpares
  <2>4. Excused(t)
    BY <2>2, <2>3, UpdateSpares, DeleteSpares
  <2>5. thr'[t] # thr[t]
    <3>1. thr[t].at \in {"update", "delete"}
      BY <2>4 DEF Excused
    <3>2. PICK z : z \in Thread /\ z.at \in {"forget", "idle"} /\ Fit(z) /\ Aged([thr EXCEPT ![t] = z])
      <4> DEFINE y == [Idle EXCEPT !.at = "forget"]
      <4>1. now \in Instants /\ Fit(Idle) /\ Idle.method = None /\ "forget" \in Points /\ Idle \in Thread
            /\ Idle.at = "idle" /\ None # "session"
        BY ThreadFit, IdleFit, Sorts DEF Fit, Methods
      <4>2. Fit(y) /\ y.at = "forget" /\ y \in Thread
        BY <4>1, GoFit, GoKeeps
      <4> HIDE DEF y
      <4>3. UpdateUser(t) => Aged([thr EXCEPT ![t] = y])
        BY DEF UpdateUser, y
      <4>4. DeleteUser(t) => Aged([thr EXCEPT ![t] = y]) \/ Aged([thr EXCEPT ![t] = Idle])
        BY DEF DeleteUser, y
      <4> QED
        BY <2>2, <2>3, <4>1, <4>2, <4>3, <4>4
    <3>3. PICK f : f = [thr EXCEPT ![t] = z]
      OBVIOUS
    <3>4. f \in [Threads -> Thread] /\ (\A u \in Threads : Fit(f[u])) /\ f[t] = z
      BY <3>2, <3>3, ThreadFit DEF Fit, Shaped
    <3>5. thr'[t].at = z.at
      BY <3>2, <3>3, <3>4, AgedFit, StepClock DEF Alike
    <3> QED
      BY <3>1, <3>2, <3>5
  <2> QED
    BY <2>4, <2>5
<1> QED
  BY <1>1, AlwaysShaped, PTL DEF Spec, LastAdministrator

=============================================================================
