---------------------------- MODULE FFmpegManager ----------------------------
(***************************************************************************)
(* FFmpegManager of app/utils/ffmpeg_manager.py with the HTTP handlers     *)
(* that call it: one FFmpeg process per content id, shared by its clients. *)
(*                                                                         *)
(*   Requests  one HTTP request each: ensure_stream (first caller starts   *)
(*             the stream, the others wait), then an MPEG-TS subscription  *)
(*             or one HLS manifest;                                        *)
(*   drains    one stdout thread per process in use: at end of file it     *)
(*             restarts the process or closes the session;                 *)
(*   restarts  _restart_session, run by a drain or by request_hls;         *)
(*   reaper, drop and shutdown, which unregister sessions and kill them.   *)
(*                                                                         *)
(* A step is one critical section of the manager's lock, or one call that  *)
(* blocks (negotiating with the engine, starting or ending a process).     *)
(* A session is named by its first process.  The fan-out to the clients of *)
(* a session is in StreamSession.                                          *)
(*                                                                         *)
(* Assumed of the platform: threads that the manager starts do start, and  *)
(* what the engine answers is a JSON object.                               *)
(***************************************************************************)
EXTENDS Naturals, FiniteSets

CONSTANTS Cids,         \* content ids
          Requests,     \* HTTP requests
          None,
          MaxStreams,   \* OPENACE_MAX_STREAMS
          MaxRestarts,  \* OPENACE_FFMPEG_RESTARTS
          Lazy,         \* OPENACE_HLS_LAZY
          UseCache,     \* the session cache's TTL is not 0
          Direct,       \* the engine may leave out the command URL, or all of a session
          MaxProcs,     \* bound: FFmpeg processes started
          MaxEngs       \* bound: engine sessions opened

ASSUME SetAssumption  == IsFiniteSet(Cids) /\ IsFiniteSet(Requests)
ASSUME NoneAssumption == None \notin Cids \cup Requests \cup Nat
ASSUME NatAssumption  == MaxStreams \in Nat /\ MaxRestarts \in Nat
                         /\ MaxProcs \in Nat /\ MaxEngs \in Nat
ASSUME FlagAssumption == Lazy \in BOOLEAN /\ UseCache \in BOOLEAN /\ Direct \in BOOLEAN

Procs == 1..MaxProcs
Engs  == 1..MaxEngs
Opt(S) == S \cup {None}

VARIABLES closed,       \* _closed
          streams,      \* _streams: content id -> session
          starting,     \* _starting: content id -> the request that starts it
          reserved,     \* _spawn_reservations
          cache,        \* _session_cache: content id -> engine session
          sess,         \* the fields of the sessions created so far
          rst,          \* rst[s]: the _restart_session under way for s
          retiring,     \* tails of restarts: old process and engine session to end
          dying,        \* sessions unregistered, _kill_session still to run
          alive,        \* processes that run
          drain,        \* drain[p]: the session whose drain reads p, then None
          open,         \* sessions the engine holds and gave a command URL for
          nproc, neng,  \* processes started, engine sessions opened
          req,          \* req[r]: where request r is, and its local variables
          replaced      \* registered sessions that a start replaced (history)

mgrVars == <<closed, streams, starting, reserved, cache>>
procVars == <<alive, drain, open, nproc, neng>>
workVars == <<rst, retiring, dying, replaced>>
vars == <<mgrVars, sess, workVars, procVars, req>>

NoRestart == [pc |-> "none", by |-> "drain", proc |-> None, eng |-> None]
NoSession == [cid |-> None, proc |-> None, cmd |-> None, closed |-> FALSE,
              restarting |-> FALSE, attempts |-> 0, hls |-> FALSE]

\* A request's content id, negotiated engine session, spawned or subscribed session,
\* the starter it waits for or the session it judged, and what ensure_stream still
\* has to do.
NoRequest == [pc |-> "new", cid |-> None, eng |-> None, own |-> None, on |-> None,
              rest |-> {}]

RequestPCs == {"new", "wait", "negotiate", "decide", "spawn", "probe", "settle",
               "discard", "finally", "have", "subscribe", "drop", "streaming", "done"}
RestartPCs == {"none", "begin", "fast", "negotiate", "swap", "raised"}

SessionType == [cid : Opt(Cids), proc : Opt(Procs), cmd : Opt(Engs), closed : BOOLEAN,
                restarting : BOOLEAN, attempts : 0..MaxRestarts, hls : BOOLEAN]
RestartType == [pc : RestartPCs, by : {"drain", "hls"}, proc : Opt(Procs), eng : Opt(Engs)]
RequestType == [pc : RequestPCs, cid : Opt(Cids), eng : Opt(Engs), own : Opt(Procs),
                on : Opt(Requests \cup Procs), rest : SUBSET {"cancel", "stop", "serve"}]

\* The type of every variable.
TypeOK ==
    /\ closed \in BOOLEAN
    /\ streams \in [Cids -> Opt(Procs)]
    /\ starting \in [Cids -> Opt(Requests)]
    /\ reserved \in Nat
    /\ cache \in [Cids -> Opt(Engs)]
    /\ sess \in [Procs -> SessionType]
    /\ rst \in [Procs -> RestartType]
    /\ retiring \subseteq Procs \X Procs \X Opt(Engs)
    /\ dying \subseteq Procs
    /\ alive \subseteq Procs
    /\ drain \in [Procs -> Opt(Procs)]
    /\ open \subseteq Engs
    /\ nproc \in 0..MaxProcs /\ neng \in 0..MaxEngs
    /\ req \in [Requests -> RequestType]
    /\ replaced \subseteq Procs

Init ==
    /\ closed = FALSE
    /\ streams = [c \in Cids |-> None]
    /\ starting = [c \in Cids |-> None]
    /\ reserved = 0
    /\ cache = [c \in Cids |-> None]
    /\ sess = [s \in Procs |-> NoSession]
    /\ rst = [s \in Procs |-> NoRestart]
    /\ retiring = {} /\ dying = {} /\ alive = {} /\ open = {} /\ replaced = {}
    /\ drain = [p \in Procs |-> None]
    /\ nproc = 0 /\ neng = 0
    /\ req = [r \in Requests |-> NoRequest]

-------------------------------------------------------------------------------
Registered(s) == \E c \in Cids : streams[c] = s
Live(c)       == streams[c] # None /\ sess[streams[c]].proc \in alive
AliveCount    == Cardinality({c \in Cids : Live(c)})
Subscribers(s) == {r \in Requests : req[r].pc = "streaming" /\ req[r].own = s}

At(r, l)  == req[r].pc = l
Goto(r, l) == req' = [req EXCEPT ![r].pc = l]

\* The handler returned: its local variables are gone.
Over == [NoRequest EXCEPT !.pc = "done"]
Done(r) == req' = [req EXCEPT ![r] = Over]

\* Mutant: no sentinel is sent.
ClientsStay(s) == s \in Procs /\ UNCHANGED req

\* close_subscribers: the clients the session has end.
ClientsEnd(s) == req' = [r \in Requests |-> IF r \in Subscribers(s) THEN Over ELSE req[r]]

\* _open_session: some attempt gets the URLs of a new engine session.
OpenSession(e) == e = neng + 1 /\ e \in Engs /\ neng' = e /\ open' = open \cup {e}

\* No command URL, so nothing to stop, ever: the engine fails to load the content or
\* leaves out the URLs to play and to watch a session (which is stopped if it can be),
\* and it is to be played without; or it leaves out just that one.
NoCommandUrl(e) == Direct /\ e = None /\ UNCHANGED <<neng, open>>

\* The engine sessions left by stop_stream, which always gets through here.
Stopped(e) == open \ {e}

\* negotiate_stream answered: a session that became ready, or none in direct mode.
EngineAnswers(e) == OpenSession(e) \/ NoCommandUrl(e)

\* subprocess.Popen of one more FFmpeg.
Popen(p) == p = nproc + 1 /\ p \in Procs /\ nproc' = p /\ alive' = alive \cup {p}

-------------------------------------------------------------------------------
\* ensure_stream.

\* Mutant: the event in _starting is not looked at.
AlwaysStarter(c) == c \in Cids

NobodyStarts(c) == starting[c] = None

\* First critical section: serve, refuse, wait for the starter or become it.
Ensure(r, c) ==
    /\ At(r, "new")
    /\ IF closed \/ (~Live(c) /\ AliveCount >= MaxStreams)
       THEN Done(r) /\ UNCHANGED starting
       ELSE LET go(l, starter) == req' = [req EXCEPT ![r].pc = l, ![r].cid = c,
                                                     ![r].on = starter] IN
            IF Live(c) THEN go("have", None) /\ UNCHANGED starting
            ELSE IF NobodyStarts(c)
            THEN starting' = [starting EXCEPT ![c] = r] /\ go("negotiate", None)
            ELSE go("wait", starting[c]) /\ UNCHANGED starting
    /\ UNCHANGED <<closed, streams, reserved, cache, sess, workVars, procVars>>

\* event.wait returned: the starter is through, or shutdown set every event.
WaitOver(r) ==
    LET c == req[r].cid IN
    /\ At(r, "wait")
    /\ starting[c] # req[r].on
    /\ IF ~closed /\ Live(c) THEN req' = [req EXCEPT ![r].pc = "have", ![r].on = None]
                             ELSE Done(r)
    /\ UNCHANGED <<mgrVars, sess, workVars, procVars>>

\* event.wait timed out.
WaitTimeout(r) ==
    /\ At(r, "wait")
    /\ Done(r)
    /\ UNCHANGED <<mgrVars, sess, workVars, procVars>>

\* negotiate_stream succeeds; its answer is cached for fast restarts.
Negotiate(r, e) ==
    /\ At(r, "negotiate")
    /\ EngineAnswers(e)
    /\ cache' = IF UseCache THEN [cache EXCEPT ![req[r].cid] = e] ELSE cache
    /\ req' = [req EXCEPT ![r].pc = "decide", ![r].eng = e]
    /\ UNCHANGED <<closed, streams, starting, reserved, sess, workVars, alive, drain, nproc>>

\* negotiate_stream gives up (and has stopped what it opened).
NegotiateFails(r) ==
    /\ At(r, "negotiate")
    /\ Goto(r, "finally")
    /\ UNCHANGED <<mgrVars, sess, workVars, procVars>>

\* Mutant: nothing is stopped once a stream is found.
LeftoverKept(r) == IF closed \/ ~Live(req[r].cid) THEN {"stop"} ELSE {"serve"}

\* What is left to do when r finds the manager closed, or another process alive,
\* or has none itself.
Leftover(r) ==
    LET c == req[r].cid IN
    IF closed \/ ~Live(c) THEN {"stop"}
    ELSE IF req[r].eng = sess[streams[c]].cmd THEN {"serve"} ELSE {"serve", "stop"}

\* Mutant: the cap counts registered processes only.
HasSlotNow == AliveCount < MaxStreams

HasSlot == AliveCount + reserved < MaxStreams

\* Mutant: the reservation is not taken.
NoReservation == UNCHANGED reserved

Reserve == reserved' = reserved + 1

\* Second critical section: is a process still needed, and is there a slot?
Decide(r) ==
    /\ At(r, "decide")
    /\ IF ~closed /\ ~Live(req[r].cid) /\ HasSlot
       THEN Reserve /\ Goto(r, "spawn")
       ELSE /\ req' = [req EXCEPT ![r].pc = "discard", ![r].rest = Leftover(r)]
            /\ UNCHANGED reserved
    /\ UNCHANGED <<closed, streams, starting, cache, sess, workVars, procVars>>

\* _spawn: a process, a session around it, and its drain. Direct mode is probed, a
\* session without a command URL is not.
Spawn(r, p) ==
    /\ At(r, "spawn")
    /\ Popen(p)
    /\ sess' = [sess EXCEPT ![p] = [NoSession EXCEPT !.cid = req[r].cid, !.proc = p,
                                                     !.cmd = req[r].eng]]
    /\ drain' = [drain EXCEPT ![p] = p]
    /\ \E l \in {"settle"} \cup (IF req[r].eng = None THEN {"probe"} ELSE {}) :
          req' = [req EXCEPT ![r].own = p, ![r].pc = l]
    /\ UNCHANGED <<mgrVars, workVars, open, neng>>

\* Popen failed.
SpawnFails(r) ==
    /\ At(r, "spawn")
    /\ Goto(r, "settle")
    /\ UNCHANGED <<mgrVars, sess, workVars, procVars>>

\* The output directory cannot be made: that raises, and is remembered.
SpawnRaises(r) ==
    /\ At(r, "spawn")
    /\ req' = [req EXCEPT ![r].pc = "settle", ![r].rest = {"stop"}]
    /\ UNCHANGED <<mgrVars, sess, workVars, procVars>>

\* _direct_getstream_produced_data: the process produced a chunk in time.
ProbePasses(r) ==
    /\ At(r, "probe")
    /\ Goto(r, "settle")
    /\ UNCHANGED <<mgrVars, sess, workVars, procVars>>

\* It did not: the process is ended and the session forgotten.
ProbeFails(r) ==
    /\ At(r, "probe")
    /\ alive' = alive \ {req[r].own}
    /\ sess' = [sess EXCEPT ![req[r].own].closed = TRUE]
    /\ req' = [req EXCEPT ![r].pc = "settle", ![r].own = None]
    /\ UNCHANGED <<mgrVars, workVars, drain, open, nproc, neng>>

\* Mutant: a spawned session that is not registered is forgotten.
NothingSpare(r) == {r} \cap {}

\* cancel_spawned_session.
Spare(r) == IF req[r].own # None THEN {"cancel"} ELSE {}

\* A request whose spawn has raised is not served what another one has spawned.
Rest(r) == Spare(r) \cup (IF "stop" \in req[r].rest THEN {"stop"} ELSE Leftover(r))

\* Third critical section: the reservation ends, and the spawned session is
\* registered unless the manager closed or another process came alive meanwhile.
Settle(r) ==
    LET c == req[r].cid
        mine == req[r].own IN
    /\ At(r, "settle")
    /\ reserved' = reserved - 1
    /\ IF ~closed /\ ~Live(c) /\ mine # None
       THEN /\ streams' = [streams EXCEPT ![c] = mine]
            /\ replaced' = replaced \cup ({streams[c]} \ {None})
            /\ req' = [req EXCEPT ![r].pc = "discard", ![r].rest = {"serve"}]
       ELSE /\ req' = [req EXCEPT ![r].pc = "discard", ![r].rest = Rest(r)]
            /\ UNCHANGED <<streams, replaced>>
    /\ UNCHANGED <<closed, starting, cache, sess, rst, retiring, dying, procVars>>

\* What is not needed is ended: the spawned process (with its engine session,
\* whoever else uses that) and the engine session negotiated for nothing.
Discard(r) ==
    LET rest == req[r].rest IN
    /\ At(r, "discard")
    /\ alive' = IF "cancel" \in rest THEN alive \ {req[r].own} ELSE alive
    /\ open' = IF rest \cap {"cancel", "stop"} # {} THEN Stopped(req[r].eng) ELSE open
    /\ req' = [req EXCEPT ![r].pc = "finally", ![r].own = None]
    /\ UNCHANGED <<mgrVars, sess, workVars, drain, nproc, neng>>

\* Mutant: the finally block is missing.
NeverFreed(r) == IF r \in Requests THEN starting ELSE starting

Freed(r) ==
    LET c == req[r].cid IN
    IF starting[c] = r THEN [starting EXCEPT ![c] = None] ELSE starting

\* finally: the content id is free again and the waiters are woken.
Finally(r) ==
    /\ At(r, "finally")
    /\ starting' = Freed(r)
    /\ IF "serve" \in req[r].rest
       THEN req' = [req EXCEPT ![r] = [NoRequest EXCEPT !.pc = "have",
                                                        !.cid = req[r].cid]]
       ELSE Done(r)
    /\ UNCHANGED <<closed, streams, reserved, cache, sess, workVars, procVars>>

-------------------------------------------------------------------------------
\* What the request does with its stream.

\* subscribe_mpegts: look the session up again.
Lookup(r) ==
    LET c == req[r].cid IN
    /\ At(r, "have")
    /\ IF Live(c) THEN req' = [req EXCEPT ![r].pc = "subscribe", ![r].own = streams[c]]
                  ELSE Done(r)
    /\ UNCHANGED <<mgrVars, sess, workVars, procVars>>

\* _StreamSession.subscribe refuses once the session is closed.
Subscribe(r) ==
    /\ At(r, "subscribe")
    /\ IF sess[req[r].own].closed THEN Done(r) ELSE Goto(r, "streaming")
    /\ UNCHANGED <<mgrVars, sess, workVars, procVars>>

\* The client goes away, or its queue stayed empty for too long.
Unsubscribe(r) ==
    /\ At(r, "streaming")
    /\ Done(r)
    /\ UNCHANGED <<mgrVars, sess, workVars, procVars>>

\* GET manifest: served, or told to retry.
HlsServe(r) ==
    /\ At(r, "have")
    /\ Done(r)
    /\ UNCHANGED <<mgrVars, sess, workVars, procVars>>

\* GET manifest or segment: the segments are stale (now, or when they were looked at
\* less than _STALE_CACHE_TTL_S ago), or the process is gone, so the stream is to be
\* dropped; "on" remembers the session that was looked at.
Judge(r, c) ==
    /\ req' = [req EXCEPT ![r].pc = "drop", ![r].cid = c, ![r].on = streams[c]]
    /\ UNCHANGED <<mgrVars, sess, workVars, procVars>>

HlsManifest(r) == At(r, "have") /\ Judge(r, req[r].cid)

\* A segment request does not go through ensure_stream; the segment must exist.
HlsSegment(r, c) == At(r, "new") /\ streams[c] # None /\ Judge(r, c)

\* drop: whatever is registered for the content id by now goes.
Drop(r) ==
    LET s == streams[req[r].cid] IN
    /\ At(r, "drop")
    /\ Done(r)
    /\ streams' = [streams EXCEPT ![req[r].cid] = None]
    /\ dying' = dying \cup ({s} \ {None})
    /\ UNCHANGED <<closed, starting, reserved, cache, sess, rst, retiring, replaced, procVars>>

\* request_hls: the first HLS client of a lazy session restarts it.
RequestHls(r) ==
    LET s == streams[req[r].cid] IN
    /\ Lazy
    /\ At(r, "have")
    /\ s # None /\ ~sess[s].hls
    /\ IF Live(req[r].cid) /\ ~sess[s].restarting
       THEN /\ sess' = [sess EXCEPT ![s].hls = TRUE, ![s].restarting = TRUE]
            /\ rst' = [rst EXCEPT ![s] = [NoRestart EXCEPT !.pc = "begin", !.by = "hls"]]
       ELSE sess' = [sess EXCEPT ![s].hls = TRUE] /\ UNCHANGED rst
    /\ Done(r)
    /\ UNCHANGED <<mgrVars, retiring, dying, replaced, procVars>>

-------------------------------------------------------------------------------
\* Processes, drains and restarts.

ProcessDies(p) ==
    /\ p \in alive
    /\ alive' = alive \ {p}
    /\ UNCHANGED <<mgrVars, sess, workVars, drain, open, nproc, neng, req>>

Current(s) == ~closed /\ Registered(s)
Wanted(s)  == Subscribers(s) # {} \/ sess[s].hls

\* Mutant: five quiet seconds count as end of file.
AtEofOrQuiet(p) == p \in Procs

AtEof(p) == p \notin alive

\* _drain, finally: restart the process, or close the session.  The test does not
\* ask whether p still is the session's process.
EndOfFile(p) ==
    LET s == drain[p] IN
    /\ s # None
    /\ AtEof(p)
    /\ drain' = [drain EXCEPT ![p] = None]
    /\ IF Current(s) /\ Wanted(s) /\ sess[s].attempts < MaxRestarts /\ ~sess[s].restarting
       THEN /\ sess' = [sess EXCEPT ![s].restarting = TRUE]
            /\ rst' = [rst EXCEPT ![s] = [NoRestart EXCEPT !.pc = "begin"]]
            /\ UNCHANGED req
       ELSE /\ sess' = [sess EXCEPT ![s].closed = TRUE]
            /\ ClientsEnd(s)
            /\ UNCHANGED rst
    /\ UNCHANGED <<mgrVars, retiring, dying, replaced, alive, open, nproc, neng>>

\* Every "return False" of _restart_session; a drain then closes the session.
RestartEnds(s, restarting) ==
    /\ rst' = [rst EXCEPT ![s] = NoRestart]
    /\ IF rst[s].by = "drain"
       THEN /\ sess' = [sess EXCEPT ![s].restarting = restarting, ![s].closed = TRUE]
            /\ ClientsEnd(s)
       ELSE sess' = [sess EXCEPT ![s].restarting = restarting] /\ UNCHANGED req
    /\ UNCHANGED <<mgrVars, retiring, dying, replaced, drain, nproc, neng>>

MayRestart(s) == Current(s) /\ sess[s].attempts < MaxRestarts /\ Wanted(s)

\* Mutant: giving up forgets "session.restarting = False".
AlwaysFlagged(s) == s \in Procs

\* The return for a session that is not current leaves session.restarting set.
StaysFlagged(s) == ~Current(s)

\* Not current any more, no attempt left, or nobody wants the stream.
RestartRefused(s) ==
    /\ rst[s].pc = "begin"
    /\ ~MayRestart(s)
    /\ RestartEnds(s, StaysFlagged(s))
    /\ UNCHANGED <<alive, open>>

Attempt(s) ==
    /\ rst[s].pc = "begin"
    /\ MayRestart(s)
    /\ sess' = [sess EXCEPT ![s].attempts = @ + 1]
    /\ UNCHANGED <<mgrVars, retiring, dying, replaced, drain, open, neng, req>>

\* Fast path: FFmpeg on the cached engine session (whoever registered s wrote the
\* cache), or on the session's own once the cached one is older than the TTL.
RestartFast(s, e, p) ==
    /\ Attempt(s)
    /\ e \in {sess[s].cmd} \cup (IF UseCache THEN {cache[sess[s].cid]} ELSE {})
    /\ Popen(p)
    /\ rst' = [rst EXCEPT ![s].pc = "fast", ![s].proc = p, ![s].eng = e]

\* Popen of the fast path failed.
RestartFastFails(s) ==
    /\ Attempt(s)
    /\ rst' = [rst EXCEPT ![s].pc = "negotiate"]
    /\ UNCHANGED <<alive, nproc>>

\* The output directory cannot be made: that ends the thread of the restart where it
\* is. session.restarting stays set, and a drain does not close the session.
RestartFastRaises(s) ==
    /\ Attempt(s)
    /\ rst' = [rst EXCEPT ![s].pc = "raised"]
    /\ UNCHANGED <<alive, nproc>>

\* _process_survived_start_probe: the process died on the fast path.
RestartProbeFails(s) ==
    /\ rst[s].pc = "fast"
    /\ rst[s].proc \notin alive
    /\ rst' = [rst EXCEPT ![s].pc = "negotiate", ![s].proc = None, ![s].eng = None]
    /\ UNCHANGED <<mgrVars, sess, retiring, dying, replaced, procVars, req>>

\* Slow path: after a pause, a new engine session and a process on it.
RestartNegotiate(s, e, p) ==
    /\ rst[s].pc = "negotiate"
    /\ EngineAnswers(e)
    /\ Popen(p)
    /\ rst' = [rst EXCEPT ![s].pc = "swap", ![s].proc = p, ![s].eng = e]
    /\ UNCHANGED <<mgrVars, sess, retiring, dying, replaced, drain, req>>

\* negotiate_stream or Popen failed; what was opened is stopped.
RestartNegotiateFails(s) ==
    /\ rst[s].pc = "negotiate"
    /\ RestartEnds(s, FALSE)
    /\ UNCHANGED <<alive, open>>

\* The same after the negotiation: nobody stops the new engine session any more.
RestartRaises(s, e) ==
    /\ rst[s].pc = "negotiate"
    /\ EngineAnswers(e)
    /\ rst' = [rst EXCEPT ![s].pc = "raised", ![s].eng = e]
    /\ UNCHANGED <<mgrVars, sess, retiring, dying, replaced, alive, drain, nproc, req>>

\* The session is not registered any more: the new process is for nothing.
RestartCancelled(s) ==
    /\ rst[s].pc \in {"fast", "swap"}
    /\ ~Current(s)
    /\ alive' = alive \ {rst[s].proc}
    /\ open' = Stopped(rst[s].eng)
    /\ RestartEnds(s, FALSE)

\* Mutant: the drain goes on to close_subscribers after a restart that succeeded.
TakeOverAndClose(s, n) ==
    [sess[s] EXCEPT !.proc = rst[s].proc, !.cmd = rst[s].eng, !.restarting = FALSE,
                    !.attempts = n, !.closed = TRUE]

TakeOver(s, n) ==
    [sess[s] EXCEPT !.proc = rst[s].proc, !.cmd = rst[s].eng, !.restarting = FALSE,
                    !.attempts = n]

\* The session takes over the new process, whose drain starts; the attempts start
\* again if the old process had run for long enough.
RestartSwap(s) ==
    /\ rst[s].pc \in {"fast", "swap"}
    /\ Current(s)
    /\ retiring' = retiring \cup {<<s, sess[s].proc, sess[s].cmd>>}
    /\ \E n \in {0, sess[s].attempts} : sess' = [sess EXCEPT ![s] = TakeOver(s, n)]
    /\ drain' = [drain EXCEPT ![rst[s].proc] = s]
    /\ rst' = [rst EXCEPT ![s] = NoRestart]
    /\ UNCHANGED <<mgrVars, dying, replaced, alive, open, nproc, neng, req>>

\* Mutant: the old engine session is always stopped.
NeverUsed(t) == t \notin retiring

StillUsed(t) == t[3] = sess[t[1]].cmd

\* Tail of _restart_session: end the old process, stop its engine session unless
\* the session (still) uses it.
Retire(t) ==
    /\ t \in retiring
    /\ retiring' = retiring \ {t}
    /\ alive' = alive \ {t[2]}
    /\ open' = IF StillUsed(t) THEN open ELSE Stopped(t[3])
    /\ UNCHANGED <<mgrVars, sess, rst, dying, replaced, drain, nproc, neng, req>>

-------------------------------------------------------------------------------
\* The reaper, shutdown and _kill_session.

\* _drop_session_if_current, the part under the lock.
Unregister(c) ==
    /\ streams[c] # None
    /\ dying' = dying \cup {streams[c]}
    /\ streams' = [streams EXCEPT ![c] = None]
    /\ UNCHANGED <<closed, starting, reserved, cache, sess, rst, retiring, replaced,
                   procVars, req>>

\* process_exited: the process is gone and nobody restarts it.
ReapExited(c) == Unregister(c) /\ ~Live(c) /\ ~sess[streams[c]].restarting

\* idle_timeout: no clients, and no request for IDLE_TIMEOUT_S.
ReapIdle(c) == Unregister(c) /\ Subscribers(streams[c]) = {}

\* _kill_session: close the subscribers, end the process, stop the engine session.
Kill(s) ==
    /\ s \in dying
    /\ dying' = dying \ {s}
    /\ sess' = [sess EXCEPT ![s].closed = TRUE]
    /\ ClientsEnd(s)
    /\ alive' = alive \ {sess[s].proc}
    /\ open' = Stopped(sess[s].cmd)
    /\ UNCHANGED <<mgrVars, rst, retiring, replaced, drain, nproc, neng>>

Shutdown ==
    /\ ~closed
    /\ closed' = TRUE
    /\ dying' = dying \cup {streams[c] : c \in {d \in Cids : streams[d] # None}}
    /\ streams' = [c \in Cids |-> None]
    /\ starting' = [c \in Cids |-> None]
    /\ UNCHANGED <<reserved, cache, sess, rst, retiring, replaced, procVars, req>>

-------------------------------------------------------------------------------
StartStep(r) ==
    \/ WaitOver(r) \/ WaitTimeout(r) \/ NegotiateFails(r) \/ Decide(r)
    \/ SpawnFails(r) \/ SpawnRaises(r) \/ ProbePasses(r) \/ ProbeFails(r)
    \/ Settle(r) \/ Discard(r) \/ Finally(r)
    \/ \E e \in Opt(Engs) : Negotiate(r, e)
    \/ \E p \in Procs : Spawn(r, p)

UseStep(r) ==
    \/ Lookup(r) \/ Subscribe(r) \/ HlsServe(r) \/ HlsManifest(r) \/ Drop(r)
    \/ RequestHls(r)

RestartStep(s) ==
    \/ RestartRefused(s) \/ RestartFastFails(s) \/ RestartFastRaises(s)
    \/ RestartProbeFails(s) \/ RestartNegotiateFails(s) \/ RestartCancelled(s)
    \/ RestartSwap(s)
    \/ \E e \in Opt(Engs) :
          \/ RestartRaises(s, e)
          \/ \E p \in Procs : RestartFast(s, e, p) \/ RestartNegotiate(s, e, p)

Next ==
    \/ \E r \in Requests, c \in Cids : Ensure(r, c) \/ HlsSegment(r, c)
    \/ \E r \in Requests : StartStep(r) \/ UseStep(r) \/ Unsubscribe(r)
    \/ \E p \in Procs : ProcessDies(p) \/ EndOfFile(p) \/ RestartStep(p) \/ Kill(p)
    \/ \E t \in retiring : Retire(t)
    \/ \E c \in Cids : ReapExited(c) \/ ReapIdle(c)
    \/ Shutdown

Spec == Init /\ [][Next]_vars

\* Nobody tells the clients of a dead session that its restart has raised: the get on
\* their queue, which nobody fills any more, times out.
TimesOut(r) ==
    /\ Unsubscribe(r)
    /\ rst[req[r].own].pc = "raised" /\ sess[req[r].own].proc \notin alive

\* Some thread goes on as long as one has something to do (the weakest fairness
\* that a scheduler gives; every thread takes finitely many steps).  Nobody has to
\* send a request, to leave, or to shut the manager down, and no process has to die.
Progress ==
    \/ \E r \in Requests : StartStep(r) \/ UseStep(r) \/ TimesOut(r)
    \/ \E p \in Procs : EndOfFile(p) \/ RestartStep(p) \/ Kill(p)
    \/ \E t \in retiring : Retire(t)
    \/ \E c \in Cids : ReapExited(c)

FairSpec == Spec /\ WF_vars(Progress)

-------------------------------------------------------------------------------
\* Properties.

InStart == {"negotiate", "decide", "spawn", "probe", "settle", "discard", "finally"}

\* At most one request starts a content id at any time.
SingleFlight ==
    \A q, r \in Requests :
        req[q].pc \in InStart /\ req[r].pc \in InStart /\ req[q].cid = req[r].cid => q = r

\* Starts never take the manager over its cap, however many content ids start at
\* once: processes started by ensure_stream, and still the session's process, plus
\* reservations stay within MaxStreams.
SlotBound ==
    Cardinality({c \in Cids : Live(c) /\ sess[streams[c]].proc = streams[c]}) + reserved
        <= MaxStreams

\* Every running process is in somebody's hands: a registered session's, one that
\* is being killed, the spawner's, a restart's, or waiting to be retired.
NoOrphanProcess ==
    \A p \in alive :
        \/ \E s \in Procs : sess[s].proc = p /\ (Registered(s) \/ s \in dying)
        \/ \E r \in Requests : req[r].own = p /\ req[r].pc \in InStart
        \/ \E s \in Procs : rst[s].proc = p
        \/ \E t \in retiring : t[2] = p

\* The engine session of a registered stream whose process runs has not been
\* stopped behind its back.  Without the session cache: starts, restarts, retired
\* processes and kills each stop engine sessions, and none stops one in use.
LiveStreamHasEngine ==
    ~UseCache => \A c \in Cids : Live(c) =>
        sess[streams[c]].cmd \in open \cup {None}

\* The code forgets an engine session in two places: a new start replaces a dead
\* session in the registry, and a restart raises after it has negotiated.
Forgotten(e) ==
    \E s \in Procs : \/ s \in replaced /\ sess[s].cmd = e
                     \/ rst[s].pc = "raised" /\ rst[s].eng = e

\* Otherwise the engine holds no session, of those that can be stopped, that nobody
\* will stop: it is a registered or a dying session's, a request's, a restart's that
\* is under way, or waits to be retired.
EngineSessionOwned ==
    \A e \in open :
        \/ \E s \in Procs : sess[s].cmd = e /\ (Registered(s) \/ s \in dying)
        \/ \E r \in Requests : req[r].eng = e /\ req[r].pc \in InStart
        \/ \E s \in Procs : rst[s].pc # "raised" /\ rst[s].eng = e
        \/ \E t \in retiring : t[3] = e
        \/ Forgotten(e)

\* A registered session whose process runs takes new clients, unless the lazy HLS
\* upgrade is in use.
LiveStreamOpen ==
    ~Lazy => \A c \in Cids : Live(c) => ~sess[streams[c]].closed

\* environment_store.py:107, "reintentos automaticos de FFmpeg por stream cuando
\* falla": the restart a drain starts by itself replaces a process that has died.
RestartsOnlyFailed ==
    [][\A s \in Procs :
          rst[s].by = "drain" /\ sess'[s].proc # sess[s].proc /\ sess[s].proc # None
             => sess[s].proc \notin alive]_vars

\* DOC/10-solucion-de-problemas.md:21: stale segments make OpenAce discard "ese
\* proceso FFmpeg": the session dropped is the one the request looked at.
DropsWhatItJudged ==
    [][\A r \in Requests : At(r, "drop") /\ req'[r].pc = "done" =>
          streams[req[r].cid] \in {req[r].on, None}]_vars

\* environment_store.py:104: "Numero maximo de procesos/streams FFmpeg simultaneos
\* que OpenAce permite arrancar".
MaxStreamsRespected == AliveCount <= MaxStreams

\* A content id does not stay marked as starting: whoever starts it gets through.
StartSettles ==
    \A c \in Cids : starting[c] # None ~> starting[c] = None

\* After shutdown every FFmpeg process is ended and every client released, whatever
\* starts, restarts and kills were under way, those that raised included.
ShutdownReleases ==
    closed ~> [](alive = {} /\ \A r \in Requests : ~At(r, "streaming"))

\* A registered session whose process is dead is restarted, replaced or reaped, however
\* its restart is refused, cancelled or fails. Only where the restart raised the code
\* leaves it registered, for the reaper takes it for one that is being restarted.
DeadSessionLeaves ==
    \A c \in Cids :
        streams[c] # None /\ ~Live(c)
            ~> streams[c] = None \/ Live(c) \/ rst[streams[c]].pc = "raised"
===============================================================================
