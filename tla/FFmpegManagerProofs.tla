------------------------- MODULE FFmpegManagerProofs -------------------------
(***************************************************************************)
(* Proofs about FFmpegManager, for any number of content ids, requests,    *)
(* processes, engine sessions and slots: type correctness, single flight,  *)
(* the cap on starts, and who has the processes and the engine sessions.   *)
(*                                                                         *)
(* TypeOK is not inductive: an action reads sess[streams[c]] or drain[p],  *)
(* and Settle takes one from the reservation counter.  Refs says that what *)
(* is referred to is a session; ReservationsExact that the counter counts  *)
(* the requests holding a reservation.  The three together are inductive   *)
(* (Inv).  SingleFlight needs to know besides whom _starting names         *)
(* (StarterKnown), and SlotBound that a restart never gives a session the  *)
(* process it was started with (part of Refs).                             *)
(*                                                                         *)
(* The properties about processes and engine sessions rest on Base: a      *)
(* session just spawned is its starter's alone (Sole), a restart is under  *)
(* way for a session marked so (Restarts), what is registered is not being *)
(* killed (Listed).  Beyond it, Hands and EngHands say who has a process   *)
(* or an engine session (NoOrphanProcess, EngineSessionOwned); Quiet, for  *)
(* HLS that is not lazy, that drains read what their sessions have         *)
(* (LiveStreamOpen, RestartsOnlyFailed); Private and Serving, without the  *)
(* session cache, that nobody has another's engine session                 *)
(* (LiveStreamHasEngine).                                                  *)
(***************************************************************************)
EXTENDS FFmpegManager, FiniteSetTheorems, TLAPS

\* s names a session: a process was spawned for it, and it knows its content id.
IsSession(s) == s \in 1..nproc /\ sess[s].cid \in Cids /\ sess[s].proc \in 1..nproc

\* A request holds a session or none, one while it probes it, and its content id.
Fits(x) ==
    /\ x.own # None => IsSession(x.own)
    /\ x.pc = "probe" => x.own # None
    /\ x.pc \notin {"new", "done"} => x.cid \in Cids

\* What the registry, the drains, the restarts and the requests hold are sessions.
Refs ==
    /\ \A c \in Cids : streams[c] # None => IsSession(streams[c])
    /\ \A p \in Procs : drain[p] # None => IsSession(drain[p])
    /\ \A s \in Procs : rst[s].pc # "none" => IsSession(s)
    /\ \A s \in Procs : rst[s].pc \in {"fast", "swap"} => rst[s].proc \in (1..nproc) \ {s}
    /\ \A r \in Requests : Fits(req[r])

\* The requests that hold a reservation.
ReservingPCs == {"spawn", "probe", "settle"}
Reserving    == {r \in Requests : req[r].pc \in ReservingPCs}

\* _spawn_reservations counts them.
ReservationsExact == reserved = Cardinality(Reserving)

-------------------------------------------------------------------------------
\* An optional value is a value or None.
LEMMA OptFacts ==
    ASSUME NEW S
    PROVE  None \in Opt(S) /\ S \subseteq Opt(S)
  BY DEF Opt

\* Types of the values that the actions write.
LEMMA Values ==
    /\ NoSession \in SessionType
    /\ NoRestart \in RestartType
    /\ NoRequest \in RequestType
    /\ Over \in RequestType
<1>1. NoSession \in SessionType
  BY NatAssumption DEF NoSession, SessionType, Opt
<1>2. NoRestart \in RestartType
  BY DEF NoRestart, RestartType, RestartPCs, Opt
<1>3. NoRequest \in RequestType
  BY DEF NoRequest, RequestType, RequestPCs, Opt
<1>4. Over \in RequestType
  BY <1>3 DEF Over, RequestType, RequestPCs
<1> QED
  BY <1>1, <1>2, <1>3, <1>4

\* Updating fields leaves a record of the same type.
LEMMA RequestUpdate ==
    ASSUME NEW x \in RequestType, NEW l \in RequestPCs
    PROVE  /\ \A e \in Opt(Engs) : [x EXCEPT !.pc = l, !.eng = e] \in RequestType
           /\ \A own \in Opt(Procs) : [x EXCEPT !.pc = l, !.own = own] \in RequestType
           /\ \A rest \in SUBSET {"cancel", "stop", "serve"} :
                 [x EXCEPT !.pc = l, !.rest = rest] \in RequestType
  BY DEF RequestType

\* A changed field leaves a session a session.
LEMMA SessionUpdate ==
    ASSUME NEW x \in SessionType, NEW b \in BOOLEAN
    PROVE  /\ [x EXCEPT !.closed = TRUE] \in SessionType
           /\ [x EXCEPT !.restarting = b] \in SessionType
           /\ [x EXCEPT !.restarting = b, !.closed = TRUE] \in SessionType
           /\ [x EXCEPT !.hls = TRUE] \in SessionType
           /\ [x EXCEPT !.hls = TRUE, !.restarting = b] \in SessionType
  BY DEF SessionType

\* The same of a restart.
LEMMA RestartUpdate ==
    ASSUME NEW x \in RestartType, NEW l \in RestartPCs, NEW p \in Opt(Procs), NEW e \in Opt(Engs)
    PROVE  [x EXCEPT !.pc = l, !.proc = p, !.eng = e] \in RestartType
  BY DEF RestartType

\* The end of a session's clients leaves requests.
LEMMA ClientsEndTyped ==
    ASSUME req \in [Requests -> RequestType], NEW s, ClientsEnd(s)
    PROVE  req' \in [Requests -> RequestType]
  BY Values DEF ClientsEnd

\* Judging a stream leaves requests.
LEMMA JudgeTyped ==
    ASSUME req \in [Requests -> RequestType], NEW r \in Requests, NEW c \in Opt(Cids),
           streams[c] \in Opt(Requests \cup Procs), Judge(r, c)
    PROVE  req' \in [Requests -> RequestType]
<1>1. ASSUME NEW on \in Opt(Requests \cup Procs)
      PROVE  [req[r] EXCEPT !.pc = "drop", !.cid = c, !.on = on] \in RequestType
  BY ZenonT(60) DEF RequestType, RequestPCs
<1>2. req' = [req EXCEPT ![r] = [req[r] EXCEPT !.pc = "drop", !.cid = c, !.on = streams[c]]]
  BY DEF Judge
<1> QED
  BY <1>1, <1>2

\* The initial values have their types.
LEMMA InitTypeOK == Init => TypeOK
<1> SUFFICES ASSUME Init PROVE TypeOK
  OBVIOUS
<1>1. /\ sess \in [Procs -> SessionType]
      /\ rst \in [Procs -> RestartType]
      /\ req \in [Requests -> RequestType]
  BY Values DEF Init
<1>2. /\ streams \in [Cids -> Opt(Procs)]
      /\ starting \in [Cids -> Opt(Requests)]
      /\ cache \in [Cids -> Opt(Engs)]
      /\ drain \in [Procs -> Opt(Procs)]
  BY DEF Init, Opt
<1>3. /\ 0 \in 0..MaxProcs /\ 0 \in 0..MaxEngs
      /\ {} \subseteq Procs \X Procs \X Opt(Engs)
  BY NatAssumption
<1> QED
  BY <1>1, <1>2, <1>3 DEF Init, TypeOK

\* Every step keeps the types, given that references are to sessions and that who
\* settles holds a reservation.
LEMMA StepTypeOK == TypeOK /\ Refs /\ ReservationsExact /\ [Next]_vars => TypeOK'
<1> SUFFICES ASSUME TypeOK, Refs, ReservationsExact, [Next]_vars PROVE TypeOK'
  OBVIOUS
<1> USE NoneAssumption, NatAssumption
<1> USE DEF mgrVars, procVars, workVars, At
<1>1. ASSUME NEW r \in Requests, NEW c \in Cids, Ensure(r, c) PROVE TypeOK'
  BY <1>1 DEF Ensure, Done, Over, NoRequest, TypeOK, RequestType, RequestPCs, Opt
<1>2. ASSUME NEW r \in Requests, NEW c \in Cids, HlsSegment(r, c) PROVE TypeOK'
  <2>1. streams[c] \in Opt(Requests \cup Procs) /\ c \in Opt(Cids)
    BY DEF TypeOK, Opt
  <2>2. req' \in [Requests -> RequestType]
    BY <1>2, <2>1, JudgeTyped DEF HlsSegment, TypeOK
  <2> QED
    BY <1>2, <2>2 DEF HlsSegment, Judge, TypeOK
<1>3. ASSUME NEW r \in Requests, WaitOver(r) PROVE TypeOK'
  BY <1>3 DEF WaitOver, Done, Over, NoRequest, TypeOK, RequestType, RequestPCs, Opt
<1>4. ASSUME NEW r \in Requests, NEW e \in Opt(Engs), Negotiate(r, e) PROVE TypeOK'
  <2>1. req' \in [Requests -> RequestType]
    <3>1. req' = [req EXCEPT ![r] = [req[r] EXCEPT !.pc = "decide", !.eng = e]]
      BY <1>4, Zenon DEF Negotiate
    <3>2. req \in [Requests -> RequestType]
      BY DEF TypeOK
    <3>3. "decide" \in RequestPCs /\ req[r] \in RequestType
      BY <3>2 DEF RequestPCs
    <3>4. [req[r] EXCEPT !.pc = "decide", !.eng = e] \in RequestType
      BY <3>2, <3>3, RequestUpdate, Zenon
    <3> QED
      BY <3>1, <3>2, <3>4
  <2>2. cache' \in [Cids -> Opt(Engs)]
    BY <1>4 DEF Negotiate, TypeOK
  <2>3. open' \subseteq Engs /\ neng' \in 0..MaxEngs
    BY <1>4 DEF Negotiate, EngineAnswers, OpenSession, NoCommandUrl, TypeOK, Engs
  <2> QED
    BY <1>4, <2>1, <2>2, <2>3 DEF Negotiate, TypeOK
<1>5. ASSUME NEW r \in Requests, Decide(r) PROVE TypeOK'
  BY <1>5 DEF Decide, Reserve, Goto, Leftover, TypeOK, RequestType, RequestPCs, Opt
<1>6. ASSUME NEW r \in Requests, NEW p \in Procs, Spawn(r, p) PROVE TypeOK'
  <2>1. req[r] \in RequestType /\ req[r].cid \in Opt(Cids) /\ req[r].eng \in Opt(Engs)
    BY DEF TypeOK, RequestType
  <2>2. [NoSession EXCEPT !.cid = req[r].cid, !.proc = p, !.cmd = req[r].eng] \in SessionType
    BY <2>1, Values DEF SessionType, Opt
  <2>3. sess' \in [Procs -> SessionType]
    BY <1>6, <2>2 DEF Spawn, TypeOK
  <2>4. req' \in [Requests -> RequestType]
    BY <1>6 DEF Spawn, TypeOK, RequestType, RequestPCs, Opt
  <2>5. alive' \subseteq Procs /\ nproc' \in 0..MaxProcs
    BY <1>6 DEF Spawn, Popen, TypeOK, Procs
  <2>6. drain' \in [Procs -> Opt(Procs)]
    BY <1>6 DEF Spawn, TypeOK, Opt
  <2> QED
    BY <1>6, <2>3, <2>4, <2>5, <2>6 DEF Spawn, TypeOK
<1>7. ASSUME NEW r \in Requests, ProbeFails(r) PROVE TypeOK'
  BY <1>7 DEF ProbeFails, Refs, Fits, TypeOK, SessionType, RequestType, RequestPCs, Opt
<1>8. ASSUME NEW r \in Requests, Settle(r) PROVE TypeOK'
  <2>1. reserved - 1 \in Nat
    <3>1. IsFiniteSet(Reserving) /\ r \in Reserving
      BY <1>8, SetAssumption, FS_Subset DEF Settle, Reserving, ReservingPCs
    <3>2. Cardinality(Reserving) \in Nat /\ Cardinality(Reserving) # 0
      BY <3>1, FS_CardinalityType, FS_EmptySet
    <3> QED
      BY <3>2 DEF ReservationsExact
  <2>2. req[r].cid \in Cids /\ req[r].own \in Opt(Procs)
    BY <1>8 DEF Settle, Refs, Fits, TypeOK, RequestType
  <2>3. streams' \in [Cids -> Opt(Procs)] /\ replaced' \subseteq Procs
    BY <1>8, <2>2 DEF Settle, TypeOK, Opt
  <2>4. Rest(r) \in SUBSET {"cancel", "stop", "serve"}
    BY DEF Rest, Leftover, Spare
  <2>5. req' \in [Requests -> RequestType]
    <3>1. req \in [Requests -> RequestType]
      BY DEF TypeOK
    <3>2. "discard" \in RequestPCs /\ req[r] \in RequestType
      BY <3>1 DEF RequestPCs
    <3>3. ASSUME NEW rest \in SUBSET {"cancel", "stop", "serve"},
                 req' = [req EXCEPT ![r] = [req[r] EXCEPT !.pc = "discard", !.rest = rest]]
          PROVE  req' \in [Requests -> RequestType]
      <4>1. [req[r] EXCEPT !.pc = "discard", !.rest = rest] \in RequestType
        BY <3>2, RequestUpdate, Zenon
      <4> QED
        BY <3>1, <3>3, <4>1
    <3>4. CASE req' = [req EXCEPT ![r] = [req[r] EXCEPT !.pc = "discard", !.rest = {"serve"}]]
      <4>1. {"serve"} \in SUBSET {"cancel", "stop", "serve"}
        OBVIOUS
      <4> QED
        BY <3>3, <3>4, <4>1
    <3>5. CASE req' = [req EXCEPT ![r] = [req[r] EXCEPT !.pc = "discard", !.rest = Rest(r)]]
      BY <2>4, <3>3, <3>5
    <3> QED
      BY <1>8, <3>4, <3>5, Zenon DEF Settle
  <2> QED
    BY <1>8, <2>1, <2>3, <2>5 DEF Settle, TypeOK
<1>9. ASSUME NEW r \in Requests, Discard(r) PROVE TypeOK'
  <2>1. req' \in [Requests -> RequestType]
    <3>1. req' = [req EXCEPT ![r] = [req[r] EXCEPT !.pc = "finally", !.own = None]]
      BY <1>9, Zenon DEF Discard
    <3>2. req \in [Requests -> RequestType] /\ None \in Opt(Procs)
      BY OptFacts DEF TypeOK
    <3>3. "finally" \in RequestPCs /\ req[r] \in RequestType
      BY <3>2 DEF RequestPCs
    <3>4. [req[r] EXCEPT !.pc = "finally", !.own = None] \in RequestType
      BY <3>2, <3>3, RequestUpdate, Zenon
    <3> QED
      BY <3>1, <3>2, <3>4
  <2>2. alive' \subseteq Procs /\ open' \subseteq Engs
    BY <1>9 DEF Discard, Stopped, TypeOK
  <2> QED
    BY <1>9, <2>1, <2>2 DEF Discard, TypeOK
<1>10. ASSUME NEW r \in Requests, Finally(r) PROVE TypeOK'
  <2>1. starting' \in [Cids -> Opt(Requests)]
    BY <1>10 DEF Finally, Freed, TypeOK, Opt
  <2>2. [NoRequest EXCEPT !.pc = "have", !.cid = req[r].cid] \in RequestType
    BY Values DEF TypeOK, RequestType, RequestPCs
  <2>3. req' \in [Requests -> RequestType]
    BY <1>10, <2>2, Values DEF Finally, Done, TypeOK
  <2> QED
    BY <1>10, <2>1, <2>3 DEF Finally, TypeOK
<1>11. ASSUME NEW r \in Requests,
              WaitTimeout(r) \/ NegotiateFails(r) \/ SpawnFails(r) \/ ProbePasses(r)
              \/ Subscribe(r) \/ Unsubscribe(r) \/ HlsServe(r)
       PROVE  TypeOK'
  BY <1>11 DEF WaitTimeout, NegotiateFails, SpawnFails, SpawnRaises, ProbePasses, Subscribe, Unsubscribe,
               HlsServe, Goto, Done, Over, NoRequest, TypeOK, RequestType, RequestPCs, Opt
<1>11r. ASSUME NEW r \in Requests, SpawnRaises(r) PROVE TypeOK'
  <2>1. req' = [req EXCEPT ![r] = [req[r] EXCEPT !.pc = "settle", !.rest = {"stop"}]]
    BY <1>11r, Zenon DEF SpawnRaises
  <2>2. req \in [Requests -> RequestType] /\ "settle" \in RequestPCs
        /\ {"stop"} \in SUBSET {"cancel", "stop", "serve"}
    BY DEF TypeOK, RequestPCs
  <2>3. [req[r] EXCEPT !.pc = "settle", !.rest = {"stop"}] \in RequestType
    BY <2>2, RequestUpdate, Zenon
  <2>4. req' \in [Requests -> RequestType]
    BY <2>1, <2>2, <2>3
  <2> QED
    BY <1>11r, <2>4 DEF SpawnRaises, TypeOK
<1>12. ASSUME NEW r \in Requests, Lookup(r) PROVE TypeOK'
  BY <1>12 DEF Lookup, Done, Over, NoRequest, Refs, Fits, TypeOK, RequestType, RequestPCs, Opt
<1>13. ASSUME NEW r \in Requests, HlsManifest(r) PROVE TypeOK'
  <2>1. req[r].cid \in Cids
    BY <1>13 DEF HlsManifest, Refs, Fits
  <2>2. req' \in [Requests -> RequestType]
    <3>1. streams[req[r].cid] \in Opt(Requests \cup Procs) /\ req[r].cid \in Opt(Cids)
      BY <2>1 DEF TypeOK, Opt
    <3> QED
      BY <1>13, <3>1, JudgeTyped DEF HlsManifest, TypeOK
  <2> QED
    BY <1>13, <2>2 DEF HlsManifest, Judge, TypeOK
<1>14. ASSUME NEW r \in Requests, Drop(r) PROVE TypeOK'
  BY <1>14 DEF Drop, Done, Over, NoRequest, Refs, Fits, TypeOK, RequestType, RequestPCs, Opt
<1>15. ASSUME NEW r \in Requests, RequestHls(r) PROVE TypeOK'
  <2>1. req' \in [Requests -> RequestType]
    BY <1>15, Values, SMTT(60) DEF RequestHls, Done, TypeOK
  <2>2. sess' \in [Procs -> SessionType]
    <3> DEFINE s == streams[req[r].cid]
    <3>0. s \in Procs
      <4>1. s # None /\ req[r].cid \in Cids
        BY <1>15 DEF RequestHls, Refs, Fits
      <4> QED
        BY <4>1, SMTT(60) DEF TypeOK, Opt
    <3>1. sess \in [Procs -> SessionType]
      BY DEF TypeOK
    <3>2. CASE sess' = [sess EXCEPT ![s] = [sess[s] EXCEPT !.hls = TRUE, !.restarting = TRUE]]
      <4>1. [sess[s] EXCEPT !.hls = TRUE, !.restarting = TRUE] \in SessionType
        BY <3>0, <3>1, SessionUpdate, Zenon
      <4> QED
        BY <3>1, <3>2, <4>1
    <3>3. CASE sess' = [sess EXCEPT ![s] = [sess[s] EXCEPT !.hls = TRUE]]
      <4>1. [sess[s] EXCEPT !.hls = TRUE] \in SessionType
        BY <3>0, <3>1, SessionUpdate, Zenon
      <4> QED
        BY <3>1, <3>3, <4>1
    <3> QED
      BY <1>15, <3>2, <3>3 DEF RequestHls
  <2>3. [NoRestart EXCEPT !.pc = "begin", !.by = "hls"] \in RestartType
    BY Values DEF RestartType, RestartPCs
  <2>4. rst' \in [Procs -> RestartType]
    BY <1>15, <2>3 DEF RequestHls, TypeOK
  <2> QED
    BY <1>15, <2>1, <2>2, <2>4 DEF RequestHls, TypeOK
<1>16. ASSUME NEW p \in Procs, ProcessDies(p) PROVE TypeOK'
  BY <1>16 DEF ProcessDies, TypeOK
<1>17. ASSUME NEW p \in Procs, EndOfFile(p) PROVE TypeOK'
  <2>1. req' \in [Requests -> RequestType]
    BY <1>17, ClientsEndTyped DEF EndOfFile, TypeOK
  <2>2. sess' \in [Procs -> SessionType]
    <3> DEFINE s == drain[p]
    <3>0. s \in Procs
      <4>1. s # None
        BY <1>17 DEF EndOfFile
      <4> QED
        BY <4>1 DEF TypeOK, Opt
    <3>1. sess \in [Procs -> SessionType]
      BY DEF TypeOK
    <3>2. CASE sess' = [sess EXCEPT ![s] = [sess[s] EXCEPT !.restarting = TRUE]]
      <4>1. [sess[s] EXCEPT !.restarting = TRUE] \in SessionType
        BY <3>0, <3>1, SessionUpdate, Zenon
      <4> QED
        BY <3>1, <3>2, <4>1
    <3>3. CASE sess' = [sess EXCEPT ![s] = [sess[s] EXCEPT !.closed = TRUE]]
      <4>1. [sess[s] EXCEPT !.closed = TRUE] \in SessionType
        BY <3>0, <3>1, SessionUpdate, Zenon
      <4> QED
        BY <3>1, <3>3, <4>1
    <3> QED
      BY <1>17, <3>2, <3>3 DEF EndOfFile
  <2>3. [NoRestart EXCEPT !.pc = "begin"] \in RestartType
    BY Values DEF RestartType, RestartPCs
  <2>4. rst' \in [Procs -> RestartType]
    BY <1>17, <2>3 DEF EndOfFile, TypeOK
  <2>5. drain' \in [Procs -> Opt(Procs)]
    BY <1>17 DEF EndOfFile, TypeOK, Opt
  <2> QED
    BY <1>17, <2>1, <2>2, <2>4, <2>5 DEF EndOfFile, TypeOK
<1>18. ASSUME NEW s \in Procs, NEW x \in BOOLEAN, RestartEnds(s, x) PROVE
        /\ rst' \in [Procs -> RestartType] /\ sess' \in [Procs -> SessionType] /\ req' \in [Requests -> RequestType]
  <2>1. req' \in [Requests -> RequestType]
    BY <1>18, ClientsEndTyped DEF RestartEnds, TypeOK
  <2>2. sess' \in [Procs -> SessionType]
    <3>1. sess \in [Procs -> SessionType]
      BY DEF TypeOK
    <3>2. CASE sess' = [sess EXCEPT ![s] = [sess[s] EXCEPT !.restarting = x, !.closed = TRUE]]
      <4>1. [sess[s] EXCEPT !.restarting = x, !.closed = TRUE] \in SessionType
        BY <3>1, SessionUpdate, Zenon
      <4> QED
        BY <3>1, <3>2, <4>1
    <3>3. CASE sess' = [sess EXCEPT ![s] = [sess[s] EXCEPT !.restarting = x]]
      <4>1. [sess[s] EXCEPT !.restarting = x] \in SessionType
        BY <3>1, SessionUpdate, Zenon
      <4> QED
        BY <3>1, <3>3, <4>1
    <3> QED
      BY <1>18, <3>2, <3>3 DEF RestartEnds
  <2>3. rst' \in [Procs -> RestartType]
    BY <1>18, Values DEF RestartEnds, TypeOK
  <2> QED
    BY <2>1, <2>2, <2>3
<1>19. ASSUME NEW s \in Procs, RestartRefused(s) PROVE TypeOK'
  <2>1. StaysFlagged(s) \in BOOLEAN
    BY DEF StaysFlagged
  <2>2. RestartEnds(s, StaysFlagged(s))
    BY <1>19 DEF RestartRefused
  <2> QED
    BY <1>18, <1>19, <2>1, <2>2 DEF RestartRefused, RestartEnds, TypeOK
<1>20. ASSUME NEW s \in Procs, NEW e \in Opt(Engs), NEW p \in Procs, RestartFast(s, e, p) PROVE TypeOK'
  <2>1. sess' \in [Procs -> SessionType]
    BY <1>20 DEF RestartFast, Attempt, MayRestart, TypeOK, SessionType
  <2>2. e \in Opt(Engs)
    OBVIOUS
  <2>3. rst' \in [Procs -> RestartType]
    <3>1. rst' = [rst EXCEPT ![s] = [rst[s] EXCEPT !.pc = "fast", !.proc = p, !.eng = e]] /\ p \in Opt(Procs)
      BY <1>20, OptFacts DEF RestartFast
    <3>2. rst \in [Procs -> RestartType]
      BY DEF TypeOK
    <3> QED
      BY <2>2, <3>1, <3>2, ZenonT(60) DEF RestartType, RestartPCs
  <2>4. alive' \subseteq Procs /\ nproc' \in 0..MaxProcs
    BY <1>20 DEF RestartFast, Popen, TypeOK, Procs
  <2> QED
    BY <1>20, <2>1, <2>3, <2>4 DEF RestartFast, Attempt, TypeOK
<1>21. ASSUME NEW s \in Procs, RestartFastFails(s) \/ RestartFastRaises(s) PROVE TypeOK'
  BY <1>21, SMTT(60) DEF RestartFastFails, RestartFastRaises, Attempt, MayRestart, TypeOK, SessionType, RestartType, RestartPCs, Opt
<1>22. ASSUME NEW s \in Procs, RestartProbeFails(s) PROVE TypeOK'
  <2>1. rst' \in [Procs -> RestartType]
    <3>1. rst' = [rst EXCEPT ![s] = [rst[s] EXCEPT !.pc = "negotiate", !.proc = None, !.eng = None]]
          /\ None \in Opt(Procs) /\ None \in Opt(Engs)
      BY <1>22, OptFacts DEF RestartProbeFails
    <3>2. rst \in [Procs -> RestartType]
      BY DEF TypeOK
    <3>3. [rst[s] EXCEPT !.pc = "negotiate", !.proc = None, !.eng = None] \in RestartType
      BY <3>1, <3>2, RestartUpdate DEF RestartPCs
    <3> QED
      BY <3>1, <3>2, <3>3
  <2> QED
    BY <1>22, <2>1 DEF RestartProbeFails, TypeOK
<1>23. ASSUME NEW s \in Procs, NEW e \in Opt(Engs), NEW p \in Procs, RestartNegotiate(s, e, p) PROVE TypeOK'
  <2>1. rst' \in [Procs -> RestartType]
    <3>1. rst' = [rst EXCEPT ![s] = [rst[s] EXCEPT !.pc = "swap", !.proc = p, !.eng = e]] /\ p \in Opt(Procs)
      BY <1>23, OptFacts DEF RestartNegotiate
    <3>2. rst \in [Procs -> RestartType]
      BY DEF TypeOK
    <3>3. [rst[s] EXCEPT !.pc = "swap", !.proc = p, !.eng = e] \in RestartType
      BY <3>1, <3>2, RestartUpdate DEF RestartPCs
    <3> QED
      BY <3>1, <3>2, <3>3
  <2>2. open' \subseteq Engs /\ neng' \in 0..MaxEngs
    BY <1>23 DEF RestartNegotiate, EngineAnswers, OpenSession, NoCommandUrl, TypeOK, Engs
  <2>3. alive' \subseteq Procs /\ nproc' \in 0..MaxProcs
    BY <1>23 DEF RestartNegotiate, Popen, TypeOK, Procs
  <2> QED
    BY <1>23, <2>1, <2>2, <2>3 DEF RestartNegotiate, TypeOK
<1>23r. ASSUME NEW s \in Procs, NEW e \in Opt(Engs), RestartRaises(s, e) PROVE TypeOK'
  <2>1. rst' \in [Procs -> RestartType]
    <3>1. rst' = [rst EXCEPT ![s] = [rst[s] EXCEPT !.pc = "raised", !.eng = e]]
      BY <1>23r DEF RestartRaises
    <3>2. rst \in [Procs -> RestartType]
      BY DEF TypeOK
    <3>3. [rst[s] EXCEPT !.pc = "raised", !.eng = e] \in RestartType
      BY <3>2, ZenonT(60) DEF RestartType, RestartPCs
    <3> QED
      BY <3>1, <3>2, <3>3
  <2>2. open' \subseteq Engs /\ neng' \in 0..MaxEngs
    BY <1>23r DEF RestartRaises, EngineAnswers, OpenSession, NoCommandUrl, TypeOK, Engs
  <2> QED
    BY <1>23r, <2>1, <2>2 DEF RestartRaises, TypeOK
<1>24. ASSUME NEW s \in Procs, RestartNegotiateFails(s) PROVE TypeOK'
  BY <1>18, <1>24 DEF RestartNegotiateFails, RestartEnds, TypeOK
<1>25. ASSUME NEW s \in Procs, RestartCancelled(s) PROVE TypeOK'
  <2>1. alive' \subseteq Procs /\ open' \subseteq Engs
    BY <1>25 DEF RestartCancelled, Stopped, TypeOK
  <2> QED
    BY <1>18, <1>25, <2>1 DEF RestartCancelled, RestartEnds, TypeOK
<1>26. ASSUME NEW s \in Procs, RestartSwap(s) PROVE TypeOK'
  <2>1. rst[s].proc \in Procs /\ sess[s].proc \in Procs
    BY <1>26 DEF RestartSwap, Refs, IsSession, TypeOK, Procs
  <2>2. rst[s].eng \in Opt(Engs) /\ sess[s].cmd \in Opt(Engs) /\ sess[s].attempts \in 0..MaxRestarts
    BY DEF TypeOK, RestartType, SessionType
  <2>3. \A n \in {0, sess[s].attempts} : TakeOver(s, n) \in SessionType
    <3>1. sess[s] \in SessionType /\ rst[s].proc \in Opt(Procs)
      BY <2>1, OptFacts DEF TypeOK
    <3>2. \A n \in {0, sess[s].attempts} : n \in 0..MaxRestarts
      BY <2>2
    <3> QED
      BY <2>2, <3>1, <3>2 DEF TakeOver, SessionType
  <2>4. sess' \in [Procs -> SessionType]
    BY <1>26, <2>3 DEF RestartSwap, TypeOK
  <2>5. retiring' \subseteq Procs \X Procs \X Opt(Engs)
    BY <1>26, <2>1, <2>2 DEF RestartSwap, TypeOK
  <2>6. drain' \in [Procs -> Opt(Procs)]
    BY <1>26 DEF RestartSwap, TypeOK, Opt
  <2>7. rst' \in [Procs -> RestartType]
    BY <1>26, Values DEF RestartSwap, TypeOK
  <2> QED
    BY <1>26, <2>4, <2>5, <2>6, <2>7 DEF RestartSwap, TypeOK
<1>27. ASSUME NEW t \in retiring, Retire(t) PROVE TypeOK'
  BY <1>27 DEF Retire, Stopped, TypeOK
<1>28. ASSUME NEW c \in Cids, ReapExited(c) \/ ReapIdle(c) PROVE TypeOK'
  BY <1>28 DEF ReapExited, ReapIdle, Unregister, TypeOK, Opt
<1>29. ASSUME NEW s \in Procs, Kill(s) PROVE TypeOK'
  <2>1. req' \in [Requests -> RequestType]
    BY <1>29, ClientsEndTyped DEF Kill, TypeOK
  <2>2. sess' \in [Procs -> SessionType]
    BY <1>29, ZenonT(60) DEF Kill, TypeOK, SessionType
  <2> QED
    BY <1>29, <2>1, <2>2 DEF Kill, TypeOK, Stopped
<1>30. CASE Shutdown
  BY <1>30 DEF Shutdown, TypeOK, Opt
<1>31. CASE UNCHANGED vars
  BY <1>31 DEF vars, TypeOK
<1> QED
  BY <1>1, <1>2, <1>3, <1>4, <1>5, <1>6, <1>7, <1>8, <1>9, <1>10, <1>11, <1>11r, <1>12, <1>13,
     <1>14, <1>15, <1>16, <1>17, <1>19, <1>20, <1>21, <1>22, <1>23, <1>23r, <1>24, <1>25, <1>26, <1>27, <1>28, <1>29, <1>30, <1>31
  DEF Next, StartStep, UseStep, RestartStep

-------------------------------------------------------------------------------
\* References: there are none at first.
LEMMA InitRefs == Init => Refs
  BY NoneAssumption DEF Init, Refs, Fits, NoRestart, NoRequest

\* A session stays one, and never gets its first process back.
LEMMA StepSessions ==
    TypeOK /\ Refs /\ [Next]_vars =>
        /\ nproc <= nproc'
        /\ \A s \in Procs : IsSession(s) => IsSession(s)' /\ (sess'[s].proc = s => sess[s].proc = s)
<1> DEFINE Keep == /\ nproc <= nproc'
                   /\ \A s \in Procs : IsSession(s) => /\ IsSession(s)'
                                                       /\ sess'[s].proc = s => sess[s].proc = s
<1> SUFFICES ASSUME TypeOK, Refs, [Next]_vars, ~UNCHANGED <<sess, nproc>>
             PROVE  Keep
  BY DEF IsSession, TypeOK
<1> USE NatAssumption
<1>a. sess \in [Procs -> SessionType] /\ nproc \in 0..MaxProcs
  BY DEF TypeOK
<1>1. ASSUME NEW r \in Requests, NEW p \in Procs, Spawn(r, p) PROVE Keep
  <2>1. nproc' = nproc + 1 /\ p = nproc + 1
        /\ sess' = [sess EXCEPT ![p] = [NoSession EXCEPT !.cid = req[r].cid, !.proc = p, !.cmd = req[r].eng]]
    BY <1>1 DEF Spawn, Popen
  <2> QED
    BY <1>a, <2>1 DEF IsSession
<1>2. ASSUME NEW r \in Requests, ProbeFails(r) PROVE Keep
  <2>1. nproc' = nproc /\ sess' = [sess EXCEPT ![req[r].own].closed = TRUE]
    BY <1>2 DEF ProbeFails, procVars
  <2> QED
    BY <1>a, <2>1 DEF IsSession, SessionType
<1>3. ASSUME NEW r \in Requests, RequestHls(r) PROVE Keep
  <2> DEFINE t == streams[req[r].cid]
  <2>1. nproc' = nproc /\ \/ sess' = [sess EXCEPT ![t].hls = TRUE, ![t].restarting = TRUE]
                          \/ sess' = [sess EXCEPT ![t].hls = TRUE]
    BY <1>3 DEF RequestHls, procVars
  <2> HIDE DEF t
  <2> QED
    BY <1>a, <2>1 DEF IsSession, SessionType
<1>4. ASSUME NEW p \in Procs, EndOfFile(p) PROVE Keep
  <2>1. nproc' = nproc /\ \/ sess' = [sess EXCEPT ![drain[p]].restarting = TRUE]
                          \/ sess' = [sess EXCEPT ![drain[p]].closed = TRUE]
    BY <1>4 DEF EndOfFile
  <2> QED
    BY <1>a, <2>1 DEF IsSession, SessionType
<1>5. ASSUME NEW t \in Procs, NEW x, RestartEnds(t, x) PROVE Keep
  <2>1. nproc' = nproc /\ \/ sess' = [sess EXCEPT ![t].restarting = x, ![t].closed = TRUE]
                          \/ sess' = [sess EXCEPT ![t].restarting = x]
    BY <1>5 DEF RestartEnds
  <2> QED
    BY <1>a, <2>1 DEF IsSession, SessionType
<1>6. ASSUME NEW t \in Procs,
             RestartRefused(t) \/ RestartNegotiateFails(t) \/ RestartCancelled(t)
      PROVE  Keep
  BY <1>5, <1>6 DEF RestartRefused, RestartNegotiateFails, RestartCancelled
<1>7. ASSUME NEW t \in Procs, Attempt(t), nproc' \in {nproc, nproc + 1} PROVE Keep
  <2>1. sess' = [sess EXCEPT ![t].attempts = @ + 1]
    BY <1>7 DEF Attempt
  <2> QED
    BY <1>a, <1>7, <2>1 DEF IsSession, SessionType
<1>8. ASSUME NEW t \in Procs, NEW e \in Opt(Engs), NEW p \in Procs, RestartFast(t, e, p)
      PROVE  Keep
  BY <1>7, <1>8 DEF RestartFast, Popen
<1>8f. ASSUME NEW t \in Procs, RestartFastFails(t) \/ RestartFastRaises(t) PROVE Keep
  BY <1>7, <1>8f DEF RestartFastFails, RestartFastRaises
<1>9. ASSUME NEW t \in Procs, NEW e \in Opt(Engs), NEW p \in Procs, RestartNegotiate(t, e, p)
      PROVE  Keep
  <2>1. sess' = sess /\ nproc' = nproc + 1
    BY <1>9 DEF RestartNegotiate, Popen
  <2> QED
    BY <1>a, <2>1 DEF IsSession
<1>10. ASSUME NEW t \in Procs, RestartSwap(t) PROVE Keep
  <2>1. rst[t].proc \in (1..nproc) \ {t}
    BY <1>10 DEF RestartSwap, Refs
  <2>2. nproc' = nproc /\ \E n \in {0, sess[t].attempts} : sess' = [sess EXCEPT ![t] = TakeOver(t, n)]
    BY <1>10, Zenon DEF RestartSwap
  <2>3. \A n : TakeOver(t, n).cid = sess[t].cid /\ TakeOver(t, n).proc = rst[t].proc
    BY <1>a DEF TakeOver, SessionType
  <2> QED
    BY <1>a, <2>1, <2>2, <2>3 DEF IsSession
<1>11. ASSUME NEW t \in Procs, Kill(t) PROVE Keep
  <2>1. nproc' = nproc /\ sess' = [sess EXCEPT ![t].closed = TRUE]
    BY <1>11 DEF Kill
  <2> QED
    BY <1>a, <2>1 DEF IsSession, SessionType
<1> QED
  BY <1>1, <1>2, <1>3, <1>4, <1>6, <1>8, <1>8f, <1>9, <1>10, <1>11, ZenonT(60)
  DEF Next, StartStep, UseStep, RestartStep, vars, mgrVars, procVars, workVars,
      Ensure, HlsSegment, WaitOver, WaitTimeout, Negotiate, NegotiateFails, Decide, SpawnFails, SpawnRaises,
      ProbePasses, Settle, Discard, Finally, Lookup, Subscribe, Unsubscribe, HlsServe, HlsManifest,
      Judge, Drop, ProcessDies, RestartProbeFails, RestartRaises, Retire, ReapExited, ReapIdle,
      Unregister, Shutdown

\* Every request still fits.
LEMMA StepFits == TypeOK /\ Refs /\ [Next]_vars => \A q \in Requests : Fits(req[q])'
<1> SUFFICES ASSUME TypeOK, Refs, [Next]_vars, req' # req PROVE \A q \in Requests : Fits(req[q])'
  <2>1. TypeOK => \A q \in Requests : req[q].own \in Opt(Procs)
    BY DEF TypeOK, RequestType
  <2> QED
    BY <2>1, StepSessions DEF Refs, Fits, IsSession, Opt
<1> USE NoneAssumption
<1> DEFINE Keep == \A q \in Requests : Fits(req[q])'
<1>a. req \in [Requests -> RequestType] /\ streams \in [Cids -> Opt(Procs)]
  BY DEF TypeOK
<1>b. \A s \in Opt(Procs) : s # None /\ IsSession(s) => IsSession(s)'
  BY StepSessions DEF Opt
<1>c. ASSUME NEW x \in RequestType, Fits(x) PROVE Fits(x)'
  BY <1>b, <1>c DEF Fits, RequestType
<1>d. ASSUME NEW r \in Requests, NEW x, Fits(x)', req' = [req EXCEPT ![r] = x] PROVE Keep
  BY <1>a, <1>c, <1>d DEF Refs
<1>e. Fits(Over)'
  BY DEF Fits, Over, NoRequest
<1>f. ASSUME NEW r \in Requests, Done(r) PROVE Keep
  BY <1>d, <1>e, <1>f DEF Done
<1>g. ASSUME NEW s, ClientsEnd(s) PROVE Keep
  BY <1>a, <1>c, <1>e, <1>g DEF ClientsEnd, Refs
<1>h. ASSUME NEW r \in Requests,
             req' = [req EXCEPT ![r] = req'[r]],
             req'[r].own \in {req[r].own, None}, req'[r].pc # "probe", req'[r].cid \in Cids
      PROVE  Keep
  <2>1. req[r].own \in Opt(Procs) /\ Fits(req[r])
    BY <1>a DEF RequestType, Refs
  <2>2. Fits(req[r])'
    BY <1>b, <1>h, <2>1 DEF Fits
  <2>3. ASSUME NEW q \in Requests, q # r PROVE Fits(req[q])'
    BY <1>a, <1>c, <1>h, <2>3 DEF Refs, Fits
  <2> QED
    BY <2>2, <2>3
<1>i. ASSUME NEW r \in Requests, req[r].pc \notin {"new", "done"} PROVE req[r].cid \in Cids
  BY <1>i DEF Refs, Fits
<1>j. ASSUME NEW r \in Requests, NEW c \in Cids, NEW on, NEW l \in RequestPCs \ {"probe"},
             req' = [req EXCEPT ![r].pc = l, ![r].cid = c, ![r].on = on]
      PROVE  Keep
  BY <1>a, <1>h, <1>j, ZenonT(60) DEF RequestType
<1>k. ASSUME NEW r \in Requests, NEW l \in RequestPCs \ {"probe"}, req[r].pc \notin {"new", "done"},
             Goto(r, l)
      PROVE  Keep
  <2>1. req[r].cid \in Cids
    BY <1>i, <1>k
  <2>2. req' = [req EXCEPT ![r] = req'[r]] /\ req'[r].own \in {req[r].own, None}
        /\ req'[r].pc # "probe" /\ req'[r].cid = req[r].cid
    BY <1>a, <1>k DEF Goto, RequestType
  <2> QED
    BY <1>h, <2>1, <2>2
<1>1. ASSUME NEW r \in Requests, NEW c \in Cids, Ensure(r, c) PROVE Keep
  <2>1. CASE Done(r)
    BY <2>1, <1>f
  <2>2. CASE ~Done(r)
    <3>1. \E l \in {"have", "negotiate", "wait"} : \E on :
             req' = [req EXCEPT ![r].pc = l, ![r].cid = c, ![r].on = on]
      BY <1>1, <2>2 DEF Ensure
    <3> QED
      BY <1>j, <3>1 DEF RequestPCs
  <2> QED
    BY <2>1, <2>2
<1>2. ASSUME NEW r \in Requests, NEW c \in Cids, Judge(r, c) PROVE Keep
  <2>1. "drop" \in RequestPCs \ {"probe"}
    BY DEF RequestPCs
  <2> QED
    BY <1>2, <1>j, <2>1 DEF Judge
<1>3. ASSUME NEW r \in Requests, HlsManifest(r) PROVE Keep
  BY <1>2, <1>3, <1>i DEF HlsManifest, At
<1>4. ASSUME NEW r \in Requests, WaitOver(r) PROVE Keep
  <2>1. CASE req' = [req EXCEPT ![r].pc = "have", ![r].on = None]
    BY <1>4, <2>1, <1>a, <1>h, <1>i, ZenonT(60) DEF WaitOver, At, RequestType
  <2> QED
    BY <1>4, <2>1, <1>f DEF WaitOver
<1>5. ASSUME NEW r \in Requests, NEW e, Negotiate(r, e) PROVE Keep
  <2>1. req' = [req EXCEPT ![r].pc = "decide", ![r].eng = e] /\ At(r, "negotiate")
    BY <1>5 DEF Negotiate
  <2>2. req[r].cid \in Cids
    BY <1>i, <2>1 DEF At
  <2>3. req' = [req EXCEPT ![r] = req'[r]] /\ req'[r].own \in {req[r].own, None}
        /\ req'[r].pc # "probe" /\ req'[r].cid = req[r].cid
    BY <1>a, <2>1, Zenon DEF RequestType
  <2> QED
    BY <1>h, <2>2, <2>3
<1>6. ASSUME NEW r \in Requests,
             NegotiateFails(r) \/ SpawnFails(r) \/ ProbePasses(r)
      PROVE  Keep
  BY <1>6, <1>k DEF NegotiateFails, SpawnFails, ProbePasses, At, RequestPCs
<1>7. ASSUME NEW r \in Requests, NEW rest, NEW l \in {"discard", "settle"},
             req[r].pc \notin {"new", "done"},
             req' = [req EXCEPT ![r].pc = l, ![r].rest = rest]
      PROVE  Keep
  <2>1. req[r].cid \in Cids
    BY <1>i, <1>7
  <2>2. req' = [req EXCEPT ![r] = req'[r]] /\ req'[r].own \in {req[r].own, None}
        /\ req'[r].pc # "probe" /\ req'[r].cid = req[r].cid
    BY <1>a, <1>7 DEF RequestType
  <2> QED
    BY <1>h, <2>1, <2>2
<1>8. ASSUME NEW r \in Requests, Decide(r) PROVE Keep
  BY <1>8, <1>7, <1>k DEF Decide, At, RequestPCs
<1>9. ASSUME NEW r \in Requests, Settle(r) \/ SpawnRaises(r) PROVE Keep
  BY <1>9, <1>7 DEF Settle, SpawnRaises, At
<1>10. ASSUME NEW r \in Requests, NEW p \in Procs, Spawn(r, p) PROVE Keep
  <2>1. p = nproc + 1 /\ nproc' = p /\ At(r, "spawn") /\ nproc \in Nat
        /\ sess' = [sess EXCEPT ![p] = [NoSession EXCEPT !.cid = req[r].cid, !.proc = p, !.cmd = req[r].eng]]
    BY <1>10 DEF Spawn, Popen, TypeOK
  <2>1a. PICK l \in {"settle", "probe"} : req' = [req EXCEPT ![r].own = p, ![r].pc = l]
    BY <1>10 DEF Spawn
  <2>2. req[r].cid \in Cids
    BY <2>1, <1>i DEF At
  <2>3. IsSession(p)'
    <3>1. sess'[p].cid = req[r].cid /\ sess'[p].proc = p
      BY <2>1 DEF TypeOK, NoSession
    <3> QED
      BY <2>1, <2>2, <3>1 DEF IsSession
  <2>4. Fits(req[r])'
    <3>1. req'[r].own = p /\ req'[r].cid \in Cids
      BY <2>1a, <2>2, <1>a DEF RequestType
    <3>2. p # None
      BY DEF Procs
    <3> QED
      BY <2>3, <3>1, <3>2 DEF Fits
  <2>5. ASSUME NEW q \in Requests, q # r PROVE Fits(req[q])'
    <3>1. req'[q] = req[q]
      BY <1>a, <2>1a, <2>5
    <3> QED
      BY <1>a, <1>c, <3>1 DEF Refs, Fits
  <2> QED
    BY <2>4, <2>5
<1>11. ASSUME NEW r \in Requests, ProbeFails(r) \/ Discard(r) PROVE Keep
  <2>1. PICK l \in {"settle", "finally"} :
           req[r].pc \notin {"new", "done"} /\ req' = [req EXCEPT ![r].pc = l, ![r].own = None]
    BY <1>11 DEF ProbeFails, Discard, At
  <2>2. req[r].cid \in Cids
    BY <1>i, <2>1
  <2>3. req' = [req EXCEPT ![r] = req'[r]] /\ req'[r].own \in {req[r].own, None}
        /\ req'[r].pc # "probe" /\ req'[r].cid = req[r].cid
    BY <1>a, <2>1, ZenonT(60) DEF RequestType
  <2> QED
    BY <1>h, <2>2, <2>3
<1>12. ASSUME NEW r \in Requests, Finally(r) PROVE Keep
  <2>1. CASE req' = [req EXCEPT ![r] = [NoRequest EXCEPT !.pc = "have", !.cid = req[r].cid]]
    <3>1. PICK x : x = [NoRequest EXCEPT !.pc = "have", !.cid = req[r].cid]
      OBVIOUS
    <3>2. Fits(x)'
      <4>1. req[r].cid \in Cids
        BY <1>12, <1>i DEF Finally, At
      <4>2. x.own = None /\ x.pc = "have" /\ x.cid \in Cids
        BY <3>1, <4>1 DEF NoRequest
      <4> QED
        BY <4>2 DEF Fits
    <3> QED
      BY <1>d, <2>1, <3>1, <3>2
  <2> QED
    BY <1>12, <2>1, <1>f DEF Finally
<1>13. ASSUME NEW r \in Requests, Lookup(r) PROVE Keep
  <2> DEFINE s == streams[req[r].cid]
  <2>1. CASE Live(req[r].cid) /\ req' = [req EXCEPT ![r].pc = "subscribe", ![r].own = s]
    <3>1. req[r].cid \in Cids
      BY <1>13, <1>i DEF Lookup, At
    <3>2. s # None /\ s \in Procs /\ IsSession(s)
      BY <2>1, <3>1, <1>a DEF Live, Refs, Opt
    <3>3. req'[r].own = s /\ req'[r].pc = "subscribe" /\ req'[r].cid = req[r].cid
      BY <1>a, <2>1 DEF RequestType
    <3>4. Fits(req[r])'
      BY <1>b, <3>1, <3>2, <3>3 DEF Fits, Opt
    <3>5. ASSUME NEW q \in Requests, q # r PROVE Fits(req[q])'
      <4>1. req'[q] = req[q]
        BY <1>a, <2>1, <3>5
      <4> QED
        BY <1>a, <1>c, <4>1 DEF Refs, Fits
    <3> QED
      BY <3>4, <3>5
  <2> QED
    BY <1>13, <2>1, <1>f DEF Lookup
<1>14. ASSUME NEW r \in Requests, Subscribe(r) PROVE Keep
  BY <1>14, <1>f, <1>k, SMTT(60) DEF Subscribe, At, RequestPCs
<1>15. ASSUME NEW r \in Requests,
              WaitTimeout(r) \/ Unsubscribe(r) \/ HlsServe(r) \/ Drop(r) \/ RequestHls(r)
       PROVE  Keep
  BY <1>15, <1>f DEF WaitTimeout, Unsubscribe, HlsServe, Drop, RequestHls
<1>16. ASSUME NEW s, EndOfFile(s) \/ Kill(s) \/ RestartRefused(s) \/ RestartNegotiateFails(s)
                     \/ RestartCancelled(s)
       PROVE  Keep
  BY <1>16, <1>g DEF EndOfFile, Kill, RestartRefused, RestartNegotiateFails, RestartCancelled,
                     RestartEnds
<1> QED
  BY <1>1, <1>2, <1>3, <1>4, <1>5, <1>6, <1>8, <1>9, <1>10, <1>11, <1>12, <1>13, <1>14, <1>15, <1>16, ZenonT(60)
  DEF Next, StartStep, UseStep, RestartStep, vars, HlsSegment, ProcessDies, RestartFast,
      RestartFastFails, RestartFastRaises, RestartRaises, Attempt, RestartProbeFails, RestartNegotiate, RestartSwap, Retire,
      ReapExited, ReapIdle, Unregister, Shutdown

\* Only a start that settles registers a session; others unregister.
LEMMA WritesStreams ==
    ASSUME TypeOK, [Next]_vars
    PROVE  \/ \E r \in Requests : Settle(r)
           \/ \A c \in Cids : streams'[c] \in {streams[c], None}
<1> USE DEF TypeOK
<1>1. ASSUME NEW r \in Requests, Drop(r) PROVE \A c \in Cids : streams'[c] \in {streams[c], None}
  BY <1>1 DEF Drop
<1>2. ASSUME NEW d \in Cids, Unregister(d) PROVE \A c \in Cids : streams'[c] \in {streams[c], None}
  BY <1>2 DEF Unregister
<1>3. ASSUME Shutdown PROVE \A c \in Cids : streams'[c] \in {streams[c], None}
  BY <1>3, SMTT(60) DEF Shutdown
<1>4. ASSUME NEW r \in Requests, StartStep(r) PROVE streams' = streams \/ Settle(r)
  BY <1>4, Zenon DEF StartStep, mgrVars, WaitOver, WaitTimeout, Negotiate, NegotiateFails, Decide, SpawnFails, SpawnRaises, ProbePasses,
      ProbeFails, Spawn, Discard, Finally
<1>5. ASSUME NEW r \in Requests, UseStep(r) PROVE streams' = streams \/ Drop(r)
  BY <1>5 DEF UseStep, mgrVars, Lookup, Subscribe, HlsServe, HlsManifest, Judge, RequestHls
<1>6. ASSUME NEW s \in Procs, RestartStep(s) PROVE streams' = streams
  BY <1>6, ZenonT(60) DEF RestartStep, mgrVars, RestartRefused, RestartNegotiateFails, RestartCancelled, RestartEnds, RestartFast,
      RestartFastFails, RestartFastRaises, RestartRaises, RestartProbeFails, Attempt, RestartNegotiate, RestartSwap
<1>7. \/ streams' = streams
      \/ \E r \in Requests : Settle(r) \/ Drop(r)
      \/ \E c \in Cids : Unregister(c)
      \/ Shutdown
  BY <1>4, <1>5, <1>6, ZenonT(60)
  DEF Next, vars, mgrVars, Ensure, HlsSegment, Judge, Unsubscribe, ProcessDies, EndOfFile, Kill,
      Retire, ReapExited, ReapIdle
<1> QED
  BY <1>1, <1>2, <1>3, <1>7

\* Only a spawn, an end of file and a restart's swap write the drains.
LEMMA WritesDrain ==
    ASSUME [Next]_vars
    PROVE  \/ drain' = drain
           \/ \E r \in Requests, p \in Procs : Spawn(r, p)
           \/ \E s \in Procs : EndOfFile(s) \/ RestartSwap(s)
<1>1. ASSUME NEW r \in Requests, StartStep(r)
      PROVE  drain' = drain \/ \E p \in Procs : Spawn(r, p)
  BY <1>1 DEF StartStep, procVars, WaitOver, WaitTimeout, Negotiate, NegotiateFails, Decide, SpawnFails, SpawnRaises, ProbePasses,
      ProbeFails, Settle, Discard, Finally
<1>2. ASSUME NEW r \in Requests, UseStep(r) PROVE drain' = drain
  <2>1. ASSUME Lookup(r) \/ Subscribe(r) \/ HlsServe(r) \/ HlsManifest(r) PROVE drain' = drain
    BY <2>1, Zenon DEF procVars, Lookup, Subscribe, HlsServe, HlsManifest, Judge
  <2>2. CASE Drop(r)
    BY <2>2, Zenon DEF procVars, Drop
  <2>3. CASE RequestHls(r)
    BY <2>3, Zenon DEF procVars, RequestHls
  <2> QED
    BY <1>2, <2>1, <2>2, <2>3, Zenon DEF UseStep
<1>3. ASSUME NEW s \in Procs, RestartStep(s) PROVE drain' = drain \/ RestartSwap(s)
  BY <1>3, ZenonT(60) DEF RestartStep, procVars, RestartRefused, RestartNegotiateFails, RestartCancelled, RestartEnds, RestartFast,
      RestartFastFails, RestartFastRaises, RestartRaises, RestartProbeFails, Attempt, RestartNegotiate
<1> QED
  BY <1>1, <1>2, <1>3, ZenonT(60)
  DEF Next, vars, procVars, Ensure, HlsSegment, Judge, Unsubscribe, ProcessDies, Kill, Retire,
      Unregister, ReapExited, ReapIdle, Shutdown

\* Only an HLS request, an end of file and a restart's own steps write the restarts.
LEMMA WritesRst ==
    ASSUME [Next]_vars
    PROVE  \/ rst' = rst
           \/ \E r \in Requests : RequestHls(r)
           \/ \E s \in Procs : EndOfFile(s) \/ RestartStep(s)
  BY ZenonT(60) DEF Next, StartStep, UseStep, vars, mgrVars, procVars, workVars,
      Ensure, HlsSegment, WaitOver, WaitTimeout, Negotiate, NegotiateFails, Decide, SpawnFails, SpawnRaises,
      ProbePasses, Discard, Finally, Lookup, Subscribe, Unsubscribe, HlsServe, HlsManifest,
      Judge, ProcessDies, Retire, ProbeFails, Spawn, Settle, Drop, Shutdown, Kill, ReapExited, ReapIdle,
      Unregister

\* So does what the registry, the drains and the restarts hold.
LEMMA StepRefs == TypeOK /\ TypeOK' /\ Refs /\ [Next]_vars => Refs'
<1> SUFFICES ASSUME TypeOK, TypeOK', Refs, [Next]_vars PROVE Refs'
  OBVIOUS
<1> USE NoneAssumption
<1>a. /\ rst \in [Procs -> RestartType]
      /\ drain \in [Procs -> Opt(Procs)]
      /\ streams \in [Cids -> Opt(Procs)]
      /\ nproc \in Nat /\ nproc <= nproc' /\ nproc' \in 0..MaxProcs
  BY StepSessions, NatAssumption DEF TypeOK
<1>b. \A s \in Procs : IsSession(s) => IsSession(s)'
  BY StepSessions
<1>c. \A s \in Opt(Procs) : s # None => s \in Procs
  BY DEF Opt
<1>1. \A c \in Cids : streams'[c] # None => IsSession(streams[c])'
  <2> SUFFICES ASSUME NEW c \in Cids, streams'[c] # None, streams'[c] # streams[c]
               PROVE  IsSession(streams[c])'
    BY <1>a, <1>b, <1>c DEF Refs, IsSession
  <2>1. PICK r \in Requests : Settle(r)
    BY WritesStreams
  <2>2. streams'[c] = req[r].own /\ req[r].own # None /\ UNCHANGED <<sess, nproc>>
    BY <1>a, <2>1 DEF Settle, procVars
  <2>3. IsSession(req[r].own)
    BY <2>2 DEF Refs, Fits
  <2> QED
    BY <2>2, <2>3 DEF IsSession
<1>2. \A p \in Procs : drain'[p] # None => IsSession(drain[p])'
  <2> SUFFICES ASSUME drain' # drain
               PROVE  \A p \in Procs : drain'[p] # None => IsSession(drain[p])'
    BY <1>a, <1>b, <1>c DEF Refs, IsSession
  <2>1. \/ \E r \in Requests, p \in Procs : Spawn(r, p)
        \/ \E s \in Procs : EndOfFile(s) \/ RestartSwap(s)
    BY WritesDrain
  <2>2. PICK p \in Procs, v \in Opt(Procs) :
           drain' = [drain EXCEPT ![p] = v] /\ (v # None => v \in Procs /\ (IsSession(v))')
    <3>1. ASSUME NEW r \in Requests, NEW p \in Procs, Spawn(r, p)
          PROVE  drain' = [drain EXCEPT ![p] = p] /\ IsSession(p)'
      <4>1. /\ nproc' = p
            /\ sess' = [sess EXCEPT ![p] = [NoSession EXCEPT !.cid = req[r].cid, !.proc = p,
                                                             !.cmd = req[r].eng]]
        BY <3>1 DEF Spawn, Popen
      <4>2. req[r].cid \in Cids
        BY <3>1 DEF Spawn, At, Refs, Fits
      <4>3. sess'[p].cid \in Cids /\ sess'[p].proc = p
        BY <4>1, <4>2 DEF TypeOK, NoSession
      <4> QED
        BY <3>1, <4>1, <4>3 DEF Spawn, IsSession, Procs
    <3>2. ASSUME NEW s \in Procs, EndOfFile(s) PROVE drain' = [drain EXCEPT ![s] = None]
      BY <3>2 DEF EndOfFile
    <3>3. ASSUME NEW s \in Procs, RestartSwap(s)
          PROVE  rst[s].proc \in Procs /\ drain' = [drain EXCEPT ![rst[s].proc] = s] /\ IsSession(s)'
      BY <1>a, <1>b, <3>3 DEF RestartSwap, Refs, TypeOK, Procs
    <3> QED
      BY <2>1, <3>1, <3>2, <3>3 DEF Opt
  <2> QED
    BY <1>a, <1>b, <1>c, <2>2 DEF Refs, IsSession
<1>3. \A s \in Procs : /\ rst'[s].pc # "none" => IsSession(s)
                       /\ rst'[s].pc \in {"fast", "swap"} => rst'[s].proc \in (1..nproc') \ {s}
  <2> DEFINE Good(s, x) == /\ x.pc # "none" => IsSession(s)
                           /\ x.pc \in {"fast", "swap"} => x.proc \in (1..nproc') \ {s}
  <2>1. \A s \in Procs : Good(s, rst[s])
    BY <1>a DEF Refs
  <2>2. ASSUME NEW s \in Procs, NEW x, rst' = [rst EXCEPT ![s] = x], Good(s, x)
        PROVE  \A q \in Procs : Good(q, rst'[q])
    BY <1>a, <2>1, <2>2
  <2>3. \A s \in Procs : Good(s, NoRestart)
    BY DEF NoRestart
  <2> HIDE DEF Good
  <2>4. ASSUME NEW r \in Requests, RequestHls(r), rst' # rst PROVE \A q \in Procs : Good(q, rst'[q])
    <3> DEFINE s == streams[req[r].cid]
    <3>1. s # None /\ rst' = [rst EXCEPT ![s] = [NoRestart EXCEPT !.pc = "begin", !.by = "hls"]]
      BY <2>4 DEF RequestHls
    <3>2. req[r].cid \in Cids
      BY <2>4 DEF RequestHls, At, Refs, Fits
    <3>3. s \in Procs /\ IsSession(s)
      BY <1>a, <1>c, <3>1, <3>2 DEF Refs
    <3>4. Good(s, [NoRestart EXCEPT !.pc = "begin", !.by = "hls"])
      BY <3>3 DEF Good, NoRestart
    <3> QED
      BY <2>2, <3>1, <3>3, <3>4
  <2>5. ASSUME NEW p \in Procs, EndOfFile(p), rst' # rst PROVE \A q \in Procs : Good(q, rst'[q])
    <3> DEFINE s == drain[p]
    <3>1. s # None /\ rst' = [rst EXCEPT ![s] = [NoRestart EXCEPT !.pc = "begin"]]
      BY <2>5 DEF EndOfFile
    <3>3. s \in Procs /\ IsSession(s)
      BY <1>a, <1>c, <3>1 DEF Refs
    <3>4. Good(s, [NoRestart EXCEPT !.pc = "begin"])
      BY <3>3 DEF Good, NoRestart
    <3> QED
      BY <2>2, <3>1, <3>3, <3>4
  <2>6. ASSUME NEW s \in Procs, rst' = [rst EXCEPT ![s] = NoRestart]
        PROVE  \A q \in Procs : Good(q, rst'[q])
    BY <2>2, <2>3, <2>6
  <2>7. ASSUME NEW s \in Procs, rst[s].pc # "none", NEW l \in {"negotiate", "raised"}, NEW e,
               \/ rst' = [rst EXCEPT ![s].pc = l]
               \/ rst' = [rst EXCEPT ![s].pc = l, ![s].eng = e]
               \/ rst' = [rst EXCEPT ![s].pc = l, ![s].proc = None, ![s].eng = None]
        PROVE  \A q \in Procs : Good(q, rst'[q])
    <3>1. PICK x : /\ rst' = [rst EXCEPT ![s] = x]
                   /\ \/ x = [rst[s] EXCEPT !.pc = l]
                      \/ x = [rst[s] EXCEPT !.pc = l, !.eng = e]
                      \/ x = [rst[s] EXCEPT !.pc = l, !.proc = None, !.eng = None]
      BY <2>7
    <3>2. x.pc = l
      BY <1>a, <3>1 DEF RestartType
    <3>3. IsSession(s)
      BY <2>7 DEF Refs
    <3> QED
      BY <2>2, <3>1, <3>2, <3>3 DEF Good
  <2>8. ASSUME NEW s \in Procs, NEW e, NEW p, Popen(p), rst[s].pc # "none",
               NEW l \in {"fast", "swap"},
               rst' = [rst EXCEPT ![s].pc = l, ![s].proc = p, ![s].eng = e]
        PROVE  \A q \in Procs : Good(q, rst'[q])
    <3>1. PICK x : /\ rst' = [rst EXCEPT ![s] = x]
                   /\ x = [rst[s] EXCEPT !.pc = l, !.proc = p, !.eng = e]
      BY <2>8
    <3>2. x.pc = l /\ x.proc = p
      BY <1>a, <3>1 DEF RestartType
    <3>3. IsSession(s)
      BY <2>8 DEF Refs
    <3>4. p \in (1..nproc') \ {s}
      BY <1>a, <2>8, <3>3 DEF Popen, IsSession
    <3> QED
      BY <2>2, <3>1, <3>2, <3>3, <3>4 DEF Good
  <2>8f. ASSUME NEW s \in Procs, NEW e,
                \/ RestartFastFails(s) \/ RestartFastRaises(s) \/ RestartProbeFails(s)
                \/ RestartRaises(s, e)
         PROVE  \A q \in Procs : Good(q, rst'[q])
    BY <2>7, <2>8f, ZenonT(60)
    DEF RestartFastFails, RestartFastRaises, RestartProbeFails, RestartRaises, Attempt
  <2>9. ASSUME NEW s \in Procs, RestartStep(s) PROVE \A q \in Procs : Good(q, rst'[q])
    BY <2>6, <2>8, <2>8f, <2>9, ZenonT(60)
    DEF RestartStep, RestartRefused, RestartNegotiateFails,
        RestartCancelled, RestartSwap, RestartFast, RestartNegotiate, RestartEnds, Attempt
  <2>10. \A q \in Procs : Good(q, rst'[q])
    BY WritesRst, <2>1, <2>4, <2>5, <2>9
  <2> QED
    BY <2>10 DEF Good
<1>4. \A s \in Procs : rst'[s].pc # "none" => IsSession(s)'
  BY <1>3, <1>b
<1>5. \A s \in Procs : rst'[s].pc \in {"fast", "swap"} => rst'[s].proc \in (1..nproc') \ {s}
  BY <1>3
<1>6. \A r \in Requests : Fits(req[r])'
  BY StepFits
<1> QED
  BY <1>1, <1>2, <1>4, <1>5, <1>6, Zenon DEF Refs

-------------------------------------------------------------------------------
\* Reservations and starts: which steps matter to them.

\* q is reserving, and starting its content id, as much after the step as before it.
SamePlace(q) ==
    /\ req'[q].pc \in ReservingPCs <=> req[q].pc \in ReservingPCs
    /\ req'[q].pc \in InStart => req[q].pc \in InStart /\ req'[q].cid = req[q].cid

Calm ==
    /\ reserved' = reserved
    /\ closed' \/ UNCHANGED <<closed, starting>>
    /\ \A q \in Requests : SamePlace(q)

\* Every step is calm but those of a request that gets, gives back or frees something.
LEMMA MostStepsCalm ==
    ASSUME TypeOK, [Next]_vars
    PROVE  \/ Calm
           \/ \E r \in Requests : \/ Decide(r) \/ Settle(r) \/ Finally(r)
                                  \/ \E c \in Cids : Ensure(r, c)
<1> USE DEF At
<1>a. req \in [Requests -> RequestType]
  BY DEF TypeOK
<1>b. ASSUME UNCHANGED <<reserved, starting, closed>>, NEW r \in Requests, NEW x, SamePlace(r),
             req' = [req EXCEPT ![r] = x]
      PROVE  Calm
  BY <1>a, <1>b DEF Calm, SamePlace
<1>c. ASSUME UNCHANGED <<reserved, starting, closed>>, NEW r \in Requests, Done(r),
             req[r].pc \notin ReservingPCs
      PROVE  Calm
  <2>1. req'[r].pc = "done"
    BY <1>a, <1>c DEF Done, Over, NoRequest
  <2>2. SamePlace(r)
    BY <1>c, <2>1 DEF SamePlace, ReservingPCs, InStart
  <2> QED
    BY <1>b, <1>c, <2>2 DEF Done
<1>d. ASSUME UNCHANGED <<reserved, starting, closed>>, NEW s, ClientsEnd(s) PROVE Calm
  <2>1. Over.pc = "done"
    BY DEF Over, NoRequest
  <2>2. \A q \in Requests : req'[q] # req[q] => req[q].pc = "streaming" /\ req'[q] = Over
    BY <1>d DEF ClientsEnd, Subscribers
  <2>3. \A q \in Requests : SamePlace(q)
    BY <2>1, <2>2 DEF SamePlace, ReservingPCs, InStart
  <2> QED
    BY <1>d, <2>3 DEF Calm
<1>e. ASSUME UNCHANGED <<reserved, starting, closed, req>> PROVE Calm
  BY <1>e DEF Calm, SamePlace
<1>f. ASSUME UNCHANGED <<reserved, starting, closed>>, NEW r \in Requests, NEW l,
             Goto(r, l), l \in ReservingPCs <=> req[r].pc \in ReservingPCs,
             l \in InStart => req[r].pc \in InStart
      PROVE  Calm
  <2>1. req'[r].pc = l /\ req'[r].cid = req[r].cid
    BY <1>a, <1>f DEF Goto, RequestType
  <2> QED
    BY <1>b, <1>f, <2>1 DEF Goto, SamePlace
<1>g. ASSUME NEW r \in Requests, NEW c, Judge(r, c), req[r].pc \in {"new", "have"} PROVE Calm
  <2>1. req' = [req EXCEPT ![r] = req'[r]] /\ req'[r].pc = "drop"
    BY <1>a, <1>g DEF Judge, RequestType
  <2>2. SamePlace(r)
    BY <1>g, <2>1 DEF SamePlace, ReservingPCs, InStart
  <2> QED
    BY <1>b, <1>g, <2>1, <2>2 DEF Judge, mgrVars
<1>1. ASSUME NEW r \in Requests, WaitOver(r) PROVE Calm
  <2>1. CASE req' = [req EXCEPT ![r].pc = "have", ![r].on = None]
    <3>1. req' = [req EXCEPT ![r] = req'[r]] /\ req'[r].pc = "have"
      BY <1>a, <2>1 DEF RequestType
    <3>2. SamePlace(r)
      BY <1>1, <3>1 DEF WaitOver, SamePlace, ReservingPCs, InStart
    <3> QED
      BY <1>1, <1>b, <3>1, <3>2 DEF WaitOver, mgrVars
  <2> QED
    BY <1>1, <1>c, <2>1 DEF WaitOver, mgrVars, ReservingPCs
<1>2. ASSUME NEW r \in Requests, NEW e, Negotiate(r, e) PROVE Calm
  <2>1. req' = [req EXCEPT ![r].pc = "decide", ![r].eng = e]
    BY <1>2 DEF Negotiate
  <2>2. req' = [req EXCEPT ![r] = req'[r]] /\ req'[r].pc = "decide" /\ req'[r].cid = req[r].cid
    BY <1>a, <2>1 DEF RequestType
  <2>3. SamePlace(r)
    BY <1>2, <2>2 DEF Negotiate, SamePlace, ReservingPCs, InStart
  <2> QED
    BY <1>2, <1>b, <2>2, <2>3 DEF Negotiate
<1>3. ASSUME NEW r \in Requests, NegotiateFails(r) \/ SpawnFails(r) \/ ProbePasses(r) PROVE Calm
  BY <1>3, <1>f DEF NegotiateFails, SpawnFails, ProbePasses, mgrVars, ReservingPCs, InStart
<1>3r. ASSUME NEW r \in Requests, SpawnRaises(r) PROVE Calm
  <2>1. req' = [req EXCEPT ![r].pc = "settle", ![r].rest = {"stop"}]
    BY <1>3r DEF SpawnRaises
  <2>2. req' = [req EXCEPT ![r] = req'[r]] /\ req'[r].pc = "settle" /\ req'[r].cid = req[r].cid
    BY <1>a, <2>1 DEF RequestType
  <2>3. SamePlace(r)
    BY <1>3r, <2>2 DEF SpawnRaises, SamePlace, ReservingPCs, InStart
  <2> QED
    BY <1>3r, <1>b, <2>2, <2>3 DEF SpawnRaises, mgrVars
<1>4. ASSUME NEW r \in Requests, NEW p \in Procs, Spawn(r, p) PROVE Calm
  <2>1. PICK l \in {"probe", "settle"} : req' = [req EXCEPT ![r].own = p, ![r].pc = l]
    BY <1>4 DEF Spawn
  <2>2. req' = [req EXCEPT ![r] = req'[r]] /\ req'[r].pc = l /\ req'[r].cid = req[r].cid
    BY <1>a, <2>1 DEF RequestType
  <2>3. SamePlace(r)
    BY <1>4, <2>2 DEF Spawn, SamePlace, ReservingPCs, InStart
  <2> QED
    BY <1>4, <1>b, <2>2, <2>3 DEF Spawn, mgrVars
<1>5. ASSUME NEW r \in Requests, ProbeFails(r) \/ Discard(r) PROVE Calm
  <2>1. PICK l : /\ req' = [req EXCEPT ![r].pc = l, ![r].own = None]
                 /\ \/ l = "settle" /\ req[r].pc = "probe"
                    \/ l = "finally" /\ req[r].pc = "discard"
    BY <1>5 DEF ProbeFails, Discard
  <2>2. req' = [req EXCEPT ![r] = req'[r]] /\ req'[r].pc = l /\ req'[r].cid = req[r].cid
    BY <1>a, <2>1 DEF RequestType
  <2>3. SamePlace(r)
    BY <2>1, <2>2 DEF SamePlace, ReservingPCs, InStart
  <2> QED
    BY <1>5, <1>b, <2>2, <2>3 DEF ProbeFails, Discard, mgrVars
<1>6. ASSUME NEW r \in Requests, Lookup(r) PROVE Calm
  <2>1. CASE req' = [req EXCEPT ![r].pc = "subscribe", ![r].own = streams[req[r].cid]]
    <3>1. req' = [req EXCEPT ![r] = req'[r]] /\ req'[r].pc = "subscribe"
      BY <1>a, <2>1 DEF RequestType
    <3>2. SamePlace(r)
      BY <1>6, <3>1 DEF Lookup, SamePlace, ReservingPCs, InStart
    <3> QED
      BY <1>6, <1>b, <3>1, <3>2 DEF Lookup, mgrVars
  <2> QED
    BY <1>6, <1>c, <2>1 DEF Lookup, mgrVars, ReservingPCs
<1>7. ASSUME NEW r \in Requests, Subscribe(r) PROVE Calm
  BY <1>7, <1>c, <1>f DEF Subscribe, mgrVars, ReservingPCs, InStart
<1>8. ASSUME NEW r \in Requests,
             WaitTimeout(r) \/ Unsubscribe(r) \/ HlsServe(r) \/ Drop(r) \/ RequestHls(r)
      PROVE  Calm
  BY <1>8, <1>c DEF WaitTimeout, Unsubscribe, HlsServe, Drop, RequestHls, mgrVars, ReservingPCs
<1>9. ASSUME NEW r \in Requests, StartStep(r)
      PROVE  Calm \/ Decide(r) \/ Settle(r) \/ Finally(r)
  BY <1>1, <1>2, <1>3, <1>3r, <1>4, <1>5, <1>8, <1>9 DEF StartStep
<1>10. ASSUME NEW r \in Requests, UseStep(r) PROVE Calm
  BY <1>6, <1>7, <1>8, <1>10, <1>g DEF UseStep, HlsManifest
<1>11. ASSUME NEW s \in Procs, RestartStep(s) PROVE Calm
  <2>1. UNCHANGED <<reserved, starting, closed>> /\ (req' = req \/ ClientsEnd(s))
    BY <1>11 DEF RestartStep, mgrVars, RestartRefused, RestartNegotiateFails, RestartCancelled,
                 RestartEnds, RestartFast, RestartFastFails, RestartFastRaises, RestartRaises, RestartProbeFails, Attempt,
                 RestartNegotiate, RestartSwap
  <2> QED
    BY <1>d, <1>e, <2>1, SMTT(60)
<1>12. ASSUME NEW p \in Procs, ProcessDies(p) \/ EndOfFile(p) \/ Kill(p) PROVE Calm
  <2>1. UNCHANGED <<reserved, starting, closed>> /\ (req' = req \/ \E s : ClientsEnd(s))
    BY <1>12 DEF ProcessDies, EndOfFile, Kill, mgrVars
  <2> QED
    BY <1>d, <1>e, <2>1
<1>13. ASSUME NEW t \in retiring, Retire(t) PROVE Calm
  BY <1>13, <1>e DEF Retire, mgrVars
<1>14. ASSUME NEW c \in Cids, ReapExited(c) \/ ReapIdle(c) PROVE Calm
  BY <1>14, <1>e DEF ReapExited, ReapIdle, Unregister
<1>15. ASSUME Shutdown PROVE Calm
  BY <1>15 DEF Shutdown, Calm, SamePlace
<1>16. ASSUME UNCHANGED vars PROVE Calm
  BY <1>16, <1>e DEF vars, mgrVars
<1>17. ASSUME NEW r \in Requests, NEW c \in Cids, HlsSegment(r, c) PROVE Calm
  BY <1>17, <1>g DEF HlsSegment
<1> QED
  BY <1>8, <1>9, <1>10, <1>11, <1>12, <1>13, <1>14, <1>15, <1>16, <1>17 DEF Next

\* Where Ensure, Decide, Settle and Finally take their request.
LEMMA StarterPlaces ==
    ASSUME TypeOK, NEW r \in Requests
    PROVE  /\ Decide(r) \/ Settle(r) => req' = [req EXCEPT ![r] = req'[r]] /\ req'[r].cid = req[r].cid
           /\ Decide(r) => req'[r].pc \in {"spawn", "discard"}
           /\ Settle(r) => req'[r].pc = "discard"
           /\ Finally(r) => /\ req' = [req EXCEPT ![r] = req'[r]]
                            /\ req'[r].pc \in {"have", "done"}
           /\ \A c \in Cids : Ensure(r, c) =>
                 /\ req' = [req EXCEPT ![r] = req'[r]]
                 /\ req'[r].pc \in {"have", "wait", "negotiate", "done"}
                 /\ req'[r].pc = "negotiate" =>
                       /\ ~closed /\ starting[c] = None
                       /\ req'[r].cid = c /\ starting' = [starting EXCEPT ![c] = r]
                 /\ req'[r].pc # "negotiate" => UNCHANGED starting
<1>a. req \in [Requests -> RequestType]
  BY DEF TypeOK
<1>b. ASSUME NEW rest, req' = [req EXCEPT ![r].pc = "discard", ![r].rest = rest]
      PROVE  req' = [req EXCEPT ![r] = req'[r]] /\ req'[r].cid = req[r].cid /\ req'[r].pc = "discard"
  BY <1>a, <1>b DEF RequestType
<1>1. ASSUME Decide(r)
      PROVE  /\ req' = [req EXCEPT ![r] = req'[r]] /\ req'[r].cid = req[r].cid
             /\ req'[r].pc \in {"spawn", "discard"}
  <2>1. CASE Goto(r, "spawn")
    BY <1>a, <2>1 DEF Goto, RequestType
  <2> QED
    BY <1>1, <1>b, <2>1 DEF Decide
<1>2. ASSUME Settle(r)
      PROVE  /\ req' = [req EXCEPT ![r] = req'[r]] /\ req'[r].cid = req[r].cid
             /\ req'[r].pc = "discard"
  BY <1>2, <1>b DEF Settle
<1>d. ASSUME Done(r) PROVE req' = [req EXCEPT ![r] = req'[r]] /\ req'[r].pc = "done"
  BY <1>a, <1>d DEF Done, Over, NoRequest
<1>3. ASSUME Finally(r) PROVE req' = [req EXCEPT ![r] = req'[r]] /\ req'[r].pc \in {"have", "done"}
  <2>1. CASE req' = [req EXCEPT ![r] = [NoRequest EXCEPT !.pc = "have", !.cid = req[r].cid]]
    BY <1>a, <2>1 DEF NoRequest
  <2> QED
    BY <1>3, <1>d, <2>1 DEF Finally
<1>4. ASSUME NEW c \in Cids, Ensure(r, c)
      PROVE  /\ req' = [req EXCEPT ![r] = req'[r]]
             /\ req'[r].pc \in {"have", "wait", "negotiate", "done"}
             /\ req'[r].pc = "negotiate" =>
                       /\ ~closed /\ starting[c] = None
                       /\ req'[r].cid = c /\ starting' = [starting EXCEPT ![c] = r]
             /\ req'[r].pc # "negotiate" => UNCHANGED starting
  <2>1. \/ Done(r) /\ UNCHANGED starting
        \/ \E l \in {"have", "wait"} : \E on :
              req' = [req EXCEPT ![r].pc = l, ![r].cid = c, ![r].on = on] /\ UNCHANGED starting
        \/ /\ req' = [req EXCEPT ![r].pc = "negotiate", ![r].cid = c, ![r].on = None]
           /\ ~closed /\ starting[c] = None /\ starting' = [starting EXCEPT ![c] = r]
    BY <1>4 DEF Ensure, NobodyStarts
  <2>2. ASSUME NEW l, NEW on, req' = [req EXCEPT ![r].pc = l, ![r].cid = c, ![r].on = on]
        PROVE  req' = [req EXCEPT ![r] = req'[r]] /\ req'[r].pc = l /\ req'[r].cid = c
    BY <1>a, <2>2 DEF RequestType
  <2>3. CASE Done(r) /\ UNCHANGED starting
    BY <1>d, <2>3
  <2>4. CASE \E l \in {"have", "wait"} : \E on :
              req' = [req EXCEPT ![r].pc = l, ![r].cid = c, ![r].on = on] /\ UNCHANGED starting
    <3>1. req' = [req EXCEPT ![r] = req'[r]] /\ req'[r].pc \in {"have", "wait"} /\ UNCHANGED starting
      BY <2>2, <2>4, ZenonT(60)
    <3> QED
      BY <3>1
  <2>5. CASE /\ req' = [req EXCEPT ![r].pc = "negotiate", ![r].cid = c, ![r].on = None]
             /\ ~closed /\ starting[c] = None /\ starting' = [starting EXCEPT ![c] = r]
    <3>1. req' = [req EXCEPT ![r] = req'[r]] /\ req'[r].pc = "negotiate" /\ req'[r].cid = c
      BY <2>2, <2>5
    <3> QED
      BY <2>5, <3>1
  <2> QED
    BY <2>1, <2>3, <2>4, <2>5
<1> QED
  BY <1>1, <1>2, <1>3, <1>4

\* The counter counts the requests that hold a reservation.
LEMMA StepReservations == TypeOK /\ ReservationsExact /\ [Next]_vars => ReservationsExact'
<1> SUFFICES ASSUME TypeOK, ReservationsExact, [Next]_vars PROVE reserved' = Cardinality(Reserving')
  BY DEF ReservationsExact
<1> USE DEF ReservingPCs
<1>a. req \in [Requests -> RequestType] /\ reserved \in Nat
  BY DEF TypeOK
<1>b. IsFiniteSet(Reserving)
  BY SetAssumption, FS_Subset DEF Reserving
<1>c. ASSUME reserved' = reserved, \A q \in Requests : req'[q].pc \in ReservingPCs <=> req[q].pc \in ReservingPCs
      PROVE  reserved' = Cardinality(Reserving')
  <2>1. Reserving' = Reserving
    BY <1>c DEF Reserving
  <2> QED
    BY <1>c, <2>1 DEF ReservationsExact
<1>1. CASE Calm
  BY <1>1, <1>c DEF Calm, SamePlace
<1>d. ASSUME NEW r \in Requests, req' = [req EXCEPT ![r] = req'[r]]
      PROVE  \A q \in Requests : q # r => req'[q] = req[q]
  BY <1>a, <1>d
<1>2. ASSUME NEW r \in Requests, Decide(r) PROVE reserved' = Cardinality(Reserving')
  <2>0. \A q \in Requests : q # r => req'[q] = req[q]
    BY <1>2, <1>d, StarterPlaces
  <2>1. CASE Goto(r, "spawn")
    <3>1. Reserving' = Reserving \cup {r} /\ r \notin Reserving
      BY <1>2, <1>a, <2>0, <2>1 DEF Decide, Goto, At, Reserving, RequestType
    <3>2. reserved' = reserved + 1
      <4>1. req'[r].pc = "spawn"
        BY <1>a, <2>1 DEF Goto, RequestType
      <4> QED
        BY <1>2, <1>a, <4>1 DEF Decide, Reserve, RequestType
    <3> QED
      BY <1>b, <3>1, <3>2, FS_AddElement DEF ReservationsExact
  <2>2. CASE ~Goto(r, "spawn")
    <3>1. reserved' = reserved /\ \E rest : req' = [req EXCEPT ![r].pc = "discard", ![r].rest = rest]
      BY <1>2, <2>2 DEF Decide
    <3>2. req'[r].pc = "discard" /\ req[r].pc = "decide"
      BY <1>2, <1>a, <3>1 DEF RequestType, Decide, At
    <3> QED
      BY <1>c, <2>0, <3>1, <3>2
  <2> QED
    BY <2>1, <2>2
<1>3. ASSUME NEW r \in Requests, Settle(r) PROVE reserved' = Cardinality(Reserving')
  <2>1. (\A q \in Requests : q # r => req'[q] = req[q]) /\ req'[r].pc = "discard"
    BY <1>3, <1>d, StarterPlaces
  <2>2. Reserving' = Reserving \ {r} /\ r \in Reserving
    BY <1>3, <2>1 DEF Settle, At, Reserving
  <2>3. reserved' = reserved - 1
    BY <1>3 DEF Settle
  <2> QED
    BY <1>b, <2>2, <2>3, FS_RemoveElement DEF ReservationsExact
<1>4. ASSUME NEW r \in Requests, Finally(r) PROVE reserved' = Cardinality(Reserving')
  <2>1. (\A q \in Requests : q # r => req'[q] = req[q]) /\ req'[r].pc \in {"have", "done"}
    BY <1>4, <1>d, StarterPlaces
  <2> QED
    BY <1>4, <1>c, <2>1 DEF Finally, At
<1>5. ASSUME NEW r \in Requests, NEW c \in Cids, Ensure(r, c) PROVE reserved' = Cardinality(Reserving')
  <2>1. /\ \A q \in Requests : q # r => req'[q] = req[q]
        /\ req'[r].pc \in {"have", "wait", "negotiate", "done"}
    BY <1>5, <1>d, StarterPlaces
  <2> QED
    BY <1>5, <1>c, <2>1 DEF Ensure, At
<1> QED
  BY <1>1, <1>2, <1>3, <1>4, <1>5, MostStepsCalm

-------------------------------------------------------------------------------
\* The inductive invariant.

Inv == TypeOK /\ Refs /\ ReservationsExact

\* It holds initially.
LEMMA InitInv == Init => Inv
<1>1. Init => ReservationsExact
  <2> SUFFICES ASSUME Init PROVE ReservationsExact
    OBVIOUS
  <2>1. Reserving = {}
    BY DEF Init, Reserving, ReservingPCs, NoRequest
  <2> QED
    BY <2>1, FS_EmptySet DEF Init, ReservationsExact
<1> QED
  BY <1>1, InitTypeOK, InitRefs DEF Inv

\* Every step keeps it.
LEMMA StepInv == Inv /\ [Next]_vars => Inv'
  BY StepTypeOK, StepRefs, StepReservations DEF Inv

\* So it always holds.
LEMMA Invariant == Spec => []Inv
  BY InitInv, StepInv, PTL DEF Spec

\* Every variable keeps its type, for any number of content ids, requests and
\* processes: in particular, reserved never goes below zero.
THEOREM ManagerTypeCorrect == Spec => []TypeOK
<1>1. Inv => TypeOK
  BY DEF Inv
<1> QED
  BY <1>1, Invariant, PTL

-------------------------------------------------------------------------------
\* Single flight.  The starter of a content id is the one in _starting, until
\* shutdown empties that; what is under way then only ends.
StarterKnown ==
    ~closed => \A r \in Requests : req[r].pc \in InStart => starting[req[r].cid] = r

\* Every step keeps SingleFlight and StarterKnown.
LEMMA StepFlight ==
    TypeOK /\ Refs /\ SingleFlight /\ StarterKnown /\ [Next]_vars => (SingleFlight /\ StarterKnown)'
<1> SUFFICES ASSUME TypeOK, Refs, SingleFlight, StarterKnown, [Next]_vars
             PROVE  (SingleFlight /\ StarterKnown)'
  OBVIOUS
<1> USE NoneAssumption
<1>a. /\ req \in [Requests -> RequestType]
      /\ starting \in [Cids -> Opt(Requests)]
  BY DEF TypeOK
<1>b. ASSUME \A q \in Requests : req'[q].pc \in InStart => req[q].pc \in InStart /\ req'[q].cid = req[q].cid
      PROVE  SingleFlight'
  BY <1>b DEF SingleFlight
<1>c. ASSUME NEW r \in Requests, req' = [req EXCEPT ![r] = req'[r]]
      PROVE  \A q \in Requests : q # r => req'[q] = req[q]
  BY <1>a, <1>c
<1>1. CASE Calm
  BY <1>1, <1>b DEF Calm, SamePlace, StarterKnown
<1>2. ASSUME NEW r \in Requests, Decide(r) \/ Settle(r) PROVE (SingleFlight /\ StarterKnown)'
  <2>1. (\A q \in Requests : q # r => req'[q] = req[q]) /\ req'[r].cid = req[r].cid
    BY <1>2, <1>c, StarterPlaces
  <2>2. req[r].pc \in InStart /\ UNCHANGED <<closed, starting>>
    BY <1>2 DEF Decide, Settle, At, InStart
  <2> QED
    BY <1>b, <2>1, <2>2 DEF StarterKnown
<1>3. ASSUME NEW r \in Requests, Finally(r) PROVE (SingleFlight /\ StarterKnown)'
  <2>1. (\A q \in Requests : q # r => req'[q] = req[q]) /\ req'[r].pc \notin InStart
    BY <1>3, <1>c, StarterPlaces DEF InStart
  <2>2. req[r].pc \in InStart /\ closed' = closed /\ starting' = Freed(r)
    BY <1>3 DEF Finally, At, InStart
  <2>3. \A c \in Cids : starting'[c] = starting[c] \/ starting[c] = r
    BY <1>a, <2>2 DEF Freed
  <2>4. ASSUME ~closed', NEW q \in Requests, req'[q].pc \in InStart PROVE starting'[req'[q].cid] = q
    <3>1. q # r /\ req'[q] = req[q]
      BY <2>1, <2>4
    <3>2. req[q].cid \in Cids /\ starting[req[q].cid] = q
      BY <2>2, <2>4, <3>1 DEF StarterKnown, Refs, Fits, InStart
    <3> QED
      BY <2>3, <3>1, <3>2
  <2> QED
    BY <1>b, <2>1, <2>4 DEF StarterKnown
<1>4. ASSUME NEW r \in Requests, NEW c \in Cids, Ensure(r, c) PROVE (SingleFlight /\ StarterKnown)'
  <2>1. \A q \in Requests : q # r => req'[q] = req[q]
    BY <1>4, <1>c, StarterPlaces
  <2>2. closed' = closed /\ req[r].pc \notin InStart
    BY <1>4 DEF Ensure, At, InStart
  <2>3. CASE req'[r].pc = "negotiate"
    <3>1. /\ ~closed /\ starting[c] = None
          /\ req'[r].cid = c /\ starting' = [starting EXCEPT ![c] = r]
      BY <1>4, <2>3, StarterPlaces
    <3>2. \A q \in Requests : req[q].pc \in InStart => starting[req[q].cid] = q /\ req[q].cid \in Cids /\ req[q].cid # c
      BY <3>1 DEF StarterKnown, Refs, Fits, InStart
    <3>3. SingleFlight'
      BY <2>1, <3>1, <3>2 DEF SingleFlight
    <3>4. ASSUME NEW q \in Requests, req'[q].pc \in InStart PROVE starting'[req'[q].cid] = q
      BY <1>a, <2>1, <3>1, <3>2, <3>4
    <3> QED
      BY <3>3, <3>4 DEF StarterKnown
  <2>4. CASE req'[r].pc # "negotiate"
    <3>1. req'[r].pc \notin InStart /\ UNCHANGED starting
      BY <1>4, <2>4, StarterPlaces DEF InStart
    <3> QED
      BY <1>b, <2>1, <2>2, <3>1 DEF StarterKnown
  <2> QED
    BY <2>3, <2>4
<1> QED
  BY <1>1, <1>2, <1>3, <1>4, MostStepsCalm

\* Never do two requests start the same content id, however the starts, their
\* failures, the waiters' timeouts and shutdown interleave.
THEOREM ManagerSingleFlight == Spec => []SingleFlight
<1>1. Init => SingleFlight /\ StarterKnown
  BY DEF Init, SingleFlight, StarterKnown, InStart, NoRequest
<1>2. Inv /\ SingleFlight /\ StarterKnown /\ [Next]_vars => (SingleFlight /\ StarterKnown)'
  BY StepFlight, SMTT(60) DEF Inv
<1> QED
  BY <1>1, <1>2, Invariant, PTL DEF Spec

-------------------------------------------------------------------------------
\* The cap on starts.

\* c runs in the process that was started for its session (SlotBound counts these).
FirstRuns(c) == Live(c) /\ sess[streams[c]].proc = streams[c]
FirstRunning == {c \in Cids : FirstRuns(c)}

\* A process that starts to run is a new one.
LEMMA WritesAlive ==
    ASSUME TypeOK, [Next]_vars
    PROVE  alive' \subseteq alive \cup {nproc + 1}
<1>1. ASSUME NEW r \in Requests, StartStep(r) PROVE alive' \subseteq alive \cup {nproc + 1}
  BY <1>1, ZenonT(60) DEF StartStep, procVars, Popen, WaitOver, WaitTimeout, Negotiate, NegotiateFails, Decide,
      Spawn, SpawnFails, SpawnRaises, ProbePasses, ProbeFails, Settle, Discard, Finally
<1>2. ASSUME NEW r \in Requests, UseStep(r) PROVE alive' = alive
  BY <1>2, ZenonT(60) DEF UseStep, procVars, Drop, Lookup, Subscribe, HlsServe, HlsManifest, Judge, RequestHls
<1>3. ASSUME NEW s \in Procs, RestartStep(s) PROVE alive' \subseteq alive \cup {nproc + 1}
  BY <1>3 DEF RestartStep, procVars, Popen, RestartRefused, RestartNegotiateFails, RestartCancelled,
      RestartEnds, RestartFast, RestartFastFails, RestartFastRaises, RestartRaises, RestartProbeFails, Attempt, RestartNegotiate,
      RestartSwap
<1> QED
  BY <1>1, <1>2, <1>3, ZenonT(60)
  DEF Next, vars, procVars, Ensure, HlsSegment, Judge, Unsubscribe, ProcessDies, EndOfFile, Kill,
      Retire, Unregister, ReapExited, ReapIdle, Shutdown

\* Only registering a session makes its content id run in a first process.
LEMMA StepFirstRuns ==
    ASSUME TypeOK, Refs, [Next]_vars, NEW c \in Cids, FirstRuns(c)'
    PROVE  FirstRuns(c) \/ \E r \in Requests : Settle(r)
<1> SUFFICES ASSUME ~ \E r \in Requests : Settle(r) PROVE FirstRuns(c)
  OBVIOUS
<1> USE NoneAssumption
<1> DEFINE s == streams[c]
<1>1. streams'[c] = s /\ s # None
  BY WritesStreams DEF FirstRuns, Live
<1>2. s \in Procs /\ IsSession(s)
  BY <1>1 DEF TypeOK, Refs, Opt
<1>3. sess'[s].proc = s /\ s \in alive'
  BY <1>1 DEF FirstRuns, Live
<1>4. sess[s].proc = s
  BY <1>2, <1>3, StepSessions
<1>5. s \in alive
  <2>1. s # nproc + 1
    BY <1>2 DEF IsSession, TypeOK
  <2> QED
    BY <1>3, <2>1, WritesAlive
<1> QED
  BY <1>1, <1>4, <1>5 DEF FirstRuns, Live

\* Every step keeps SlotBound: Decide counts more than SlotBound does before it
\* reserves, and Settle gives back what the process it registers takes.
LEMMA StepSlotBound == TypeOK /\ Refs /\ ReservationsExact /\ SlotBound /\ [Next]_vars => SlotBound'
<1> SUFFICES ASSUME TypeOK, Refs, ReservationsExact, SlotBound, [Next]_vars
             PROVE  Cardinality(FirstRunning') + reserved' <= MaxStreams
  BY DEF SlotBound, FirstRunning, FirstRuns
<1>a. reserved \in Nat /\ MaxStreams \in Nat
  BY NatAssumption DEF TypeOK
<1>b. \A S \in SUBSET Cids : IsFiniteSet(S) /\ Cardinality(S) \in Nat
  BY SetAssumption, FS_Subset, FS_CardinalityType
<1>c. FirstRunning \in SUBSET Cids /\ FirstRunning' \in SUBSET Cids
  BY DEF FirstRunning
<1>d. \A S, T \in SUBSET Cids : S \subseteq T => Cardinality(S) <= Cardinality(T)
  BY <1>b, FS_Subset
<1>e. Cardinality(FirstRunning) + reserved <= MaxStreams
  BY DEF SlotBound, FirstRunning, FirstRuns
<1>1. CASE \E r \in Requests : Settle(r)
  <2>1. PICK r \in Requests : Settle(r)
    BY <1>1
  <2>2. FirstRunning' \subseteq FirstRunning \cup {req[r].cid} /\ req[r].cid \in Cids
    <3>1. req[r].cid \in Cids
      BY <2>1 DEF Settle, At, Refs, Fits
    <3>2. \A c \in Cids : c # req[r].cid => streams'[c] = streams[c]
      BY <2>1, <3>1 DEF Settle, TypeOK
    <3>3. UNCHANGED <<sess, alive>>
      BY <2>1 DEF Settle, procVars
    <3> QED
      BY <3>1, <3>2, <3>3 DEF FirstRunning, FirstRuns, Live
  <2>3. Cardinality(FirstRunning \cup {req[r].cid}) <= Cardinality(FirstRunning) + 1
    <3> DEFINE k == Cardinality(FirstRunning)
               l == Cardinality(FirstRunning \cup {req[r].cid})
    <3>1. IsFiniteSet(FirstRunning) /\ k \in Nat
      BY <1>b, <1>c
    <3>2. l = k \/ l = k + 1
      BY ONLY <3>1, FS_AddElement
    <3> HIDE DEF k, l
    <3>3. l <= k + 1
      BY ONLY <3>1, <3>2
    <3> QED
      BY <3>3 DEF k, l
  <2>4. Cardinality(FirstRunning') <= Cardinality(FirstRunning) + 1
    BY <1>b, <1>c, <1>d, <2>2, <2>3
  <2>5. reserved' = reserved - 1
    BY <2>1 DEF Settle
  <2> QED
    BY <1>a, <1>b, <1>c, <1>e, <2>4, <2>5
<1>2. CASE ~ \E r \in Requests : Settle(r)
  <2>1. FirstRunning' \subseteq FirstRunning
    BY <1>2, StepFirstRuns DEF FirstRunning
  <2>2. Cardinality(FirstRunning') <= Cardinality(FirstRunning)
    BY <1>c, <1>d, <2>1
  <2>3. CASE reserved' = reserved
    BY <1>a, <1>b, <1>c, <1>e, <2>2, <2>3
  <2>4. CASE reserved' # reserved
    <3>1. PICK r \in Requests : Decide(r)
      BY <1>2, <2>4, MostStepsCalm, Zenon DEF Calm, Finally, Ensure
    <3>2. reserved' = reserved + 1 /\ AliveCount + reserved < MaxStreams
      BY <2>4, <3>1 DEF Decide, Reserve, HasSlot
    <3>3. Cardinality(FirstRunning) <= AliveCount
      <4>1. FirstRunning \subseteq {c \in Cids : Live(c)}
        BY DEF FirstRunning, FirstRuns
      <4> QED
        BY <1>c, <1>d, <4>1 DEF AliveCount
    <3>4. AliveCount \in Nat
      BY <1>b DEF AliveCount
    <3> QED
      BY <1>a, <1>b, <1>c, <2>2, <3>2, <3>3, <3>4, SMTT(60)
  <2> QED
    BY <2>3, <2>4
<1> QED
  BY <1>1, <1>2

\* However many content ids start at once, and whatever restarts, dies or is dropped
\* meanwhile, the processes started by ensure_stream plus the reservations stay
\* within MaxStreams.
THEOREM ManagerSlotBound == Spec => []SlotBound
<1>1. Init => SlotBound
  <2> SUFFICES ASSUME Init PROVE SlotBound
    OBVIOUS
  <2>1. {c \in Cids : Live(c) /\ sess[streams[c]].proc = streams[c]} = {}
    BY DEF Init, Live
  <2> QED
    BY <2>1, FS_EmptySet, NatAssumption DEF Init, SlotBound
<1>2. Inv /\ SlotBound /\ [Next]_vars => SlotBound'
  BY StepSlotBound DEF Inv
<1> QED
  BY <1>1, <1>2, Invariant, PTL DEF Spec

-------------------------------------------------------------------------------
(* Who holds what.  The proofs above look at the actions themselves; those that *)
(* follow look at what each action does to processes, engine sessions and who   *)
(* has them (Effect), so that every action is opened once.                      *)

\* Fields that these proofs are about.
SameFields(s) ==
    /\ sess'[s].cid = sess[s].cid /\ sess'[s].proc = sess[s].proc /\ sess'[s].cmd = sess[s].cmd
    /\ sess'[s].restarting = sess[s].restarting /\ sess'[s].closed = sess[s].closed

OtherSessions(s) == \A u \in Procs : u # s => SameFields(u) /\ rst'[u] = rst[u]

OtherRequests(r) == \A q \in Requests : q # r => req'[q] = req[q]

\* Points of a start with something negotiated or spawned in hand.
StartPCs == {"decide", "spawn", "probe", "settle", "discard"}

\* What a step does to a request that is not starting anything.
Easy(q) ==
    \/ req'[q] = req[q]
    \/ /\ req[q].pc \notin StartPCs /\ req'[q].pc \notin StartPCs
       /\ req'[q].eng \in {req[q].eng, None}
       /\ req'[q].pc \in {"new", "negotiate"} => req[q].pc = "new" /\ req'[q].own = req[q].own
EasyReq == \A q \in Requests : Easy(q)

lists == <<closed, streams, dying, replaced>>
works == <<sess, rst, retiring, nproc>>
engines == <<open, neng, cache>>
feeds == <<alive, drain>>

\* Request r goes from l to m; what it negotiated stays.
Goes(r, l, m) ==
    /\ req[r].pc = l /\ req'[r].pc = m
    /\ req'[r].cid = req[r].cid /\ OtherRequests(r)

NewEngine(e) ==
    \/ e = neng + 1 /\ neng' = e /\ open' = open \cup {e}
    \/ e = None /\ UNCHANGED <<neng, open>>

NewProcess(p) == p = nproc + 1 /\ nproc' = p /\ alive' = alive \cup {p}

\* "stop" is left out only for an engine session that the registered one has.
Spares(r) ==
    "stop" \notin req'[r].rest =>
        streams[req[r].cid] # None /\ req[r].eng = sess[streams[req[r].cid]].cmd

Idles == UNCHANGED <<lists, works, engines, feeds>> /\ EasyReq

Negotiated(r) ==
    /\ Goes(r, "negotiate", "decide")
    /\ req'[r].own = req[r].own
    /\ NewEngine(req'[r].eng)
    /\ \A c \in Cids : cache'[c] \in {cache[c], req'[r].eng}
    /\ UNCHANGED <<lists, works, feeds>>

Decided(r) ==
    /\ \/ Goes(r, "decide", "spawn")
       \/ Goes(r, "decide", "discard") /\ "cancel" \notin req'[r].rest /\ Spares(r)
    /\ req'[r].own = req[r].own /\ req'[r].eng = req[r].eng
    /\ UNCHANGED <<lists, works, engines, feeds>>

Spawned(r, p) ==
    /\ NewProcess(p)
    /\ \/ Goes(r, "spawn", "probe") /\ req[r].eng = None
       \/ Goes(r, "spawn", "settle")
    /\ req'[r].own = p /\ req'[r].eng = req[r].eng
    /\ sess'[p].cid = req[r].cid /\ sess'[p].proc = p /\ sess'[p].cmd = req[r].eng
    /\ ~sess'[p].restarting /\ ~sess'[p].closed
    /\ \A s \in Procs : s # p => SameFields(s)
    /\ drain'[p] = p /\ \A q \in Procs : q # p => drain'[q] = drain[q]
    /\ UNCHANGED <<lists, rst, retiring, engines>>

Passed(r) ==
    /\ Goes(r, "spawn", "settle") \/ Goes(r, "probe", "settle")
    /\ req'[r].own = req[r].own /\ req'[r].eng = req[r].eng
    /\ UNCHANGED <<lists, works, engines, feeds>>

ProbeLost(r) ==
    /\ Goes(r, "probe", "settle")
    /\ req'[r].own = None /\ req'[r].eng = req[r].eng
    /\ alive' = alive \ {req[r].own}
    /\ \A s \in Procs : s # req[r].own => SameFields(s)
    /\ LET s == req[r].own IN
       /\ sess'[s].cid = sess[s].cid /\ sess'[s].proc = sess[s].proc /\ sess'[s].cmd = sess[s].cmd
       /\ sess'[s].restarting = sess[s].restarting
    /\ UNCHANGED <<lists, rst, retiring, nproc, engines, drain>>

Settled(r) ==
    /\ Goes(r, "settle", "discard")
    /\ req'[r].own = req[r].own /\ req'[r].eng = req[r].eng
    /\ \/ /\ ~closed /\ ~Live(req[r].cid) /\ req[r].own # None
          /\ streams'[req[r].cid] = req[r].own
          /\ \A c \in Cids : c # req[r].cid => streams'[c] = streams[c]
          /\ replaced' = replaced \cup ({streams[req[r].cid]} \ {None})
          /\ req'[r].rest = {"serve"}
       \/ /\ UNCHANGED <<streams, replaced>>
          /\ req[r].own # None => "cancel" \in req'[r].rest
          /\ Spares(r)
    /\ UNCHANGED <<closed, dying, works, engines, feeds>>

Discarded(r) ==
    /\ Goes(r, "discard", "finally")
    /\ req'[r].own = None /\ req'[r].eng = req[r].eng
    /\ alive' = IF "cancel" \in req[r].rest THEN alive \ {req[r].own} ELSE alive
    /\ open' = IF req[r].rest \cap {"cancel", "stop"} # {} THEN open \ {req[r].eng} ELSE open
    /\ UNCHANGED <<lists, works, neng, cache, drain>>

Died(p) == alive' = alive \ {p} /\ UNCHANGED <<lists, works, engines, drain, req>>

\* The session s, unchanged but for its flags.
SameHoldings(s) ==
    sess'[s].cid = sess[s].cid /\ sess'[s].proc = sess[s].proc /\ sess'[s].cmd = sess[s].cmd

Begun(s) ==
    /\ Registered(s) /\ ~sess[s].restarting /\ sess'[s].restarting
    /\ sess'[s].closed = sess[s].closed
    /\ rst'[s].pc = "begin" /\ rst'[s].proc = None /\ rst'[s].eng = None

Ended(p, s) ==
    /\ drain[p] = s /\ p \notin alive
    /\ drain'[p] = None /\ \A q \in Procs : q # p => drain'[q] = drain[q]
    /\ \/ Begun(s)
       \/ sess'[s].closed /\ sess'[s].restarting = sess[s].restarting /\ rst'[s] = rst[s]
    /\ SameHoldings(s) /\ OtherSessions(s) /\ EasyReq
    /\ UNCHANGED <<lists, retiring, nproc, engines, alive>>

Upgraded(s) ==
    /\ Lazy
    /\ \/ Begun(s)
       \/ SameFields(s) /\ rst'[s] = rst[s]
    /\ SameHoldings(s) /\ OtherSessions(s) /\ EasyReq
    /\ UNCHANGED <<lists, retiring, nproc, engines, feeds>>

GaveUp(s) ==
    /\ rst[s].pc # "none"
    /\ rst'[s].pc = "none" /\ rst'[s].proc = None /\ rst'[s].eng = None
    /\ sess'[s].closed \in {sess[s].closed, TRUE}
    /\ \/ rst[s].pc \in {"begin", "negotiate"} /\ UNCHANGED <<alive, open>>
       \/ /\ rst[s].pc \in {"fast", "swap"} /\ ~Current(s)
          /\ alive' = alive \ {rst[s].proc} /\ open' = open \ {rst[s].eng}
    /\ SameHoldings(s) /\ OtherSessions(s) /\ EasyReq
    /\ UNCHANGED <<lists, retiring, nproc, neng, cache, drain>>

FastTried(s, p) ==
    /\ NewProcess(p)
    /\ rst[s].pc = "begin"
    /\ rst'[s].pc = "fast" /\ rst'[s].proc = p
    /\ rst'[s].eng \in {sess[s].cmd} \cup (IF UseCache THEN {cache[sess[s].cid]} ELSE {})
    /\ SameFields(s) /\ OtherSessions(s)
    /\ UNCHANGED <<lists, retiring, engines, drain, req>>

FastFailed(s) ==
    /\ rst[s].pc = "begin" \/ (rst[s].pc = "fast" /\ rst[s].proc \notin alive)
    /\ rst'[s].pc \in {"negotiate", "raised"}
    /\ rst'[s].proc \in {rst[s].proc, None} /\ rst'[s].eng \in {rst[s].eng, None}
    /\ rst[s].pc = "fast" => rst'[s].proc = None /\ rst'[s].eng = None
    /\ SameFields(s) /\ OtherSessions(s)
    /\ UNCHANGED <<lists, retiring, nproc, engines, feeds, req>>

Renegotiated(s, p) ==
    /\ NewProcess(p)
    /\ rst[s].pc = "negotiate"
    /\ rst'[s].pc = "swap" /\ rst'[s].proc = p
    /\ NewEngine(rst'[s].eng)
    /\ SameFields(s) /\ OtherSessions(s)
    /\ UNCHANGED <<lists, retiring, cache, drain, req>>

Raised(s) ==
    /\ rst[s].pc = "negotiate"
    /\ rst'[s].pc = "raised" /\ rst'[s].proc = rst[s].proc
    /\ NewEngine(rst'[s].eng)
    /\ SameFields(s) /\ OtherSessions(s)
    /\ UNCHANGED <<lists, retiring, nproc, cache, feeds, req>>

\* The restart of s has negotiated.
Renewed(s) == Raised(s) \/ \E p \in Procs : Renegotiated(s, p)

Swapped(s) ==
    /\ rst[s].pc \in {"fast", "swap"} /\ Current(s)
    /\ retiring' = retiring \cup {<<s, sess[s].proc, sess[s].cmd>>}
    /\ sess'[s].proc = rst[s].proc /\ sess'[s].cmd = rst[s].eng /\ sess'[s].cid = sess[s].cid
    /\ ~sess'[s].restarting /\ sess'[s].closed = sess[s].closed
    /\ drain'[rst[s].proc] = s
    /\ \A q \in Procs : q # rst[s].proc => drain'[q] = drain[q]
    /\ rst'[s].pc = "none" /\ rst'[s].proc = None /\ rst'[s].eng = None
    /\ OtherSessions(s)
    /\ UNCHANGED <<lists, nproc, engines, alive, req>>

Retired(t) ==
    /\ t \in retiring /\ retiring' = retiring \ {t}
    /\ alive' = alive \ {t[2]}
    /\ open' = IF StillUsed(t) THEN open ELSE open \ {t[3]}
    /\ UNCHANGED <<lists, sess, rst, nproc, neng, cache, drain, req>>

\* The sessions of some content ids are unregistered, of all of them at shutdown.
Forgot ==
    /\ \A c \in Cids : streams'[c] \in {streams[c], None}
    /\ dying' = dying \cup {streams[c] : c \in {d \in Cids : streams'[d] # streams[d]}}
    /\ closed' = closed \/ \A c \in Cids : streams'[c] = None
    /\ EasyReq
    /\ UNCHANGED <<replaced, works, engines, feeds>>

Killed(s) ==
    /\ s \in dying /\ dying' = dying \ {s}
    /\ sess'[s].restarting = sess[s].restarting
    /\ alive' = alive \ {sess[s].proc} /\ open' = open \ {sess[s].cmd}
    /\ SameHoldings(s) /\ (\A u \in Procs : u # s => SameFields(u)) /\ EasyReq
    /\ UNCHANGED <<closed, streams, replaced, rst, retiring, nproc, neng, cache, drain>>

StartEffect(r) ==
    \/ Negotiated(r) \/ Decided(r) \/ Passed(r) \/ ProbeLost(r) \/ Settled(r) \/ Discarded(r)
    \/ \E p \in Procs : Spawned(r, p)
RestartEffect(s) ==
    \/ GaveUp(s) \/ FastFailed(s) \/ Raised(s) \/ Swapped(s)
    \/ \E p \in Procs : FastTried(s, p) \/ Renegotiated(s, p)
Effect ==
    \/ Idles \/ Forgot
    \/ \E r \in Requests : StartEffect(r)
    \/ \E s \in Procs : RestartEffect(s) \/ Upgraded(s) \/ Killed(s) \/ Died(s)
    \/ \E p, s \in Procs : Ended(p, s)
    \/ \E t \in retiring : Retired(t)

\* A request that is over starts nothing, and neither do those whose session ended.
LEMMA EasyEnds ==
    ASSUME TypeOK
    PROVE  /\ \A r \in Requests : Done(r) /\ req[r].pc \notin StartPCs => EasyReq
           /\ \A s : ClientsEnd(s) => EasyReq
           /\ req' = req => EasyReq
<1>1. Over.pc = "done" /\ Over.eng = None
  BY DEF Over, NoRequest
<1>2. req \in [Requests -> RequestType]
  BY DEF TypeOK
<1>3. ASSUME NEW r \in Requests, Done(r), req[r].pc \notin StartPCs PROVE EasyReq
  <2>1. req'[r] = Over /\ \A q \in Requests : q # r => req'[q] = req[q]
    BY <1>2, <1>3 DEF Done
  <2> QED
    BY <1>1, <1>3, <2>1 DEF EasyReq, Easy, StartPCs
<1>4. ASSUME NEW s, ClientsEnd(s) PROVE EasyReq
  <2>1. \A q \in Requests : req'[q] = req[q] \/ (req[q].pc = "streaming" /\ req'[q] = Over)
    BY <1>4 DEF ClientsEnd, Subscribers
  <2> QED
    BY <1>1, <2>1 DEF EasyReq, Easy, StartPCs
<1>5. req' = req => EasyReq
  BY DEF EasyReq, Easy
<1> QED
  BY <1>3, <1>4, <1>5

\* A request that moves between points outside of a start.
LEMMA EasyMove ==
    ASSUME TypeOK, NEW r \in Requests, req[r].pc \notin StartPCs, OtherRequests(r),
           req'[r].pc \notin StartPCs, req'[r].eng \in {req[r].eng, None},
           req'[r].pc \in {"new", "negotiate"} => req[r].pc = "new" /\ req'[r].own = req[r].own
    PROVE  EasyReq
  BY DEF EasyReq, Easy, OtherRequests

\* What steps outside of a start do to the requests.
LEMMA EasySteps ==
    ASSUME TypeOK, NEW r \in Requests
    PROVE  /\ \A c \in Cids : Ensure(r, c) \/ HlsSegment(r, c) => EasyReq
           /\ WaitOver(r) \/ WaitTimeout(r) \/ NegotiateFails(r) \/ Finally(r) \/ UseStep(r)
              \/ Unsubscribe(r) => EasyReq
<1> USE DEF At
<1>a. req \in [Requests -> RequestType]
  BY DEF TypeOK
<1>b. ASSUME NEW c, NEW on, NEW l \in {"have", "wait", "drop"}, req[r].pc \notin StartPCs,
             req' = [req EXCEPT ![r].pc = l, ![r].cid = c, ![r].on = on]
      PROVE  EasyReq
  <2>1. req'[r].pc = l /\ req'[r].eng = req[r].eng /\ OtherRequests(r)
    BY <1>a, <1>b DEF RequestType, OtherRequests
  <2> QED
    BY <1>b, <2>1, EasyMove DEF StartPCs
<1>c. ASSUME NEW l \in {"finally", "streaming"}, req[r].pc \notin StartPCs, Goto(r, l) PROVE EasyReq
  <2>1. req'[r].pc = l /\ req'[r].eng = req[r].eng /\ OtherRequests(r)
    BY <1>a, <1>c DEF RequestType, OtherRequests, Goto
  <2> QED
    BY <1>c, <2>1, EasyMove DEF StartPCs
<1>d. ASSUME Done(r), req[r].pc \notin StartPCs PROVE EasyReq
  BY <1>d, EasyEnds
<1>1. ASSUME NEW c \in Cids, Ensure(r, c) PROVE EasyReq
  <2>1. req[r].pc = "new" /\ req[r].pc \notin StartPCs
    BY <1>1 DEF Ensure, StartPCs
  <2>2. CASE req' = [req EXCEPT ![r].pc = "negotiate", ![r].cid = c, ![r].on = None]
    <3>1. req'[r].pc = "negotiate" /\ req'[r].eng = req[r].eng /\ req'[r].own = req[r].own
          /\ OtherRequests(r)
      BY <1>a, <2>2 DEF RequestType, OtherRequests
    <3> QED
      BY <2>1, <3>1, EasyMove DEF StartPCs
  <2>3. CASE \E on : \E l \in {"have", "wait"} :
               req' = [req EXCEPT ![r].pc = l, ![r].cid = c, ![r].on = on]
    BY <1>b, <2>1, <2>3
  <2>4. CASE Done(r)
    BY <1>d, <2>1, <2>4
  <2> QED
    BY <1>1, <2>2, <2>3, <2>4 DEF Ensure
<1>2. ASSUME NEW c, Judge(r, c), req[r].pc \in {"new", "have"} PROVE EasyReq
  BY <1>2, <1>b DEF Judge, StartPCs
<1>3. ASSUME WaitOver(r) PROVE EasyReq
  <2>1. req[r].pc \notin StartPCs
    BY <1>3 DEF WaitOver, StartPCs
  <2>2. CASE req' = [req EXCEPT ![r].pc = "have", ![r].on = None]
    <3>1. req'[r].pc = "have" /\ req'[r].eng = req[r].eng /\ OtherRequests(r)
      BY <1>a, <2>2 DEF RequestType, OtherRequests
    <3> QED
      BY <2>1, <3>1, EasyMove DEF StartPCs
  <2> QED
    BY <1>3, <1>d, <2>1, <2>2 DEF WaitOver
<1>4. ASSUME Finally(r) PROVE EasyReq
  <2>1. req[r].pc \notin StartPCs
    BY <1>4 DEF Finally, StartPCs
  <2>2. CASE req' = [req EXCEPT ![r] = [NoRequest EXCEPT !.pc = "have", !.cid = req[r].cid]]
    <3>1. req'[r].pc = "have" /\ req'[r].eng = None /\ OtherRequests(r)
      BY <1>a, <2>2 DEF NoRequest, OtherRequests
    <3> QED
      BY <2>1, <3>1, EasyMove DEF StartPCs
  <2> QED
    BY <1>4, <1>d, <2>1, <2>2 DEF Finally
<1>5. ASSUME Lookup(r) PROVE EasyReq
  <2>1. req[r].pc \notin StartPCs
    BY <1>5 DEF Lookup, StartPCs
  <2>2. CASE req' = [req EXCEPT ![r].pc = "subscribe", ![r].own = streams[req[r].cid]]
    <3>1. req'[r].pc = "subscribe" /\ req'[r].eng = req[r].eng /\ OtherRequests(r)
      BY <1>a, <2>2 DEF RequestType, OtherRequests
    <3> QED
      BY <2>1, <3>1, EasyMove DEF StartPCs
  <2> QED
    BY <1>5, <1>d, <2>1, <2>2 DEF Lookup
<1>6. ASSUME WaitTimeout(r) \/ Unsubscribe(r) \/ HlsServe(r) \/ Drop(r) \/ RequestHls(r)
      PROVE  EasyReq
  BY <1>6, <1>d DEF WaitTimeout, Unsubscribe, HlsServe, Drop, RequestHls, StartPCs
<1>7. ASSUME NegotiateFails(r) PROVE EasyReq
  BY <1>7, <1>c DEF NegotiateFails, StartPCs
<1>8. ASSUME Subscribe(r) PROVE EasyReq
  BY <1>8, <1>c, <1>d DEF Subscribe, StartPCs
<1>9. ASSUME HlsManifest(r) PROVE EasyReq
  BY <1>9, <1>2 DEF HlsManifest
<1>10. ASSUME NEW c \in Cids, HlsSegment(r, c) PROVE EasyReq
  BY <1>10, <1>2 DEF HlsSegment
<1> QED
  BY <1>1, <1>3, <1>4, <1>5, <1>6, <1>7, <1>8, <1>9, <1>10 DEF UseStep

\* What the steps of a start do.
LEMMA StartEffects ==
    ASSUME TypeOK, Refs, NEW r \in Requests, StartStep(r)
    PROVE  Idles \/ StartEffect(r)
<1> USE DEF At, mgrVars, procVars, workVars
<1>a. req \in [Requests -> RequestType] /\ sess \in [Procs -> SessionType]
      /\ drain \in [Procs -> Opt(Procs)] /\ cache \in [Cids -> Opt(Engs)]
      /\ streams \in [Cids -> Opt(Procs)]
  BY DEF TypeOK
<1>b. ASSUME WaitOver(r) \/ WaitTimeout(r) \/ NegotiateFails(r) \/ Finally(r)
      PROVE  Idles
  <2>1. UNCHANGED <<lists, works, engines, feeds>>
    BY <1>b DEF WaitOver, WaitTimeout, NegotiateFails, Finally, lists, works, engines, feeds
  <2> QED
    BY <1>b, <2>1, EasySteps DEF Idles
<1>c. ASSUME NEW l, Goto(r, l)
      PROVE  Goes(r, req[r].pc, l) /\ req'[r].own = req[r].own /\ req'[r].eng = req[r].eng
  BY <1>a, <1>c DEF Goto, Goes, OtherRequests, RequestType
<1>d. ASSUME NEW l, NEW rest, req' = [req EXCEPT ![r].pc = l, ![r].rest = rest]
      PROVE  /\ Goes(r, req[r].pc, l) /\ req'[r].own = req[r].own /\ req'[r].eng = req[r].eng
             /\ req'[r].rest = rest
  BY <1>a, <1>d DEF Goes, OtherRequests, RequestType
<1>1. ASSUME NEW e \in Opt(Engs), Negotiate(r, e) PROVE Negotiated(r)
  <2>1. req' = [req EXCEPT ![r].pc = "decide", ![r].eng = e] /\ req[r].pc = "negotiate"
    BY <1>1 DEF Negotiate
  <2>2. Goes(r, "negotiate", "decide") /\ req'[r].own = req[r].own /\ req'[r].eng = e
    BY <1>a, <2>1 DEF Goes, OtherRequests, RequestType
  <2>3. NewEngine(e)
    BY <1>1 DEF Negotiate, EngineAnswers, OpenSession, NoCommandUrl, NewEngine
  <2>4. \A c \in Cids : cache'[c] \in {cache[c], e}
    BY <1>1, <1>a DEF Negotiate
  <2>5. UNCHANGED <<lists, works, feeds>>
    BY <1>1 DEF Negotiate, lists, works, feeds
  <2> QED
    BY <2>2, <2>3, <2>4, <2>5 DEF Negotiated
<1>2. ASSUME Decide(r) PROVE Decided(r)
  <2>1. UNCHANGED <<lists, works, engines, feeds>>
    BY <1>2 DEF Decide, lists, works, engines, feeds
  <2>2. CASE Goto(r, "spawn")
    BY <1>2, <1>c, <2>1, <2>2 DEF Decide, Decided
  <2>3. CASE req' = [req EXCEPT ![r].pc = "discard", ![r].rest = Leftover(r)]
    <3>1. Goes(r, "decide", "discard") /\ req'[r].own = req[r].own /\ req'[r].eng = req[r].eng
          /\ req'[r].rest = Leftover(r)
      BY <1>2, <1>d, <2>3 DEF Decide
    <3>2. Spares(r) /\ "cancel" \notin Leftover(r)
      BY <3>1 DEF Leftover, Spares, Live
    <3> QED
      BY <2>1, <3>1, <3>2 DEF Decided
  <2> QED
    BY <1>2, <2>2, <2>3 DEF Decide
<1>3. ASSUME SpawnFails(r) \/ SpawnRaises(r) \/ ProbePasses(r) PROVE Passed(r)
  <2>1. UNCHANGED <<lists, works, engines, feeds>>
    BY <1>3 DEF SpawnFails, SpawnRaises, ProbePasses, lists, works, engines, feeds
  <2> QED
    BY <1>3, <1>c, <1>d, <2>1 DEF SpawnFails, SpawnRaises, ProbePasses, Passed
<1>4. ASSUME NEW p \in Procs, Spawn(r, p) PROVE Spawned(r, p)
  <2>1. PICK l \in {"probe", "settle"} :
           /\ req' = [req EXCEPT ![r].own = p, ![r].pc = l]
           /\ l = "probe" => req[r].eng = None
    BY <1>4 DEF Spawn
  <2>2. Goes(r, "spawn", l) /\ req'[r].own = p /\ req'[r].eng = req[r].eng
    BY <1>a, <1>4, <2>1 DEF Spawn, Goes, OtherRequests, RequestType
  <2>3. sess' = [sess EXCEPT ![p] = [NoSession EXCEPT !.cid = req[r].cid, !.proc = p, !.cmd = req[r].eng]]
    BY <1>4 DEF Spawn
  <2>4. /\ sess'[p].cid = req[r].cid /\ sess'[p].proc = p /\ sess'[p].cmd = req[r].eng
        /\ ~sess'[p].restarting /\ ~sess'[p].closed
        /\ \A s \in Procs : s # p => SameFields(s)
    BY <1>a, <2>3 DEF NoSession, SameFields
  <2>5. drain'[p] = p /\ \A q \in Procs : q # p => drain'[q] = drain[q]
    BY <1>a, <1>4 DEF Spawn
  <2>6. NewProcess(p) /\ UNCHANGED <<lists, rst, retiring, engines>>
    BY <1>4 DEF Spawn, Popen, NewProcess, lists, engines
  <2> QED
    BY <2>1, <2>2, <2>4, <2>5, <2>6 DEF Spawned
<1>5. ASSUME ProbeFails(r) PROVE ProbeLost(r)
  <2> DEFINE s == req[r].own
  <2>1. s \in Procs
    BY <1>5, <1>a DEF ProbeFails, Refs, Fits, RequestType, Opt
  <2>2. req' = [req EXCEPT ![r].pc = "settle", ![r].own = None] /\ req[r].pc = "probe"
    BY <1>5 DEF ProbeFails
  <2>3. Goes(r, "probe", "settle") /\ req'[r].own = None /\ req'[r].eng = req[r].eng
    BY <1>a, <2>2 DEF Goes, OtherRequests, RequestType
  <2>4. sess' = [sess EXCEPT ![s].closed = TRUE]
    BY <1>5 DEF ProbeFails
  <2>5. /\ \A u \in Procs : u # s => SameFields(u)
        /\ SameHoldings(s) /\ sess'[s].restarting = sess[s].restarting
    BY <1>a, <2>1, <2>4 DEF SameFields, SameHoldings, SessionType
  <2>6. alive' = alive \ {s} /\ UNCHANGED <<lists, rst, retiring, nproc, engines, drain>>
    BY <1>5 DEF ProbeFails, lists, engines
  <2> QED
    BY <2>3, <2>5, <2>6 DEF ProbeLost, SameHoldings
<1>6. ASSUME Settle(r) PROVE Settled(r)
  <2> DEFINE c == req[r].cid
  <2>1. UNCHANGED <<closed, dying, works, engines, feeds>> /\ req[r].pc = "settle"
    BY <1>6 DEF Settle, works, engines, feeds
  <2>2. c \in Cids
    BY <2>1 DEF Refs, Fits
  <2>3. CASE /\ ~closed /\ ~Live(c) /\ req[r].own # None
             /\ streams' = [streams EXCEPT ![c] = req[r].own]
             /\ replaced' = replaced \cup ({streams[c]} \ {None})
             /\ req' = [req EXCEPT ![r].pc = "discard", ![r].rest = {"serve"}]
    <3>1. streams'[c] = req[r].own /\ \A d \in Cids : d # c => streams'[d] = streams[d]
      BY <1>a, <2>2, <2>3
    <3>2. Goes(r, "settle", "discard") /\ req'[r].own = req[r].own /\ req'[r].eng = req[r].eng
          /\ req'[r].rest = {"serve"}
      BY <1>d, <2>1, <2>3
    <3> QED
      BY <2>1, <2>3, <3>1, <3>2 DEF Settled
  <2>4. CASE /\ req' = [req EXCEPT ![r].pc = "discard", ![r].rest = Rest(r)]
             /\ UNCHANGED <<streams, replaced>>
    <3>1. Goes(r, "settle", "discard") /\ req'[r].own = req[r].own /\ req'[r].eng = req[r].eng
          /\ req'[r].rest = Rest(r)
      BY <1>d, <2>1, <2>4
    <3>2. Spares(r)
      BY <3>1 DEF Rest, Leftover, Spares, Live
    <3>3. req[r].own # None => "cancel" \in req'[r].rest
      BY <3>1 DEF Rest, Spare
    <3> QED
      BY <2>1, <2>4, <3>1, <3>2, <3>3 DEF Settled
  <2> QED
    BY <1>6, <2>3, <2>4 DEF Settle
<1>7. ASSUME Discard(r) PROVE Discarded(r)
  <2>1. req' = [req EXCEPT ![r].pc = "finally", ![r].own = None] /\ req[r].pc = "discard"
    BY <1>7 DEF Discard
  <2>2. Goes(r, "discard", "finally") /\ req'[r].own = None /\ req'[r].eng = req[r].eng
    BY <1>a, <2>1 DEF Goes, OtherRequests, RequestType
  <2>3. /\ alive' = IF "cancel" \in req[r].rest THEN alive \ {req[r].own} ELSE alive
        /\ open' = IF req[r].rest \cap {"cancel", "stop"} # {} THEN open \ {req[r].eng} ELSE open
        /\ UNCHANGED <<lists, works, neng, cache, drain>>
    BY <1>7 DEF Discard, Stopped, lists, works
  <2> QED
    BY <2>2, <2>3 DEF Discarded
<1> QED
  BY <1>b, <1>1, <1>2, <1>3, <1>4, <1>5, <1>6, <1>7 DEF StartStep, StartEffect

\* What the steps of a restart do.
LEMMA RestartEffects ==
    ASSUME TypeOK, Refs, NEW s \in Procs, RestartStep(s)
    PROVE  RestartEffect(s)
<1> USE DEF mgrVars, procVars, workVars
<1>a. rst \in [Procs -> RestartType] /\ sess \in [Procs -> SessionType]
      /\ drain \in [Procs -> Opt(Procs)]
  BY DEF TypeOK
<1>b. ASSUME NEW x, RestartEnds(s, x), rst[s].pc # "none",
             \/ rst[s].pc \in {"begin", "negotiate"} /\ UNCHANGED <<alive, open>>
             \/ /\ rst[s].pc \in {"fast", "swap"} /\ ~Current(s)
                /\ alive' = alive \ {rst[s].proc} /\ open' = open \ {rst[s].eng}
      PROVE  GaveUp(s)
  <2>1. /\ rst'[s] = NoRestart /\ (\A u \in Procs : u # s => rst'[u] = rst[u])
        /\ UNCHANGED <<lists, retiring, nproc, neng, cache, drain>>
    BY <1>a, <1>b DEF RestartEnds, lists
  <2>2. EasyReq
    BY <1>b, EasyEnds DEF RestartEnds
  <2>3. /\ sess'[s].closed \in {sess[s].closed, TRUE} /\ SameHoldings(s)
        /\ \A u \in Procs : u # s => SameFields(u)
    <3>1. \/ sess' = [sess EXCEPT ![s].restarting = x, ![s].closed = TRUE]
          \/ sess' = [sess EXCEPT ![s].restarting = x]
      BY <1>b DEF RestartEnds
    <3>2. PICK y : /\ sess' = [sess EXCEPT ![s] = y]
                   /\ \/ y = [sess[s] EXCEPT !.restarting = x, !.closed = TRUE]
                      \/ y = [sess[s] EXCEPT !.restarting = x]
      BY <3>1, Zenon
    <3>3. sess'[s] = y /\ \A u \in Procs : u # s => sess'[u] = sess[u]
      BY <1>a, <3>2
    <3>4. sess[s] \in SessionType
      BY <1>a
    <3>5. /\ y.closed \in {sess[s].closed, TRUE}
          /\ y.cid = sess[s].cid /\ y.proc = sess[s].proc /\ y.cmd = sess[s].cmd
      BY <3>2, <3>4 DEF SessionType
    <3> QED
      BY <3>3, <3>5 DEF SameHoldings, SameFields
  <2>4. UNCHANGED <<lists, retiring, nproc, neng, cache, drain>>
    BY <2>1
  <2>5. OtherSessions(s) /\ rst'[s].pc = "none" /\ rst'[s].proc = None /\ rst'[s].eng = None
    BY <2>1, <2>3 DEF OtherSessions, NoRestart
  <2> QED
    BY <1>b, <2>2, <2>3, <2>4, <2>5 DEF GaveUp
<1>c. ASSUME Attempt(s)
      PROVE  /\ \A u \in Procs : SameFields(u)
             /\ rst[s].pc = "begin" /\ UNCHANGED <<lists, retiring, engines, drain, req>>
  BY <1>a, <1>c DEF Attempt, SameFields, SessionType, lists, engines
<1>d. ASSUME NEW l, NEW p, NEW e, rst' = [rst EXCEPT ![s].pc = l, ![s].proc = p, ![s].eng = e]
      PROVE  /\ rst'[s].pc = l /\ rst'[s].proc = p /\ rst'[s].eng = e
             /\ \A u \in Procs : u # s => rst'[u] = rst[u]
  BY <1>a, <1>d DEF RestartType
<1>1. ASSUME RestartRefused(s) \/ RestartNegotiateFails(s) \/ RestartCancelled(s) PROVE GaveUp(s)
  BY <1>1, <1>b DEF RestartRefused, RestartNegotiateFails, RestartCancelled, Stopped
<1>2. ASSUME NEW e, NEW p, RestartFast(s, e, p) PROVE FastTried(s, p)
  <2>1. rst' = [rst EXCEPT ![s].pc = "fast", ![s].proc = p, ![s].eng = e]
    BY <1>2 DEF RestartFast
  <2>2. /\ rst'[s].pc = "fast" /\ rst'[s].proc = p /\ rst'[s].eng = e
        /\ \A u \in Procs : u # s => rst'[u] = rst[u]
    BY <1>d, <2>1
  <2>3. NewProcess(p) /\ e \in {sess[s].cmd} \cup (IF UseCache THEN {cache[sess[s].cid]} ELSE {})
    BY <1>2 DEF RestartFast, Popen, NewProcess
  <2> QED
    BY <1>2, <1>c, <2>2, <2>3 DEF RestartFast, FastTried, OtherSessions
<1>3. ASSUME RestartFastFails(s) \/ RestartFastRaises(s) PROVE FastFailed(s)
  <2>1. /\ rst'[s].pc \in {"negotiate", "raised"} /\ rst'[s].proc = rst[s].proc /\ rst'[s].eng = rst[s].eng
        /\ \A u \in Procs : u # s => rst'[u] = rst[u]
    BY <1>3, <1>a DEF RestartFastFails, RestartFastRaises, RestartType
  <2>2. UNCHANGED <<nproc, feeds>>
    BY <1>3 DEF RestartFastFails, RestartFastRaises, Attempt, feeds
  <2> QED
    BY <1>3, <1>c, <2>1, <2>2 DEF RestartFastFails, RestartFastRaises, FastFailed, OtherSessions
<1>4. ASSUME RestartProbeFails(s) PROVE FastFailed(s)
  <2>1. /\ rst'[s].pc = "negotiate" /\ rst'[s].proc = None /\ rst'[s].eng = None
        /\ \A u \in Procs : u # s => rst'[u] = rst[u]
    BY <1>4, <1>d DEF RestartProbeFails
  <2>2. UNCHANGED <<lists, retiring, nproc, engines, feeds, req>> /\ \A u \in Procs : SameFields(u)
    BY <1>4 DEF RestartProbeFails, lists, engines, feeds, SameFields
  <2> QED
    BY <1>4, <2>1, <2>2 DEF RestartProbeFails, FastFailed, OtherSessions
<1>5. ASSUME NEW e, NEW p, RestartNegotiate(s, e, p) PROVE Renegotiated(s, p)
  <2>1. /\ rst'[s].pc = "swap" /\ rst'[s].proc = p /\ rst'[s].eng = e
        /\ \A u \in Procs : u # s => rst'[u] = rst[u]
    BY <1>5, <1>d DEF RestartNegotiate
  <2>2. NewProcess(p) /\ NewEngine(e)
    BY <1>5 DEF RestartNegotiate, Popen, NewProcess, EngineAnswers, OpenSession, NoCommandUrl, NewEngine
  <2>3. UNCHANGED <<lists, retiring, cache, drain, req>> /\ \A u \in Procs : SameFields(u)
    BY <1>5 DEF RestartNegotiate, lists, SameFields
  <2> QED
    BY <1>5, <2>1, <2>2, <2>3 DEF RestartNegotiate, Renegotiated, OtherSessions
<1>5r. ASSUME NEW e, RestartRaises(s, e) PROVE Raised(s)
  <2>1. /\ rst'[s].pc = "raised" /\ rst'[s].proc = rst[s].proc /\ rst'[s].eng = e
        /\ \A u \in Procs : u # s => rst'[u] = rst[u]
    BY <1>5r, <1>a DEF RestartRaises, RestartType
  <2>2. NewEngine(e)
    BY <1>5r DEF RestartRaises, EngineAnswers, OpenSession, NoCommandUrl, NewEngine
  <2>3. UNCHANGED <<lists, retiring, nproc, cache, feeds, req>> /\ \A u \in Procs : SameFields(u)
    BY <1>5r DEF RestartRaises, lists, feeds, SameFields
  <2> QED
    BY <1>5r, <2>1, <2>2, <2>3 DEF RestartRaises, Raised, OtherSessions
<1>6. ASSUME RestartSwap(s) PROVE Swapped(s)
  <2>1. rst[s].proc \in Procs
    BY <1>6, NatAssumption DEF RestartSwap, Refs, TypeOK, Procs
  <2>2. PICK n \in {0, sess[s].attempts} : sess' = [sess EXCEPT ![s] = TakeOver(s, n)]
    BY <1>6, Zenon DEF RestartSwap
  <2>3. /\ sess'[s].proc = rst[s].proc /\ sess'[s].cmd = rst[s].eng /\ sess'[s].cid = sess[s].cid
        /\ ~sess'[s].restarting /\ sess'[s].closed = sess[s].closed
        /\ \A u \in Procs : u # s => SameFields(u)
    BY <1>a, <2>2 DEF TakeOver, SessionType, SameFields
  <2>4. drain'[rst[s].proc] = s /\ \A q \in Procs : q # rst[s].proc => drain'[q] = drain[q]
    BY <1>a, <1>6, <2>1 DEF RestartSwap
  <2>5. rst'[s] = NoRestart /\ \A u \in Procs : u # s => rst'[u] = rst[u]
    BY <1>a, <1>6 DEF RestartSwap
  <2>6. UNCHANGED <<lists, nproc, engines, alive, req>>
    BY <1>6 DEF RestartSwap, lists, engines
  <2> QED
    BY <1>6, <2>3, <2>4, <2>5, <2>6 DEF RestartSwap, Swapped, OtherSessions, NoRestart
<1> QED
  BY <1>1, <1>2, <1>3, <1>4, <1>5, <1>5r, <1>6 DEF RestartStep, RestartEffect

\* Every step has one of the effects.
LEMMA Effects ==
    ASSUME TypeOK, Refs, [Next]_vars
    PROVE  Effect
<1> USE DEF mgrVars, procVars, workVars
<1>a. rst \in [Procs -> RestartType] /\ sess \in [Procs -> SessionType]
      /\ drain \in [Procs -> Opt(Procs)] /\ streams \in [Cids -> Opt(Procs)]
  BY DEF TypeOK
<1>b. req' = req => EasyReq
  BY EasyEnds
<1>c. ASSUME NEW s \in Procs, NEW x, x \in {"drain", "hls"},
             \/ rst' = [rst EXCEPT ![s] = [NoRestart EXCEPT !.pc = "begin"]]
             \/ rst' = [rst EXCEPT ![s] = [NoRestart EXCEPT !.pc = "begin", !.by = x]]
      PROVE  /\ rst'[s].pc = "begin" /\ rst'[s].proc = None /\ rst'[s].eng = None
             /\ \A u \in Procs : u # s => rst'[u] = rst[u]
  BY <1>a, <1>c DEF NoRestart
<1>d. ASSUME NEW r \in Requests, RequestHls(r) PROVE \E s \in Procs : Upgraded(s)
  <2> DEFINE s == streams[req[r].cid]
  <2>1. req[r].cid \in Cids /\ s # None
    BY <1>d DEF RequestHls, At, Refs, Fits
  <2>2. s \in Procs /\ Registered(s)
    BY <1>a, <2>1 DEF Opt, Registered
  <2>3. EasyReq
    BY <1>d, EasySteps DEF UseStep
  <2>4. Lazy /\ UNCHANGED <<lists, retiring, nproc, engines, feeds>>
    BY <1>d DEF RequestHls, lists, engines, feeds
  <2>5. CASE /\ ~sess[s].restarting
             /\ sess' = [sess EXCEPT ![s].hls = TRUE, ![s].restarting = TRUE]
             /\ rst' = [rst EXCEPT ![s] = [NoRestart EXCEPT !.pc = "begin", !.by = "hls"]]
    <3> HIDE DEF s
    <3>1. /\ SameHoldings(s) /\ sess'[s].closed = sess[s].closed /\ sess'[s].restarting
          /\ \A u \in Procs : u # s => SameFields(u)
      BY <1>a, <2>2, <2>5 DEF SameHoldings, SameFields, SessionType
    <3>2. /\ rst'[s].pc = "begin" /\ rst'[s].proc = None /\ rst'[s].eng = None
          /\ \A u \in Procs : u # s => rst'[u] = rst[u]
      BY <1>c, <2>2, <2>5
    <3> QED
      BY <2>2, <2>3, <2>4, <2>5, <3>1, <3>2 DEF Upgraded, Begun, OtherSessions
  <2>6. CASE sess' = [sess EXCEPT ![s].hls = TRUE] /\ UNCHANGED rst
    <3> HIDE DEF s
    <3>1. SameHoldings(s) /\ \A u \in Procs : SameFields(u)
      BY <1>a, <2>2, <2>6 DEF SameHoldings, SameFields, SessionType
    <3> QED
      BY <2>2, <2>3, <2>4, <2>6, <3>1 DEF Upgraded, OtherSessions
  <2> QED
    BY <1>d, <2>5, <2>6 DEF RequestHls
<1>e. ASSUME NEW p \in Procs, EndOfFile(p) PROVE \E s \in Procs : Ended(p, s)
  <2> DEFINE s == drain[p]
  <2>1. s \in Procs /\ p \notin alive
    BY <1>a, <1>e DEF EndOfFile, AtEof, Opt
  <2>2. drain'[p] = None /\ \A q \in Procs : q # p => drain'[q] = drain[q]
    BY <1>a, <1>e DEF EndOfFile
  <2>3. UNCHANGED <<lists, retiring, nproc, engines, alive>>
    BY <1>e DEF EndOfFile, lists, engines
  <2>4. CASE /\ Current(s) /\ ~sess[s].restarting
             /\ sess' = [sess EXCEPT ![s].restarting = TRUE]
             /\ rst' = [rst EXCEPT ![s] = [NoRestart EXCEPT !.pc = "begin"]]
             /\ UNCHANGED req
    <3> HIDE DEF s
    <3>1. /\ SameHoldings(s) /\ sess'[s].closed = sess[s].closed /\ sess'[s].restarting
          /\ \A u \in Procs : u # s => SameFields(u)
      BY <1>a, <2>1, <2>4 DEF SameHoldings, SameFields, SessionType
    <3>2. /\ rst'[s].pc = "begin" /\ rst'[s].proc = None /\ rst'[s].eng = None
          /\ \A u \in Procs : u # s => rst'[u] = rst[u]
      BY <1>c, <2>1, <2>4
    <3>3. Begun(s) /\ EasyReq
      BY <1>b, <2>4, <3>1, <3>2 DEF Begun, Current
    <3> QED
      BY <2>1, <2>2, <2>3, <3>1, <3>2, <3>3 DEF Ended, OtherSessions, s
  <2>5. CASE /\ sess' = [sess EXCEPT ![s].closed = TRUE]
             /\ ClientsEnd(s) /\ UNCHANGED rst
    <3>1. EasyReq
      BY <2>5, EasyEnds
    <3> HIDE DEF s
    <3>2. /\ SameHoldings(s) /\ sess'[s].closed /\ sess'[s].restarting = sess[s].restarting
          /\ \A u \in Procs : u # s => SameFields(u)
      BY <1>a, <2>1, <2>5 DEF SameHoldings, SameFields, SessionType
    <3> QED
      BY <2>1, <2>2, <2>3, <2>5, <3>1, <3>2 DEF Ended, OtherSessions, s
  <2> QED
    BY <1>e, <2>4, <2>5 DEF EndOfFile
<1>f. ASSUME NEW r \in Requests, Drop(r) PROVE Forgot
  <2>1. EasyReq
    BY <1>f, EasySteps DEF UseStep
  <2>2. UNCHANGED <<closed, replaced, works, engines, feeds>>
    BY <1>f DEF Drop, works, engines, feeds
  <2>3. req[r].cid \in Cids /\ streams' = [streams EXCEPT ![req[r].cid] = None]
        /\ dying' = dying \cup ({streams[req[r].cid]} \ {None})
    BY <1>f DEF Drop, At, Refs, Fits
  <2>4. \A c \in Cids : streams'[c] \in {streams[c], None}
    BY <1>a, <2>3
  <2>5. {streams[c] : c \in {d \in Cids : streams'[d] # streams[d]}} = {streams[req[r].cid]} \ {None}
    BY <1>a, <2>3
  <2> QED
    BY <2>1, <2>2, <2>3, <2>4, <2>5 DEF Forgot
<1>g. ASSUME NEW c \in Cids, Unregister(c) PROVE Forgot
  <2>1. EasyReq
    BY <1>b, <1>g DEF Unregister
  <2>2. UNCHANGED <<closed, replaced, works, engines, feeds>>
    BY <1>g DEF Unregister, works, engines, feeds
  <2>3. streams' = [streams EXCEPT ![c] = None] /\ dying' = dying \cup {streams[c]} /\ streams[c] # None
    BY <1>g DEF Unregister
  <2>4. \A d \in Cids : streams'[d] \in {streams[d], None}
    BY <1>a, <2>3
  <2>5. {streams[b] : b \in {d \in Cids : streams'[d] # streams[d]}} = {streams[c]}
    BY <1>a, <2>3
  <2> QED
    BY <2>1, <2>2, <2>3, <2>4, <2>5 DEF Forgot
<1>h. ASSUME Shutdown PROVE Forgot
  <2>1. EasyReq
    BY <1>b, <1>h DEF Shutdown
  <2>2. UNCHANGED <<replaced, works, engines, feeds>>
    BY <1>h DEF Shutdown, works, engines, feeds
  <2>3. /\ streams' = [c \in Cids |-> None]
        /\ dying' = dying \cup {streams[c] : c \in {d \in Cids : streams[d] # None}}
    BY <1>h DEF Shutdown
  <2>4. \A d \in Cids : streams'[d] = None
    BY <2>3
  <2>5. {d \in Cids : streams'[d] # streams[d]} = {d \in Cids : streams[d] # None}
    BY <2>4
  <2> QED
    BY <2>1, <2>2, <2>3, <2>4, <2>5 DEF Forgot
<1>i. ASSUME NEW s \in Procs, Kill(s) PROVE Killed(s)
  <2>1. EasyReq
    BY <1>i, EasyEnds DEF Kill
  <2>2. /\ SameHoldings(s) /\ sess'[s].restarting = sess[s].restarting
        /\ \A u \in Procs : u # s => SameFields(u)
    BY <1>a, <1>i DEF Kill, SameHoldings, SameFields, SessionType
  <2>3. /\ alive' = alive \ {sess[s].proc} /\ open' = open \ {sess[s].cmd}
        /\ UNCHANGED <<closed, streams, replaced, rst, retiring, nproc, neng, cache, drain>>
    BY <1>i DEF Kill, Stopped
  <2> QED
    BY <1>i, <2>1, <2>2, <2>3 DEF Kill, Killed
<1>j. ASSUME NEW t \in retiring, Retire(t) PROVE Retired(t)
  BY <1>j DEF Retire, Retired, Stopped, lists
<1>k. ASSUME NEW p \in Procs, ProcessDies(p) PROVE Died(p)
  BY <1>k DEF ProcessDies, Died, lists, works, engines
<1>l. ASSUME NEW r \in Requests, UseStep(r) \/ Unsubscribe(r)
      PROVE  Idles \/ Drop(r) \/ RequestHls(r)
  <2>1. EasyReq
    BY <1>l, EasySteps
  <2>2. CASE Lookup(r) \/ Subscribe(r) \/ HlsServe(r) \/ HlsManifest(r) \/ Unsubscribe(r)
    <3>1. UNCHANGED <<mgrVars, sess, workVars, procVars>>
      BY <2>2 DEF Lookup, Subscribe, HlsServe, HlsManifest, Judge, Unsubscribe
    <3>2. UNCHANGED <<lists, works, engines, feeds>>
      BY <3>1 DEF lists, works, engines, feeds
    <3> QED
      BY <2>1, <3>2 DEF Idles
  <2> QED
    BY <1>l, <2>2 DEF UseStep
<1>m. ASSUME NEW r \in Requests, NEW c \in Cids, Ensure(r, c) \/ HlsSegment(r, c) PROVE Idles
  <2>1. UNCHANGED <<lists, works, engines, feeds>>
    BY <1>m DEF Ensure, HlsSegment, Judge, lists, works, engines, feeds
  <2> QED
    BY <1>m, <2>1, EasySteps DEF Idles
<1>n. CASE UNCHANGED vars
  <2>1. UNCHANGED <<lists, works, engines, feeds>>
    BY <1>n DEF vars, lists, works, engines, feeds
  <2>2. EasyReq
    BY <1>b, <1>n DEF vars
  <2> QED
    BY <2>1, <2>2 DEF Idles, Effect
<1> HIDE DEF mgrVars, procVars, workVars
<1>o. ASSUME NEW r \in Requests, StartStep(r) \/ UseStep(r) \/ Unsubscribe(r) PROVE Effect
  BY <1>d, <1>f, <1>l, <1>o, StartEffects DEF Effect
<1>p. ASSUME NEW p \in Procs, ProcessDies(p) \/ EndOfFile(p) \/ RestartStep(p) \/ Kill(p) PROVE Effect
  BY <1>e, <1>i, <1>k, <1>p, RestartEffects DEF Effect
<1>q. ASSUME NEW c \in Cids, ReapExited(c) \/ ReapIdle(c) PROVE Forgot
  BY <1>g, <1>q DEF ReapExited, ReapIdle
<1> QED
  BY <1>h, <1>j, <1>m, <1>n, <1>o, <1>p, <1>q DEF Next, Effect

-------------------------------------------------------------------------------
(* What the four properties about processes and engine sessions have in common. *)

\* The session that r has spawned and neither registered nor ended.
Mine(r) ==
    /\ req[r].own # None
    /\ \/ req[r].pc \in {"probe", "settle"}
       \/ req[r].pc = "discard" /\ "cancel" \in req[r].rest

\* Nobody else has it: nothing registers, restarts or kills it.
Alone(r) ==
    LET s == req[r].own IN
    /\ (\A c \in Cids : streams[c] # s) /\ s \notin dying \cup replaced
    /\ ~sess[s].restarting
    /\ sess[s].proc = s /\ sess[s].cid = req[r].cid /\ sess[s].cmd = req[r].eng

Sole ==
    /\ \A r \in Requests : Mine(r) => Alone(r)
    /\ \A q, r \in Requests : Mine(q) /\ Mine(r) /\ req[q].own = req[r].own => q = r
    /\ \A r \in Requests : req[r].pc \in {"new", "negotiate", "decide", "spawn"} => req[r].own = None

\* A restart is under way only for a session marked so, and has a process or an
\* engine session only where it is about to hand them over, or has raised instead.
Restarts ==
    \A s \in Procs :
        /\ rst[s].pc # "none" => sess[s].restarting
        /\ rst[s].pc \notin {"fast", "swap"} =>
              rst[s].proc = None /\ (rst[s].pc # "raised" => rst[s].eng = None)

\* What was unregistered, replaced or is being retired is a session; what is none
\* yet has no process.
Known ==
    /\ \A s \in dying \cup replaced : s <= nproc
    /\ \A t \in retiring : t[1] <= nproc
    /\ \A s \in Procs : s > nproc => sess[s].proc = None

\* A registered session is that of its content id, and is not being killed.
Listed ==
    \A c \in Cids : streams[c] # None => sess[streams[c]].cid = c /\ streams[c] \notin dying

Base == Sole /\ Restarts /\ Known /\ Listed

\* A request in the middle of a start is what matters about requests.
LEMMA EasyMine ==
    ASSUME EasyReq, NEW q \in Requests
    PROVE  /\ Mine(q)' <=> Mine(q)
           /\ req[q].pc \in StartPCs \/ req'[q].pc \in StartPCs => req'[q] = req[q]
           /\ Mine(q) => req'[q] = req[q]
<1>1. req'[q] = req[q] \/ (req[q].pc \notin StartPCs /\ req'[q].pc \notin StartPCs)
  BY DEF EasyReq, Easy
<1> QED
  BY <1>1 DEF Mine, StartPCs

\* The types of what is referred to.
LEMMA Referred ==
    ASSUME TypeOK, Refs
    PROVE  /\ nproc \in Nat /\ None \notin Nat
           /\ \A s \in Procs : s \in Nat
           /\ \A r \in Requests : req[r].own # None => req[r].own \in Procs /\ req[r].own <= nproc
           /\ \A r \in Requests : req[r].pc \in StartPCs => req[r].cid \in Cids
           /\ \A r \in Requests : req[r].pc = "probe" => req[r].own # None
           /\ \A c \in Cids : streams[c] # None => streams[c] \in Procs /\ streams[c] <= nproc
           /\ \A c \in Cids : streams[c] # None =>
                 sess[streams[c]].proc \in Nat /\ sess[streams[c]].proc <= nproc
           /\ \A p \in Procs : drain[p] # None => drain[p] \in Procs /\ drain[p] <= nproc
           /\ \A s \in Procs : rst[s].pc # "none" =>
                 /\ s <= nproc /\ sess[s].cid \in Cids
                 /\ sess[s].proc \in Nat /\ sess[s].proc <= nproc
           /\ \A s \in Procs : rst[s].pc \in {"fast", "swap"} =>
                 rst[s].proc \in Procs /\ rst[s].proc <= nproc
<1>1. nproc \in Nat /\ (\A s \in 1..nproc : s \in Procs /\ s \in Nat /\ s <= nproc) /\ None \notin Nat
      /\ \A s \in Procs : s \in Nat
  BY NatAssumption, NoneAssumption DEF TypeOK, Procs
<1>2. \A s : IsSession(s) => s \in Procs /\ s <= nproc /\ sess[s].proc \in Nat /\ sess[s].proc <= nproc
                             /\ sess[s].cid \in Cids
  BY <1>1 DEF IsSession
<1>3. \A r \in Requests : req[r].own # None => IsSession(req[r].own)
  BY DEF Refs, Fits
<1>4. \A r \in Requests : req[r].pc \in StartPCs => req[r].cid \in Cids
  BY DEF Refs, Fits, StartPCs
<1>5. \A r \in Requests : req[r].pc = "probe" => req[r].own # None
  BY DEF Refs, Fits
<1>6. /\ \A c \in Cids : streams[c] # None => IsSession(streams[c])
      /\ \A p \in Procs : drain[p] # None => IsSession(drain[p])
      /\ \A s \in Procs : rst[s].pc # "none" => IsSession(s)
      /\ \A s \in Procs : rst[s].pc \in {"fast", "swap"} => rst[s].proc \in 1..nproc
  BY DEF Refs
<1> QED
  BY <1>1, <1>2, <1>3, <1>4, <1>5, <1>6

\* The spawned session of q is left alone by a step.
Spared(q) ==
    LET s == req[q].own IN
    /\ SameHoldings(s) /\ sess'[s].restarting = sess[s].restarting
    /\ (\A c \in Cids : streams'[c] # s) /\ s \notin dying' \cup replaced'

\* Steps that start nothing leave the sessions that are being started alone.
LEMMA SparedByOthers ==
    ASSUME TypeOK, Refs, Base, NEW q \in Requests, Mine(q),
           \/ Idles \/ Forgot
           \/ \E s \in Procs : RestartEffect(s) \/ Upgraded(s) \/ Killed(s) \/ Died(s)
           \/ \E p, s \in Procs : Ended(p, s)
           \/ \E t \in retiring : Retired(t)
    PROVE  Spared(q) /\ EasyReq
<1> DEFINE m == req[q].own
<1>a. m \in Procs /\ m <= nproc /\ Alone(q) /\ m \in Nat
  BY Referred DEF Mine, Base, Sole
<1>b. (\A c \in Cids : streams[c] # m) /\ m \notin dying \cup replaced /\ ~sess[m].restarting
  BY <1>a DEF Alone
<1>c. \A s \in Procs : rst[s].pc # "none" => s # m
  BY <1>b DEF Base, Restarts
<1> HIDE DEF m
<1>d. ASSUME UNCHANGED <<streams, dying, replaced>> PROVE (\A c \in Cids : streams'[c] # m) /\ m \notin dying' \cup replaced'
  BY <1>b, <1>d
<1>e. req' = req => EasyReq
  BY DEF EasyReq, Easy
<1>f. ASSUME SameFields(m) PROVE SameHoldings(m) /\ sess'[m].restarting = sess[m].restarting
  BY <1>f DEF SameFields, SameHoldings
<1>1. CASE Idles
  <2>1. UNCHANGED <<streams, dying, replaced, sess>> /\ EasyReq
    BY <1>1 DEF Idles, lists, works
  <2> QED
    BY <1>d, <2>1 DEF Spared, SameHoldings, m
<1>2. CASE Forgot
  <2>1. UNCHANGED <<sess, replaced>> /\ EasyReq
    BY <1>2 DEF Forgot, works
  <2>2. \A c \in Cids : streams'[c] \in {streams[c], None}
    BY <1>2 DEF Forgot
  <2>3. dying' = dying \cup {streams[c] : c \in {d \in Cids : streams'[d] # streams[d]}}
    BY <1>2 DEF Forgot
  <2>4. \A c \in Cids : streams[c] # m
    BY <1>b
  <2>5. m # None
    BY <1>a, NoneAssumption
  <2>6. (\A c \in Cids : streams'[c] # m) /\ m \notin dying' \cup replaced'
    BY <1>b, <2>1, <2>2, <2>3, <2>4, <2>5
  <2> QED
    BY <2>1, <2>6 DEF Spared, SameHoldings, m
<1>3. ASSUME NEW s \in Procs, RestartEffect(s) PROVE Spared(q) /\ EasyReq
  <2>1. s # m
    BY <1>3, <1>c DEF RestartEffect, GaveUp, FastFailed, Raised, Swapped, FastTried, Renegotiated
  <2>2. OtherSessions(s) /\ UNCHANGED lists /\ EasyReq
    BY <1>3, <1>e DEF RestartEffect, GaveUp, FastFailed, Raised, Swapped, FastTried, Renegotiated
  <2>3. SameFields(m)
    BY <1>a, <2>1, <2>2 DEF OtherSessions
  <2> QED
    BY <1>d, <1>f, <2>2, <2>3 DEF Spared, lists, m
<1>4. ASSUME NEW s \in Procs, Upgraded(s) \/ \E p \in Procs : Ended(p, s) PROVE Spared(q) /\ EasyReq
  <2>1. OtherSessions(s) /\ UNCHANGED lists /\ EasyReq /\ SameHoldings(s)
        /\ (Begun(s) \/ sess'[s].restarting = sess[s].restarting)
    BY <1>4 DEF Upgraded, Ended, SameFields
  <2>2. SameHoldings(m) /\ sess'[m].restarting = sess[m].restarting
    BY <1>a, <1>b, <1>f, <2>1 DEF OtherSessions, Begun, Registered
  <2> QED
    BY <1>d, <2>1, <2>2 DEF Spared, lists, m
<1>5. ASSUME NEW s \in Procs, Killed(s) PROVE Spared(q) /\ EasyReq
  <2>1. UNCHANGED <<streams, replaced>> /\ EasyReq /\ dying' = dying \ {s}
    BY <1>5 DEF Killed
  <2>2. SameHoldings(m) /\ sess'[m].restarting = sess[m].restarting
    BY <1>5, <1>a, <1>f DEF Killed
  <2>3. (\A c \in Cids : streams'[c] # m) /\ m \notin dying' \cup replaced'
    BY <1>b, <2>1
  <2> QED
    BY <2>1, <2>2, <2>3 DEF Spared, m
<1>6. ASSUME UNCHANGED <<lists, sess, req>> PROVE Spared(q) /\ EasyReq
  BY <1>d, <1>e, <1>6 DEF Spared, SameHoldings, lists, m
<1>7. ASSUME NEW s \in Procs, Died(s) PROVE Spared(q) /\ EasyReq
  BY <1>6, <1>7 DEF Died, works
<1>8. ASSUME NEW t \in retiring, Retired(t) PROVE Spared(q) /\ EasyReq
  BY <1>6, <1>8 DEF Retired
<1> QED
  BY <1>1, <1>2, <1>3, <1>4, <1>5, <1>7, <1>8

\* Other starts leave them alone, too.
LEMMA SparedByStarts ==
    ASSUME TypeOK, Refs, Base, NEW q \in Requests, Mine(q), NEW r \in Requests, q # r, StartEffect(r)
    PROVE  Spared(q) /\ req'[q] = req[q]
<1> DEFINE m == req[q].own
<1>a. m \in Procs /\ m <= nproc /\ Alone(q) /\ m \in Nat /\ nproc \in Nat
  BY Referred DEF Mine, Base, Sole
<1>b. (\A c \in Cids : streams[c] # m) /\ m \notin dying \cup replaced /\ m # None
  BY <1>a, NoneAssumption DEF Alone
<1>0. req'[q] = req[q]
  BY DEF StartEffect, Negotiated, Decided, Passed, ProbeLost, Settled, Discarded, Spawned, Goes, OtherRequests
<1> HIDE DEF m
<1>d. ASSUME UNCHANGED <<streams, dying, replaced>> PROVE (\A c \in Cids : streams'[c] # m) /\ m \notin dying' \cup replaced'
  BY <1>b, <1>d
<1>f. ASSUME SameFields(m) PROVE SameHoldings(m) /\ sess'[m].restarting = sess[m].restarting
  BY <1>f DEF SameFields, SameHoldings
<1>1. CASE Negotiated(r) \/ Decided(r) \/ Passed(r) \/ Discarded(r)
  <2>1. UNCHANGED <<lists, works>>
    BY <1>1 DEF Negotiated, Decided, Passed, Discarded
  <2> QED
    BY <1>0, <1>d, <2>1 DEF Spared, SameHoldings, lists, works, m
<1>2. CASE ProbeLost(r)
  <2>1. UNCHANGED lists /\ SameHoldings(m) /\ sess'[m].restarting = sess[m].restarting
    BY <1>2, <1>a, <1>f DEF ProbeLost, SameHoldings
  <2> QED
    BY <1>0, <1>d, <2>1 DEF Spared, lists, m
<1>3. ASSUME NEW p \in Procs, Spawned(r, p) PROVE Spared(q)
  <2>1. UNCHANGED lists /\ SameFields(m)
    BY <1>3, <1>a DEF Spawned, NewProcess
  <2> QED
    BY <1>d, <1>f, <2>1 DEF Spared, lists, m
<1>4. CASE Settled(r)
  <2>1. UNCHANGED <<sess, dying>>
    BY <1>4 DEF Settled, works
  <2>2. req[r].own # None => req[r].own # m
    <3>1. req[r].own # None => Mine(r)
      BY <1>4 DEF Settled, Goes, Mine
    <3> QED
      BY <3>1 DEF Base, Sole, m
  <2>3. req[r].cid \in Cids
    BY <1>4, Referred DEF Settled, Goes, StartPCs
  <2>4. (\A c \in Cids : streams'[c] # m) /\ m \notin dying' \cup replaced'
    <3>1. CASE UNCHANGED <<streams, replaced>>
      BY <1>d, <2>1, <3>1
    <3>2. CASE /\ req[r].own # None
               /\ streams'[req[r].cid] = req[r].own
               /\ \A c \in Cids : c # req[r].cid => streams'[c] = streams[c]
               /\ replaced' = replaced \cup ({streams[req[r].cid]} \ {None})
      BY <1>b, <2>1, <2>2, <2>3, <3>2
    <3> QED
      BY <1>4, <3>1, <3>2 DEF Settled
  <2> QED
    BY <1>0, <2>1, <2>4 DEF Spared, SameHoldings, m
<1> QED
  BY <1>0, <1>1, <1>2, <1>3, <1>4 DEF StartEffect

\* Whoever had a session to itself still has.
LEMMA StaysAlone ==
    ASSUME NEW q \in Requests, Alone(q), Spared(q), req'[q].own = req[q].own,
           req'[q].cid = req[q].cid, req'[q].eng = req[q].eng
    PROVE  Alone(q)'
<1>1. (\A c \in Cids : streams'[c] # req'[q].own) /\ req'[q].own \notin dying' \cup replaced'
  BY DEF Spared
<1> QED
  BY <1>1 DEF Alone, Spared, SameHoldings

\* Every step keeps Sole.
LEMMA StepSole ==
    ASSUME TypeOK, Refs, Base, Effect
    PROVE  Sole'
<1>a. Sole
  BY DEF Base
<1>1. CASE \/ Idles \/ Forgot
           \/ \E s \in Procs : RestartEffect(s) \/ Upgraded(s) \/ Killed(s) \/ Died(s)
           \/ \E p, s \in Procs : Ended(p, s)
           \/ \E t \in retiring : Retired(t)
  <2>1. EasyReq
    <3>1. req' = req => EasyReq
      BY DEF EasyReq, Easy
    <3>2. ASSUME NEW s \in Procs, RestartEffect(s) \/ Upgraded(s) \/ Killed(s) \/ Died(s) PROVE EasyReq
      BY <3>1, <3>2 DEF RestartEffect, GaveUp, FastFailed, Raised, Swapped, FastTried, Renegotiated,
                        Upgraded, Killed, Died
    <3> QED
      BY <1>1, <3>1, <3>2 DEF Idles, Forgot, Ended, Retired
  <2>2. \A q \in Requests : Mine(q)' => Mine(q) /\ req'[q] = req[q]
    BY <2>1, EasyMine
  <2>3. ASSUME NEW q \in Requests, Mine(q)' PROVE Alone(q)'
    <3>1. Mine(q) /\ req'[q] = req[q] /\ Alone(q)
      BY <1>a, <2>2, <2>3 DEF Sole
    <3>2. Spared(q)
      BY <1>1, <3>1, SparedByOthers
    <3> QED
      BY <3>1, <3>2, StaysAlone
  <2>4. ASSUME NEW q \in Requests, req'[q].pc \in {"new", "negotiate", "decide", "spawn"}
        PROVE  req'[q].own = None
    <3>1. Easy(q)
      BY <2>1 DEF EasyReq
    <3> QED
      BY <1>a, <2>4, <3>1 DEF Easy, StartPCs, Sole
  <2> QED
    BY <1>a, <2>2, <2>3, <2>4 DEF Sole
<1>2. ASSUME NEW r \in Requests, StartEffect(r) PROVE Sole'
  <2>1. OtherRequests(r)
    BY <1>2 DEF StartEffect, Negotiated, Decided, Passed, ProbeLost, Settled, Discarded, Spawned, Goes
  <2>2. ASSUME NEW q \in Requests, q # r, Mine(q)' PROVE Mine(q) /\ Alone(q)' /\ req'[q] = req[q]
    <3>1. Mine(q) /\ req'[q] = req[q] /\ Alone(q)
      BY <1>a, <2>1, <2>2 DEF OtherRequests, Mine, Sole
    <3>2. Spared(q)
      BY <1>2, <2>2, <3>1, SparedByStarts
    <3> QED
      BY <3>1, <3>2, StaysAlone
  <2>3. Mine(r)' => Alone(r)' /\ \A q \in Requests : q # r /\ Mine(q) => req[q].own # req'[r].own
    <3>1. CASE Negotiated(r) \/ Decided(r) \/ ProbeLost(r) \/ Discarded(r)
      BY <3>1 DEF Negotiated, Decided, ProbeLost, Discarded, Goes, Mine
    <3>2. CASE Passed(r) \/ Settled(r)
      <4> SUFFICES ASSUME Mine(r)'
                   PROVE  Alone(r)' /\ \A q \in Requests : q # r /\ Mine(q) => req[q].own # req'[r].own
        OBVIOUS
      <4>1. req'[r].own = req[r].own /\ req'[r].cid = req[r].cid /\ req'[r].eng = req[r].eng
            /\ req[r].own # None
        BY <3>2 DEF Passed, Settled, Goes, Mine
      <4>2. req[r].pc # "spawn"
        BY <1>a, <4>1 DEF Sole
      <4>3. Mine(r) /\ Alone(r)
        BY <1>a, <3>2, <4>1, <4>2 DEF Passed, Settled, Goes, Mine, Sole
      <4>4. UNCHANGED <<streams, replaced, dying, sess>>
        <5>1. ASSUME Settled(r) PROVE UNCHANGED <<streams, replaced, dying, sess>>
          <6>1. req'[r].pc = "discard" /\ req'[r].rest # {"serve"}
            BY <5>1 DEF Settled, Goes, Mine
          <6> QED
            BY <5>1, <6>1 DEF Settled, works
        <5> QED
          BY <3>2, <5>1 DEF Passed, lists, works
      <4>5. Spared(r)
        BY <4>3, <4>4 DEF Spared, SameHoldings, Alone
      <4> QED
        BY <1>a, <4>1, <4>3, <4>5, StaysAlone DEF Sole
    <3>3. ASSUME NEW p \in Procs, Spawned(r, p)
          PROVE  Alone(r)' /\ \A q \in Requests : q # r /\ Mine(q) => req[q].own # req'[r].own
      <4>1. p = nproc + 1 /\ req'[r].own = p /\ UNCHANGED <<streams, dying, replaced>>
        BY <3>3 DEF Spawned, NewProcess, lists
      <4>2. /\ nproc \in Nat
            /\ \A q \in Requests : Mine(q) => req[q].own # p
            /\ \A c \in Cids : streams[c] # p
            /\ p \notin dying \cup replaced
        BY <4>1, Referred DEF Base, Known, Mine
      <4>3. (\A c \in Cids : streams'[c] # req'[r].own) /\ req'[r].own \notin dying' \cup replaced'
        BY <4>1, <4>2
      <4>4. /\ ~sess'[p].restarting /\ sess'[p].proc = p
            /\ sess'[p].cid = req'[r].cid /\ sess'[p].cmd = req'[r].eng
        BY <3>3 DEF Spawned, Goes
      <4> QED
        BY <4>1, <4>2, <4>3, <4>4 DEF Alone
    <3> QED
      BY <1>2, <3>1, <3>2, <3>3 DEF StartEffect
  <2>4. req'[r].pc \in {"new", "negotiate", "decide", "spawn"} => req'[r].own = None
    BY <1>a, <1>2 DEF StartEffect, Negotiated, Decided, Passed, ProbeLost, Settled, Discarded, Spawned, Goes, Sole
  <2> QED
    BY <1>a, <2>1, <2>2, <2>3, <2>4 DEF Sole, OtherRequests
<1> QED
  BY <1>1, <1>2 DEF Effect

\* What changes the fields of a session, the registry and what is to be retired.
SessionsFrame ==
    /\ nproc' \in {nproc, nproc + 1}
    /\ \A s \in Procs : s <= nproc => sess'[s].cid = sess[s].cid
    /\ \A s \in Procs :
          \/ sess'[s].proc = sess[s].proc /\ sess'[s].cmd = sess[s].cmd
          \/ Swapped(s)
          \/ \E r \in Requests : Spawned(r, s)
    /\ \A s \in Procs :
          \/ sess'[s].restarting = sess[s].restarting /\ rst'[s] = rst[s]
          \/ Begun(s) /\ (Upgraded(s) \/ \E p \in Procs : Ended(p, s))
          \/ RestartEffect(s)
          \/ \E r \in Requests : Spawned(r, s)
ListsFrame ==
    \/ UNCHANGED lists
    \/ Forgot
    \/ \E r \in Requests : Settled(r)
    \/ \E s \in Procs : Killed(s)
RetiringFrame ==
    \/ UNCHANGED retiring
    \/ \E s \in Procs : Swapped(s)
    \/ \E t \in retiring : Retired(t)

\* Every step keeps to that.
LEMMA Frame ==
    ASSUME TypeOK, Refs, Base, Effect
    PROVE  SessionsFrame /\ ListsFrame /\ RetiringFrame
<1>1. CASE Idles \/ Forgot
  <2>1. UNCHANGED works /\ (UNCHANGED lists \/ Forgot)
    BY <1>1 DEF Idles, Forgot
  <2> QED
    BY <2>1 DEF works, SessionsFrame, ListsFrame, RetiringFrame
<1>2. ASSUME NEW r \in Requests, Negotiated(r) \/ Decided(r) \/ Passed(r) \/ Settled(r) \/ Discarded(r)
      PROVE  SessionsFrame /\ ListsFrame /\ RetiringFrame
  <2>1. UNCHANGED works /\ (UNCHANGED lists \/ Settled(r))
    BY <1>2 DEF Negotiated, Decided, Passed, Settled, Discarded
  <2> QED
    BY <2>1 DEF works, SessionsFrame, ListsFrame, RetiringFrame
<1>3. ASSUME NEW r \in Requests, ProbeLost(r)
      PROVE  SessionsFrame /\ ListsFrame /\ RetiringFrame
  <2>1. /\ UNCHANGED <<lists, rst, retiring, nproc>>
        /\ \A s \in Procs : /\ sess'[s].cid = sess[s].cid /\ sess'[s].proc = sess[s].proc
                            /\ sess'[s].cmd = sess[s].cmd
                            /\ sess'[s].restarting = sess[s].restarting
    BY <1>3 DEF ProbeLost, SameFields
  <2> QED
    BY <2>1 DEF SessionsFrame, ListsFrame, RetiringFrame
<1>4. ASSUME NEW r \in Requests, NEW p \in Procs, Spawned(r, p)
      PROVE  SessionsFrame /\ ListsFrame /\ RetiringFrame
  <2>1. /\ UNCHANGED <<lists, rst, retiring>> /\ p = nproc + 1 /\ nproc' = nproc + 1 /\ nproc \in Nat
        /\ \A s \in Procs : s # p => SameFields(s)
    BY <1>4, Referred DEF Spawned, NewProcess
  <2>2. \A s \in Procs : s = p \/ (s # p /\ SameFields(s) /\ rst'[s] = rst[s])
    BY <2>1
  <2>3. ~(p <= nproc)
    BY <2>1
  <2> QED
    BY <1>4, <2>1, <2>2, <2>3 DEF SessionsFrame, ListsFrame, RetiringFrame, SameFields
<1>5. ASSUME NEW s \in Procs, RestartEffect(s)
      PROVE  SessionsFrame /\ ListsFrame /\ RetiringFrame
  <2>1. /\ UNCHANGED lists /\ OtherSessions(s)
        /\ sess'[s].cid = sess[s].cid
        /\ nproc' \in {nproc, nproc + 1}
        /\ UNCHANGED retiring \/ Swapped(s)
        /\ (sess'[s].proc = sess[s].proc /\ sess'[s].cmd = sess[s].cmd) \/ Swapped(s)
    BY <1>5 DEF RestartEffect, GaveUp, FastFailed, Raised, Swapped, FastTried, Renegotiated, SameHoldings,
                SameFields, NewProcess
  <2> QED
    BY <1>5, <2>1 DEF SessionsFrame, ListsFrame, RetiringFrame, OtherSessions, SameFields
<1>6. ASSUME NEW s \in Procs, Upgraded(s) \/ \E p \in Procs : Ended(p, s)
      PROVE  SessionsFrame /\ ListsFrame /\ RetiringFrame
  <2>1. /\ UNCHANGED <<lists, retiring, nproc>> /\ OtherSessions(s) /\ SameHoldings(s)
        /\ Begun(s) \/ (sess'[s].restarting = sess[s].restarting /\ rst'[s] = rst[s])
    BY <1>6 DEF Upgraded, Ended, SameFields
  <2> QED
    BY <1>6, <2>1 DEF SessionsFrame, ListsFrame, RetiringFrame, OtherSessions, SameFields, SameHoldings
<1>7. ASSUME NEW s \in Procs, Killed(s)
      PROVE  SessionsFrame /\ ListsFrame /\ RetiringFrame
  <2>1. /\ UNCHANGED <<rst, retiring, nproc>>
        /\ \A u \in Procs : /\ sess'[u].cid = sess[u].cid /\ sess'[u].proc = sess[u].proc
                            /\ sess'[u].cmd = sess[u].cmd
                            /\ sess'[u].restarting = sess[u].restarting
    BY <1>7 DEF Killed, SameFields, SameHoldings
  <2> QED
    BY <1>7, <2>1 DEF SessionsFrame, ListsFrame, RetiringFrame
<1>8. ASSUME NEW p \in Procs, Died(p)
      PROVE  SessionsFrame /\ ListsFrame /\ RetiringFrame
  <2>1. UNCHANGED works /\ UNCHANGED lists
    BY <1>8 DEF Died
  <2> QED
    BY <2>1 DEF works, SessionsFrame, ListsFrame, RetiringFrame
<1>9. ASSUME NEW t \in retiring, Retired(t)
      PROVE  SessionsFrame /\ ListsFrame /\ RetiringFrame
  <2>1. UNCHANGED <<sess, rst, nproc>> /\ UNCHANGED lists
    BY <1>9 DEF Retired
  <2> QED
    BY <1>9, <2>1 DEF SessionsFrame, ListsFrame, RetiringFrame
<1> QED
  BY <1>1, <1>2, <1>3, <1>4, <1>5, <1>6, <1>7, <1>8, <1>9 DEF Effect, StartEffect

\* A request in the middle of a start goes on by a step of its own only.
LEMMA StartFrame ==
    ASSUME Effect, NEW r \in Requests, req[r].pc \in StartPCs \/ req'[r].pc \in StartPCs
    PROVE  req'[r] = req[r] \/ StartEffect(r)
<1>1. ASSUME NEW q \in Requests, q # r, StartEffect(q) PROVE req'[r] = req[r]
  BY <1>1 DEF StartEffect, Negotiated, Decided, Passed, ProbeLost, Settled, Discarded, Spawned,
              Goes, OtherRequests
<1>2. EasyReq => req'[r] = req[r]
  BY EasyMine
<1>3. ASSUME ~\E q \in Requests : StartEffect(q) PROVE req'[r] = req[r]
  <2>1. EasyReq \/ UNCHANGED req
    BY <1>3 DEF Effect, Idles, Forgot, Ended, Retired, Upgraded, Killed, Died, RestartEffect,
                GaveUp, FastFailed, Raised, Swapped, FastTried, Renegotiated
  <2> QED
    BY <1>2, <2>1
<1> QED
  BY <1>1, <1>3

\* Every step keeps Restarts.
LEMMA StepRestarts ==
    ASSUME TypeOK, Refs, Base, Effect
    PROVE  Restarts'
<1>a. Restarts
  BY DEF Base
<1> SUFFICES ASSUME NEW s \in Procs
             PROVE  /\ rst'[s].pc # "none" => sess'[s].restarting
                    /\ rst'[s].pc \notin {"fast", "swap"} =>
                          rst'[s].proc = None /\ (rst'[s].pc # "raised" => rst'[s].eng = None)
  BY DEF Restarts
<1>1. CASE sess'[s].restarting = sess[s].restarting /\ rst'[s] = rst[s]
  BY <1>a, <1>1 DEF Restarts
<1>2. CASE Begun(s)
  BY <1>2 DEF Begun
<1>3. CASE RestartEffect(s)
  BY <1>a, <1>3 DEF RestartEffect, GaveUp, FastFailed, Raised, Swapped, FastTried, Renegotiated, SameFields, Restarts
<1>4. ASSUME NEW r \in Requests, Spawned(r, s)
      PROVE  rst'[s].pc = "none" /\ rst'[s].proc = None /\ rst'[s].eng = None
  <2>1. s = nproc + 1 /\ rst'[s] = rst[s] /\ nproc \in Nat
    BY <1>4, Referred DEF Spawned, NewProcess
  <2>2. rst[s].pc = "none"
    BY <2>1, Referred
  <2> QED
    BY <1>a, <2>1, <2>2 DEF Restarts
<1> QED
  BY <1>1, <1>2, <1>3, <1>4, Frame DEF SessionsFrame

\* Every step keeps Known.
LEMMA StepKnown ==
    ASSUME TypeOK, Refs, Base, Effect
    PROVE  Known'
<1>a. /\ Known /\ nproc \in Nat /\ nproc' \in {nproc, nproc + 1} /\ nproc' \in Nat
      /\ \A s \in Procs : s \in Nat /\ (s <= nproc => s <= nproc')
  BY Referred, Frame DEF Base, SessionsFrame
<1>b. TypeOK => dying \cup replaced \subseteq Procs /\ retiring \subseteq Procs \X Procs \X Opt(Engs)
  BY DEF TypeOK
<1>1. \A s \in dying' \cup replaced' : s \in Procs /\ s <= nproc
  <2>1. CASE UNCHANGED lists \/ \E s \in Procs : Killed(s)
    BY <1>a, <1>b, <2>1 DEF lists, Killed, Known
  <2>2. CASE Forgot
    <3>1. dying' = dying \cup {streams[c] : c \in {d \in Cids : streams'[d] # streams[d]}}
      BY <2>2 DEF Forgot
    <3>2. \A c \in Cids : streams'[c] # streams[c] => streams[c] # None
      BY <2>2 DEF Forgot
    <3>3. UNCHANGED replaced
      BY <2>2 DEF Forgot
    <3> QED
      BY <1>a, <1>b, <3>1, <3>2, <3>3, Referred DEF Known
  <2>3. ASSUME NEW r \in Requests, Settled(r)
        PROVE  \A s \in dying' \cup replaced' : s \in Procs /\ s <= nproc
    <3>1. /\ UNCHANGED dying /\ req[r].cid \in Cids
          /\ replaced' \in {replaced, replaced \cup ({streams[req[r].cid]} \ {None})}
      BY <2>3, Referred DEF Settled, Goes, StartPCs
    <3> QED
      BY <1>a, <1>b, <3>1, Referred DEF Known
  <2> QED
    BY <2>1, <2>2, <2>3, Frame DEF ListsFrame
<1>2. \A t \in retiring' : t[1] \in Procs /\ t[1] <= nproc
  <2>0. \A t \in retiring : t[1] \in Procs /\ t[1] <= nproc
    BY <1>a, <1>b DEF Known
  <2>1. ASSUME NEW s \in Procs, Swapped(s)
        PROVE  \A t \in retiring' : t[1] \in Procs /\ t[1] <= nproc
    <3>1. retiring' = retiring \cup {<<s, sess[s].proc, sess[s].cmd>>} /\ s <= nproc
      BY <2>1, Referred DEF Swapped
    <3> QED
      BY <2>0, <3>1
  <2>2. ASSUME NEW t \in retiring, Retired(t)
        PROVE  retiring' \subseteq retiring
    BY <2>2 DEF Retired
  <2> QED
    BY <2>0, <2>1, <2>2, Frame DEF RetiringFrame
<1>3. ASSUME NEW s \in Procs, s > nproc' PROVE sess'[s].proc = None
  <2>1. s > nproc
    BY <1>3, <1>a
  <2>2. ~Swapped(s)
    BY <1>a, <2>1, Referred DEF Swapped
  <2>3. \A r \in Requests : ~Spawned(r, s)
    BY <1>a, <1>3 DEF Spawned, NewProcess
  <2> QED
    BY <1>a, <2>1, <2>2, <2>3, Frame DEF SessionsFrame, Known
<1> QED
  BY <1>a, <1>1, <1>2, <1>3 DEF Known

\* Every step keeps Listed.
LEMMA StepListed ==
    ASSUME TypeOK, Refs, Base, Effect
    PROVE  Listed'
<1>a. /\ Listed /\ \A c \in Cids : streams[c] # None => streams[c] \in Procs /\ streams[c] <= nproc
  BY Referred DEF Base
<1>b. \A s \in Procs : s <= nproc => sess'[s].cid = sess[s].cid
  BY Frame DEF SessionsFrame
<1>1. CASE UNCHANGED lists \/ \E s \in Procs : Killed(s)
  <2>1. UNCHANGED streams /\ dying' \subseteq dying
    BY <1>1 DEF lists, Killed
  <2> QED
    BY <1>a, <1>b, <2>1 DEF Listed
<1>2. CASE Forgot
  <2> SUFFICES ASSUME NEW c \in Cids, streams'[c] # None
               PROVE  sess'[streams'[c]].cid = c /\ streams'[c] \notin dying'
    BY DEF Listed
  <2>1. streams'[c] = streams[c]
    BY <1>2 DEF Forgot
  <2>2. dying' = dying \cup {streams[d] : d \in {b \in Cids : streams'[b] # streams[b]}}
    BY <1>2 DEF Forgot
  <2>3. \A d \in Cids : streams[d] = streams[c] => d = c
    BY <1>a, <2>1 DEF Listed
  <2> QED
    BY <1>a, <1>b, <2>1, <2>2, <2>3 DEF Listed
<1>3. ASSUME NEW r \in Requests, Settled(r)
      PROVE  Listed'
  <2>1. req[r].cid \in Cids /\ UNCHANGED <<dying, sess>>
    BY <1>3, Referred DEF Settled, Goes, StartPCs, works
  <2>2. CASE UNCHANGED streams
    BY <1>a, <2>1, <2>2 DEF Listed
  <2>3. CASE /\ req[r].own # None
             /\ streams'[req[r].cid] = req[r].own
             /\ \A c \in Cids : c # req[r].cid => streams'[c] = streams[c]
    <3>1. Alone(r)
      BY <1>3, <2>3 DEF Settled, Goes, Mine, Base, Sole
    <3> QED
      BY <1>a, <2>1, <2>3, <3>1 DEF Listed, Alone
  <2> QED
    BY <1>3, <2>2, <2>3 DEF Settled
<1> QED
  BY <1>1, <1>2, <1>3, Frame DEF ListsFrame

\* The four together.
LEMMA StepBase ==
    ASSUME TypeOK, Refs, Base, Effect
    PROVE  Base'
  BY StepSole, StepRestarts, StepKnown, StepListed DEF Base

\* Nothing is started, registered or restarted at first.
LEMMA InitBase == Init => Base
<1> SUFFICES ASSUME Init PROVE Base
  OBVIOUS
<1>1. \A r \in Requests : req[r].pc = "new" /\ req[r].own = None
  BY DEF Init, NoRequest
<1>2. \A s \in Procs : sess[s].proc = None /\ rst[s].pc = "none" /\ rst[s].proc = None /\ rst[s].eng = None
  BY DEF Init, NoSession, NoRestart
<1>3. dying \cup replaced = {} /\ retiring = {} /\ \A c \in Cids : streams[c] = None
  BY DEF Init
<1>4. Sole
  BY <1>1 DEF Sole, Mine
<1> QED
  BY <1>2, <1>3, <1>4 DEF Base, Restarts, Known, Listed

-------------------------------------------------------------------------------
(* Processes. *)

\* Who has process p: NoOrphanProcess, but that a request which is through with its
\* session has none.
ByList(p)    == \E s \in Procs : sess[s].proc = p /\ (Registered(s) \/ s \in dying)
ByStart(p)   == \E r \in Requests : Mine(r) /\ req[r].own = p
ByRestart(p) == \E s \in Procs : rst[s].proc = p
ByTail(p)    == \E t \in retiring : t[2] = p

Held(p) == ByList(p) \/ ByStart(p) \/ ByRestart(p) \/ ByTail(p)
Hands   == \A p \in alive : Held(p)

\* The process of a registered or dying session stays in somebody's hands.
LEMMA ListedStays ==
    ASSUME TypeOK, Refs, Base, Effect, NEW p \in Procs, p \in alive, p \in alive', ByList(p)
    PROVE  Held(p)'
<1>1. PICK s \in Procs : sess[s].proc = p /\ (Registered(s) \/ s \in dying)
  BY DEF ByList
<1>2. p # None
  BY Referred
<1>3. CASE Swapped(s)
  <2>1. <<s, sess[s].proc, sess[s].cmd>> \in retiring'
    BY <1>3 DEF Swapped
  <2>2. ByTail(p)'
    BY <1>1, <2>1 DEF ByTail
  <2> QED
    BY <2>2 DEF Held
<1>4. ASSUME NEW r \in Requests, Spawned(r, s) PROVE FALSE
  <2>1. s = nproc + 1 /\ nproc \in Nat
    BY <1>4, Referred DEF Spawned, NewProcess
  <2> QED
    BY <1>1, <1>2, <2>1 DEF Base, Known
<1>5. CASE sess'[s].proc = sess[s].proc
  <2> SUFFICES Registered(s)' \/ s \in dying'
    BY <1>1, <1>5 DEF ByList, Held
  <2>1. CASE UNCHANGED lists
    BY <1>1, <2>1 DEF lists, Registered
  <2>2. CASE Forgot
    <3>1. /\ \A c \in Cids : streams'[c] \in {streams[c], None}
          /\ dying' = dying \cup {streams[c] : c \in {d \in Cids : streams'[d] # streams[d]}}
      BY <2>2 DEF Forgot
    <3> QED
      BY <1>1, <3>1 DEF Registered
  <2>3. ASSUME NEW u \in Procs, Killed(u) PROVE Registered(s)' \/ s \in dying'
    <3>1. u # s
      BY <1>1, <2>3 DEF Killed
    <3> QED
      BY <1>1, <2>3, <3>1 DEF Killed, Registered
  <2>4. ASSUME NEW r \in Requests, Settled(r) PROVE Registered(s)' \/ s \in dying'
    <3>1. UNCHANGED dying
      BY <2>4 DEF Settled
    <3>2. CASE UNCHANGED streams
      BY <1>1, <3>1, <3>2 DEF Registered
    <3>3. CASE /\ ~Live(req[r].cid)
               /\ \A c \in Cids : c # req[r].cid => streams'[c] = streams[c]
      <4>1. streams[req[r].cid] # s
        <5>1. s # None
          BY Referred
        <5> QED
          BY <1>1, <3>3, <5>1 DEF Live
      <4> QED
        BY <1>1, <3>1, <3>3, <4>1 DEF Registered
    <3> QED
      BY <2>4, <3>2, <3>3 DEF Settled
  <2> QED
    BY <2>1, <2>2, <2>3, <2>4, Frame DEF ListsFrame
<1> QED
  BY <1>3, <1>4, <1>5, Frame DEF SessionsFrame

\* The process of a request that starts a stream does.
LEMMA StartedStays ==
    ASSUME TypeOK, Refs, Base, Effect, NEW p \in Procs, p \in alive', ByStart(p)
    PROVE  Held(p)'
<1>1. PICK r \in Requests : Mine(r) /\ req[r].own = p
  BY DEF ByStart
<1>2. CASE req'[r] = req[r]
  BY <1>1, <1>2 DEF Mine, ByStart, Held
<1>3. CASE Passed(r)
  <2>1. req'[r].own = p /\ req'[r].pc = "settle" /\ p # None
    BY <1>1, <1>3 DEF Passed, Goes, Mine
  <2> QED
    BY <2>1 DEF Mine, ByStart, Held
<1>4. CASE Settled(r)
  <2>0. req'[r].own = p /\ req'[r].pc = "discard" /\ p # None /\ req[r].cid \in Cids
    BY <1>1, <1>4, Referred DEF Settled, Goes, Mine, StartPCs
  <2>1. CASE "cancel" \in req'[r].rest
    BY <2>0, <2>1 DEF Mine, ByStart, Held
  <2>2. CASE streams'[req[r].cid] = req[r].own
    <3>1. Registered(p)'
      BY <1>1, <2>0, <2>2 DEF Registered
    <3>2. sess'[p].proc = p
      BY <1>1, <1>4 DEF Settled, works, Base, Sole, Alone
    <3> QED
      BY <3>1, <3>2 DEF ByList, Held
  <2> QED
    BY <1>1, <1>4, <2>0, <2>1, <2>2 DEF Settled
<1>5. CASE ProbeLost(r) \/ Discarded(r)
  BY <1>1, <1>5 DEF ProbeLost, Discarded, Goes, Mine
<1>6. CASE Negotiated(r) \/ Decided(r) \/ \E q \in Procs : Spawned(r, q)
  BY <1>1, <1>6 DEF Negotiated, Decided, Spawned, Goes, Mine
<1>7. req[r].pc \in StartPCs
  BY <1>1 DEF Mine, StartPCs
<1> QED
  BY <1>2, <1>3, <1>4, <1>5, <1>6, <1>7, StartFrame DEF StartEffect

\* The process of a restart does.
LEMMA RestartedStays ==
    ASSUME TypeOK, Refs, Base, Effect, NEW p \in Procs, p \in alive, p \in alive', ByRestart(p)
    PROVE  Held(p)'
<1>1. PICK s \in Procs : rst[s].proc = p
  BY DEF ByRestart
<1>2. p # None
  BY Referred
<1>3. rst[s].pc \in {"fast", "swap"} /\ sess[s].restarting
  BY <1>1, <1>2 DEF Base, Restarts
<1>4. CASE rst'[s] = rst[s]
  BY <1>1, <1>4 DEF ByRestart, Held
<1>5. CASE Begun(s)
  BY <1>3, <1>5 DEF Begun
<1>6. CASE GaveUp(s) \/ FastFailed(s) \/ Raised(s) \/ \E q \in Procs : FastTried(s, q) \/ Renegotiated(s, q)
  BY <1>1, <1>3, <1>6 DEF GaveUp, FastFailed, Raised, FastTried, Renegotiated
<1>7. CASE Swapped(s)
  <2>1. sess'[s].proc = p /\ Registered(s)'
    BY <1>1, <1>7 DEF Swapped, Current, Registered, lists
  <2> QED
    BY <2>1 DEF ByList, Held
<1>8. ASSUME NEW r \in Requests, Spawned(r, s) PROVE rst'[s] = rst[s]
  BY <1>8 DEF Spawned
<1> QED
  BY <1>4, <1>5, <1>6, <1>7, <1>8, Frame DEF SessionsFrame, RestartEffect

\* A process that is to be retired does.
LEMMA TailStays ==
    ASSUME TypeOK, Refs, Base, Effect, NEW p \in Procs, p \in alive', ByTail(p)
    PROVE  Held(p)'
<1>1. PICK t \in retiring : t[2] = p
  BY DEF ByTail
<1>2. t \in retiring' => Held(p)'
  BY <1>1 DEF ByTail, Held
<1>3. ASSUME NEW s \in Procs, Swapped(s) PROVE t \in retiring'
  BY <1>1, <1>3 DEF Swapped
<1>4. ASSUME NEW u \in retiring, Retired(u) PROVE t \in retiring'
  BY <1>1, <1>4 DEF Retired
<1> QED
  BY <1>1, <1>2, <1>3, <1>4, Frame DEF RetiringFrame

\* A new process is somebody's from the start.
LEMMA NewIsHeld ==
    ASSUME TypeOK, Refs, Base, Effect, NEW p \in Procs, p \notin alive, p \in alive'
    PROVE  Held(p)'
<1>1. ASSUME NEW r \in Requests, NEW q \in Procs, Spawned(r, q) PROVE Held(p)'
  <2>1. p = q /\ req'[r].own = p /\ req'[r].pc \in {"probe", "settle"} /\ p # None
    BY <1>1, Referred DEF Spawned, NewProcess, Goes
  <2> QED
    BY <2>1 DEF Mine, ByStart, Held
<1>2. ASSUME NEW s \in Procs, NEW q \in Procs, FastTried(s, q) \/ Renegotiated(s, q) PROVE Held(p)'
  <2>1. rst'[s].proc = p
    BY <1>2 DEF FastTried, Renegotiated, NewProcess
  <2> QED
    BY <2>1 DEF ByRestart, Held
<1>3. CASE Idles \/ Forgot \/ \E s, q \in Procs : Ended(q, s)
  BY <1>3 DEF Idles, Forgot, Ended, feeds
<1>4. ASSUME NEW r \in Requests,
             Negotiated(r) \/ Decided(r) \/ Passed(r) \/ ProbeLost(r) \/ Settled(r) \/ Discarded(r)
      PROVE  FALSE
  BY <1>4 DEF Negotiated, Decided, Passed, ProbeLost, Settled, Discarded, feeds
<1>5. ASSUME NEW s \in Procs,
             \/ GaveUp(s) \/ FastFailed(s) \/ Raised(s) \/ Swapped(s)
             \/ Upgraded(s) \/ Killed(s) \/ Died(s)
      PROVE  FALSE
  BY <1>5 DEF GaveUp, FastFailed, Raised, Swapped, Upgraded, Killed, Died, feeds
<1>6. ASSUME NEW t \in retiring, Retired(t) PROVE FALSE
  BY <1>6 DEF Retired
<1> QED
  BY <1>1, <1>2, <1>3, <1>4, <1>5, <1>6 DEF Effect, StartEffect, RestartEffect

\* Every step keeps Hands.
LEMMA StepHands ==
    ASSUME TypeOK, TypeOK', Refs, Base, Hands, Effect
    PROVE  Hands'
<1> SUFFICES ASSUME NEW p \in alive'
             PROVE  Held(p)'
  BY DEF Hands
<1>1. p \in Procs
  BY DEF TypeOK
<1>2. CASE p \in alive
  BY <1>1, <1>2, ListedStays, StartedStays, RestartedStays, TailStays DEF Hands, Held
<1> QED
  BY <1>1, <1>2, NewIsHeld

\* Whoever holds a process is one of those that NoOrphanProcess names.
LEMMA HeldIsNoOrphan == Hands => NoOrphanProcess
  BY DEF Hands, Held, ByList, ByStart, ByRestart, ByTail, NoOrphanProcess, Mine, InStart


\* Base, of every reachable state.
LEMMA BaseInvariant == Spec => []Base
<1>1. Inv /\ Base /\ [Next]_vars => Base'
  BY Effects, StepBase DEF Inv
<1> QED
  BY <1>1, InitBase, Invariant, PTL DEF Spec

\* NoOrphanProcess, of every reachable state: at every moment somebody who is going to
\* end it, or to hand it to a session, has each FFmpeg process that runs.
THEOREM NoOrphans == Spec => []NoOrphanProcess
<1>1. Init => Hands
  BY DEF Init, Hands
<1>2. Inv /\ Inv' /\ Base /\ Hands /\ [Next]_vars => Hands'
  BY Effects, StepHands DEF Inv
<1>3. Hands => NoOrphanProcess
  BY HeldIsNoOrphan
<1> QED
  BY <1>1, <1>2, <1>3, BaseInvariant, Invariant, PTL DEF Spec

-------------------------------------------------------------------------------
(* Engine sessions. *)

\* What has been negotiated.
EngUpTo == {None} \cup 1..neng

Opened ==
    /\ \A s \in Procs : sess[s].cmd \in EngUpTo /\ rst[s].eng \in EngUpTo
    /\ \A t \in retiring : t[3] \in EngUpTo
    /\ \A r \in Requests : req[r].eng \in EngUpTo
    /\ \A c \in Cids : cache[c] \in EngUpTo
    /\ open \subseteq 1..neng

\* What changes the engine's sessions.
EnginesFrame ==
    \/ UNCHANGED neng /\ open' \subseteq open
    \/ /\ neng' = neng + 1 /\ open' = open \cup {neng + 1}
       /\ \/ \E r \in Requests : Negotiated(r) /\ req'[r].eng = neng + 1
          \/ \E s \in Procs : Renewed(s) /\ rst'[s].eng = neng + 1

\* What changes the engine session of a request.
RequestsFrame ==
    \A r \in Requests :
        \/ req'[r].eng \in {req[r].eng, None}
        \/ Negotiated(r)

\* Every step keeps to that.
LEMMA EngineFrame ==
    ASSUME Effect
    PROVE  /\ EnginesFrame /\ RequestsFrame
           /\ UNCHANGED cache \/ \E r \in Requests : Negotiated(r)
<1> DEFINE Kept == EnginesFrame /\ RequestsFrame /\ UNCHANGED cache
<1>1. EasyReq => RequestsFrame
  BY DEF EasyReq, Easy, RequestsFrame
<1>2. UNCHANGED req => RequestsFrame
  BY DEF RequestsFrame
<1>3. CASE Idles \/ Forgot \/ \E p, s \in Procs : Ended(p, s)
  BY <1>1, <1>3 DEF Idles, Forgot, Ended, engines, EnginesFrame
<1>4. ASSUME NEW r \in Requests, Negotiated(r) PROVE EnginesFrame /\ RequestsFrame
  <2>1. NewEngine(req'[r].eng) /\ OtherRequests(r)
    BY <1>4 DEF Negotiated, Goes
  <2> QED
    BY <1>4, <2>1 DEF NewEngine, OtherRequests, EnginesFrame, RequestsFrame
<1>5. ASSUME NEW r \in Requests,
             \/ Decided(r) \/ Passed(r) \/ ProbeLost(r) \/ Settled(r) \/ Discarded(r)
             \/ \E p \in Procs : Spawned(r, p)
      PROVE  Kept
  <2>1. OtherRequests(r) /\ req'[r].eng = req[r].eng
    BY <1>5 DEF Decided, Passed, ProbeLost, Settled, Discarded, Spawned, Goes
  <2>2. UNCHANGED <<neng, cache>> /\ open' \subseteq open
    BY <1>5 DEF Decided, Passed, ProbeLost, Settled, Discarded, Spawned, engines
  <2> QED
    BY <2>1, <2>2 DEF EnginesFrame, RequestsFrame, OtherRequests
<1>6. ASSUME NEW s \in Procs, Renewed(s) PROVE Kept
  <2>1. NewEngine(rst'[s].eng) /\ UNCHANGED <<req, cache>>
    BY <1>6 DEF Renewed, Raised, Renegotiated
  <2> QED
    BY <1>2, <1>6, <2>1 DEF NewEngine, EnginesFrame
<1>7. ASSUME NEW s \in Procs,
             \/ GaveUp(s) \/ FastFailed(s) \/ Swapped(s) \/ Upgraded(s) \/ Killed(s) \/ Died(s)
             \/ \E p \in Procs : FastTried(s, p)
      PROVE  Kept
  <2>1. UNCHANGED <<neng, cache>> /\ open' \subseteq open /\ (EasyReq \/ UNCHANGED req)
    BY <1>7 DEF GaveUp, FastFailed, Swapped, Upgraded, Killed, Died, FastTried, engines
  <2> QED
    BY <1>1, <1>2, <2>1 DEF EnginesFrame
<1>8. ASSUME NEW t \in retiring, Retired(t) PROVE Kept
  <2>1. UNCHANGED <<neng, cache, req>> /\ open' \subseteq open
    BY <1>8 DEF Retired
  <2> QED
    BY <1>2, <2>1 DEF EnginesFrame
<1>9. CASE \E r \in Requests : Negotiated(r)
  BY <1>4, <1>9
<1>10. CASE ~\E r \in Requests : Negotiated(r)
  <2>1. Kept
    <3> HIDE DEF Kept
    <3>1. CASE Idles \/ Forgot \/ \E p, s \in Procs : Ended(p, s)
      <4>1. UNCHANGED cache
        BY <3>1 DEF Idles, Forgot, Ended, engines
      <4> QED
        BY <1>3, <3>1, <4>1 DEF Kept
    <3> QED
      BY <1>5, <1>6, <1>7, <1>8, <1>10, <3>1 DEF Effect, StartEffect, RestartEffect, Renewed
  <2> QED
    BY <2>1
<1> QED
  BY <1>9, <1>10

\* Every step keeps Opened.
LEMMA StepOpened ==
    ASSUME TypeOK, Refs, Base, Opened, Effect
    PROVE  Opened'
<1>a. neng \in Nat /\ neng' \in {neng, neng + 1} /\ neng' \in Nat
  BY EngineFrame DEF TypeOK, EnginesFrame
<1>b. EngUpTo \subseteq EngUpTo' /\ None \in EngUpTo'
  BY <1>a DEF EngUpTo
<1>c. \A e : NewEngine(e) => e \in EngUpTo'
  BY <1>a DEF NewEngine, EngUpTo
<1>1. ASSUME NEW r \in Requests PROVE req'[r].eng \in EngUpTo'
  <2>1. CASE Negotiated(r)
    BY <1>c, <2>1 DEF Negotiated
  <2>2. CASE req'[r].eng \in {req[r].eng, None}
    BY <1>b, <2>2 DEF Opened
  <2> QED
    BY <2>1, <2>2, EngineFrame DEF RequestsFrame
<1>2. ASSUME NEW c \in Cids PROVE cache'[c] \in EngUpTo'
  <2>1. ASSUME NEW r \in Requests, Negotiated(r) PROVE cache'[c] \in EngUpTo'
    <3>1. cache'[c] \in {cache[c], req'[r].eng}
      BY <2>1 DEF Negotiated
    <3> QED
      BY <1>1, <1>b, <3>1 DEF Opened
  <2>2. CASE UNCHANGED cache
    BY <1>b, <2>2 DEF Opened
  <2> QED
    BY <2>1, <2>2, EngineFrame
<1>3. ASSUME NEW s \in Procs PROVE sess'[s].cmd \in EngUpTo'
  <2>1. CASE sess'[s].cmd = sess[s].cmd
    BY <1>b, <2>1 DEF Opened
  <2>2. CASE Swapped(s)
    BY <1>b, <2>2 DEF Opened, Swapped
  <2>3. ASSUME NEW r \in Requests, Spawned(r, s) PROVE sess'[s].cmd \in EngUpTo'
    BY <1>b, <2>3 DEF Opened, Spawned
  <2> QED
    BY <2>1, <2>2, <2>3, Frame DEF SessionsFrame
<1>4. ASSUME NEW s \in Procs PROVE rst'[s].eng \in EngUpTo'
  <2>1. CASE rst'[s] = rst[s]
    BY <1>b, <2>1 DEF Opened
  <2>2. CASE Begun(s) \/ GaveUp(s) \/ Swapped(s)
    BY <1>b, <2>2 DEF Begun, GaveUp, Swapped
  <2>3. CASE FastFailed(s)
    BY <1>b, <2>3 DEF FastFailed, Opened
  <2>4. ASSUME NEW p \in Procs, FastTried(s, p) PROVE rst'[s].eng \in EngUpTo'
    <3>1. rst'[s].eng \in {sess[s].cmd, cache[sess[s].cid]} /\ sess[s].cid \in Cids
      BY <2>4, Referred DEF FastTried
    <3> QED
      BY <1>b, <3>1 DEF Opened
  <2>5. CASE Renewed(s)
    BY <1>c, <2>5 DEF Renewed, Raised, Renegotiated
  <2>6. ASSUME NEW r \in Requests, Spawned(r, s) PROVE rst'[s] = rst[s]
    BY <2>6 DEF Spawned
  <2> QED
    BY <2>1, <2>2, <2>3, <2>4, <2>5, <2>6, Frame DEF SessionsFrame, RestartEffect, Renewed
<1>5. ASSUME NEW t \in retiring' PROVE t[3] \in EngUpTo'
  <2>1. ASSUME NEW s \in Procs, Swapped(s) PROVE t[3] \in EngUpTo'
    <3>1. t \in retiring \/ t[3] = sess[s].cmd
      BY <2>1 DEF Swapped
    <3> QED
      BY <1>b, <3>1 DEF Opened
  <2>2. ASSUME NEW u \in retiring, Retired(u) PROVE t \in retiring
    BY <2>2 DEF Retired
  <2> QED
    BY <1>b, <2>1, <2>2, Frame DEF RetiringFrame, Opened
<1>6. open' \subseteq 1..neng'
  <2>1. open \subseteq 1..neng /\ open' \subseteq open \cup {neng'}
    BY EngineFrame DEF EnginesFrame, Opened
  <2>2. neng' # neng => neng' = neng + 1
    BY <1>a
  <2>3. neng' = neng => open' \subseteq open
    BY <1>a, EngineFrame DEF EnginesFrame
  <2>4. CASE neng' = neng
    BY <2>1, <2>3, <2>4
  <2>5. CASE neng' = neng + 1
    <3>1. ASSUME NEW e \in open' PROVE e \in 1..neng'
      <4>1. e \in 1..neng \/ e = neng + 1
        BY <2>1, <2>5, <3>1
      <4> QED
        BY <1>a, <2>5, <4>1
    <3> QED
      BY <3>1
  <2> QED
    BY <2>2, <2>4, <2>5
<1> QED
  BY <1>1, <1>2, <1>3, <1>4, <1>5, <1>6 DEF Opened

\* Who has engine session e: EngineSessionOwned, but that a request, or a restart, is
\* one only where it is still to stop it or to hand it over, or has raised.
Keeps(s) == Registered(s) \/ s \in dying \cup replaced

Asks(r) ==
    \/ req[r].pc \in {"decide", "spawn", "probe", "settle"}
    \/ req[r].pc = "discard" /\ req[r].rest \cap {"cancel", "stop"} # {}

BySession(e)  == \E s \in Procs : sess[s].cmd = e /\ Keeps(s)
ByAsker(e)    == \E r \in Requests : Asks(r) /\ req[r].eng = e
BySwap(e)     == \E s \in Procs : rst[s].pc \in {"swap", "raised"} /\ rst[s].eng = e
ByTailEng(e)  == \E t \in retiring : t[3] = e
Owned(e)      == BySession(e) \/ ByAsker(e) \/ BySwap(e) \/ ByTailEng(e)

\* Retire leaves the engine session to the session that still uses it: that is one
\* with somebody to stop it.
EngHands ==
    /\ \A e \in open : Owned(e)
    /\ \A t \in retiring : sess[t[1]].cmd \in open => Keeps(t[1])

\* A session that somebody is to stop stays so until its engine session is stopped.
LEMMA KeptStays ==
    ASSUME TypeOK, Refs, Base, Effect, NEW s \in Procs, Keeps(s), sess[s].cmd \in open'
    PROVE  \/ Swapped(s)
           \/ Keeps(s)' /\ sess'[s].cmd = sess[s].cmd
<1>1. s <= nproc /\ s # None /\ nproc \in Nat
  BY Referred DEF Keeps, Registered, Base, Known
<1>2. \A r \in Requests : ~Spawned(r, s)
  BY <1>1, Referred DEF Spawned, NewProcess
<1>3. Keeps(s)'
  <2>1. CASE UNCHANGED lists
    BY <2>1 DEF lists, Registered, Keeps
  <2>2. CASE Forgot
    <3>1. /\ \A c \in Cids : streams'[c] \in {streams[c], None}
          /\ dying' = dying \cup {streams[c] : c \in {d \in Cids : streams'[d] # streams[d]}}
          /\ UNCHANGED replaced
      BY <2>2 DEF Forgot
    <3> QED
      BY <3>1 DEF Registered, Keeps
  <2>3. ASSUME NEW u \in Procs, Killed(u) PROVE Keeps(s)'
    <3>1. u # s
      BY <2>3 DEF Killed
    <3> QED
      BY <2>3, <3>1 DEF Killed, Registered, Keeps
  <2>4. ASSUME NEW r \in Requests, Settled(r) PROVE Keeps(s)'
    <3>1. UNCHANGED dying
      BY <2>4 DEF Settled
    <3>2. CASE UNCHANGED <<streams, replaced>>
      BY <3>1, <3>2 DEF Registered, Keeps
    <3>3. CASE /\ \A c \in Cids : c # req[r].cid => streams'[c] = streams[c]
               /\ replaced' = replaced \cup ({streams[req[r].cid]} \ {None})
      BY <1>1, <3>1, <3>3 DEF Registered, Keeps
    <3> QED
      BY <2>4, <3>2, <3>3 DEF Settled
  <2> QED
    BY <2>1, <2>2, <2>3, <2>4, Frame DEF ListsFrame
<1> QED
  BY <1>2, <1>3, Frame DEF SessionsFrame

\* A restart has what it takes over.
LEMMA SwapKeeps ==
    ASSUME NEW s \in Procs, Swapped(s)
    PROVE  /\ Keeps(s)' /\ sess'[s].cmd = rst[s].eng
           /\ <<s, sess[s].proc, sess[s].cmd>> \in retiring'
  BY DEF Swapped, Current, Registered, Keeps, lists

\* The engine session of a kept session stays somebody's.
LEMMA SessionEngineStays ==
    ASSUME TypeOK, Refs, Base, Effect, NEW e, e \in open', BySession(e)
    PROVE  Owned(e)'
<1>1. PICK s \in Procs : sess[s].cmd = e /\ Keeps(s)
  BY DEF BySession
<1>2. CASE Swapped(s)
  <2>1. ByTailEng(e)'
    BY <1>1, <1>2, SwapKeeps DEF ByTailEng
  <2> QED
    BY <2>1 DEF Owned
<1>3. CASE Keeps(s)' /\ sess'[s].cmd = sess[s].cmd
  BY <1>1, <1>3 DEF BySession, Owned
<1> QED
  BY <1>1, <1>2, <1>3, KeptStays

\* What a request leaves to the registered session is that session's.
LEMMA LeftToStream ==
    ASSUME TypeOK, Refs, NEW r \in Requests, req[r].pc \in StartPCs, Spares(r),
           UNCHANGED <<sess, streams>>, "stop" \notin req'[r].rest, NEW e, req[r].eng = e
    PROVE  BySession(e)'
<1> DEFINE c == req[r].cid
<1>1. c \in Cids /\ streams[c] # None /\ e = sess[streams[c]].cmd
  BY Referred DEF Spares
<1>2. PICK s \in Procs : s = streams[c]
  BY <1>1, Referred
<1>3. Registered(s)'
  BY <1>1, <1>2 DEF Registered
<1> QED
  BY <1>1, <1>2, <1>3 DEF BySession, Keeps

\* The engine session that a request has negotiated does.
LEMMA AskedStays ==
    ASSUME TypeOK, Refs, Base, Effect, NEW e, e \in open', ByAsker(e)
    PROVE  Owned(e)'
<1>1. PICK r \in Requests : Asks(r) /\ req[r].eng = e
  BY DEF ByAsker
<1>2. req[r].pc \in StartPCs
  BY <1>1 DEF Asks, StartPCs
<1>3. ASSUME req'[r].eng = e, Asks(r)' PROVE Owned(e)'
  BY <1>3 DEF ByAsker, Owned
<1>4. CASE req'[r] = req[r]
  BY <1>1, <1>3, <1>4 DEF Asks
<1>5. CASE Passed(r) \/ ProbeLost(r) \/ \E p \in Procs : Spawned(r, p)
  BY <1>1, <1>3, <1>5 DEF Passed, ProbeLost, Spawned, Goes, Asks
<1>6. CASE Decided(r)
  <2>1. CASE Goes(r, "decide", "spawn")
    BY <1>1, <1>3, <1>6, <2>1 DEF Decided, Goes, Asks
  <2>2. CASE "stop" \in req'[r].rest /\ req'[r].pc = "discard"
    BY <1>1, <1>3, <1>6, <2>2 DEF Decided, Asks
  <2>3. CASE "stop" \notin req'[r].rest /\ Spares(r)
    BY <1>1, <1>2, <1>6, <2>3, LeftToStream DEF Decided, lists, works, Owned
  <2> QED
    BY <1>6, <2>1, <2>2, <2>3 DEF Decided, Goes
<1>7. CASE Settled(r)
  <2>1. req'[r].pc = "discard" /\ req'[r].eng = e /\ req[r].pc = "settle" /\ UNCHANGED sess
    BY <1>1, <1>7 DEF Settled, Goes, works
  <2>2. CASE "stop" \in req'[r].rest
    BY <1>3, <2>1, <2>2 DEF Asks
  <2>3. CASE "stop" \notin req'[r].rest /\ UNCHANGED streams /\ Spares(r)
    BY <1>1, <1>2, <2>1, <2>3, LeftToStream DEF Owned
  <2>4. CASE req[r].own # None /\ streams'[req[r].cid] = req[r].own
    <3>1. Mine(r) /\ req[r].cid \in Cids /\ req[r].own \in Procs
      BY <1>2, <2>1, <2>4, Referred DEF Mine
    <3>2. sess[req[r].own].cmd = e
      BY <1>1, <3>1 DEF Base, Sole, Alone
    <3>3. PICK s \in Procs : s = req[r].own
      BY <3>1
    <3>4. Registered(s)'
      BY <2>4, <3>1, <3>3 DEF Registered
    <3>5. BySession(e)'
      BY <2>1, <3>2, <3>3, <3>4 DEF BySession, Keeps
    <3> QED
      BY <3>5 DEF Owned
  <2> QED
    BY <1>7, <2>2, <2>3, <2>4 DEF Settled
<1>8. CASE Discarded(r)
  BY <1>1, <1>8 DEF Discarded, Goes, Asks
<1>9. CASE Negotiated(r)
  BY <1>1, <1>9 DEF Negotiated, Goes, Asks
<1> QED
  BY <1>2, <1>4, <1>5, <1>6, <1>7, <1>8, <1>9, StartFrame DEF StartEffect

\* The engine session that a restart has negotiated does.
LEMMA SwapEngineStays ==
    ASSUME TypeOK, Refs, Base, Effect, NEW e, e \in open', BySwap(e)
    PROVE  Owned(e)'
<1>1. PICK s \in Procs : rst[s].pc \in {"swap", "raised"} /\ rst[s].eng = e
  BY DEF BySwap
<1>2. CASE rst'[s] = rst[s]
  BY <1>1, <1>2 DEF BySwap, Owned
<1>3. CASE Begun(s)
  BY <1>1, <1>3 DEF Begun, Base, Restarts
<1>4. CASE GaveUp(s) \/ FastFailed(s) \/ Raised(s) \/ \E q \in Procs : FastTried(s, q) \/ Renegotiated(s, q)
  BY <1>1, <1>4 DEF GaveUp, FastFailed, Raised, FastTried, Renegotiated
<1>5. CASE Swapped(s)
  <2>1. BySession(e)'
    BY <1>1, <1>5, SwapKeeps DEF BySession, Swapped
  <2> QED
    BY <2>1 DEF Owned
<1>6. ASSUME NEW r \in Requests, Spawned(r, s) PROVE rst'[s] = rst[s]
  BY <1>6 DEF Spawned
<1> QED
  BY <1>2, <1>3, <1>4, <1>5, <1>6, Frame DEF SessionsFrame, RestartEffect

\* That of a process to be retired does, or the session still uses it.
LEMMA TailEngineStays ==
    ASSUME TypeOK, Refs, Base, EngHands, Effect, NEW e, e \in open, e \in open', ByTailEng(e)
    PROVE  Owned(e)'
<1>1. PICK t \in retiring : t[3] = e
  BY DEF ByTailEng
<1>2. CASE t \in retiring'
  BY <1>1, <1>2 DEF ByTailEng, Owned
<1>3. ASSUME NEW s \in Procs, Swapped(s) PROVE t \in retiring'
  BY <1>1, <1>3 DEF Swapped
<1>4. ASSUME NEW u \in retiring, Retired(u), u # t PROVE t \in retiring'
  BY <1>1, <1>4 DEF Retired
<1>5. CASE Retired(t)
  <2>1. sess[t[1]].cmd = e
    BY <1>1, <1>5 DEF Retired, StillUsed
  <2>2. t[1] \in Procs /\ Keeps(t[1])
    <3>1. Keeps(t[1])
      BY <1>1, <2>1 DEF EngHands
    <3>2. t \in Procs \X Procs \X Opt(Engs)
      BY <1>1 DEF TypeOK
    <3> QED
      BY <3>1, <3>2
  <2>3. BySession(e)
    BY <2>1, <2>2 DEF BySession
  <2> QED
    BY <2>3, SessionEngineStays
<1> QED
  BY <1>1, <1>2, <1>3, <1>4, <1>5, Frame DEF RetiringFrame

\* Every step keeps EngHands.
LEMMA StepEngHands ==
    ASSUME TypeOK, Refs, Base, Opened, EngHands, Effect
    PROVE  EngHands'
<1>1. ASSUME NEW e \in open', e \in open PROVE Owned(e)'
  BY <1>1, SessionEngineStays, AskedStays, SwapEngineStays, TailEngineStays DEF EngHands, Owned
<1>2. ASSUME NEW e \in open', e \notin open PROVE Owned(e)'
  <2>1. e = neng + 1
    BY <1>2, EngineFrame DEF EnginesFrame
  <2>2. ASSUME NEW r \in Requests, Negotiated(r), req'[r].eng = e PROVE Owned(e)'
    <3>1. Asks(r)'
      BY <2>2 DEF Negotiated, Goes, Asks
    <3> QED
      BY <2>2, <3>1 DEF ByAsker, Owned
  <2>3. ASSUME NEW s \in Procs, Renewed(s), rst'[s].eng = e PROVE Owned(e)'
    BY <2>3 DEF Renewed, Raised, Renegotiated, BySwap, Owned
  <2> QED
    BY <1>2, <2>1, <2>2, <2>3, EngineFrame DEF EnginesFrame
<1>3. ASSUME NEW t \in retiring', sess'[t[1]].cmd \in open' PROVE Keeps(t[1])'
  <2>1. ASSUME NEW s \in Procs, Swapped(s), t \notin retiring PROVE t[1] = s
    BY <1>3, <2>1 DEF Swapped
  <2>2. CASE t \in retiring
    <3>0. t \in Procs \X Procs \X Opt(Engs) /\ t[1] <= nproc
      BY <2>2 DEF TypeOK, Base, Known
    <3>1. PICK u \in Procs : u = t[1]
      BY <3>0
    <3>2. CASE Swapped(u)
      BY <3>1, <3>2, SwapKeeps DEF Keeps, Registered
    <3>3. \A r \in Requests : ~Spawned(r, u)
      BY <3>0, <3>1, Referred DEF Spawned, NewProcess
    <3>4. CASE sess'[u].cmd = sess[u].cmd
      <4>1. sess[u].cmd \in open
        <5>1. sess[u].cmd \in EngUpTo /\ neng \in Nat
          BY DEF Opened, TypeOK
        <5>2. sess[u].cmd # neng + 1
          BY <5>1, NoneAssumption DEF EngUpTo
        <5> QED
          BY <1>3, <3>1, <3>4, <5>2, EngineFrame DEF EnginesFrame
      <4>2. Keeps(u)
        BY <2>2, <3>1, <4>1 DEF EngHands
      <4>3. Keeps(u)' \/ Swapped(u)
        BY <1>3, <3>1, <3>4, <4>2, KeptStays
      <4> QED
        BY <3>1, <3>2, <4>3 DEF Keeps, Registered
    <3> QED
      BY <3>2, <3>3, <3>4, Frame DEF SessionsFrame
  <2>3. CASE t \notin retiring
    <3>1. PICK s \in Procs : Swapped(s)
      BY <1>3, <2>3, Frame DEF RetiringFrame, Retired
    <3>2. t[1] = s
      BY <2>1, <2>3, <3>1
    <3> QED
      BY <3>1, <3>2, SwapKeeps DEF Keeps, Registered
  <2> QED
    BY <2>2, <2>3
<1> QED
  BY <1>1, <1>2, <1>3 DEF EngHands

\* Whoever owns an engine session is one of those that EngineSessionOwned names.
LEMMA OwnedIsOwned == EngHands => EngineSessionOwned
  BY DEF EngHands, Owned, BySession, ByAsker, BySwap, ByTailEng, EngineSessionOwned,
         Forgotten, Keeps, Asks, InStart

\* Opened, of every reachable state.
LEMMA OpenedInvariant == Spec => []Opened
<1>1. Init => Opened
  <2> SUFFICES ASSUME Init PROVE Opened
    OBVIOUS
  <2>1. \A s \in Procs : sess[s].cmd = None /\ rst[s].eng = None
    BY DEF Init, NoSession, NoRestart
  <2>2. \A r \in Requests : req[r].eng = None
    BY DEF Init, NoRequest
  <2>3. retiring = {} /\ open = {} /\ \A c \in Cids : cache[c] = None
    BY DEF Init
  <2> QED
    BY <2>1, <2>2, <2>3 DEF Opened, EngUpTo
<1>2. Inv /\ Base /\ Opened /\ [Next]_vars => Opened'
  BY Effects, StepOpened DEF Inv
<1> QED
  BY <1>1, <1>2, BaseInvariant, Invariant, PTL DEF Spec

\* EngineSessionOwned, of every reachable state: each session that the engine holds, and
\* that has a command URL, is somebody's who is going to stop it, but for those of dead
\* sessions that a start replaced and those negotiated by a restart that then raised.
THEOREM EngineSessionsOwned == Spec => []EngineSessionOwned
<1>1. Init => EngHands
  BY DEF Init, EngHands
<1>2. Inv /\ Base /\ Opened /\ EngHands /\ [Next]_vars => EngHands'
  BY Effects, StepEngHands DEF Inv
<1>3. EngHands => EngineSessionOwned
  BY OwnedIsOwned
<1> QED
  BY <1>1, <1>2, <1>3, BaseInvariant, OpenedInvariant, Invariant, PTL DEF Spec

-------------------------------------------------------------------------------
(* Clients and restarts, where HLS is not lazy. *)

\* s is registered, or about to be.
Fresh(s) == Registered(s) \/ \E r \in Requests : Mine(r) /\ req[r].own = s

\* No drain reads for s.
Undrained(s) == \A p \in Procs : drain[p] # s

\* A drain reads the process that its session has; a restart is under way for a
\* session whose process has ended and has no drain; and so is a session closed.
DrainsCurrent == \A p \in Procs : drain[p] # None => sess[drain[p]].proc = p
RestartsDead  == \A s \in Procs : rst[s].pc # "none" => Undrained(s) /\ sess[s].proc \notin alive
ClosedDead    == \A s \in Procs : Fresh(s) /\ sess[s].closed =>
                     sess[s].proc \notin alive /\ Undrained(s) /\ rst[s].pc = "none"
Quiet == DrainsCurrent /\ RestartsDead /\ ClosedDead

\* What changes the processes, the drains and the flag that a session is closed.
FeedsFrame ==
    /\ \A p \in alive' : p \in alive \/ p = nproc + 1
    /\ \A p \in Procs :
          \/ drain'[p] = drain[p]
          \/ drain'[p] = None
          \/ drain'[p] = p /\ \E r \in Requests : Spawned(r, p)
          \/ \E s \in Procs : Swapped(s) /\ p = rst[s].proc /\ drain'[p] = s
    /\ \A s \in Procs :
          \/ sess'[s].closed = sess[s].closed
          \/ \E r \in Requests : ProbeLost(r) /\ req[r].own = s
          \/ \E r \in Requests : Spawned(r, s)
          \/ \E p \in Procs : Ended(p, s)
          \/ GaveUp(s) \/ Killed(s)

\* Every step keeps to that.
LEMMA FeedFrame ==
    ASSUME Effect
    PROVE  FeedsFrame
<1>1. CASE Idles \/ Forgot
  BY <1>1 DEF Idles, Forgot, works, feeds, FeedsFrame
<1>2. ASSUME NEW r \in Requests, Negotiated(r) \/ Decided(r) \/ Passed(r) \/ Settled(r) \/ Discarded(r)
      PROVE  FeedsFrame
  BY <1>2 DEF Negotiated, Decided, Passed, Settled, Discarded, works, feeds, FeedsFrame
<1>3. ASSUME NEW r \in Requests, ProbeLost(r) PROVE FeedsFrame
  <2>1. \A s \in Procs : sess'[s].closed = sess[s].closed \/ req[r].own = s
    BY <1>3 DEF ProbeLost, SameFields
  <2> QED
    BY <1>3, <2>1 DEF ProbeLost, FeedsFrame
<1>4. ASSUME NEW r \in Requests, NEW p \in Procs, Spawned(r, p) PROVE FeedsFrame
  <2>1. \A s \in Procs : sess'[s].closed = sess[s].closed \/ s = p
    BY <1>4 DEF Spawned, SameFields
  <2>2. \A q \in Procs : drain'[q] = drain[q] \/ (q = p /\ drain'[q] = p)
    BY <1>4 DEF Spawned
  <2>3. \A q \in alive' : q \in alive \/ q = nproc + 1
    BY <1>4 DEF Spawned, NewProcess
  <2> QED
    BY <1>4, <2>1, <2>2, <2>3 DEF FeedsFrame
<1>5. ASSUME NEW s \in Procs,
             \/ FastFailed(s) \/ Raised(s) \/ Upgraded(s) \/ GaveUp(s) \/ Swapped(s)
             \/ \E p \in Procs : FastTried(s, p) \/ Renegotiated(s, p) \/ Ended(p, s)
      PROVE  FeedsFrame
  <2>1. /\ OtherSessions(s)
        /\ \/ sess'[s].closed = sess[s].closed
           \/ GaveUp(s)
           \/ \E p \in Procs : Ended(p, s)
    BY <1>5 DEF FastFailed, Raised, Upgraded, Swapped, FastTried, Renegotiated, Ended, GaveUp, Begun, SameFields
  <2>2. \A u \in Procs : u # s => sess'[u].closed = sess[u].closed
    BY <2>1 DEF OtherSessions, SameFields
  <2>3. \A q \in alive' : q \in alive \/ q = nproc + 1
    BY <1>5 DEF FastFailed, Raised, Upgraded, Swapped, FastTried, Renegotiated, Ended, GaveUp, feeds, NewProcess
  <2>4. \A q \in Procs : drain'[q] \in {drain[q], None} \/ (Swapped(s) /\ q = rst[s].proc /\ drain'[q] = s)
    BY <1>5 DEF FastFailed, Raised, Upgraded, Swapped, FastTried, Renegotiated, Ended, GaveUp, feeds
  <2> QED
    BY <2>1, <2>2, <2>3, <2>4 DEF FeedsFrame
<1>6. ASSUME NEW s \in Procs, Killed(s) PROVE FeedsFrame
  <2>1. \A u \in Procs : sess'[u].closed = sess[u].closed \/ u = s
    BY <1>6 DEF Killed, SameFields
  <2> QED
    BY <1>6, <2>1 DEF Killed, FeedsFrame
<1>7. ASSUME NEW p \in Procs, Died(p) PROVE FeedsFrame
  BY <1>7 DEF Died, works, FeedsFrame
<1>8. ASSUME NEW t \in retiring, Retired(t) PROVE FeedsFrame
  BY <1>8 DEF Retired, FeedsFrame
<1> QED
  BY <1>1, <1>2, <1>3, <1>4, <1>5, <1>6, <1>7, <1>8 DEF Effect, StartEffect, RestartEffect

\* A session becomes fresh when it is spawned, and never again.
LEMMA FreshFrame ==
    ASSUME TypeOK, Refs, Base, Effect, NEW s \in Procs, Fresh(s)'
    PROVE  Fresh(s) \/ \E r \in Requests : Spawned(r, s)
<1>1. ASSUME Registered(s)' PROVE Fresh(s)
  <2>0. s # None
    BY Referred
  <2>1. CASE UNCHANGED streams
    BY <1>1, <2>1 DEF Registered, Fresh
  <2>2. CASE Forgot
    BY <1>1, <2>0, <2>2 DEF Forgot, Registered, Fresh
  <2>3. ASSUME NEW r \in Requests, Settled(r), req[r].own # None, streams'[req[r].cid] = req[r].own,
               \A c \in Cids : c # req[r].cid => streams'[c] = streams[c]
        PROVE  Fresh(s)
    <3>1. Mine(r)
      BY <2>3 DEF Settled, Goes, Mine
    <3> QED
      BY <1>1, <2>3, <3>1 DEF Registered, Fresh
  <2>4. ASSUME NEW r \in Requests, Settled(r) PROVE Fresh(s)
    BY <2>1, <2>3, <2>4 DEF Settled
  <2> QED
    BY <2>1, <2>2, <2>4, Frame DEF ListsFrame, lists, Killed
<1>2. ASSUME NEW r \in Requests, Mine(r)', req'[r].own = s, ~Spawned(r, s) PROVE Fresh(s)
  <2>1. CASE req'[r] = req[r]
    BY <1>2, <2>1 DEF Mine, Fresh
  <2>2. CASE Passed(r) \/ Settled(r)
    <3>1. req[r].own = s /\ s # None
      BY <1>2, <2>2, Referred DEF Passed, Settled, Goes
    <3>2. req[r].pc # "spawn"
      BY <3>1 DEF Base, Sole
    <3> QED
      BY <2>2, <3>1, <3>2 DEF Passed, Settled, Goes, Mine, Fresh
  <2>3. CASE Negotiated(r) \/ Decided(r) \/ ProbeLost(r) \/ Discarded(r) \/ \E p \in Procs : Spawned(r, p)
    BY <1>2, <2>3 DEF Negotiated, Decided, ProbeLost, Discarded, Spawned, Goes, Mine
  <2>4. req'[r].pc \in StartPCs
    BY <1>2 DEF Mine, StartPCs
  <2> QED
    BY <2>1, <2>2, <2>3, <2>4, StartFrame DEF StartEffect
<1> QED
  BY <1>1, <1>2 DEF Fresh

\* The process of a fresh session is one of those started so far.
LEMMA FreshProcess ==
    ASSUME TypeOK, Refs, Base, NEW s \in Procs, Fresh(s)
    PROVE  s <= nproc /\ sess[s].proc \in Nat /\ sess[s].proc <= nproc
<1>1. CASE Registered(s)
  BY <1>1, Referred DEF Registered
<1>2. ASSUME NEW r \in Requests, Mine(r), req[r].own = s PROVE s <= nproc /\ sess[s].proc = s /\ s \in Nat
  BY <1>2, Referred DEF Base, Sole, Alone, Mine
<1> QED
  BY <1>1, <1>2 DEF Fresh

\* A process that was not the new one is not started by a step.
LEMMA StaysDead ==
    ASSUME Effect, NEW p \in Nat, p <= nproc, nproc \in Nat, p \notin alive
    PROVE  p \notin alive'
<1>1. p # nproc + 1
  OBVIOUS
<1> QED
  BY <1>1, FeedFrame DEF FeedsFrame

\* A session that no drain reads for gets one with a new process only.
LEMMA StaysUndrained ==
    ASSUME TypeOK, Refs, Effect, NEW s \in Procs, Undrained(s), ~Swapped(s), s <= nproc
    PROVE  Undrained(s)'
<1> SUFFICES ASSUME NEW p \in Procs
             PROVE  drain'[p] # s
  BY DEF Undrained
<1>1. ASSUME NEW r \in Requests, Spawned(r, p) PROVE p # s
  BY <1>1, Referred DEF Spawned, NewProcess
<1>2. s # None
  BY Referred
<1> QED
  BY <1>1, <1>2, FeedFrame DEF FeedsFrame, Undrained

\* Every step keeps DrainsCurrent.
LEMMA StepDrainsCurrent ==
    ASSUME TypeOK, Refs, Base, Quiet, Effect
    PROVE  DrainsCurrent'
<1> SUFFICES ASSUME NEW p \in Procs, drain'[p] # None
             PROVE  sess'[drain'[p]].proc = p
  BY DEF DrainsCurrent
<1>1. CASE drain'[p] = drain[p]
  <2>1. PICK s \in Procs : s = drain[p] /\ s <= nproc
    BY <1>1, Referred
  <2>2. sess[s].proc = p
    BY <1>1, <2>1 DEF Quiet, DrainsCurrent
  <2>3. ~Swapped(s)
    <3>1. rst[s].pc = "none"
      BY <2>1 DEF Quiet, RestartsDead, Undrained
    <3> QED
      BY <3>1 DEF Swapped
  <2>4. \A r \in Requests : ~Spawned(r, s)
    BY <2>1, Referred DEF Spawned, NewProcess
  <2> QED
    BY <1>1, <2>1, <2>2, <2>3, <2>4, Frame DEF SessionsFrame
<1>2. ASSUME NEW r \in Requests, Spawned(r, p), drain'[p] = p PROVE sess'[drain'[p]].proc = p
  BY <1>2 DEF Spawned
<1>3. ASSUME NEW s \in Procs, Swapped(s), p = rst[s].proc, drain'[p] = s
      PROVE  sess'[drain'[p]].proc = p
  BY <1>3 DEF Swapped
<1> QED
  BY <1>1, <1>2, <1>3, FeedFrame DEF FeedsFrame

\* A drain that restarts, or closes, its session was the last to read for it, and the
\* process has ended.
LEMMA EndedDrain ==
    ASSUME TypeOK, Refs, Base, Quiet, NEW p \in Procs, NEW s \in Procs, Ended(p, s)
    PROVE  /\ s <= nproc /\ Undrained(s)' /\ rst[s].pc = "none"
           /\ sess'[s].proc = p /\ p \notin alive'
<1>1. drain[p] = s /\ s <= nproc /\ s # None
  BY Referred DEF Ended
<1>2. sess[s].proc = p
  BY <1>1 DEF Quiet, DrainsCurrent
<1>3. \A q \in Procs : drain'[q] # s
  BY <1>1, <1>2 DEF Ended, Quiet, DrainsCurrent
<1>4. rst[s].pc = "none"
  BY <1>1 DEF Quiet, RestartsDead, Undrained
<1> QED
  BY <1>1, <1>2, <1>3, <1>4 DEF Ended, Undrained, SameHoldings

\* Every step keeps RestartsDead.
LEMMA StepRestartsDead ==
    ASSUME ~Lazy, TypeOK, Refs, Base, Quiet, Effect
    PROVE  RestartsDead'
<1> SUFFICES ASSUME NEW s \in Procs, rst'[s].pc # "none"
             PROVE  Undrained(s)' /\ sess'[s].proc \notin alive'
  BY DEF RestartsDead
<1>1. ASSUME rst[s].pc # "none", ~Swapped(s) PROVE Undrained(s)' /\ sess'[s].proc \notin alive'
  <2>1. /\ s <= nproc /\ nproc \in Nat /\ sess[s].proc \in Nat /\ sess[s].proc <= nproc
        /\ Undrained(s) /\ sess[s].proc \notin alive
    BY <1>1, Referred DEF Quiet, RestartsDead
  <2>2. \A r \in Requests : ~Spawned(r, s)
    BY <2>1 DEF Spawned, NewProcess
  <2>3. sess'[s].proc = sess[s].proc
    BY <1>1, <2>2, Frame DEF SessionsFrame
  <2> QED
    BY <1>1, <2>1, <2>3, StaysDead, StaysUndrained
<1>2. ASSUME NEW p \in Procs, Ended(p, s) PROVE Undrained(s)' /\ sess'[s].proc \notin alive'
  BY <1>2, EndedDrain
<1>3. CASE RestartEffect(s)
  <2>1. rst[s].pc # "none" /\ ~Swapped(s)
    BY <1>3 DEF RestartEffect, GaveUp, FastFailed, Raised, Swapped, FastTried, Renegotiated
  <2> QED
    BY <1>1, <2>1
<1>4. CASE rst'[s] = rst[s]
  <2>1. ~Swapped(s)
    BY <1>4 DEF Swapped
  <2> QED
    BY <1>1, <1>4, <2>1
<1>5. ASSUME NEW r \in Requests, Spawned(r, s) PROVE rst'[s] = rst[s]
  BY <1>5 DEF Spawned
<1> QED
  BY <1>2, <1>3, <1>4, <1>5, Frame DEF SessionsFrame, Upgraded

\* Every step keeps ClosedDead.
LEMMA StepClosedDead ==
    ASSUME ~Lazy, TypeOK, Refs, Base, Quiet, Effect
    PROVE  ClosedDead'
<1> SUFFICES ASSUME NEW s \in Procs, Fresh(s)', sess'[s].closed
             PROVE  sess'[s].proc \notin alive' /\ Undrained(s)' /\ rst'[s].pc = "none"
  BY DEF ClosedDead
<1>1. \A r \in Requests : ~Spawned(r, s)
  BY DEF Spawned
<1>2. Fresh(s) /\ s <= nproc /\ sess[s].proc \in Nat /\ sess[s].proc <= nproc /\ nproc \in Nat
  BY <1>1, FreshFrame, FreshProcess, Referred
<1>3. CASE sess[s].closed
  <2>1. sess[s].proc \notin alive /\ Undrained(s) /\ rst[s].pc = "none"
    BY <1>2, <1>3 DEF Quiet, ClosedDead
  <2>2. ~RestartEffect(s) /\ ~Swapped(s)
    BY <2>1 DEF RestartEffect, GaveUp, FastFailed, Raised, Swapped, FastTried, Renegotiated
  <2>3. \A p \in Procs : ~Ended(p, s)
    BY <2>1 DEF Ended, Undrained
  <2>4. sess'[s].proc = sess[s].proc /\ rst'[s] = rst[s]
    BY <1>1, <2>2, <2>3, Frame DEF SessionsFrame, Upgraded
  <2> QED
    BY <1>2, <2>1, <2>2, <2>4, StaysDead, StaysUndrained
<1>4. ASSUME NEW p \in Procs, Ended(p, s)
      PROVE  sess'[s].proc \notin alive' /\ Undrained(s)' /\ rst'[s].pc = "none"
  <2>1. rst'[s] = rst[s] \/ Begun(s)
    BY <1>4 DEF Ended
  <2>2. ~sess[s].closed => ~Begun(s)
    BY DEF Begun
  <2> QED
    BY <1>3, <1>4, <2>1, <2>2, EndedDrain
<1>5. CASE GaveUp(s)
  <2>1. sess[s].proc \notin alive /\ Undrained(s) /\ ~Swapped(s)
    BY <1>5 DEF Quiet, RestartsDead, GaveUp, Swapped, lists, SameHoldings
  <2>2. sess'[s].proc = sess[s].proc /\ rst'[s].pc = "none"
    BY <1>5 DEF GaveUp, SameHoldings
  <2> QED
    BY <1>2, <2>1, <2>2, StaysDead, StaysUndrained
<1>6. ASSUME NEW r \in Requests, ProbeLost(r), req[r].own = s PROVE FALSE
  <2>1. Mine(r)
    BY <1>6, Referred DEF ProbeLost, Goes, Mine
  <2>2. Alone(r) /\ \A q \in Requests : q # r /\ Mine(q) => req[q].own # s
    BY <1>6, <2>1 DEF Base, Sole
  <2>3. ~Registered(s)'
    BY <1>6, <2>2 DEF ProbeLost, lists, Alone, Registered
  <2>4. \A q \in Requests : Mine(q)' => req'[q].own # s
    BY <1>6, <2>2 DEF ProbeLost, Goes, OtherRequests, Mine
  <2> QED
    BY <2>3, <2>4 DEF Fresh
<1>7. CASE Killed(s)
  <2>1. s \in dying /\ s # None
    BY <1>7, Referred DEF Killed
  <2>2. ~Registered(s)
    BY <2>1 DEF Base, Listed, Registered
  <2>3. \A r \in Requests : Mine(r) => req[r].own # s
    BY <2>1 DEF Base, Sole, Alone
  <2> QED
    BY <1>2, <2>2, <2>3 DEF Fresh
<1> QED
  BY <1>1, <1>3, <1>4, <1>5, <1>6, <1>7, FeedFrame DEF FeedsFrame

\* Quiet, of every reachable state, where HLS is not lazy.
LEMMA QuietInvariant == Spec => [](~Lazy => Quiet)
<1>1. Init => (~Lazy => Quiet)
  <2> SUFFICES ASSUME Init PROVE Quiet
    OBVIOUS
  <2>1. /\ \A p \in Procs : drain[p] = None
        /\ \A s \in Procs : rst[s].pc = "none" /\ ~sess[s].closed
    BY DEF Init, NoSession, NoRestart
  <2> QED
    BY <2>1 DEF Quiet, DrainsCurrent, RestartsDead, ClosedDead
<1>2. Inv /\ Base /\ (~Lazy => Quiet) /\ [Next]_vars => (~Lazy => Quiet)'
  BY Effects, StepDrainsCurrent, StepRestartsDead, StepClosedDead DEF Inv, Quiet
<1> QED
  BY <1>1, <1>2, BaseInvariant, Invariant, PTL DEF Spec

\* LiveStreamOpen, of every reachable state: where HLS is not lazy, whoever subscribes
\* to a registered session whose process runs is not turned away.
THEOREM LiveStreamsOpen == Spec => []LiveStreamOpen
<1>1. Inv /\ (~Lazy => Quiet) => LiveStreamOpen
  <2> SUFFICES ASSUME TypeOK, ~Lazy, Quiet, NEW c \in Cids, Live(c)
               PROVE  ~sess[streams[c]].closed
    BY DEF Inv, LiveStreamOpen
  <2>1. PICK s \in Procs : s = streams[c]
    BY DEF TypeOK, Opt, Live
  <2> QED
    BY <2>1 DEF Quiet, ClosedDead, Fresh, Registered, Live
<1> QED
  BY <1>1, QuietInvariant, Invariant, PTL

\* RestartsOnlyFailed, where HLS is not lazy: the process that a drain's restart
\* replaces has ended.  With lazy HLS it may still run (FFmpegManagerUpgrade.cfg).
THEOREM EagerRestartsOnlyFailed == ~Lazy => (Spec => RestartsOnlyFailed)
<1>1. ASSUME ~Lazy, Inv, Base, ~Lazy => Quiet, [Next]_vars, NEW s \in Procs,
             sess'[s].proc # sess[s].proc, sess[s].proc # None
      PROVE  sess[s].proc \notin alive
  <2>1. TypeOK /\ Refs /\ Effect
    BY <1>1, Effects DEF Inv
  <2>2. \A r \in Requests : ~Spawned(r, s)
    <3>1. ASSUME NEW r \in Requests, Spawned(r, s) PROVE FALSE
      <4>1. s > nproc
        BY <2>1, <3>1, Referred DEF Spawned, NewProcess
      <4> QED
        BY <1>1, <4>1 DEF Base, Known
    <3> QED
      BY <3>1
  <2>3. Swapped(s)
    BY <1>1, <2>1, <2>2, Frame DEF SessionsFrame
  <2> QED
    BY <1>1, <2>3 DEF Swapped, Quiet, RestartsDead
<1>2. ASSUME ~Lazy
      PROVE  Inv /\ Base /\ (~Lazy => Quiet) /\ [Next]_vars =>
                [\A s \in Procs :
                    rst[s].by = "drain" /\ sess'[s].proc # sess[s].proc /\ sess[s].proc # None
                       => sess[s].proc \notin alive]_vars
  BY <1>1, <1>2
<1>3. ASSUME ~Lazy PROVE Spec => RestartsOnlyFailed
  BY <1>2, <1>3, BaseInvariant, QuietInvariant, Invariant, PTL DEF Spec, RestartsOnlyFailed
<1> QED
  BY <1>3

-------------------------------------------------------------------------------
(* The engine session of a stream, without the session cache. *)

\* Session s has engine session e, or has something under way that ends it.
Uses(s, e) ==
    \/ sess[s].cmd = e \/ rst[s].eng = e
    \/ \E t \in retiring : t[1] = s /\ t[3] = e

\* Request r has negotiated e, and given it to no session.
Wants(r, e) == Asks(r) /\ ~Mine(r) /\ req[r].eng = e

\* Nobody else ends it.
Private ==
    /\ \A e \in Engs : \A s, u \in Procs : Uses(s, e) /\ Uses(u, e) => s = u
    /\ \A e \in Engs : \A s \in Procs, r \in Requests : ~(Uses(s, e) /\ Wants(r, e))
    /\ \A e \in Engs : \A q, r \in Requests : Wants(q, e) /\ Wants(r, e) => q = r

Usable(e) == e \in open \cup {None}

\* The engine still has what a session plays, what a restart or a start is going to
\* give to one; and nobody is registered once the manager is closed.
Plays       == \A s \in Procs : Fresh(s) => Usable(sess[s].cmd)
FastIsOld   == \A s \in Procs : rst[s].pc = "fast" => rst[s].eng = sess[s].cmd
SwapIsNew   ==
    \A s \in Procs : rst[s].pc = "swap" /\ rst[s].eng # None =>
        /\ Registered(s) => rst[s].eng \in open
        /\ \A t \in retiring : t[1] = s => t[3] # rst[s].eng
StartIsOpen == \A r \in Requests : req[r].pc \in {"decide", "spawn"} => Usable(req[r].eng)
ProbeDirect == \A r \in Requests : req[r].pc = "probe" => req[r].eng = None
ClosedEmpty == closed => \A c \in Cids : streams[c] = None
Serving == Plays /\ FastIsOld /\ SwapIsNew /\ StartIsOpen /\ ProbeDirect /\ ClosedEmpty

\* What stops an engine session.
StopFrame ==
    \A e \in open : e \notin open' =>
        \/ \E s \in Procs : GaveUp(s) /\ rst[s].pc \in {"fast", "swap"} /\ ~Current(s) /\ rst[s].eng = e
        \/ \E r \in Requests : Discarded(r) /\ Asks(r) /\ req[r].eng = e
        \/ \E t \in retiring : Retired(t) /\ ~StillUsed(t) /\ t[3] = e
        \/ \E s \in Procs : Killed(s) /\ sess[s].cmd = e

\* Nothing else does.
LEMMA StopsFrame ==
    ASSUME Effect
    PROVE  StopFrame
<1> SUFFICES ASSUME NEW e \in open, e \notin open'
             PROVE  \/ \E s \in Procs : GaveUp(s) /\ rst[s].pc \in {"fast", "swap"} /\ ~Current(s)
                                        /\ rst[s].eng = e
                    \/ \E r \in Requests : Discarded(r) /\ Asks(r) /\ req[r].eng = e
                    \/ \E t \in retiring : Retired(t) /\ ~StillUsed(t) /\ t[3] = e
                    \/ \E s \in Procs : Killed(s) /\ sess[s].cmd = e
  BY DEF StopFrame
<1>1. CASE Idles \/ Forgot \/ \E s, q \in Procs : Ended(q, s)
  BY <1>1 DEF Idles, Forgot, Ended, engines
<1>2. ASSUME NEW r \in Requests, NEW p \in Procs,
             \/ Negotiated(r) \/ Decided(r) \/ Passed(r) \/ ProbeLost(r) \/ Settled(r) \/ Spawned(r, p)
      PROVE  FALSE
  BY <1>2 DEF Negotiated, NewEngine, Decided, Passed, ProbeLost, Settled, Spawned, engines
<1>3. ASSUME NEW r \in Requests, Discarded(r) PROVE Asks(r) /\ req[r].eng = e
  BY <1>3 DEF Discarded, Goes, Asks
<1>4. ASSUME NEW s \in Procs, NEW p \in Procs,
             \/ FastFailed(s) \/ Raised(s) \/ Swapped(s) \/ FastTried(s, p) \/ Renegotiated(s, p)
             \/ Upgraded(s) \/ Died(s)
      PROVE  FALSE
  BY <1>4 DEF FastFailed, Raised, Swapped, FastTried, Renegotiated, NewEngine, Upgraded, Died, engines
<1>5. ASSUME NEW s \in Procs, GaveUp(s)
      PROVE  rst[s].pc \in {"fast", "swap"} /\ ~Current(s) /\ rst[s].eng = e
  BY <1>5 DEF GaveUp
<1>6. ASSUME NEW t \in retiring, Retired(t) PROVE ~StillUsed(t) /\ t[3] = e
  BY <1>6 DEF Retired
<1>7. ASSUME NEW s \in Procs, Killed(s) PROVE sess[s].cmd = e
  BY <1>7 DEF Killed
<1>8. ASSUME NEW s \in Procs, RestartEffect(s)
      PROVE  GaveUp(s)
  BY <1>4, <1>8 DEF RestartEffect
<1>9. ASSUME NEW r \in Requests, StartEffect(r)
      PROVE  Discarded(r)
  <2>1. \A p \in Procs : ~Spawned(r, p)
    BY <1>2
  <2>2. CASE Negotiated(r) \/ Decided(r) \/ Passed(r) \/ ProbeLost(r) \/ Settled(r)
    <3>1. e \in open'
      BY <2>2 DEF Negotiated, NewEngine, Decided, Passed, ProbeLost, Settled, engines
    <3> QED
      BY <3>1
  <2> QED
    BY <1>9, <2>1, <2>2 DEF StartEffect
<1>10. ASSUME NEW s \in Procs, Upgraded(s) \/ Died(s) PROVE FALSE
  BY <1>10 DEF Upgraded, Died, engines
<1> QED
  BY <1>1, <1>3, <1>5, <1>6, <1>7, <1>8, <1>9, <1>10 DEF Effect

\* What makes somebody the user of an engine session.
LEMMA UsersFrame ==
    ASSUME ~UseCache, TypeOK, Refs, Base, Opened, FastIsOld, ProbeDirect, Effect, NEW e \in Engs
    PROVE  /\ \A s \in Procs : Uses(s, e)' =>
                 \/ Uses(s, e)
                 \/ e = neng + 1 /\ Renewed(s)
                 \/ \E r \in Requests : Spawned(r, s) /\ req[r].eng = e
           /\ \A r \in Requests : Wants(r, e)' =>
                 \/ Wants(r, e)
                 \/ e = neng + 1 /\ Negotiated(r)
<1>0. e # None /\ e \in Nat
  BY NoneAssumption, NatAssumption DEF Engs
<1>1. ASSUME NEW s \in Procs, sess'[s].cmd = e, ~Uses(s, e)
      PROVE  \E r \in Requests : Spawned(r, s) /\ req[r].eng = e
  <2>1. ~Swapped(s)
    BY <1>1 DEF Swapped, Uses
  <2>2. sess'[s].cmd # sess[s].cmd
    BY <1>1 DEF Uses
  <2>3. PICK r \in Requests : Spawned(r, s)
    BY <2>1, <2>2, Frame DEF SessionsFrame
  <2> QED
    BY <1>1, <2>3 DEF Spawned
<1>2. ASSUME NEW s \in Procs, rst'[s].eng = e, ~Uses(s, e)
      PROVE  e = neng + 1 /\ Renewed(s)
  <2>1. rst'[s] # rst[s]
    BY <1>2 DEF Uses
  <2>2. ~Begun(s) /\ ~GaveUp(s) /\ ~Swapped(s)
    BY <1>0, <1>2 DEF Begun, GaveUp, Swapped
  <2>3. ~FastFailed(s)
    BY <1>0, <1>2 DEF FastFailed, Uses
  <2>4. \A p \in Procs : ~FastTried(s, p)
    BY <1>2 DEF FastTried, Uses
  <2>5. \A r \in Requests : ~Spawned(r, s)
    BY <2>1 DEF Spawned
  <2>6. Renewed(s)
    BY <2>1, <2>2, <2>3, <2>4, <2>5, Frame DEF SessionsFrame, RestartEffect, Renewed
  <2> QED
    BY <1>0, <1>2, <2>6 DEF Renewed, Raised, Renegotiated, NewEngine
<1>3. ASSUME NEW s \in Procs, NEW t \in retiring', t[1] = s, t[3] = e PROVE Uses(s, e)
  <2>1. ASSUME NEW u \in Procs, Swapped(u), t \notin retiring PROVE Uses(s, e)
    BY <1>3, <2>1 DEF Swapped, Uses
  <2>2. CASE t \in retiring
    BY <1>3, <2>2 DEF Uses
  <2> QED
    BY <1>3, <2>1, <2>2, Frame DEF RetiringFrame, Retired
<1>4. ASSUME NEW r \in Requests, Wants(r, e)'
      PROVE  Wants(r, e) \/ (e = neng + 1 /\ Negotiated(r))
  <2>1. CASE req'[r] = req[r]
    BY <1>4, <2>1 DEF Wants, Asks, Mine
  <2>2. CASE Negotiated(r)
    BY <1>0, <1>4, <2>2 DEF Negotiated, NewEngine, Wants
  <2>3. CASE Decided(r)
    <3>1. req[r].pc = "decide" /\ req[r].eng = e
      BY <1>4, <2>3 DEF Decided, Goes, Wants
    <3> QED
      BY <3>1 DEF Wants, Asks, Mine
  <2>4. CASE Passed(r)
    BY <1>4, <2>4 DEF Passed, Goes, Wants, Asks, Mine
  <2>5. CASE ProbeLost(r)
    BY <1>0, <1>4, <2>5 DEF ProbeLost, Goes, Wants, ProbeDirect
  <2>6. CASE Settled(r)
    <3>1. req[r].pc = "settle" /\ req[r].eng = e /\ req'[r].own = req[r].own /\ req'[r].pc = "discard"
      BY <1>4, <2>6 DEF Settled, Goes, Wants
    <3>2. req'[r].rest # {"serve"}
      BY <1>4, <3>1 DEF Wants, Asks
    <3>3. req[r].own = None
      BY <1>4, <2>6, <3>1, <3>2 DEF Settled, Wants, Mine
    <3> QED
      BY <3>1, <3>3 DEF Wants, Asks, Mine
  <2>7. CASE Discarded(r) \/ \E p \in Procs : Spawned(r, p)
    <3>1. CASE Discarded(r)
      BY <1>4, <3>1 DEF Discarded, Goes, Wants, Asks
    <3>2. ASSUME NEW p \in Procs, Spawned(r, p) PROVE FALSE
      <4>1. p # None
        BY Referred
      <4> QED
        BY <1>4, <3>2, <4>1 DEF Spawned, Goes, Wants, Asks, Mine
    <3> QED
      BY <2>7, <3>1, <3>2
  <2>8. req'[r].pc \in StartPCs
    BY <1>4 DEF Wants, Asks, StartPCs
  <2> QED
    BY <2>1, <2>2, <2>3, <2>4, <2>5, <2>6, <2>7, <2>8, StartFrame DEF StartEffect
<1> QED
  BY <1>1, <1>2, <1>3, <1>4 DEF Uses

\* What is used has been negotiated; a request about to spawn has nothing spawned.
LEMMA UsedIsOld ==
    ASSUME TypeOK, Base, Opened, NEW e \in Engs
    PROVE  /\ neng \in Nat
           /\ \A s \in Procs : Uses(s, e) => e # neng + 1
           /\ \A r \in Requests : req[r].eng = e => e # neng + 1
           /\ \A r \in Requests : req[r].pc \in {"decide", "spawn"} /\ req[r].eng = e => Wants(r, e)
<1>1. neng \in Nat /\ neng + 1 \notin EngUpTo
  BY NoneAssumption DEF TypeOK, EngUpTo
<1>2. ASSUME NEW s \in Procs, Uses(s, e) PROVE e # neng + 1
  BY <1>1, <1>2 DEF Uses, Opened
<1>3. ASSUME NEW r \in Requests, req[r].eng = e PROVE e # neng + 1
  BY <1>1, <1>3 DEF Opened
<1>4. ASSUME NEW r \in Requests, req[r].pc \in {"decide", "spawn"}, req[r].eng = e PROVE Wants(r, e)
  BY <1>4 DEF Wants, Asks, Mine
<1> QED
  BY <1>1, <1>2, <1>3, <1>4

\* Every step keeps Private.
LEMMA StepPrivate ==
    ASSUME ~UseCache, TypeOK, Refs, Base, Opened, Private, Serving, Effect
    PROVE  Private'
<1> SUFFICES ASSUME NEW e \in Engs
             PROVE  /\ \A s, u \in Procs : Uses(s, e)' /\ Uses(u, e)' => s = u
                    /\ \A s \in Procs, r \in Requests : ~(Uses(s, e)' /\ Wants(r, e)')
                    /\ \A q, r \in Requests : Wants(q, e)' /\ Wants(r, e)' => q = r
  BY DEF Private
<1>a. /\ \A s \in Procs : Uses(s, e)' =>
            \/ Uses(s, e)
            \/ e = neng + 1 /\ Renewed(s)
            \/ \E r \in Requests : Spawned(r, s) /\ req[r].eng = e
      /\ \A r \in Requests : Wants(r, e)' =>
            \/ Wants(r, e)
            \/ e = neng + 1 /\ Negotiated(r)
  BY UsersFrame DEF Serving
<1>b. /\ \A s, u \in Procs : Uses(s, e) /\ Uses(u, e) => s = u
      /\ \A s \in Procs, r \in Requests : ~(Uses(s, e) /\ Wants(r, e))
      /\ \A q, r \in Requests : Wants(q, e) /\ Wants(r, e) => q = r
  BY DEF Private
<1>c. ASSUME NEW r \in Requests, NEW s \in Procs, Spawned(r, s), req[r].eng = e
      PROVE  e # neng + 1 /\ Wants(r, e) /\ ~Wants(r, e)' /\ s = nproc + 1
  <2>1. e # neng + 1 /\ Wants(r, e)
    BY <1>c, UsedIsOld DEF Spawned, Goes
  <2>2. Mine(r)'
    BY <1>c, Referred DEF Spawned, Goes, Mine
  <2> QED
    BY <1>c, <2>1, <2>2 DEF Spawned, NewProcess, Wants
<1>d. ASSUME NEW s \in Procs, Renewed(s)
      PROVE  /\ \A u \in Procs : Renewed(u) => u = s
             /\ \A r \in Requests : ~Negotiated(r)
  <2>1. ASSUME NEW u \in Procs, Renewed(u)
        PROVE  /\ rst[u].pc = "negotiate" /\ rst'[u].pc \in {"swap", "raised"}
               /\ OtherSessions(u) /\ UNCHANGED req
    BY <2>1 DEF Renewed, Raised, Renegotiated
  <2> QED
    BY <1>d, <2>1 DEF OtherSessions, Negotiated, Goes
<1>e. ASSUME NEW q \in Requests, NEW r \in Requests, Negotiated(q), Negotiated(r)
      PROVE  q = r
  BY <1>e DEF Negotiated, Goes, OtherRequests
<1>f. /\ \A s \in Procs : Uses(s, e) => e # neng + 1
      /\ \A r \in Requests : Wants(r, e) => e # neng + 1
  BY UsedIsOld DEF Wants
<1>1. ASSUME NEW s \in Procs, NEW u \in Procs, Uses(s, e)', Uses(u, e)' PROVE s = u
  <2>1. CASE e = neng + 1
    BY <1>1, <1>a, <1>c, <1>d, <1>f, <2>1
  <2>2. CASE e # neng + 1
    BY <1>1, <1>a, <1>b, <1>c, <2>2
  <2> QED
    BY <2>1, <2>2
<1>2. ASSUME NEW s \in Procs, NEW r \in Requests, Uses(s, e)', Wants(r, e)' PROVE FALSE
  <2>1. CASE e = neng + 1
    BY <1>2, <1>a, <1>c, <1>d, <1>f, <2>1
  <2>2. CASE e # neng + 1
    BY <1>2, <1>a, <1>b, <1>c, <2>2
  <2> QED
    BY <2>1, <2>2
<1>3. ASSUME NEW q \in Requests, NEW r \in Requests, Wants(q, e)', Wants(r, e)' PROVE q = r
  BY <1>3, <1>a, <1>b, <1>e, <1>f
<1> QED
  BY <1>1, <1>2, <1>3

\* A fresh session is not being killed, and is restarted only if registered.
LEMMA FreshFacts ==
    ASSUME Base, NEW s \in Procs, s # None, Fresh(s)
    PROVE  s \notin dying /\ (rst[s].pc # "none" => Registered(s))
<1>1. CASE Registered(s)
  BY <1>1 DEF Registered, Base, Listed
<1>2. ASSUME NEW r \in Requests, Mine(r), req[r].own = s
      PROVE  s \notin dying /\ rst[s].pc = "none"
  BY <1>2 DEF Base, Sole, Alone, Restarts
<1> QED
  BY <1>1, <1>2 DEF Fresh

\* No step stops an engine session that a request still decides about.
LEMMA WantedStays ==
    ASSUME TypeOK, Refs, Base, Private, Effect, NEW e \in Engs, e \in open,
           NEW r \in Requests, Wants(r, e), ~Discarded(r)
    PROVE  e \in open'
<1> SUFFICES ASSUME e \notin open' PROVE FALSE
  OBVIOUS
<1>1. ASSUME NEW s \in Procs, Uses(s, e) PROVE FALSE
  BY <1>1 DEF Private
<1>2. ASSUME NEW q \in Requests, Discarded(q), Asks(q), req[q].eng = e PROVE FALSE
  <2>1. CASE Mine(q)
    <3>1. sess[req[q].own].cmd = e /\ req[q].own \in Procs
      BY <1>2, <2>1, Referred DEF Base, Sole, Alone, Mine
    <3> QED
      BY <1>1, <3>1 DEF Uses
  <2>2. CASE ~Mine(q)
    <3>1. Wants(q, e)
      BY <1>2, <2>2 DEF Wants
    <3> QED
      BY <1>2, <3>1 DEF Private
  <2> QED
    BY <2>1, <2>2
<1>3. ASSUME NEW t \in retiring, t[3] = e PROVE FALSE
  <2>1. t[1] \in Procs
    BY <1>3 DEF TypeOK
  <2> QED
    BY <1>1, <1>3, <2>1 DEF Uses
<1> QED
  BY <1>1, <1>2, <1>3, StopsFrame DEF StopFrame, Uses

\* Nor one that a session has which is registered or about to be and stays so.
LEMMA PlayedStays ==
    ASSUME TypeOK, Refs, Base, Private, Serving, Effect, NEW e \in Engs, e \in open,
           NEW s \in Procs, Fresh(s), Fresh(s)', sess[s].cmd = e
    PROVE  e \in open'
<1> SUFFICES ASSUME e \notin open' PROVE FALSE
  OBVIOUS
<1>0. Uses(s, e) /\ s # None /\ \A u \in Procs : Uses(u, e) => u = s
  BY Referred DEF Private, Uses
<1>1. ASSUME NEW u \in Procs, GaveUp(u), rst[u].pc \in {"fast", "swap"}, ~Current(u), rst[u].eng = e
      PROVE  FALSE
  <2>1. u = s
    BY <1>0, <1>1 DEF Uses
  <2>2. Registered(s)
    BY <1>0, <1>1, <2>1, FreshFacts
  <2>3. ~closed
    BY <1>0, <2>2 DEF Serving, ClosedEmpty, Registered
  <2> QED
    BY <1>1, <2>1, <2>2, <2>3 DEF Current
<1>2. ASSUME NEW q \in Requests, Discarded(q), Asks(q), req[q].eng = e PROVE FALSE
  <2>1. CASE Mine(q)
    <3>1. sess[req[q].own].cmd = e /\ req[q].own \in Procs /\ Alone(q)
      BY <1>2, <2>1, Referred DEF Base, Sole, Alone, Mine
    <3>2. req[q].own = s
      BY <1>0, <3>1 DEF Uses
    <3>3. ~Registered(s)'
      BY <1>2, <3>1, <3>2 DEF Discarded, lists, Alone, Registered
    <3>4. \A r \in Requests : r # q /\ Mine(r) => req[r].own # s
      BY <2>1, <3>2 DEF Base, Sole
    <3>5. \A r \in Requests : Mine(r)' => req'[r].own # s
      BY <1>2, <3>4 DEF Discarded, Goes, OtherRequests, Mine
    <3> QED
      BY <3>3, <3>5 DEF Fresh
  <2>2. CASE ~Mine(q)
    <3>1. Wants(q, e)
      BY <1>2, <2>2 DEF Wants
    <3> QED
      BY <1>0, <3>1 DEF Private
  <2> QED
    BY <2>1, <2>2
<1>3. ASSUME NEW t \in retiring, ~StillUsed(t), t[3] = e PROVE FALSE
  <2>1. t[1] \in Procs
    BY <1>3 DEF TypeOK
  <2>2. t[1] = s
    BY <1>0, <1>3, <2>1 DEF Uses
  <2> QED
    BY <1>3, <2>2 DEF StillUsed
<1>4. ASSUME NEW u \in Procs, Killed(u), sess[u].cmd = e PROVE FALSE
  <2>1. u = s /\ u \in dying
    BY <1>0, <1>4 DEF Uses, Killed
  <2> QED
    BY <1>0, <2>1, FreshFacts
<1> QED
  BY <1>1, <1>2, <1>3, <1>4, StopsFrame DEF StopFrame

\* Nor one that a restart is going to give to a registered session.
LEMMA SwappingStays ==
    ASSUME TypeOK, Refs, Base, Private, Serving, Effect, NEW e \in Engs, e \in open,
           NEW s \in Procs, Registered(s), rst[s].pc = "swap", rst[s].eng = e, rst'[s] = rst[s]
    PROVE  e \in open'
<1> SUFFICES ASSUME e \notin open' PROVE FALSE
  OBVIOUS
<1>0. Uses(s, e) /\ s # None /\ \A u \in Procs : Uses(u, e) => u = s
  BY Referred DEF Private, Uses
<1>1. ASSUME NEW u \in Procs, GaveUp(u), rst[u].eng = e PROVE FALSE
  <2>1. u = s
    BY <1>0, <1>1 DEF Uses
  <2> QED
    BY <1>1, <2>1 DEF GaveUp
<1>2. ASSUME NEW q \in Requests, Asks(q), req[q].eng = e PROVE FALSE
  <2>1. CASE Mine(q)
    <3>1. sess[req[q].own].cmd = e /\ req[q].own \in Procs /\ Alone(q)
      BY <1>2, <2>1, Referred DEF Base, Sole, Alone, Mine
    <3>2. req[q].own = s
      BY <1>0, <3>1 DEF Uses
    <3> QED
      BY <3>1, <3>2 DEF Alone, Registered
  <2>2. CASE ~Mine(q)
    <3>1. Wants(q, e)
      BY <1>2, <2>2 DEF Wants
    <3> QED
      BY <1>0, <3>1 DEF Private
  <2> QED
    BY <2>1, <2>2
<1>3. ASSUME NEW t \in retiring, t[3] = e PROVE FALSE
  <2>1. t[1] \in Procs
    BY <1>3 DEF TypeOK
  <2>2. t[1] = s
    BY <1>0, <1>3, <2>1 DEF Uses
  <2>3. e # None
    BY NoneAssumption, NatAssumption DEF Engs
  <2> QED
    BY <1>3, <2>2, <2>3 DEF Serving, SwapIsNew
<1>4. ASSUME NEW u \in Procs, Killed(u), sess[u].cmd = e PROVE FALSE
  <2>1. u = s /\ u \in dying
    BY <1>0, <1>4 DEF Uses, Killed
  <2> QED
    BY <1>0, <2>1, FreshFacts DEF Fresh
<1> QED
  BY <1>1, <1>2, <1>3, <1>4, StopsFrame DEF StopFrame

\* Every step keeps Plays.
LEMMA StepPlays ==
    ASSUME ~UseCache, TypeOK, Refs, Base, Opened, Private, Serving, Effect
    PROVE  Plays'
<1> SUFFICES ASSUME NEW s \in Procs, Fresh(s)'
             PROVE  sess'[s].cmd \in open' \cup {None}
  BY DEF Plays, Usable
<1>1. ASSUME NEW r \in Requests, Spawned(r, s)
      PROVE  sess'[s].cmd \in open' \cup {None}
  <2>1. req[r].pc = "spawn" /\ sess'[s].cmd = req[r].eng /\ UNCHANGED open
    BY <1>1 DEF Spawned, Goes, engines
  <2> QED
    BY <2>1 DEF Serving, StartIsOpen, Usable
<1>2. CASE Swapped(s)
  <2>1. /\ rst[s].pc \in {"fast", "swap"} /\ Registered(s) /\ sess'[s].cmd = rst[s].eng
        /\ UNCHANGED open
    BY <1>2 DEF Swapped, Current, engines
  <2>2. CASE rst[s].pc = "fast"
    BY <2>1, <2>2 DEF Serving, FastIsOld, Plays, Usable, Fresh
  <2>3. CASE rst[s].pc = "swap"
    BY <2>1, <2>3 DEF Serving, SwapIsNew
  <2> QED
    BY <2>1, <2>2, <2>3
<1>3. ASSUME sess'[s].cmd = sess[s].cmd, Fresh(s), sess[s].cmd # None
      PROVE  sess'[s].cmd \in open'
  <2>1. sess[s].cmd \in open
    BY <1>3 DEF Serving, Plays, Usable
  <2>2. sess[s].cmd \in Engs
    BY <2>1 DEF TypeOK
  <2>3. PICK e \in Engs : e = sess[s].cmd
    BY <2>2
  <2> QED
    BY <1>3, <2>1, <2>3, PlayedStays
<1> QED
  BY <1>1, <1>2, <1>3, Frame, FreshFrame DEF SessionsFrame

\* Every step keeps FastIsOld.
LEMMA StepFastIsOld ==
    ASSUME ~UseCache, TypeOK, Refs, Base, Serving, Effect
    PROVE  FastIsOld'
<1> SUFFICES ASSUME NEW s \in Procs, rst'[s].pc = "fast"
             PROVE  rst'[s].eng = sess'[s].cmd
  BY DEF FastIsOld
<1>1. ASSUME NEW p \in Procs, FastTried(s, p) PROVE rst'[s].eng = sess'[s].cmd
  BY <1>1 DEF FastTried, SameFields
<1>2. CASE rst'[s] = rst[s]
  <2>1. ~Swapped(s)
    BY <1>2 DEF Swapped
  <2>2. \A r \in Requests : ~Spawned(r, s)
    BY <1>2, Referred DEF Spawned, NewProcess
  <2> QED
    BY <1>2, <2>1, <2>2, Frame DEF SessionsFrame, Serving, FastIsOld
<1>3. ~Begun(s) /\ ~GaveUp(s) /\ ~FastFailed(s) /\ ~Swapped(s) /\ ~Renewed(s)
  BY DEF Begun, GaveUp, FastFailed, Swapped, Renewed, Raised, Renegotiated
<1>4. ASSUME NEW r \in Requests, Spawned(r, s) PROVE rst'[s] = rst[s]
  BY <1>4 DEF Spawned
<1> QED
  BY <1>1, <1>2, <1>3, <1>4, Frame DEF SessionsFrame, RestartEffect, Renewed

\* Every step keeps SwapIsNew.
LEMMA StepSwapIsNew ==
    ASSUME ~UseCache, TypeOK, Refs, Base, Opened, Private, Serving, Effect
    PROVE  SwapIsNew'
<1> SUFFICES ASSUME NEW s \in Procs, rst'[s].pc = "swap", rst'[s].eng # None
             PROVE  /\ Registered(s)' => rst'[s].eng \in open'
                    /\ \A t \in retiring' : t[1] = s => t[3] # rst'[s].eng
  BY DEF SwapIsNew
<1>1. ASSUME NEW p \in Procs, Renegotiated(s, p)
      PROVE  /\ rst'[s].eng \in open'
             /\ \A t \in retiring' : t[1] = s => t[3] # rst'[s].eng
  <2>1. rst'[s].eng = neng + 1 /\ rst'[s].eng \in open' /\ UNCHANGED retiring
    BY <1>1 DEF Renegotiated, NewEngine
  <2>2. neng \in Nat
    BY DEF TypeOK
  <2>3. \A t \in retiring : t[3] # neng + 1
    BY <2>2, NoneAssumption DEF Opened, EngUpTo
  <2> QED
    BY <2>1, <2>3
<1>2. CASE rst'[s] = rst[s]
  <2>1. /\ Registered(s) => rst[s].eng \in open
        /\ \A t \in retiring : t[1] = s => t[3] # rst[s].eng
    BY <1>2 DEF Serving, SwapIsNew
  <2>2. Registered(s)' => Registered(s)
    <3>1. ASSUME Fresh(s) PROVE Registered(s)
      <4>1. s # None
        BY Referred
      <4> QED
        BY <1>2, <3>1, <4>1, FreshFacts
    <3>2. \A r \in Requests : ~Spawned(r, s)
      BY <1>2, Referred DEF Spawned, NewProcess
    <3>3. Registered(s)' => Fresh(s)'
      BY DEF Fresh
    <3> QED
      BY <3>1, <3>2, <3>3, FreshFrame
  <2>3. ASSUME Registered(s)' PROVE rst'[s].eng \in open'
    <3>1. rst[s].eng \in open /\ Registered(s)
      BY <2>1, <2>2, <2>3
    <3>2. PICK e \in Engs : e = rst[s].eng
      BY <3>1 DEF TypeOK
    <3> QED
      BY <1>2, <3>1, <3>2, SwappingStays
  <2>4. ASSUME NEW t \in retiring', t[1] = s PROVE t[3] # rst'[s].eng
    <3>1. ASSUME NEW u \in Procs, Swapped(u) PROVE t \in retiring
      <4>1. u # s
        BY <1>2, <3>1 DEF Swapped
      <4> QED
        BY <2>4, <3>1, <4>1 DEF Swapped
    <3>2. t \in retiring
      BY <2>4, <3>1, Frame DEF RetiringFrame, Retired
    <3> QED
      BY <1>2, <2>1, <2>4, <3>2
  <2> QED
    BY <2>3, <2>4
<1>3. /\ ~Begun(s) /\ ~GaveUp(s) /\ ~FastFailed(s) /\ ~Raised(s) /\ ~Swapped(s)
      /\ \A p \in Procs : ~FastTried(s, p)
  BY DEF Begun, GaveUp, FastFailed, Raised, Swapped, FastTried
<1>4. ASSUME NEW r \in Requests, Spawned(r, s) PROVE rst'[s] = rst[s]
  BY <1>4 DEF Spawned
<1> QED
  BY <1>1, <1>2, <1>3, <1>4, Frame DEF SessionsFrame, RestartEffect

\* Every step keeps StartIsOpen.
LEMMA StepStartIsOpen ==
    ASSUME TypeOK, Refs, Base, Opened, Private, Serving, Effect
    PROVE  StartIsOpen'
<1> SUFFICES ASSUME NEW r \in Requests, req'[r].pc \in {"decide", "spawn"}
             PROVE  req'[r].eng \in open' \cup {None}
  BY DEF StartIsOpen, Usable
<1>1. CASE Negotiated(r)
  BY <1>1 DEF Negotiated, NewEngine
<1>2. ASSUME req[r].pc \in {"decide", "spawn"}, req'[r].eng = req[r].eng, ~Discarded(r),
             req[r].eng # None
      PROVE  req'[r].eng \in open'
  <2>1. req[r].eng \in open
    BY <1>2 DEF Serving, StartIsOpen, Usable
  <2>2. PICK e \in Engs : e = req[r].eng
    BY <2>1 DEF TypeOK
  <2>3. Wants(r, e)
    BY <1>2, <2>2, UsedIsOld
  <2> QED
    BY <1>2, <2>1, <2>2, <2>3, WantedStays
<1>3. CASE req'[r] = req[r]
  BY <1>2, <1>3 DEF Discarded, Goes
<1>4. CASE Decided(r)
  BY <1>2, <1>4 DEF Decided, Discarded, Goes
<1>5. ~Passed(r) /\ ~ProbeLost(r) /\ ~Settled(r) /\ ~Discarded(r) /\ \A p \in Procs : ~Spawned(r, p)
  BY DEF Passed, ProbeLost, Settled, Discarded, Spawned, Goes
<1> QED
  BY <1>1, <1>3, <1>4, <1>5, StartFrame DEF StartPCs, StartEffect

\* Every step keeps ProbeDirect.
LEMMA StepProbeDirect ==
    ASSUME Serving, Effect
    PROVE  ProbeDirect'
<1> SUFFICES ASSUME NEW r \in Requests, req'[r].pc = "probe"
             PROVE  req'[r].eng = None
  BY DEF ProbeDirect
<1>1. CASE req'[r] = req[r]
  BY <1>1 DEF Serving, ProbeDirect
<1>2. ASSUME NEW p \in Procs, Spawned(r, p) PROVE req'[r].eng = None
  BY <1>2 DEF Spawned, Goes
<1>3. /\ ~Negotiated(r) /\ ~Decided(r) /\ ~Passed(r) /\ ~ProbeLost(r) /\ ~Settled(r) /\ ~Discarded(r)
  BY DEF Negotiated, Decided, Passed, ProbeLost, Settled, Discarded, Goes
<1> QED
  BY <1>1, <1>2, <1>3, StartFrame DEF StartPCs, StartEffect

\* Every step keeps ClosedEmpty.
LEMMA StepClosedEmpty ==
    ASSUME TypeOK, Refs, Base, Serving, Effect
    PROVE  ClosedEmpty'
<1>1. CASE UNCHANGED lists \/ \E s \in Procs : Killed(s)
  BY <1>1 DEF lists, Killed, Serving, ClosedEmpty
<1>2. CASE Forgot
  BY <1>2 DEF Forgot, Serving, ClosedEmpty
<1>3. ASSUME NEW r \in Requests, Settled(r) PROVE ClosedEmpty'
  BY <1>3 DEF Settled, Serving, ClosedEmpty
<1> QED
  BY <1>1, <1>2, <1>3, Frame DEF ListsFrame

\* Both, of every reachable state, without the session cache.
LEMMA ServingInvariant == Spec => [](~UseCache => Private /\ Serving)
<1>1. Init => (~UseCache => Private /\ Serving)
  <2> SUFFICES ASSUME Init PROVE Private /\ Serving
    OBVIOUS
  <2>1. /\ \A s \in Procs : /\ sess[s].cmd = None
                            /\ rst[s].pc = "none" /\ rst[s].eng = None
        /\ \A r \in Requests : req[r].pc = "new" /\ req[r].own = None
        /\ retiring = {} /\ ~closed
        /\ \A c \in Cids : streams[c] = None
    BY DEF Init, NoSession, NoRestart, NoRequest
  <2>2. \A e \in Engs : e # None
    BY NoneAssumption, NatAssumption DEF Engs
  <2>3. /\ \A e \in Engs : \A s \in Procs : ~Uses(s, e)
        /\ \A e : \A r \in Requests : ~Wants(r, e)
    BY <2>1, <2>2 DEF Uses, Wants, Asks
  <2>4. Private
    BY <2>3 DEF Private
  <2>5. Serving
    BY <2>1 DEF Serving, Plays, FastIsOld, SwapIsNew, StartIsOpen, ProbeDirect, ClosedEmpty, Usable
  <2> QED
    BY <2>4, <2>5
<1>2. ASSUME ~UseCache, TypeOK, Refs, Base, Opened, Private, Serving, Effect
      PROVE  (Private /\ Serving)'
  <2>1. Private'
    BY <1>2, StepPrivate
  <2>2. Plays' /\ FastIsOld' /\ SwapIsNew' /\ StartIsOpen' /\ ProbeDirect' /\ ClosedEmpty'
    BY <1>2, StepPlays, StepFastIsOld, StepSwapIsNew, StepStartIsOpen, StepProbeDirect, StepClosedEmpty
  <2> QED
    BY <2>1, <2>2 DEF Serving
<1>3. Inv /\ Base /\ Opened /\ (~UseCache => Private /\ Serving) /\ [Next]_vars
        => (~UseCache => Private /\ Serving)'
  BY <1>2, Effects DEF Inv
<1> QED
  BY <1>1, <1>3, BaseInvariant, OpenedInvariant, Invariant, PTL DEF Spec

\* LiveStreamHasEngine, of every reachable state: without the session cache no start,
\* restart, retired process or kill stops the engine session of a stream that plays.
THEOREM LiveStreamsHaveEngine == Spec => []LiveStreamHasEngine
<1>1. Inv /\ (~UseCache => Private /\ Serving) => LiveStreamHasEngine
  <2> SUFFICES ASSUME TypeOK, Serving, NEW c \in Cids, Live(c)
               PROVE  sess[streams[c]].cmd \in open \cup {None}
    BY DEF Inv, LiveStreamHasEngine
  <2>1. PICK s \in Procs : s = streams[c]
    BY DEF TypeOK, Opt, Live
  <2> QED
    BY <2>1 DEF Serving, Plays, Usable, Fresh, Registered
<1> QED
  BY <1>1, ServingInvariant, Invariant, PTL

===============================================================================
