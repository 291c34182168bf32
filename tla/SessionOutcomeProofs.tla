------------------------ MODULE SessionOutcomeProofs ------------------------
(***************************************************************************)
(* What the row of a closed session says of it, for any number of          *)
(* sessions, invocations, decoys, crashes and failures: the marker of the  *)
(* sentinel is never lost between the Docker run, the session's row and    *)
(* recovery, and a session is completed only on a clean account.           *)
(***************************************************************************)
EXTENDS SessionLifecycleProofs, FiniteSetTheorems

\* The invariant, session by session and invocation by invocation.
SessionPart(s) ==
    /\ "sentinel" \in present[s] \/ Quiet(s)
    /\ rows[s].status = "absent" => Blank(s)
    /\ agent[s] => accepted[s] = {}
    /\ Settled(s) => Quiet(s) \/ (rows[s].status = "failed" /\ Noted(s))
    /\ Settled(s) /\ marker[s] /\ ~rows[s].contained => rows[s].status = "failed" /\ Noted(s)

Launching(s) ==
    /\ Unseen(s)
    /\ \A k, l \in accepted[s] : k = l
    /\ "agent" \in present[s] \cup accepted[s] => sidecars \subseteq present[s]
    /\ "agent" \in present[s] => accepted[s] = {}

StoppedPart(g, s) ==
    /\ Noted(s) => res[g].err
    /\ s \notin unstopped => Quiet(s) /\ ~(agent[s] /\ "sentinel" \in present[s])

MarkerPart(g, s) ==
    marker[s] /\ ~Noted(s) =>
        /\ pc[g] \in {"verify", "import"} => res[g].contained
        /\ pc[g] \in Concluding \ {"import"} => val[g].contained

RecoveryPart(g) ==
    \A s \in toSettle[g] :
        /\ Quiet(s) \/ (pc[g] = "reconcile" /\ s \in toSweep[g])
        /\ pc[g] = "settle" /\ First(toSettle[g], s) /\ marker[s] => snap[g][s].contained

RunPart(g) ==
    /\ pc[g] \in Unlaunched => Blank(cur[g])
    /\ pc[g] = "launch" => Launching(cur[g])
    /\ pc[g] \in Unstopped => ~Noted(cur[g])
    /\ pc[g] \in Stopped => StoppedPart(g, cur[g])
    /\ pc[g] \in RunPhases => MarkerPart(g, cur[g])
    /\ pc[g] \in Recovering => RecoveryPart(g)

LEMMA Parts ==
    ContainmentInvariant <=> (\A s \in Sessions : SessionPart(s)) /\ (\A g \in Procs : RunPart(g))
<1>2. ASSUME ContainmentInvariant
      PROVE  (\A s \in Sessions : SessionPart(s)) /\ (\A g \in Procs : RunPart(g))
  <2> USE <1>2 DEF ContainmentInvariant
  <2>1. \A s \in Sessions : SessionPart(s)
    BY DEF SessionPart, WatchedOrQuiet, BlankBeforeLaunch, NothingOutstanding, SettledIsQuiet,
           ContainmentNotLost, Noted
  <2>2. \A g \in Procs : RunPart(g)
    <3> TAKE g \in Procs
    <3>1. pc[g] = "launch" => Launching(cur[g])
      BY DEF LaunchInOrder, Launching
    <3>2. pc[g] \in Stopped => StoppedPart(g, cur[g])
      BY DEF StoppedIsQuiet, StoppedPart
    <3>3. pc[g] \in RunPhases => MarkerPart(g, cur[g])
      BY DEF MarkerCarried, MarkerPart
    <3>4. pc[g] \in Recovering => RecoveryPart(g)
      BY DEF SweptIsQuiet, RecoveryPart
    <3> QED BY <3>1, <3>2, <3>3, <3>4 DEF RunPart, BlankBeforeLaunch, StoppedIsQuiet
  <2> QED BY <2>1, <2>2
<1>3. ASSUME \A s \in Sessions : SessionPart(s), \A g \in Procs : RunPart(g)
      PROVE  ContainmentInvariant
  <2>1. /\ WatchedOrQuiet /\ NothingOutstanding /\ SettledIsQuiet /\ ContainmentNotLost
        /\ \A s \in Sessions : rows[s].status = "absent" => Blank(s)
    BY <1>3 DEF SessionPart, WatchedOrQuiet, NothingOutstanding, SettledIsQuiet,
                ContainmentNotLost, Noted
  <2>2. /\ \A g \in Procs : pc[g] \in Unlaunched => Blank(cur[g])
        /\ \A g \in Procs : pc[g] \in Unstopped => ~Noted(cur[g])
    BY <1>3 DEF RunPart
  <2>3. LaunchInOrder
    BY <1>3 DEF RunPart, LaunchInOrder, Launching
  <2>4. \A g \in Procs : pc[g] \in Stopped => StoppedPart(g, cur[g])
    BY <1>3 DEF RunPart
  <2>5. \A g \in Procs : pc[g] \in RunPhases => MarkerPart(g, cur[g])
    BY <1>3 DEF RunPart
  <2>6. \A g \in Procs : pc[g] \in Recovering => RecoveryPart(g)
    BY <1>3 DEF RunPart
  <2>7. StoppedIsQuiet /\ MarkerCarried /\ SweptIsQuiet
    BY <2>2, <2>4, <2>5, <2>6 DEF StoppedIsQuiet, StoppedPart, MarkerCarried, MarkerPart,
                                  SweptIsQuiet, RecoveryPart
  <2> QED BY <2>1, <2>2, <2>3, <2>7 DEF ContainmentInvariant, BlankBeforeLaunch
<1> QED BY <1>2, <1>3

LEMMA PartsNext ==
    ContainmentInvariant' <=>
        (\A s \in Sessions : SessionPart(s)') /\ (\A g \in Procs : RunPart(g)')
<1>1. ContainmentInvariant' <=>
        ((\A s \in Sessions : SessionPart(s)) /\ (\A g \in Procs : RunPart(g)))'
  BY Parts, PTL
<1> QED BY <1>1

-----------------------------------------------------------------------------
(* What a step leaves alone.                                               *)

\* Neither Docker nor the sentinel of s has moved, and s has no new history.
SameScene(s) ==
    /\ present'[s] = present[s] /\ accepted'[s] = accepted[s] /\ doomed'[s] = doomed[s]
    /\ agent'[s] = agent[s] /\ queued'[s] = queued[s] /\ marking'[s] = marking[s]
    /\ logged'[s] = logged[s] /\ marker'[s] = marker[s]
    /\ (s \in unreadable' <=> s \in unreadable) /\ (s \in unstopped' <=> s \in unstopped)

LEMMA SceneFacts ==
    ASSUME NEW s, SameScene(s)
    PROVE  /\ Noted(s)' = Noted(s) /\ Quiet(s)' = Quiet(s) /\ Unseen(s)' = Unseen(s)
           /\ Blank(s)' = Blank(s) /\ Launching(s)' = Launching(s)
<1>1. Noted(s)' = Noted(s) /\ Quiet(s)' = Quiet(s)
  BY DEF SameScene, Noted, Quiet
<1>2. Unseen(s)' = Unseen(s)
  BY <1>1 DEF SameScene, Unseen
<1>3. Blank(s)' = Blank(s)
  BY <1>2 DEF SameScene, Blank
<1>4. Launching(s)' = Launching(s)
  BY <1>2 DEF SameScene, Launching
<1> QED BY <1>1, <1>2, <1>3, <1>4

LEMMA SessionKept ==
    ASSUME NEW s, SameScene(s), rows'[s] = rows[s], SessionPart(s)
    PROVE  SessionPart(s)'
<1>1. SessionPart(s)' = SessionPart(s)
  BY SceneFacts DEF SameScene, SessionPart, Settled, Closed
<1> QED BY <1>1

\* A step of the world's own accord, or of nobody.
LEMMA SceneUnchanged ==
    ASSUME UNCHANGED <<world, historyVars>>
    PROVE  \A s \in Sessions : SameScene(s)
BY DEF world, dockerVars, sentinelVars, historyVars, SameScene

\* An invocation that is over promises nothing.
LEMMA OverPart ==
    ASSUME NEW g, pc'[g] \in {"idle", "scan", "create"}
    PROVE  RunPart(g)'
BY DEF RunPart, Unlaunched, Unstopped, Stopped, RunPhases, PastRecovery, Recovering

\* The row of s is written with an open value, and nothing else of it changes.
LEMMA OpenRowKept ==
    ASSUME NEW s, SameScene(s), rows'[s].status \in Open, SessionPart(s)
    PROVE  SessionPart(s)'
BY SceneFacts DEF SameScene, SessionPart, Settled, Closed, Open, Terminal

\* Everybody but the invocation that takes the step is idle before and after it.
LEMMA OneActs ==
    ASSUME TypeOK, LockHeld, NEW g \in Procs, pc[g] # "idle", NEW phase, Goto(g, phase)
    PROVE  pc'[g] = phase /\ \A h \in Procs : h # g => pc'[h] = "idle" /\ RunPart(h)'
<1>1. pc'[g] = phase /\ \A h \in Procs : h # g => pc'[h] = "idle"
  BY OthersIdle DEF Goto, TypeOK, LocalTypeOK
<1> QED BY <1>1, OverPart

-----------------------------------------------------------------------------
(* Steps on paper: the run proceeds while the world stands still.          *)

\* What is to be shown of the acting invocation once its session is known.
LEMMA RunPartNext ==
    ASSUME NEW g, NEW s, cur'[g] = s, pc'[g] \in RunPhases,
           pc'[g] \in Unlaunched => Blank(s)', pc'[g] = "launch" => Launching(s)',
           pc'[g] \in Unstopped => ~Noted(s)',
           pc'[g] \in Stopped => StoppedPart(g, s)', MarkerPart(g, s)'
    PROVE  RunPart(g)'
<1>1. pc'[g] \notin Recovering
  BY DEF Recovering, RunPhases, PastRecovery
<1> QED BY <1>1 DEF RunPart

LEMMA EarlyRun ==
    ASSUME NEW g \in Procs, RunPart(g), pc[g] \in Unlaunched,
           NEW s, cur[g] = s, cur'[g] = s, ~agent[s], SameScene(s),
           pc'[g] \in Unlaunched \cup {"launch", "fail"}
    PROVE  RunPart(g)'
<1>1. Blank(s) /\ Blank(s)'
  BY SceneFacts DEF RunPart
<1>2. Unseen(s)' /\ ~Noted(s)' /\ ~marker'[s] /\ accepted'[s] = {}
        /\ present'[s] = {} /\ Quiet(s)' /\ ~agent'[s]
  BY <1>1 DEF Blank, Unseen, SameScene
<1>3. Launching(s)'
  BY <1>2 DEF Launching
<1>4. StoppedPart(g, s)' /\ MarkerPart(g, s)'
  BY <1>2 DEF StoppedPart, MarkerPart, Noted
<1>5. pc'[g] \in RunPhases
  BY DEF Unlaunched, RunPhases, PastRecovery, Phases
<1> QED BY <1>1, <1>2, <1>3, <1>4, <1>5, RunPartNext

LEMMA LateRun ==
    ASSUME NEW g \in Procs, RunPart(g), pc[g] \in Stopped, pc'[g] \in Stopped,
           NEW s, cur[g] = s, cur'[g] = s, SameScene(s), res[g].err => res'[g].err,
           marker[s] /\ ~Noted(s) =>
               /\ pc'[g] \in {"verify", "import"} => res'[g].contained
               /\ pc'[g] \in Concluding \ {"import"} => val'[g].contained
    PROVE  RunPart(g)'
<1>1. StoppedPart(g, s)
  BY DEF RunPart
<1>2. StoppedPart(g, s)'
  BY <1>1, SceneFacts DEF StoppedPart, SameScene
<1>3. MarkerPart(g, s)'
  BY SceneFacts DEF MarkerPart, SameScene
<1>4. pc'[g] \notin Unstopped /\ pc'[g] \notin Unlaunched /\ pc'[g] # "launch"
        /\ pc'[g] \in RunPhases
  BY DEF Stopped, Unstopped, Unlaunched
<1> QED BY <1>2, <1>3, <1>4, RunPartNext

\* Up to the hand-off to Docker.
LEMMA PrepareContainment ==
    ASSUME TypeOK, Safe, ContainmentInvariant, NEW g \in Procs,
           \/ Start(g) \/ Activate(g) \/ Prepare(g) \/ Announce(g) \/ Journal(g)
           \/ JournalFails(g)
           \/ StoreFails(g) /\ pc[g] \in {"start", "activate", "prepare"}
    PROVE  ContainmentInvariant'
<1>1. pc[g] \in Unlaunched /\ pc[g] \in Preparing /\ pc[g] # "idle"
  BY DEF Start, Activate, Prepare, Announce, Journal, JournalFails, At, Unlaunched, Preparing
<1>2. /\ UNCHANGED <<world, historyVars, cur>>
      /\ \A s \in Sessions : s # cur[g] => rows'[s] = rows[s]
      /\ rows'[cur[g]] = rows[cur[g]] \/ rows'[cur[g]].status \in Open
  <2>1. CASE Start(g) \/ Prepare(g) \/ Announce(g) \/ JournalFails(g) \/ StoreFails(g)
    BY <2>1 DEF Start, Prepare, Announce, JournalFails, StoreFails, AddEvent, CreateDecoy,
                storeVars, localVars
  <2>2. CASE Activate(g) \/ Journal(g)
    <3>1. PICK v : UpdateSession(cur[g], v) /\ v.status \in Open
      <4>1. val[g] \in Values /\ val[g].status \in Open
        BY DEF TypeOK, LocalTypeOK, Safe, OwnsOpenSession
      <4>2. [val[g] EXCEPT !.status = "running"].status \in Open
              /\ [val[g] EXCEPT !.cleanup = TRUE].status \in Open
        BY <4>1 DEF Values, Columns, Open
      <4> QED BY <2>2, <4>2 DEF Activate, Journal
    <3>2. cur[g] \in Sessions
      BY <1>1, NoAgentYet
    <3>3. rows' = [rows EXCEPT ![cur[g]] = v]
      BY <3>1 DEF UpdateSession
    <3> QED BY <2>2, <3>1, <3>2, <3>3 DEF Activate, Journal, TypeOK, StoreTypeOK
  <2> QED BY <2>1, <2>2
<1>3. PICK phase \in Unlaunched \cup {"launch", "fail"} : Goto(g, phase)
  <2>1. CASE Prepare(g)
    BY <1>1, <2>1 DEF Prepare, Goto, TypeOK, LocalTypeOK
  <2>2. CASE ~Prepare(g)
    BY <2>2 DEF Start, Activate, Announce, Journal, JournalFails, StoreFails, Unlaunched
  <2> QED BY <2>1, <2>2
<1>4. (\A s \in Sessions : SessionPart(s)) /\ RunPart(g) /\ \A s \in Sessions : SameScene(s)
  BY <1>2, Parts, SceneUnchanged
<1>5. \A s \in Sessions : SessionPart(s)'
  BY <1>2, <1>4, SessionKept, OpenRowKept
<1>6. pc'[g] = phase /\ \A h \in Procs : h # g => RunPart(h)'
  BY <1>1, <1>3, OneActs DEF Safe
<1>7. RunPart(g)'
  <2>1. cur[g] \in Sessions /\ ~agent[cur[g]]
    BY <1>1, NoAgentYet
  <2> QED BY <1>1, <1>2, <1>4, <1>6, <2>1, EarlyRun
<1> QED BY <1>5, <1>6, <1>7, PartsNext

\* From the collection of the observations to the last event of the run.
LEMMA ConcludeContainment ==
    ASSUME TypeOK, Safe, ContainmentInvariant, NEW g \in Procs,
           \/ Collect(g) \/ CollectFails(g) \/ Mark(g) \/ Verify(g) \/ VerifyFails(g)
           \/ Import(g) \/ Access(g) \/ Witness(g) \/ Contain(g) \/ Exit(g) \/ ExitFails(g)
           \/ StoreFails(g) /\ pc[g] \in {"access", "witness", "contain"}
    PROVE  ContainmentInvariant'
<1>1. pc[g] \in Stopped /\ pc[g] # "idle"
  BY DEF Collect, CollectFails, Mark, Verify, VerifyFails, Import, Access, Witness, Contain,
         Exit, ExitFails, At, Stopped, RunPhases, PastRecovery, Phases, Unstopped, Unlaunched
<1>2. UNCHANGED <<rows, world, historyVars, cur>>
  <2>1. CASE Exit(g)
    BY <2>1 DEF Exit, AddEvent, storeVars
  <2>2. CASE ~Exit(g)
    BY <2>2 DEF Collect, CollectFails, Mark, Verify, VerifyFails, Import, Access, Witness,
                Contain, ExitFails, StoreFails, AddEvent, TriggerDecoy, storeVars, localVars
  <2> QED BY <2>1, <2>2
<1>3. PICK phase \in Stopped : Goto(g, phase)
  BY DEF Collect, CollectFails, Mark, Verify, VerifyFails, Import, Access, Witness, Contain,
         Exit, ExitFails, StoreFails, Stopped, RunPhases, PastRecovery, Phases, Unstopped,
         Unlaunched
<1>4. (\A s \in Sessions : SessionPart(s)) /\ RunPart(g) /\ \A s \in Sessions : SameScene(s)
  BY <1>2, Parts, SceneUnchanged
<1>5. \A s \in Sessions : SessionPart(s)'
  BY <1>2, <1>4, SessionKept
<1>6. pc'[g] = phase /\ \A h \in Procs : h # g => RunPart(h)'
  BY <1>1, <1>3, OneActs DEF Safe
<1>7. PICK s \in Sessions : s = cur[g] /\ cur'[g] = s
  BY <1>1, <1>2 DEF Safe, OwnsOpenSession, Stopped
<1>8. /\ res[g] \in Results /\ val[g] \in Values /\ MarkerPart(g, s)
      /\ res \in [Procs -> Results] /\ val \in [Procs -> Values]
  BY <1>1, <1>4, <1>7 DEF RunPart, Stopped, TypeOK, LocalTypeOK
<1>9. res[g].err => res'[g].err
  <2>1. res'[g].err = res[g].err \/ res'[g].err
    BY <1>8 DEF Collect, CollectFails, Mark, Verify, VerifyFails, Import, Access, Witness,
           Contain, Exit, ExitFails, StoreFails, SetRes, Results, localVars
  <2> QED BY <2>1
<1>10. ASSUME marker[s], ~Noted(s)
       PROVE  /\ pc'[g] \in {"verify", "import"} => res'[g].contained
              /\ pc'[g] \in Concluding \ {"import"} => val'[g].contained
  <2>1. /\ pc[g] \in {"verify", "import"} => res[g].contained
        /\ pc[g] \in Concluding \ {"import"} => val[g].contained
    BY <1>8, <1>10 DEF MarkerPart
  <2>2. CASE Collect(g) \/ CollectFails(g)
    <3>1. pc'[g] = "mark"
      BY <2>2 DEF Collect, CollectFails, Goto, TypeOK, LocalTypeOK
    <3> QED BY <3>1 DEF Concluding
  <2>3. CASE Mark(g)
    <3>1. pc'[g] = "verify" /\ res'[g].contained
      BY <1>7, <1>8, <1>10, <2>3 DEF Mark, Goto, SetRes, Results, TypeOK, LocalTypeOK
    <3> QED BY <3>1 DEF Concluding
  <2>4. CASE Verify(g) \/ VerifyFails(g)
    <3>1. pc[g] = "verify" /\ pc'[g] = "import"
      BY <2>4 DEF Verify, VerifyFails, At, Goto, TypeOK, LocalTypeOK
    <3>2. res'[g].contained = res[g].contained
      BY <1>8, <2>4 DEF Verify, VerifyFails, SetRes, Results
    <3> QED BY <2>1, <3>1, <3>2 DEF Concluding
  <2>5. CASE Import(g)
    BY <1>8, <2>1, <2>5
       DEF Import, At, Goto, SetVal, Values, Columns, TypeOK, LocalTypeOK
  <2>6. CASE Access(g) \/ Witness(g) \/ Contain(g) \/ StoreFails(g)
              \/ Exit(g) \/ ExitFails(g)
    <3>1. pc[g] \in {"access", "witness", "contain"}
            /\ pc'[g] \in {"access", "witness", "contain", "final", "fail"}
      <4>1. CASE Access(g) \/ Witness(g) \/ Contain(g) \/ Exit(g) \/ ExitFails(g)
        BY <4>1 DEF Access, Witness, Contain, Exit, ExitFails, At, Goto, TypeOK, LocalTypeOK
      <4>2. CASE StoreFails(g)
        <5>1. pc'[g] = "fail" /\ pc[g] \notin {"start", "activate", "prepare"}
          BY <1>1, <4>2 DEF StoreFails, Goto, TypeOK, LocalTypeOK, Stopped, Unstopped,
                            Unlaunched
        <5> QED BY <4>2, <5>1 DEF StoreFails
      <4> QED BY <2>6, <4>1, <4>2
    <3>2. val'[g].contained = val[g].contained
      BY <1>8, <2>6 DEF Access, Witness, Contain, StoreFails, Exit, ExitFails, SetVal, Values,
                        Columns, localVars
    <3> QED BY <2>1, <3>1, <3>2 DEF Concluding
  <2> QED BY <2>2, <2>3, <2>4, <2>5, <2>6
<1>11. RunPart(g)'
  BY <1>1, <1>4, <1>6, <1>7, <1>9, <1>10, LateRun
<1> QED BY <1>5, <1>6, <1>11, PartsNext

-----------------------------------------------------------------------------
(* An invocation comes and goes, and rows are written.                     *)

\* Taking the lock, and leaving without a write.
LEMMA ComeAndGoContainment ==
    ASSUME TypeOK, Safe, ContainmentInvariant, NEW g \in Procs,
           Acquire(g) \/ Exhausted(g) \/ Abort(g) \/ Crash(g)
    PROVE  ContainmentInvariant'
<1>1. UNCHANGED <<rows, world, historyVars>>
  BY DEF Acquire, Exhausted, Abort, Crash, storeVars
<1>2. \A s \in Sessions : SessionPart(s)'
  BY <1>1, Parts, SceneUnchanged, SessionKept
<1>3. \A h \in Procs : pc'[h] \in {"idle", "scan"}
  <2>1. CASE Acquire(g)
    <3>1. \A h \in Procs : pc[h] = "idle"
      BY <2>1, LifecycleAssumption DEF Acquire, LockHeld, Safe
    <3> QED BY <2>1, <3>1 DEF Acquire, Goto, TypeOK, LocalTypeOK
  <2>2. CASE Exhausted(g) \/ Abort(g) \/ Crash(g)
    <3>1. pc[g] # "idle" /\ Leave(g)
      BY <2>2 DEF Exhausted, Abort, Crash, At
    <3> QED BY <3>1, OthersIdle DEF Leave, Goto, TypeOK, LocalTypeOK, Safe
  <2> QED BY <2>1, <2>2
<1> QED BY <1>2, <1>3, OverPart, PartsNext

LEMMA CreateContainment ==
    ASSUME TypeOK, Safe, ContainmentInvariant, NEW g \in Procs, Create(g)
    PROVE  ContainmentInvariant'
<1>1. PICK s \in Sessions :
          /\ rows[s].status = "absent" /\ rows' = [rows EXCEPT ![s] = FreshValue]
          /\ cur' = [cur EXCEPT ![g] = s]
  BY DEF Create, CreateSession
<1>2. pc[g] = "create" /\ Goto(g, "start") /\ UNCHANGED <<world, historyVars>>
  BY DEF Create, At
<1>3. (\A u \in Sessions : SessionPart(u)) /\ \A u \in Sessions : SameScene(u)
  BY <1>2, Parts, SceneUnchanged
<1>4. /\ rows'[s].status \in Open /\ cur'[g] = s
      /\ \A u \in Sessions : u # s => rows'[u] = rows[u]
  BY <1>1 DEF TypeOK, StoreTypeOK, LocalTypeOK, FreshValue, Open
<1>5. \A u \in Sessions : SessionPart(u)'
  BY <1>3, <1>4, SessionKept, OpenRowKept
<1>6. pc'[g] = "start" /\ \A h \in Procs : h # g => RunPart(h)'
  BY <1>2, OneActs DEF Safe
<1>7. Blank(s)'
  BY <1>1, <1>3, SceneFacts DEF SessionPart
<1>8. ~Noted(s)' /\ MarkerPart(g, s)'
  BY <1>7 DEF Blank, Unseen, MarkerPart
<1>9. RunPart(g)'
  BY <1>4, <1>6, <1>7, <1>8, RunPartNext
     DEF Stopped, Unstopped, Unlaunched, RunPhases, PastRecovery, Phases
<1> QED BY <1>5, <1>6, <1>9, PartsNext

\* The terminal row: what the run could not make sure of, it reports as failed.
LEMMA CloseContainment ==
    ASSUME TypeOK, Safe, ContainmentInvariant, NEW g \in Procs, Final(g) \/ Fail(g)
    PROVE  ContainmentInvariant'
<1>1. pc[g] \in Stopped /\ pc[g] # "idle" /\ pc[g] \in Concluding \ {"import"}
        /\ pc[g] \in RunPhases
  BY DEF Final, Fail, At, Stopped, RunPhases, PastRecovery, Phases, Unstopped, Unlaunched,
         Concluding
<1>2. PICK s \in Sessions : s = cur[g] /\ rows[s].status \in Open
  BY <1>1, OwnSession DEF Safe
<1>3. PICK status \in Terminal, t \in Stamps :
          /\ FinalizeSession(s, [val[g] EXCEPT !.status = status, !.ended = t])
          /\ res[g].err => status = "failed"
          /\ Leave(g) /\ UNCHANGED <<world, historyVars>>
  BY <1>2 DEF Final, Fail, CloseAs, Outcome, Terminal
<1> DEFINE v == [val[g] EXCEPT !.status = status, !.ended = t]
<1>4. v.status = status /\ v.contained = val[g].contained
  <2>1. val[g] \in Values
    BY DEF TypeOK, LocalTypeOK
  <2> QED BY <2>1 DEF Values, Columns
<1>5. FinalizeSession(s, v)
  BY <1>3
<1> HIDE DEF v
<1>6. rows' = [rows EXCEPT ![s] = v]
  BY <1>2, <1>4, <1>5 DEF FinalizeSession, Open, Terminal
<1>7. rows'[s] = v /\ \A u \in Sessions : u # s => rows'[u] = rows[u]
  BY <1>6 DEF TypeOK, StoreTypeOK
<1>8. /\ \A u \in Sessions : SessionPart(u) /\ SameScene(u)
      /\ StoppedPart(g, s) /\ MarkerPart(g, s)
  BY <1>1, <1>2, <1>3, Parts, SceneUnchanged DEF RunPart
<1>9. SessionPart(s)'
  <2>1. /\ Noted(s) => status = "failed"
        /\ Quiet(s) \/ Noted(s)
        /\ marker[s] /\ ~Noted(s) => v.contained
    BY <1>1, <1>3, <1>4, <1>8 DEF StoppedPart, MarkerPart, Noted
  <2>2. "sentinel" \in present'[s] \/ Quiet(s)'
    BY <1>8, SceneFacts DEF SessionPart, SameScene
  <2>3. agent'[s] => accepted'[s] = {}
    BY <1>8 DEF SessionPart, SameScene
  <2>4. rows'[s].status # "absent" /\ rows'[s].status = status /\ rows'[s].contained = v.contained
    BY <1>4, <1>7 DEF Terminal
  <2>5. /\ Quiet(s)' \/ (rows'[s].status = "failed" /\ Noted(s)')
        /\ marker'[s] /\ ~rows'[s].contained => rows'[s].status = "failed" /\ Noted(s)'
    BY <1>8, <2>1, <2>4, SceneFacts DEF SameScene
  <2> QED BY <2>2, <2>3, <2>4, <2>5 DEF SessionPart
<1>10. \A u \in Sessions : SessionPart(u)'
  BY <1>7, <1>8, <1>9, SessionKept
<1>11. \A h \in Procs : pc'[h] = "idle"
  BY <1>1, <1>3, OthersIdle DEF Leave, Goto, TypeOK, LocalTypeOK, Safe
<1> QED BY <1>10, <1>11, OverPart, PartsNext

-----------------------------------------------------------------------------
(* Recovery.                                                               *)

LEMMA ScanContainment ==
    ASSUME TypeOK, Safe, ContainmentInvariant, NEW g \in Procs, Scan(g)
    PROVE  ContainmentInvariant'
<1> DEFINE interrupted == {s \in Sessions : NeedsRecovery(rows[s])}
           phase == IF interrupted = {} THEN "create" ELSE "reconcile"
<1>1. /\ pc[g] # "idle" /\ Goto(g, phase) /\ UNCHANGED <<rows, world, historyVars>>
      /\ toSweep' = [toSweep EXCEPT ![g] = interrupted]
      /\ toSettle' = [toSettle EXCEPT ![g] = interrupted]
  BY DEF Scan, At, storeVars
<1>2. \A s \in Sessions : SessionPart(s)'
  BY <1>1, Parts, SceneUnchanged, SessionKept
<1>3. pc'[g] = phase /\ \A h \in Procs : h # g => RunPart(h)'
  BY <1>1, OneActs DEF Safe
<1>4. toSweep'[g] = interrupted /\ toSettle'[g] = interrupted
  BY <1>1 DEF TypeOK, LocalTypeOK
<1>5. RunPart(g)'
  <2>1. CASE phase = "create"
    BY <1>3, <2>1, OverPart
  <2>2. CASE phase = "reconcile"
    <3>1. RecoveryPart(g)'
      BY <1>3, <1>4, <2>2 DEF RecoveryPart
    <3> QED BY <1>3, <2>2, <3>1 DEF RunPart, Unlaunched, Unstopped, Stopped, RunPhases,
                                   PastRecovery
  <2> QED BY <2>1, <2>2
<1> QED BY <1>2, <1>3, <1>5, PartsNext

\* The marker of the session that is settled next is in the snapshot.
LEMMA RestoreContainment ==
    ASSUME TypeOK, Safe, ContainmentInvariant, NEW g \in Procs, Restore(g)
    PROVE  ContainmentInvariant'
<1>1. /\ pc[g] = "restore" /\ Goto(g, "settle")
      /\ UNCHANGED <<rows, world, historyVars, toSettle>>
  BY DEF Restore, At, AddEvent, storeVars
<1>2. \A s \in Sessions : SessionPart(s)'
  BY <1>1, Parts, SceneUnchanged, SessionKept
<1>3. pc'[g] = "settle" /\ \A h \in Procs : h # g => RunPart(h)'
  BY <1>1, OneActs DEF Safe
<1>4. PICK s \in Sessions :
          /\ First(toSettle[g], s)
          /\ marker[s] /\ ~snap[g][s].contained => snap' = [snap EXCEPT ![g][s].contained = TRUE]
          /\ ~(marker[s] /\ ~snap[g][s].contained) => UNCHANGED snap
  BY DEF Restore
<1>5. marker[s] => snap'[g][s].contained
  <2>1. snap[g][s] \in Columns(Open \cup Terminal \cup {"absent"})
    BY DEF TypeOK, LocalTypeOK
  <2> QED BY <1>4, <2>1 DEF Columns, TypeOK, LocalTypeOK
<1>6. \A u \in toSettle[g] : u \in Sessions /\ Quiet(u)
  <2>1. RunPart(g) /\ toSettle[g] \subseteq Sessions
    BY Parts DEF TypeOK, LocalTypeOK
  <2> QED BY <1>1, <2>1 DEF RunPart, RecoveryPart, Recovering
<1>7. \A u \in toSettle[g] : First(toSettle[g], u) => u = s
  BY <1>4, <1>6, LifecycleAssumption DEF First
<1>8. RecoveryPart(g)'
  <2>1. \A u \in toSettle[g] : Quiet(u)'
    BY <1>1, <1>6, SceneUnchanged, SceneFacts
  <2>2. \A u \in toSettle[g] : First(toSettle[g], u) /\ marker'[u] => snap'[g][u].contained
    BY <1>1, <1>5, <1>7 DEF world, sentinelVars
  <2> QED BY <1>1, <2>1, <2>2 DEF RecoveryPart
<1>9. RunPart(g)'
  BY <1>3, <1>8 DEF RunPart, Unlaunched, Unstopped, Stopped, RunPhases, PastRecovery
<1> QED BY <1>2, <1>3, <1>9, PartsNext

LEMMA SettleContainment ==
    ASSUME TypeOK, Safe, ContainmentInvariant, NEW g \in Procs, Settle(g)
    PROVE  ContainmentInvariant'
<1>1. PICK s \in Sessions :
          /\ First(toSettle[g], s) /\ s \in toSettle[g]
          /\ rows'[s].contained = snap[g][s].contained
          /\ toSettle' = [toSettle EXCEPT ![g] = @ \ {s}]
          /\ Goto(g, IF toSettle[g] = {s} THEN "create" ELSE "restore")
          /\ ~NeedsRecovery(rows'[s])
          /\ rows'[s].status \in {"failed", rows[s].status}
          /\ \A u \in Sessions : u # s => rows'[u] = rows[u]
  BY SettleWrites
<1> DEFINE phase == IF toSettle[g] = {s} THEN "create" ELSE "restore"
<1>2. pc[g] = "settle" /\ UNCHANGED <<world, historyVars>>
  BY DEF Settle, At
<1>3. (\A u \in Sessions : SessionPart(u) /\ SameScene(u)) /\ RunPart(g)
  BY <1>2, Parts, SceneUnchanged
<1>4. /\ \A u \in toSettle[g] : u \in Sessions /\ Quiet(u)
      /\ marker[s] => snap[g][s].contained
  <2>1. toSettle[g] \subseteq Sessions
    BY DEF TypeOK, LocalTypeOK
  <2> QED BY <1>1, <1>2, <1>3, <2>1 DEF RunPart, RecoveryPart, Recovering
<1>5. SessionPart(s)'
  <2>1. rows'[s].status = "absent" => rows[s].status = "absent"
    BY <1>1
  <2>2. Quiet(s)' /\ (marker'[s] => rows'[s].contained)
    BY <1>1, <1>3, <1>4, SceneFacts DEF SameScene
  <2> QED BY <1>3, <2>1, <2>2, SceneFacts DEF SessionPart, SameScene
<1>6. \A u \in Sessions : SessionPart(u)'
  BY <1>1, <1>3, <1>5, SessionKept
<1>7. pc'[g] = phase /\ \A h \in Procs : h # g => RunPart(h)'
  BY <1>1, <1>2, OneActs DEF Safe
<1>8. RunPart(g)'
  <2>1. CASE phase = "create"
    BY <1>7, <2>1, OverPart
  <2>2. CASE phase = "restore"
    <3>1. toSettle'[g] \subseteq toSettle[g]
      BY <1>1 DEF TypeOK, LocalTypeOK
    <3>2. \A u \in toSettle'[g] : Quiet(u)'
      BY <1>3, <1>4, <3>1, SceneFacts
    <3>3. RecoveryPart(g)'
      BY <1>7, <2>2, <3>2 DEF RecoveryPart
    <3> QED BY <1>7, <2>2, <3>3 DEF RunPart, Unlaunched, Unstopped, Stopped, RunPhases,
                                   PastRecovery
  <2> QED BY <2>1, <2>2
<1> QED BY <1>6, <1>7, <1>8, PartsNext

-----------------------------------------------------------------------------
(* The Docker run.                                                         *)

LEMMA RemoveEffect ==
    ASSUME WorldTypeOK, NEW s \in Sessions, NEW asked, NEW left, Remove(s, asked, left)
    PROVE  /\ present'[s] = (present[s] \ asked) \cup left
           /\ doomed'[s] = (doomed[s] \ asked) \cup left
           /\ agent'[s] => agent[s]
           /\ "sentinel" \in present'[s] => queued'[s] = queued[s] /\ marking'[s] = marking[s]
           /\ "sentinel" \notin present'[s] => Quiet(s)'
           /\ logged' = logged /\ marker' = marker
           /\ \A u \in Sessions : u # s =>
                 /\ present'[u] = present[u] /\ doomed'[u] = doomed[u] /\ agent'[u] = agent[u]
                 /\ queued'[u] = queued[u] /\ marking'[u] = marking[u]
<1> DEFINE stay == (present[s] \ asked) \cup left
<1>1. /\ present' = [present EXCEPT ![s] = stay]
      /\ doomed' = [doomed EXCEPT ![s] = (@ \ asked) \cup left]
      /\ agent' = [agent EXCEPT ![s] = @ /\ "agent" \in stay]
      /\ queued' = [queued EXCEPT ![s] = IF "sentinel" \in stay THEN @ ELSE {}]
      /\ marking' = [marking EXCEPT ![s] = IF "sentinel" \in stay THEN @ ELSE {}]
      /\ UNCHANGED <<logged, marker>>
  BY DEF Remove
<1>2. present'[s] = stay /\ doomed'[s] = (doomed[s] \ asked) \cup left
  BY <1>1 DEF WorldTypeOK
<1> HIDE DEF stay
<1>3. (agent'[s] => agent[s]) /\ logged' = logged /\ marker' = marker
  BY <1>1 DEF WorldTypeOK
<1>4. /\ "sentinel" \in present'[s] => queued'[s] = queued[s] /\ marking'[s] = marking[s]
      /\ "sentinel" \notin present'[s] => Quiet(s)'
  BY <1>1, <1>2 DEF WorldTypeOK, Quiet
<1>5. \A u \in Sessions : u # s =>
          /\ present'[u] = present[u] /\ doomed'[u] = doomed[u] /\ agent'[u] = agent[u]
          /\ queued'[u] = queued[u] /\ marking'[u] = marking[u]
  BY <1>1 DEF WorldTypeOK
<1> QED BY <1>2, <1>3, <1>4, <1>5 DEF stay

\* A removal asks nothing new of a session, and disturbs no other.
LEMMA RemoveSessions ==
    ASSUME WorldTypeOK, NEW s \in Sessions, NEW asked, NEW left, Remove(s, asked, left),
           left \subseteq present[s] \/ rows[s].status # "absent",
           \A u \in Sessions : SessionPart(u), UNCHANGED rows,
           accepted'[s] \subseteq accepted[s],
           \A u \in Sessions : u # s => accepted'[u] = accepted[u],
           UNCHANGED unreadable, unstopped' \in {unstopped, unstopped \cup {s}},
           rows[s].status = "absent" => unstopped' = unstopped
    PROVE  \A u \in Sessions : SessionPart(u)'
<1>1. ASSUME NEW u \in Sessions, u # s PROVE SessionPart(u)'
  BY <1>1, RemoveEffect, SessionKept DEF SameScene
<1>2. SessionPart(s)'
  <2> USE RemoveEffect
  <2>1. ("sentinel" \in present'[s] \/ Quiet(s)') /\ (Quiet(s) => Quiet(s)')
    BY DEF Quiet
  <2>2. rows'[s].status = "absent" => Blank(s)'
    <3> SUFFICES ASSUME rows[s].status = "absent" PROVE Blank(s)'
      OBVIOUS
    <3>1. Blank(s) /\ left = {} /\ unstopped' = unstopped
      BY DEF SessionPart, Blank
    <3>2. present'[s] = {} /\ doomed'[s] = {} /\ accepted'[s] = {}
      BY <3>1 DEF Blank, Unseen
    <3> QED BY <2>1, <3>1, <3>2 DEF Blank, Unseen, Noted
  <2>3. agent'[s] => accepted'[s] = {}
    BY DEF SessionPart
  <2>4. Noted(s) => Noted(s)'
    BY DEF Noted
  <2> QED BY <2>1, <2>2, <2>3, <2>4 DEF SessionPart, Settled, Closed
<1> QED BY <1>1, <1>2

\* A run whose sidecars are not to be stopped yet has no history.
LEMMA UnstoppedRun ==
    ASSUME NEW g \in Procs, NEW s, cur[g] = s, cur'[g] = s, RunPart(g), pc[g] \in Unstopped,
           pc'[g] \in {"running", "flush", "stop"}, UNCHANGED historyVars
    PROVE  RunPart(g)'
<1>1. ~Noted(s)'
  BY DEF RunPart, Noted, historyVars
<1>2. MarkerPart(g, s)'
  BY DEF MarkerPart, Concluding
<1> QED BY <1>1, <1>2, RunPartNext
        DEF Unlaunched, Stopped, Unstopped, RunPhases, PastRecovery, Phases

LEMMA LaunchContainment ==
    ASSUME TypeOK, Safe, ContainmentInvariant, NEW g \in Procs, Issue(g) \/ Exec(g)
    PROVE  ContainmentInvariant'
<1>1. pc[g] = "launch" /\ pc[g] \in Preparing /\ pc[g] # "idle"
  BY DEF Issue, Exec, At, Preparing
<1>2. PICK s \in Sessions : s = cur[g] /\ rows[s].status \in Open /\ ~agent[s]
  BY <1>1, NoAgentYet, OwnSession DEF Safe
<1>3. /\ \A u \in Sessions : SessionPart(u)
      /\ RunPart(g) /\ Launching(s) /\ ~Noted(s)
  BY <1>1, <1>2, Parts DEF RunPart, Launching, Unseen
<1>4. UNCHANGED <<rows, cur, present, doomed, sentinelVars, historyVars>> /\ cur'[g] = s
  BY <1>2 DEF Issue, Exec, storeVars, localVars
<1>5. \A u \in Sessions : u # s => agent'[u] = agent[u] /\ accepted'[u] = accepted[u]
  BY <1>2 DEF Issue, Exec, TypeOK, WorldTypeOK
<1>6. \A u \in Sessions : u # s => SessionPart(u)'
  BY <1>3, <1>4, <1>5, SessionKept DEF SameScene, sentinelVars, historyVars
<1>7. Unseen(s)' /\ ("sentinel" \in present'[s] \/ Quiet(s)') /\ ~Noted(s)'
  BY <1>3, <1>4 DEF Launching, Unseen, Quiet, Noted, sentinelVars, historyVars
<1>8. (agent'[s] => accepted'[s] = {}) => SessionPart(s)'
  BY <1>2, <1>4, <1>7 DEF SessionPart, Settled, Closed, Open, Terminal
<1>9. CASE Issue(g)
  <2>1. PICK k \in Kinds \ present[s] :
           /\ k = "agent" => sidecars \subseteq present[s]
           /\ accepted' = [accepted EXCEPT ![s] = {k}]
    BY <1>2, <1>9 DEF Issue
  <2>2. accepted'[s] = {k} /\ accepted[s] = {} /\ ~agent'[s]
    BY <1>2, <1>9, <2>1 DEF Issue, TypeOK, WorldTypeOK
  <2>3. "agent" \notin present[s]
    BY <1>3, <2>1 DEF Launching, sidecars
  <2>4. Launching(s)'
    BY <1>3, <1>4, <1>7, <2>1, <2>2, <2>3 DEF Launching, sidecars
  <2>5. pc'[g] = "launch" /\ Goto(g, "launch")
    BY <1>1, <1>9 DEF Issue, Goto, TypeOK, LocalTypeOK
  <2>6. RunPart(g)'
    <3>1. MarkerPart(g, s)'
      BY <1>7 DEF MarkerPart, Unseen
    <3> QED BY <1>4, <1>7, <2>4, <2>5, <3>1, RunPartNext
            DEF Unlaunched, Stopped, Unstopped, RunPhases, PastRecovery, Phases
  <2>7. \A h \in Procs : h # g => RunPart(h)'
    BY <1>1, <2>5, OneActs DEF Safe
  <2> QED BY <1>6, <1>8, <2>2, <2>6, <2>7, PartsNext
<1>10. CASE Exec(g)
  <2>1. accepted'[s] = {}
    BY <1>2, <1>3, <1>10 DEF Exec, Launching
  <2>2. pc'[g] = "running" /\ \A h \in Procs : h # g => RunPart(h)'
    BY <1>1, <1>10, OneActs DEF Exec, Safe
  <2>3. RunPart(g)'
    BY <1>1, <1>2, <1>3, <1>4, <2>2, UnstoppedRun DEF Unstopped
  <2> QED BY <1>6, <1>8, <2>1, <2>2, <2>3, PartsNext
<1> QED BY <1>9, <1>10

\* From the launch to the point where the sidecars are to be stopped.
LEMMA ExecuteContainment ==
    ASSUME TypeOK, Safe, ContainmentInvariant, NEW g \in Procs,
           LaunchFails(g) \/ StopAgent(g) \/ StopAgentFails(g) \/ Flush(g) \/ FlushFails(g)
    PROVE  ContainmentInvariant'
<1>1. pc[g] \in {"launch", "running", "flush"} /\ pc[g] # "idle" /\ pc[g] \in Unstopped
  BY DEF LaunchFails, StopAgent, StopAgentFails, Flush, FlushFails, At, Unstopped
<1>2. PICK s \in Sessions : s = cur[g] /\ rows[s].status \in Open
  BY <1>1, OwnSession DEF Safe, RunPhases, PastRecovery, Phases
<1>3. (\A u \in Sessions : SessionPart(u)) /\ RunPart(g)
  BY Parts
<1>4. UNCHANGED <<rows, cur, historyVars>> /\ cur'[g] = s
  BY <1>2 DEF LaunchFails, StopAgent, StopAgentFails, Flush, FlushFails, storeVars
<1>5. \A u \in Sessions : SessionPart(u)'
  <2>1. CASE Flush(g) \/ FlushFails(g)
    BY <1>3, <1>4, <2>1, SceneUnchanged, SessionKept DEF Flush, FlushFails
  <2>2. CASE LaunchFails(g) \/ StopAgent(g) \/ StopAgentFails(g)
    <3>1. PICK asked, left : Remove(s, asked, left)
      BY <1>2, <2>2 DEF LaunchFails, StopAgent, StopAgentFails
    <3>2. accepted'[s] \subseteq accepted[s] /\ \A u \in Sessions : u # s => accepted'[u] = accepted[u]
      BY <1>2, <2>2 DEF LaunchFails, StopAgent, StopAgentFails, TypeOK, WorldTypeOK
    <3>3. rows[s].status # "absent"
      BY <1>2 DEF Open
    <3> QED BY <1>3, <1>4, <3>1, <3>2, <3>3, RemoveSessions, SMTT(30) DEF TypeOK, historyVars
  <2> QED BY <2>1, <2>2
<1>6. PICK phase \in {"flush", "stop"} : Goto(g, phase)
  BY DEF LaunchFails, StopAgent, StopAgentFails, Flush, FlushFails
<1>7. pc'[g] = phase /\ \A h \in Procs : h # g => RunPart(h)'
  BY <1>1, <1>6, OneActs DEF Safe
<1>8. RunPart(g)'
  BY <1>1, <1>2, <1>3, <1>4, <1>7, UnstoppedRun
<1> QED BY <1>5, <1>7, <1>8, PartsNext

\* The sidecars are gone, or the run knows that it cannot tell.
LEMMA StopContainment ==
    ASSUME TypeOK, Safe, ContainmentInvariant, NEW g \in Procs,
           StopSidecars(g) \/ StopSidecarsFails(g)
    PROVE  ContainmentInvariant'
<1>1. pc[g] = "stop" /\ pc[g] # "idle"
  BY DEF StopSidecars, StopSidecarsFails, At
<1>2. PICK s \in Sessions : s = cur[g] /\ rows[s].status \in Open
  BY <1>1, OwnSession DEF Safe, RunPhases, PastRecovery, Phases
<1>3. (\A u \in Sessions : SessionPart(u)) /\ RunPart(g) /\ ~Noted(s)
  BY <1>1, <1>2, Parts DEF RunPart, Unstopped
<1>4. UNCHANGED <<rows, cur, accepted, unreadable>> /\ cur'[g] = s
  BY <1>2 DEF StopSidecars, StopSidecarsFails, storeVars, localVars, historyVars
<1>5. PICK left \in SUBSET Kinds : Remove(s, sidecars, left)
  BY <1>2 DEF StopSidecars, StopSidecarsFails, TypeOK, WorldTypeOK
<1>6. unstopped' \in {unstopped, unstopped \cup {s}} /\ rows[s].status # "absent"
  BY <1>2 DEF StopSidecars, StopSidecarsFails, historyVars, Open
<1>7. \A u \in Sessions : SessionPart(u)'
  BY <1>3, <1>4, <1>5, <1>6, RemoveSessions DEF TypeOK
<1>8. PICK phase \in {"collect", "mark"} : Goto(g, phase)
  BY DEF StopSidecars, StopSidecarsFails, AfterStop
<1>9. pc'[g] = phase /\ \A h \in Procs : h # g => RunPart(h)'
  BY <1>1, <1>8, OneActs DEF Safe
<1>10. StoppedPart(g, s)'
  <2>1. CASE StopSidecars(g)
    <3>1. Remove(s, sidecars, {}) /\ UNCHANGED historyVars
      BY <1>2, <2>1 DEF StopSidecars
    <3>2. "sentinel" \notin present'[s]
      BY <3>1, RemoveEffect, LifecycleAssumption DEF TypeOK, sidecars, WorldTypeOK
    <3>3. Quiet(s)'
      BY <3>1, <3>2, RemoveEffect DEF TypeOK
    <3>4. ~Noted(s)'
      BY <1>3, <3>1 DEF Noted, historyVars
    <3> QED BY <3>2, <3>3, <3>4 DEF StoppedPart
  <2>2. CASE StopSidecarsFails(g)
    <3>1. s \in unstopped' /\ res'[g].err
      BY <1>2, <2>2 DEF StopSidecarsFails, SetRes, TypeOK, LocalTypeOK, Results
    <3> QED BY <3>1 DEF StoppedPart
  <2> QED BY <2>1, <2>2
<1>11. RunPart(g)'
  <2>1. MarkerPart(g, s)'
    BY <1>9 DEF MarkerPart, Concluding
  <2> QED BY <1>4, <1>9, <1>10, <2>1, RunPartNext
          DEF Unlaunched, Stopped, Unstopped, RunPhases, PastRecovery, Phases
<1> QED BY <1>7, <1>9, <1>11, PartsNext

\* A marker that cannot be read is an error of the run.
LEMMA MarkFailsContainment ==
    ASSUME TypeOK, Safe, ContainmentInvariant, NEW g \in Procs, MarkFails(g)
    PROVE  ContainmentInvariant'
<1>1. pc[g] = "mark" /\ pc[g] # "idle" /\ UNCHANGED <<rows, cur, world>>
  BY DEF MarkFails, At, storeVars
<1>2. PICK s \in Sessions : s = cur[g] /\ rows[s].status \in Open
  BY <1>1, OwnSession DEF Safe, RunPhases, PastRecovery, Phases
<1>3. (\A u \in Sessions : SessionPart(u)) /\ RunPart(g)
  BY Parts
<1>4. /\ unreadable' = unreadable \cup {s} /\ unstopped' = unstopped
      /\ res'[g].err /\ Goto(g, "verify") /\ cur'[g] = s
  BY <1>1, <1>2 DEF MarkFails, SetRes, TypeOK, LocalTypeOK, Results
<1>5. \A u \in Sessions : u # s => SessionPart(u)'
  BY <1>1, <1>3, <1>4, SessionKept DEF SameScene, world, dockerVars, sentinelVars
<1>6. Quiet(s)' = Quiet(s) /\ Noted(s)'
  BY <1>1, <1>4 DEF Quiet, Noted, world, sentinelVars
<1>7. SessionPart(s)'
  BY <1>1, <1>2, <1>3, <1>6
     DEF SessionPart, Settled, Closed, Open, Terminal, world, dockerVars
<1>8. pc'[g] = "verify" /\ \A h \in Procs : h # g => RunPart(h)'
  BY <1>1, <1>4, OneActs DEF Safe
<1>9. StoppedPart(g, s)
  BY <1>1, <1>2, <1>3
     DEF RunPart, Stopped, Unstopped, Unlaunched, RunPhases, PastRecovery, Phases
<1>10. StoppedPart(g, s)' /\ MarkerPart(g, s)'
  BY <1>1, <1>4, <1>6, <1>9 DEF StoppedPart, MarkerPart, world, dockerVars
<1>11. RunPart(g)'
  BY <1>4, <1>8, <1>10, RunPartNext
     DEF Unlaunched, Stopped, Unstopped, RunPhases, PastRecovery, Phases
<1> QED BY <1>5, <1>7, <1>8, <1>11, PartsNext

\* A session whose objects are all removed queues nothing more.
LEMMA ReconcileContainment ==
    ASSUME TypeOK, Safe, ContainmentInvariant, NEW g \in Procs,
           Reconcile(g) \/ ReconcileFails(g)
    PROVE  ContainmentInvariant'
<1>1. PICK s \in Sessions :
          /\ s \in toSweep[g]
          /\ \/ /\ Reconcile(g) /\ Remove(s, Kinds, {})
                /\ toSweep' = [toSweep EXCEPT ![g] = @ \ {s}]
                /\ Goto(g, IF toSweep[g] = {s} THEN "restore" ELSE "reconcile")
             \/ ReconcileFails(g) /\ \E left \in SUBSET present[s] : Remove(s, Kinds, left)
  BY DEF Reconcile, ReconcileFails, First
<1>2. pc[g] = "reconcile" /\ UNCHANGED <<rows, accepted, historyVars>>
  BY DEF Reconcile, ReconcileFails, At, storeVars
<1>3. PICK left \in SUBSET present[s] : Remove(s, Kinds, left)
  BY <1>1
<1>4. (\A u \in Sessions : SessionPart(u)) /\ RunPart(g)
  BY Parts
<1>5. \A u \in Sessions : SessionPart(u)'
  BY <1>2, <1>3, <1>4, RemoveSessions DEF TypeOK, historyVars
<1>6. CASE ReconcileFails(g)
  <2>1. \A h \in Procs : pc'[h] = "idle"
    BY <1>2, <1>6, OthersIdle DEF ReconcileFails, Leave, Goto, TypeOK, LocalTypeOK, Safe
  <2> QED BY <1>5, <2>1, OverPart, PartsNext
<1>7. CASE ~ReconcileFails(g)
  <2> DEFINE phase == IF toSweep[g] = {s} THEN "restore" ELSE "reconcile"
  <2>1. /\ Remove(s, Kinds, {}) /\ Goto(g, phase) /\ UNCHANGED toSettle
        /\ toSweep'[g] = toSweep[g] \ {s}
    BY <1>1, <1>7 DEF Reconcile, TypeOK, LocalTypeOK
  <2>2. pc'[g] = phase /\ \A h \in Procs : h # g => RunPart(h)'
    BY <1>2, <2>1, OneActs DEF Safe
  <2>3. Quiet(s)' /\ \A u \in Sessions : u # s /\ Quiet(u) => Quiet(u)'
    <3>1. present'[s] = {}
      BY <2>1, RemoveEffect DEF TypeOK, WorldTypeOK
    <3> QED BY <2>1, <3>1, RemoveEffect DEF TypeOK, Quiet
  <2>4. \A u \in toSettle[g] : u \in Sessions /\ (Quiet(u) \/ u \in toSweep[g])
    BY <1>2, <1>4 DEF RunPart, RecoveryPart, Recovering, TypeOK, LocalTypeOK
  <2>5. RecoveryPart(g)'
    <3>1. \A u \in toSettle[g] : Quiet(u)' \/ (phase = "reconcile" /\ u \in toSweep'[g])
      BY <2>1, <2>3, <2>4
    <3> QED BY <2>1, <2>2, <3>1 DEF RecoveryPart
  <2>6. RunPart(g)'
    BY <2>2, <2>5 DEF RunPart, Unlaunched, Unstopped, Stopped, RunPhases, PastRecovery
  <2> QED BY <1>5, <2>2, <2>6, PartsNext
<1> QED BY <1>6, <1>7

-----------------------------------------------------------------------------
(* The daemon, the command and the sentinel.                               *)

\* What one step outside the invocations does to its session.
LEMMA EnvironmentEffect ==
    ASSUME TypeOK, Safe, NEW s \in Sessions, Environment(s), SessionPart(s)
    PROVE  /\ Blank(s) /\ ~agent[s] => Blank(s)'
           /\ Launching(s) /\ ~agent[s] => Launching(s)'
           /\ Quiet(s) /\ ~(agent[s] /\ "sentinel" \in present[s]) =>
                 Quiet(s)' /\ ~(agent'[s] /\ "sentinel" \in present'[s])
           /\ marker'[s] => marker[s] \/ ~Quiet(s)
           /\ SessionPart(s)'
<1>1. /\ UNCHANGED <<rows, historyVars>> /\ Noted(s)' = Noted(s)
      /\ agent[s] => ~Settled(s) /\ rows[s].status # "absent"
  <2>1. UNCHANGED <<rows, historyVars>>
    BY DEF Environment, DaemonCreates, DaemonRemoves, AgentOpens, SentinelMarks,
           SentinelLogs, storeVars
  <2>2. rows[s].status = "absent" => ~rows[s].cleanup
    BY DEF TypeOK, StoreTypeOK, Rows, Values, Columns, Open, Terminal, AbsentRow
  <2> QED BY <2>1, <2>2 DEF Safe, LiveAgentJournaled, NeedsRecovery, Settled, Closed, Open,
                            Terminal, Noted, historyVars
<1>2. CASE DaemonCreates(s)
  <2>1. PICK k \in accepted[s] :
            /\ present' = [present EXCEPT ![s] = @ \cup {k}]
            /\ accepted' = [accepted EXCEPT ![s] = @ \ {k}]
            /\ UNCHANGED <<doomed, agent, sentinelVars>>
    BY <1>2 DEF DaemonCreates
  <2>2. present'[s] = present[s] \cup {k} /\ accepted'[s] = accepted[s] \ {k}
    BY <2>1 DEF TypeOK, WorldTypeOK
  <2>3. ~agent[s] /\ ~Blank(s)
    BY <2>1 DEF SessionPart, Blank
  <2>4. Quiet(s)' = Quiet(s) /\ marker' = marker /\ Unseen(s)' = Unseen(s)
    BY <1>1, <2>1 DEF Quiet, Unseen, sentinelVars
  <2>5. Launching(s) => Launching(s)'
    <3> SUFFICES ASSUME Launching(s) PROVE Launching(s)'
      OBVIOUS
    <3>1. accepted'[s] = {} /\ ("agent" \in present'[s] => "agent" \in present[s] \cup accepted[s])
      BY <2>2 DEF Launching
    <3> QED BY <2>2, <2>4, <3>1 DEF Launching
  <2>6. SessionPart(s)'
    BY <1>1, <2>1, <2>2, <2>3, <2>4 DEF SessionPart, Settled, Closed
  <2> QED BY <2>1, <2>3, <2>4, <2>5, <2>6
<1>3. CASE DaemonRemoves(s)
  <2>1. PICK k \in doomed[s] : Remove(s, {k}, {}) /\ UNCHANGED accepted
    BY <1>3 DEF DaemonRemoves
  <2>2. ~Blank(s) /\ ~Launching(s)
    BY <2>1 DEF Blank, Launching, Unseen
  <2>3. /\ Quiet(s) => Quiet(s)'
        /\ "sentinel" \in present'[s] => "sentinel" \in present[s]
        /\ agent'[s] => agent[s]
        /\ marker' = marker
        /\ "sentinel" \in present'[s] \/ Quiet(s)'
    BY <2>1, RemoveEffect DEF TypeOK, Quiet
  <2>4. SessionPart(s)'
    BY <1>1, <2>1, <2>2, <2>3 DEF SessionPart, Settled, Closed
  <2> QED BY <2>2, <2>3, <2>4
<1>4. CASE AgentOpens(s)
  <2>1. agent[s] /\ "sentinel" \in present[s] /\ UNCHANGED <<dockerVars, marker>>
    BY <1>4 DEF AgentOpens
  <2>2. SessionPart(s)'
    BY <1>1, <2>1 DEF SessionPart, Settled, Closed, dockerVars
  <2> QED BY <2>1, <2>2
<1>5. CASE SentinelMarks(s) \/ SentinelLogs(s)
  <2>1. ~Quiet(s) /\ ~Blank(s) /\ ~Launching(s) /\ UNCHANGED dockerVars
    BY <1>5 DEF SentinelMarks, SentinelLogs, Quiet, Blank, Launching, Unseen
  <2>2. SessionPart(s)'
    BY <1>1, <2>1 DEF SessionPart, Settled, Closed, dockerVars
  <2> QED BY <2>1, <2>2
<1> QED BY <1>2, <1>3, <1>4, <1>5 DEF Environment

\* It leaves every other session, and every invocation, alone.
LEMMA EnvironmentFrame ==
    ASSUME TypeOK, NEW s \in Sessions, Environment(s)
    PROVE  /\ UNCHANGED <<storeVars, pc, cur, val, res, recoveryVars, historyVars>>
           /\ \A u \in Sessions : u # s => SameScene(u)
<1>1. UNCHANGED <<storeVars, pc, cur, val, res, recoveryVars, historyVars>>
  BY DEF Environment, DaemonCreates, DaemonRemoves, AgentOpens, SentinelMarks,
         SentinelLogs, localVars, recoveryVars
<1>2. ASSUME NEW u \in Sessions, u # s PROVE SameScene(u)
  <2>1. CASE DaemonCreates(s) \/ AgentOpens(s) \/ SentinelMarks(s) \/ SentinelLogs(s)
    BY <1>1, <1>2, <2>1
       DEF DaemonCreates, AgentOpens, SentinelMarks, SentinelLogs, SameScene, TypeOK,
           WorldTypeOK, dockerVars, sentinelVars, historyVars
  <2>2. CASE DaemonRemoves(s)
    BY <1>1, <1>2, <2>2, RemoveEffect DEF DaemonRemoves, SameScene, TypeOK, historyVars
  <2> QED BY <2>1, <2>2 DEF Environment
<1> QED BY <1>1, <1>2

LEMMA EnvironmentContainment ==
    ASSUME TypeOK, Safe, ContainmentInvariant, NEW s \in Sessions, Environment(s)
    PROVE  ContainmentInvariant'
<1>1. /\ UNCHANGED <<rows, pc, cur, val, res, recoveryVars, historyVars>>
      /\ \A u \in Sessions : u # s => SameScene(u)
  BY EnvironmentFrame DEF storeVars
<1>2. (\A u \in Sessions : SessionPart(u)) /\ (\A g \in Procs : RunPart(g))
  BY Parts
<1>3. \A u \in Sessions : SessionPart(u)'
  BY <1>1, <1>2, EnvironmentEffect, SessionKept
<1>4. ASSUME NEW g \in Procs, pc[g] \in RunPhases PROVE RunPart(g)'
  <2>1. PICK u \in Sessions : u = cur[g] /\ cur'[g] = u
    BY <1>1, <1>4 DEF Safe, OwnsOpenSession
  <2>2. Noted(u)' = Noted(u) /\ pc'[g] = pc[g]
    BY <1>1 DEF Noted, historyVars
  <2>3. pc[g] \in Preparing => ~agent[u]
    BY <2>1, NoAgentYet
  <2>4. /\ pc[g] \in Unlaunched => Blank(u)'
        /\ pc[g] = "launch" => Launching(u)'
    BY <1>1, <1>2, <2>1, <2>3, EnvironmentEffect, SceneFacts DEF RunPart, Unlaunched, Preparing
  <2>5. pc[g] \in Unstopped => ~Noted(u)'
    BY <1>2, <2>1, <2>2 DEF RunPart
  <2>6. ASSUME pc[g] \in Stopped PROVE StoppedPart(g, u)'
    <3>1. StoppedPart(g, u)
      BY <1>2, <2>1, <2>6 DEF RunPart
    <3>2. CASE u # s
      BY <1>1, <2>2, <3>1, <3>2, SceneFacts DEF StoppedPart, SameScene
    <3>3. CASE u = s
      BY <1>1, <1>2, <2>2, <3>1, <3>3, EnvironmentEffect DEF StoppedPart, historyVars
    <3> QED BY <3>2, <3>3
  <2>7. MarkerPart(g, u)'
    <3> SUFFICES ASSUME marker'[u], ~Noted(u), pc[g] \in Concluding \cup {"verify"}
                 PROVE  MarkerPart(g, u)'
      BY <2>2 DEF MarkerPart, Concluding
    <3>1. StoppedPart(g, u) /\ MarkerPart(g, u)
      BY <1>2, <2>1
         DEF RunPart, Concluding, Stopped, RunPhases, PastRecovery, Phases, Unstopped, Unlaunched
    <3>2. Quiet(u)
      BY <3>1 DEF StoppedPart, Noted
    <3>3. marker[u]
      BY <1>1, <1>2, <3>2, EnvironmentEffect DEF SameScene
    <3> QED BY <1>1, <3>1, <3>3 DEF MarkerPart
  <2> QED BY <1>4, <2>1, <2>2, <2>4, <2>5, <2>6, <2>7, RunPartNext
<1>5. ASSUME NEW g \in Procs, pc[g] \in Recovering PROVE RunPart(g)'
  <2>1. RecoveryPart(g) /\ UNCHANGED <<pc, toSettle, toSweep, snap>>
    BY <1>1, <1>2, <1>5 DEF RunPart, recoveryVars
  <2>2. ASSUME NEW u \in toSettle[g]
        PROVE  /\ Quiet(u)' \/ (pc[g] = "reconcile" /\ u \in toSweep[g])
               /\ pc[g] = "settle" /\ marker'[u] => marker[u]
    <3>1. u \in Sessions
      BY DEF TypeOK, LocalTypeOK
    <3>2. CASE u # s
      BY <1>1, <2>1, <3>1, <3>2, SceneFacts DEF RecoveryPart, SameScene
    <3>3. CASE u = s
      <4>1. agent[u] => pc[g] = "reconcile" /\ u \in toSweep[g]
        BY <1>5 DEF Safe, SweptIsDead
      <4> QED BY <1>2, <2>1, <3>3, <4>1, EnvironmentEffect DEF RecoveryPart
    <3> QED BY <3>2, <3>3
  <2>3. RecoveryPart(g)'
    BY <2>1, <2>2 DEF RecoveryPart
  <2> QED BY <1>5, <2>1, <2>3
          DEF RunPart, Unlaunched, Unstopped, Stopped, RunPhases, PastRecovery, Recovering
<1>6. ASSUME NEW g \in Procs, pc[g] \notin RunPhases, pc[g] \notin Recovering PROVE RunPart(g)'
  BY <1>1, <1>6 DEF RunPart, Unlaunched, Unstopped, Stopped, RunPhases, PastRecovery, Phases
<1> QED BY <1>3, <1>4, <1>5, <1>6, PartsNext

-----------------------------------------------------------------------------
LEMMA InitContainment == Init => ContainmentInvariant
<1> SUFFICES ASSUME Init PROVE ContainmentInvariant
  OBVIOUS
<1>1. \A g \in Procs : RunPart(g)
  BY DEF Init, RunPart, Unlaunched, Unstopped, Stopped, RunPhases, PastRecovery, Recovering
<1>2. ASSUME NEW s \in Sessions PROVE SessionPart(s)
  <2>1. Quiet(s) /\ ~Noted(s) /\ ~agent[s]
    BY DEF Init, Quiet, Noted
  <2>2. Blank(s)
    BY <2>1 DEF Init, Blank, Unseen
  <2>3. ~Settled(s)
    BY DEF Init, StoreInit, Settled, Closed, AbsentRow, Terminal
  <2> QED BY <2>1, <2>2, <2>3 DEF SessionPart
<1> QED BY <1>1, <1>2, Parts

LEMMA NextContainment ==
    ASSUME TypeOK, Safe, ContainmentInvariant, Next PROVE ContainmentInvariant'
<1>1. ASSUME NEW g \in Procs, Acquire(g) \/ Works(g) \/ Errs(g) \/ Crash(g)
      PROVE  ContainmentInvariant'
  <2>1. CASE StoreFails(g)
    BY <2>1, PrepareContainment, ConcludeContainment DEF StoreFails
  <2>2. CASE ~StoreFails(g)
    BY <1>1, <2>2, ComeAndGoContainment, ScanContainment, ReconcileContainment,
       RestoreContainment, SettleContainment, CreateContainment, PrepareContainment,
       LaunchContainment, ExecuteContainment, StopContainment, MarkFailsContainment,
       ConcludeContainment, CloseContainment
       DEF Works, Recovers, Prepares, Executes, Concludes, Errs
  <2> QED BY <2>1, <2>2
<1>2. ASSUME NEW s \in Sessions, Environment(s) PROVE ContainmentInvariant'
  BY <1>2, EnvironmentContainment
<1> QED BY <1>1, <1>2 DEF Next

LEMMA IdleContainment ==
    ASSUME ContainmentInvariant, UNCHANGED vars PROVE ContainmentInvariant'
<1>1. UNCHANGED <<rows, world, historyVars, pc, cur, val, res, recoveryVars>>
  BY DEF vars, storeVars, localVars, recoveryVars, world
<1>2. \A s \in Sessions : SessionPart(s)'
  BY <1>1, Parts, SceneUnchanged, SessionKept
<1>3. ASSUME NEW g \in Procs PROVE RunPart(g)'
  <2>1. RunPart(g)' = RunPart(g)
    BY <1>1 DEF RunPart, Blank, Launching, Unseen, Quiet, Noted, StoppedPart, MarkerPart,
                RecoveryPart, world, dockerVars, sentinelVars, historyVars, recoveryVars
  <2> QED BY <2>1, Parts
<1> QED BY <1>2, <1>3, PartsNext

(***************************************************************************)
(* What keeps containment from being lost holds for any number of          *)
(* invocations, sessions, decoys, crashes and failures, beside the         *)
(* invariant of the lifecycle (docker.go:203-230, manager.go:255-259,      *)
(* 548-577).                                                               *)
(***************************************************************************)
THEOREM ContainmentInvariance == Spec => []ContainmentInvariant
<1>1. Init => ContainmentInvariant
  BY InitContainment
<1>2. LifecycleInvariant /\ ContainmentInvariant /\ [Next]_vars => ContainmentInvariant'
  BY NextContainment, IdleContainment DEF LifecycleInvariant, Safe
<1> QED BY <1>1, <1>2, LifecycleInvariance, PTL DEF Spec

(***************************************************************************)
(* A settled session whose marker exists is recorded as contained, or      *)
(* failed by a run that could not read the marker or stop the sentinel.    *)
(***************************************************************************)
THEOREM ContainmentKept == Spec => []ContainmentNotLost
BY ContainmentInvariance, PTL DEF ContainmentInvariant

-----------------------------------------------------------------------------
(* The clean account of a completed session, again session by session and  *)
(* invocation by invocation.                                               *)

Clean(s) ==
    /\ rows[s].exit = 0
    /\ trail[s]["PROCESS_EXIT"] = 1
    /\ ~rows[s].cleanup
    /\ ~agent[s]
    /\ logged[s] = Triggered(s)
    /\ trail[s]["DECOY_ACCESS"] = Cardinality(logged[s])
    /\ rows[s].contained <=> (ContainOnDecoy /\ logged[s] # {})
    /\ rows[s].contained => trail[s]["CONTAINMENT_ACTIVATED"] = 1

BooksPart(s) ==
    /\ rows[s].status = "absent" => Triggered(s) = {} /\ \A t \in EventTypes : trail[s][t] = 0
    /\ rows[s].status = "completed" => Quiet(s) /\ Clean(s)

\* Of the value and the PROCESS_EXIT of a run.
NotExited(g, s) ==
    pc[g] \in RunPhases \ {"final", "fail"} =>
        val[g].exit = NoExit /\ trail[s]["PROCESS_EXIT"] = 0

\* Of a run that has imported nothing.
NothingImported(g, s) ==
    pc[g] \in RunPhases \ Concluding =>
        /\ Triggered(s) = {} /\ ~res[g].recorded
        /\ trail[s]["DECOY_ACCESS"] = 0 /\ trail[s]["CONTAINMENT_ACTIVATED"] = 0

ArmedPart(g, s) ==
    pc[g] \in RunPhases \ {"start", "activate", "prepare", "fail"} => Armed(s)

\* Of a run without an error.
CleanSoFar(g, s) ==
    pc[g] \in RunPhases /\ ~res[g].err =>
        /\ pc[g] \in {"stop", "collect"} => res[g].flushed
        /\ pc[g] \in {"mark", "verify"} \cup Importing => res[g].accesses = logged[s]
        /\ pc[g] \in Importing => ~val[g].cleanup

\* Of the events and decoys of a run that imports.
Imported(g, s) ==
    /\ IsFiniteSet(Triggered(s)) /\ Triggered(s) \subseteq res[g].accesses
    /\ pc[g] = "import" => Triggered(s) = {}
    /\ trail[s]["DECOY_ACCESS"] + (IF pc[g] = "witness" THEN 1 ELSE 0) = Cardinality(Triggered(s))
    /\ trail[s]["CONTAINMENT_ACTIVATED"] = IF res[g].recorded THEN 1 ELSE 0
    /\ pc[g] # "import" => (val[g].contained <=> ContainOnDecoy /\ res[g].accesses # {})
    /\ pc[g] \in {"access", "final"} /\ val[g].contained /\ Triggered(s) # {} => res[g].recorded
    /\ pc[g] = "contain" => ~res[g].recorded
    /\ pc[g] = "final" =>
         /\ res[g].accesses \subseteq Triggered(s)
         /\ val[g].exit # NoExit => trail[s]["PROCESS_EXIT"] = 1

Account(g, s) ==
    /\ NotExited(g, s) /\ NothingImported(g, s) /\ ArmedPart(g, s) /\ CleanSoFar(g, s)
    /\ pc[g] \in Importing => Imported(g, s)

DebtsPart(g) == pc[g] \in Recovering => \A s \in toSettle[g] : NeedsRecovery(rows[s])

FreshPart(g) == pc[g] \notin RunPhases => val[g] = FreshValue /\ res[g] = NoResult

\* Something is said of the session of an invocation only while it is in its run.
ReportPart(g) ==
    /\ FreshPart(g) /\ DebtsPart(g)
    /\ pc[g] \in RunPhases => Account(g, cur[g])

LEMMA ReportParts ==
    CompletionInvariant <=>
        (\A s \in Sessions : BooksPart(s)) /\ (\A g \in Procs : ReportPart(g))
<1>0. Importing \subseteq RunPhases
  BY DEF Importing, RunPhases, PastRecovery, Phases
<1>1. (\A s \in Sessions : BooksPart(s)) <=>
        /\ \A s \in Sessions : rows[s].status = "absent" =>
              Triggered(s) = {} /\ \A t \in EventTypes : trail[s][t] = 0
        /\ CompletedIsQuiet /\ CompletedMeansClean
  BY DEF BooksPart, CompletedIsQuiet, CompletedMeansClean, Clean, Triggered
<1>2. (\A g \in Procs : FreshPart(g) /\ DebtsPart(g)) <=> FreshStart /\ RecoversDebtsOnly
  BY DEF FreshPart, DebtsPart, FreshStart, RecoversDebtsOnly
<1>3. RecordedInOrder <=>
        /\ \A s \in Sessions : rows[s].status = "absent" =>
              Triggered(s) = {} /\ \A t \in EventTypes : trail[s][t] = 0
        /\ \A g \in Procs : pc[g] \in RunPhases =>
              NotExited(g, cur[g]) /\ NothingImported(g, cur[g])
  BY DEF RecordedInOrder, NotExited, NothingImported
<1>4. DecoysArmed <=> \A g \in Procs : pc[g] \in RunPhases => ArmedPart(g, cur[g])
  BY DEF DecoysArmed, ArmedPart
<1>5. ErrorFree <=> \A g \in Procs : pc[g] \in RunPhases => CleanSoFar(g, cur[g])
  BY DEF ErrorFree, CleanSoFar
<1>6. ImportedInOrder <=> \A g \in Procs : pc[g] \in Importing => Imported(g, cur[g])
  BY DEF ImportedInOrder, Imported
<1>7. (\A g \in Procs : pc[g] \in RunPhases => Account(g, cur[g])) <=>
        /\ \A g \in Procs : pc[g] \in RunPhases =>
              NotExited(g, cur[g]) /\ NothingImported(g, cur[g])
        /\ \A g \in Procs : pc[g] \in RunPhases => ArmedPart(g, cur[g])
        /\ \A g \in Procs : pc[g] \in RunPhases => CleanSoFar(g, cur[g])
        /\ \A g \in Procs : pc[g] \in Importing => Imported(g, cur[g])
  BY <1>0 DEF Account
<1>8. (\A g \in Procs : ReportPart(g)) <=>
        /\ \A g \in Procs : FreshPart(g) /\ DebtsPart(g)
        /\ \A g \in Procs : pc[g] \in RunPhases => Account(g, cur[g])
  BY DEF ReportPart
<1> QED BY <1>1, <1>2, <1>3, <1>4, <1>5, <1>6, <1>7, <1>8 DEF CompletionInvariant

LEMMA ReportPartsNext ==
    CompletionInvariant' <=>
        (\A s \in Sessions : BooksPart(s)') /\ (\A g \in Procs : ReportPart(g)')
<1>1. CompletionInvariant' <=>
        ((\A s \in Sessions : BooksPart(s)) /\ (\A g \in Procs : ReportPart(g)))'
  BY ReportParts, PTL
<1> QED BY <1>1

\* A session without a command and without a queue stays so, unless it is open.
LEMMA CalmStaysCalm ==
    ASSUME TypeOK, Safe, Next, NEW s \in Sessions, rows[s].status \notin Open,
           Quiet(s), ~agent[s]
    PROVE  Quiet(s)' /\ ~agent'[s] /\ logged'[s] = logged[s]
<1>1. ASSUME UNCHANGED world PROVE Quiet(s)' /\ ~agent'[s] /\ logged'[s] = logged[s]
  BY <1>1 DEF world, dockerVars, sentinelVars, Quiet
<1>2. ASSUME NEW u \in Sessions, NEW asked, NEW left, Remove(u, asked, left)
      PROVE  Quiet(s)' /\ ~agent'[s] /\ logged'[s] = logged[s]
  <2>1. CASE u = s
    BY <1>2, <2>1, RemoveEffect DEF TypeOK, Quiet
  <2>2. CASE u # s
    BY <1>2, <2>2, RemoveEffect DEF TypeOK, Quiet
  <2> QED BY <2>1, <2>2
<1>3. ASSUME NEW u \in Sessions, Environment(u)
      PROVE  Quiet(s)' /\ ~agent'[s] /\ logged'[s] = logged[s]
  <2>1. CASE u # s
    BY <1>3, <2>1, EnvironmentFrame, SceneFacts DEF SameScene
  <2>2. CASE u = s
    <3>1. CASE DaemonCreates(s)
      BY <3>1 DEF DaemonCreates, Quiet, sentinelVars
    <3>2. CASE DaemonRemoves(s)
      BY <1>2, <3>2 DEF DaemonRemoves
    <3>3. ~AgentOpens(s) /\ ~SentinelMarks(s) /\ ~SentinelLogs(s)
      BY DEF AgentOpens, SentinelMarks, SentinelLogs, Quiet
    <3> QED BY <1>3, <2>2, <3>1, <3>2, <3>3 DEF Environment
  <2> QED BY <2>1, <2>2
<1>4. ASSUME NEW g \in Procs, Acquire(g) \/ Works(g) \/ Errs(g) \/ Crash(g)
      PROVE  Quiet(s)' /\ ~agent'[s] /\ logged'[s] = logged[s]
  <2>1. CASE Issue(g) \/ Exec(g)
    <3>1. pc[g] \in RunPhases
      BY <2>1 DEF Issue, Exec, At, RunPhases, PastRecovery, Phases
    <3>2. cur[g] # s
      BY <3>1, OwnSession DEF Safe
    <3> QED BY <2>1, <3>2 DEF Issue, Exec, Quiet, sentinelVars, TypeOK, WorldTypeOK
  <2>2. CASE \/ LaunchFails(g) \/ StopAgent(g) \/ StopAgentFails(g)
             \/ StopSidecars(g) \/ StopSidecarsFails(g)
    <3>1. pc[g] \in RunPhases
      BY <2>2 DEF LaunchFails, StopAgent, StopAgentFails, StopSidecars, StopSidecarsFails, At,
                  RunPhases, PastRecovery, Phases
    <3>2. PICK u \in Sessions : u = cur[g]
      BY <3>1, OwnSession DEF Safe
    <3> QED BY <1>2, <2>2, <3>2
            DEF LaunchFails, StopAgent, StopAgentFails, StopSidecars, StopSidecarsFails
  <2>3. CASE Reconcile(g) \/ ReconcileFails(g)
    BY <1>2, <2>3, SMTT(30) DEF Reconcile, ReconcileFails
  <2>4. CASE Acquire(g) \/ Scan(g) \/ Restore(g) \/ Settle(g) \/ Prepares(g) \/ Concludes(g)
               \/ Crash(g)
    BY <1>1, <2>4 DEF Acquire, Scan, Restore, Settle, Prepares, Create, Exhausted, Start,
       Activate, Prepare, Announce, Journal, Concludes, Import, Access, Witness, Contain, Exit,
       Final, Fail, CloseAs, Crash
  <2>5. CASE \/ Flush(g) \/ Collect(g) \/ Mark(g) \/ Verify(g) \/ JournalFails(g)
             \/ FlushFails(g) \/ CollectFails(g) \/ MarkFails(g) \/ VerifyFails(g)
             \/ ExitFails(g) \/ StoreFails(g) \/ Abort(g)
    BY <1>1, <2>5 DEF Flush, Collect, Mark, Verify, JournalFails, FlushFails, CollectFails,
       MarkFails, VerifyFails, ExitFails, StoreFails, Abort
  <2> QED BY <1>4, <2>1, <2>2, <2>3, <2>4, <2>5 DEF Works, Recovers, Executes, Errs
<1> QED BY <1>3, <1>4 DEF Next

SameBooks(s) == rows'[s] = rows[s] /\ trail'[s] = trail[s] /\ decoys'[s] = decoys[s]

\* A session whose books a step leaves alone stays accounted for.
LEMMA BooksKept ==
    ASSUME TypeOK, Safe, Next, NEW s \in Sessions, SameBooks(s), BooksPart(s)
    PROVE  BooksPart(s)'
<1>1. Triggered(s)' = Triggered(s)
  BY DEF Triggered, SameBooks
<1>2. rows[s].status = "completed" => Quiet(s)' /\ Clean(s)'
  <2> SUFFICES ASSUME rows[s].status = "completed" PROVE Quiet(s)' /\ Clean(s)'
    OBVIOUS
  <2>1. Quiet(s) /\ Clean(s) /\ ~agent[s]
    BY DEF BooksPart, Clean
  <2>2. Quiet(s)' /\ ~agent'[s] /\ logged'[s] = logged[s]
    BY <2>1, CalmStaysCalm DEF Open
  <2> QED BY <1>1, <2>1, <2>2 DEF Clean, SameBooks
<1> QED BY <1>1, <1>2 DEF BooksPart, SameBooks

LEMMA OpenBooks ==
    ASSUME NEW s, rows'[s].status \in Open \cup {"failed"} PROVE BooksPart(s)'
BY DEF BooksPart, Open

-----------------------------------------------------------------------------
(* The steps inside a run.                                                 *)

\* With the run's session, what it is about to write or has left to say.
RunsOn(g) ==
    \/ Start(g) \/ Activate(g) \/ Prepare(g) \/ Announce(g) \/ Journal(g)
    \/ Issue(g) \/ Exec(g) \/ StopAgent(g) \/ Flush(g) \/ StopSidecars(g)
    \/ Collect(g) \/ Mark(g) \/ Verify(g)
    \/ Import(g) \/ Access(g) \/ Witness(g) \/ Contain(g) \/ Exit(g)
    \/ JournalFails(g) \/ LaunchFails(g) \/ StopAgentFails(g) \/ FlushFails(g)
    \/ StopSidecarsFails(g) \/ CollectFails(g) \/ MarkFails(g) \/ VerifyFails(g)
    \/ ExitFails(g) \/ StoreFails(g)

LEMMA RunsOnLocals ==
    ASSUME TypeOK, Safe, NEW g \in Procs, RunsOn(g)
    PROVE  /\ pc[g] \in RunPhases /\ pc[g] # "idle"
           /\ \E phase \in RunPhases : Goto(g, phase)
           /\ cur' = cur
           /\ \A h \in Procs : h # g => val'[h] = val[h] /\ res'[h] = res[h]
<1>1. pc[g] \in RunPhases
  BY ZenonT(30) DEF RunsOn, Start, Activate, Prepare, Announce, Journal, Issue, Exec, StopAgent, Flush,
     StopSidecars, Collect, Mark, Verify, Import, Access, Witness, Contain, Exit, JournalFails,
     LaunchFails, StopAgentFails, FlushFails, StopSidecarsFails, CollectFails, MarkFails,
     VerifyFails, ExitFails, StoreFails, At, RunPhases, PastRecovery, Phases
<1>2. \E phase \in RunPhases : Goto(g, phase)
  <2>1. CASE Prepare(g) \/ Issue(g)
    BY <1>1, <2>1 DEF Prepare, Issue, Goto, TypeOK, LocalTypeOK
  <2>2. CASE ~Prepare(g) /\ ~Issue(g)
    BY <2>2 DEF RunsOn, Start, Activate, Announce, Journal, Exec, StopAgent, Flush,
     StopSidecars, AfterStop, Collect, Mark, Verify, Import, Access, Witness, Contain, Exit,
     JournalFails, LaunchFails, StopAgentFails, FlushFails, StopSidecarsFails, CollectFails,
     MarkFails, VerifyFails, ExitFails, StoreFails, RunPhases, PastRecovery, Phases
  <2> QED BY <2>1, <2>2
<1>3. cur' = cur /\ \A h \in Procs : h # g => val'[h] = val[h] /\ res'[h] = res[h]
  <2>1. CASE \/ Start(g) \/ Prepare(g) \/ Announce(g) \/ Issue(g) \/ Exec(g) \/ StopSidecars(g)
             \/ Access(g) \/ Witness(g) \/ StoreFails(g)
    BY <2>1 DEF Start, Prepare, Announce, Issue, Exec, StopSidecars, Access, Witness,
                StoreFails, localVars
  <2>2. CASE \/ Activate(g) \/ Journal(g) \/ Import(g) \/ Exit(g) \/ JournalFails(g)
             \/ ExitFails(g)
    BY <2>2 DEF Activate, Journal, Import, Exit, JournalFails, ExitFails, SetVal, TypeOK,
                LocalTypeOK
  <2>3. CASE \/ StopAgent(g) \/ Flush(g) \/ Collect(g) \/ Mark(g) \/ Contain(g)
             \/ LaunchFails(g) \/ StopAgentFails(g) \/ FlushFails(g) \/ StopSidecarsFails(g)
             \/ CollectFails(g) \/ MarkFails(g)
    BY <2>3 DEF StopAgent, Flush, Collect, Mark, Contain, LaunchFails, StopAgentFails,
                FlushFails, StopSidecarsFails, CollectFails, MarkFails, SetRes, TypeOK,
                LocalTypeOK
  <2>4. CASE Verify(g) \/ VerifyFails(g)
    BY <2>4 DEF Verify, VerifyFails, SetVal, SetRes, TypeOK, LocalTypeOK
  <2> QED BY <2>1, <2>2, <2>3, <2>4 DEF RunsOn
<1> QED BY <1>1, <1>2, <1>3, SMTT(30) DEF RunPhases, PastRecovery

\* A run writes only about its own session, whose row stays open.
LEMMA RunsOnStore ==
    ASSUME TypeOK, Safe, NEW g \in Procs, RunsOn(g)
    PROVE  /\ rows'[cur[g]].status \in Open
           /\ \A u \in Sessions : u # cur[g] => SameBooks(u)
<1>1. PICK s \in Sessions : s = cur[g] /\ rows[s].status \in Open
  BY RunsOnLocals, OwnSession DEF Safe
<1>2. CASE UNCHANGED storeVars
  BY <1>1, <1>2 DEF storeVars, SameBooks
<1>3. CASE \E type \in EventTypes : AddEvent(s, type)
  BY <1>1, <1>3 DEF AddEvent, SameBooks, TypeOK, StoreTypeOK
<1>4. CASE \E d \in Decoys : CreateDecoy(s, d, "armed") \/ TriggerDecoy(s, d)
  BY <1>1, <1>4 DEF CreateDecoy, TriggerDecoy, SameBooks, TypeOK, StoreTypeOK
<1>5. CASE Activate(g) \/ Journal(g)
  <2>1. PICK v : UpdateSession(s, v) /\ v.status \in Open
    <3>1. val[g] \in Values /\ val[g].status \in Open
      BY DEF TypeOK, LocalTypeOK, Safe, OwnsOpenSession
    <3>2. [val[g] EXCEPT !.status = "running"].status \in Open
            /\ [val[g] EXCEPT !.cleanup = TRUE].status \in Open
      BY <3>1 DEF Values, Columns, Open
    <3> QED BY <1>1, <1>5, <3>2 DEF Activate, Journal
  <2>2. rows' = [rows EXCEPT ![s] = v] /\ UNCHANGED <<trail, decoys>>
    BY <2>1 DEF UpdateSession
  <2> QED BY <1>1, <2>1, <2>2 DEF SameBooks, TypeOK, StoreTypeOK
<1>6. CASE Start(g) \/ Announce(g) \/ Witness(g) \/ Contain(g)
  BY <1>1, <1>3, <1>6, LifecycleAssumption DEF Start, Announce, Witness, Contain
<1>7. CASE Exit(g)
  <2>1. UNCHANGED storeVars \/ AddEvent(s, "PROCESS_EXIT")
    BY <1>1, <1>7 DEF Exit
  <2> QED BY <1>2, <1>3, <2>1, LifecycleAssumption
<1>8. CASE Prepare(g) \/ Access(g)
  BY <1>1, <1>4, <1>8, ResBooleans, SMTT(30) DEF Prepare, Access, Unarmed, Unrecorded, TypeOK
<1>9. CASE \/ Issue(g) \/ Exec(g) \/ StopAgent(g) \/ Flush(g) \/ StopSidecars(g)
           \/ Collect(g) \/ Mark(g) \/ Verify(g) \/ Import(g)
           \/ JournalFails(g) \/ LaunchFails(g) \/ StopAgentFails(g) \/ FlushFails(g)
           \/ StopSidecarsFails(g) \/ CollectFails(g) \/ MarkFails(g) \/ VerifyFails(g)
           \/ ExitFails(g) \/ StoreFails(g)
  BY <1>2, <1>9 DEF Issue, Exec, StopAgent, Flush, StopSidecars, Collect, Mark, Verify, Import,
     JournalFails, LaunchFails, StopAgentFails, FlushFails, StopSidecarsFails, CollectFails,
     MarkFails, VerifyFails, ExitFails, StoreFails
<1> QED BY <1>5, <1>6, <1>7, <1>8, <1>9 DEF RunsOn

\* So all there is to show of such a step is the account of the run itself.
LEMMA RunsOnReport ==
    ASSUME TypeOK, Safe, CompletionInvariant, Next, NEW g \in Procs, RunsOn(g),
           NEW s \in Sessions, s = cur[g], Account(g, s)'
    PROVE  CompletionInvariant'
<1>1. (\A u \in Sessions : BooksPart(u)) /\ (\A h \in Procs : ReportPart(h))
  BY ReportParts
<1>2. \A u \in Sessions : BooksPart(u)'
  BY <1>1, RunsOnStore, BooksKept, OpenBooks
<1>3. PICK phase \in RunPhases : Goto(g, phase)
  BY RunsOnLocals
<1>4. pc[g] # "idle" /\ pc'[g] = phase /\ \A h \in Procs : h # g => pc'[h] = "idle" /\ pc[h] = "idle"
  BY <1>3, RunsOnLocals, OneActs, OthersIdle DEF Safe
<1>5. ASSUME NEW h \in Procs, h # g PROVE ReportPart(h)'
  <2>1. FreshPart(h)
    BY <1>1 DEF ReportPart
  <2> QED BY <1>4, <1>5, <2>1, RunsOnLocals
          DEF ReportPart, FreshPart, DebtsPart, RunPhases, PastRecovery, Recovering
<1>6. ReportPart(g)'
  <2>1. cur'[g] = s
    BY RunsOnLocals
  <2> QED BY <1>4, <2>1 DEF ReportPart, FreshPart, DebtsPart, RunPhases, PastRecovery, Recovering
<1> QED BY <1>2, <1>5, <1>6, ReportPartsNext

-----------------------------------------------------------------------------
(* The account of a run, phase by phase.                                   *)

\* A failed run has nothing more to account for.
LEMMA FailAccount == ASSUME NEW g, NEW s, pc'[g] = "fail" PROVE Account(g, s)'
BY DEF Account, NotExited, NothingImported, ArmedPart, CleanSoFar, Importing, Concluding

\* The types of the run's own value and result.
LEMMA OwnTypes ==
    ASSUME TypeOK, NEW g \in Procs
    PROVE  /\ val \in [Procs -> Values] /\ val[g] \in Values
           /\ res \in [Procs -> Results] /\ res[g] \in Results
           /\ pc \in [Procs -> Phases]
BY DEF TypeOK, LocalTypeOK

\* Before the import the trail has nothing of what is yet to be observed.
LEMMA BeforeImport ==
    ASSUME NEW g, NEW s, Account(g, s), pc[g] \in RunPhases \ Concluding,
           pc'[g] \in RunPhases \ Concluding,
           val'[g].exit = val[g].exit, res'[g].recorded = res[g].recorded,
           trail'[s]["PROCESS_EXIT"] = trail[s]["PROCESS_EXIT"],
           trail'[s]["DECOY_ACCESS"] = trail[s]["DECOY_ACCESS"],
           trail'[s]["CONTAINMENT_ACTIVATED"] = trail[s]["CONTAINMENT_ACTIVATED"],
           Triggered(s)' = Triggered(s), ArmedPart(g, s)', CleanSoFar(g, s)'
    PROVE  Account(g, s)'
<1>1. NotExited(g, s)'
  BY DEF Account, NotExited, Concluding
<1>2. NothingImported(g, s)'
  BY DEF Account, NothingImported
<1>3. pc'[g] \notin Importing
  BY DEF Importing, Concluding
<1> QED BY <1>1, <1>2, <1>3 DEF Account

LEMMA AddEventEffect ==
    ASSUME StoreTypeOK, NEW s \in Sessions, NEW type \in EventTypes, AddEvent(s, type)
    PROVE  /\ trail'[s][type] = trail[s][type] + 1
           /\ \A u \in EventTypes : u # type => trail'[s][u] = trail[s][u]
           /\ decoys' = decoys
BY DEF AddEvent, StoreTypeOK

LEMMA PrepareAccount ==
    ASSUME TypeOK, Safe, NEW g \in Procs, NEW s \in Sessions, s = cur[g], Account(g, s),
           \/ Start(g) \/ Activate(g) \/ Prepare(g) \/ Announce(g) \/ Journal(g)
           \/ Issue(g) \/ Exec(g)
    PROVE  Account(g, s)'
<1> USE OwnTypes
<1>1. /\ pc[g] \in {"start", "activate", "prepare", "journal", "launch"}
      /\ pc'[g] \in {"activate", "prepare", "journal", "launch", "running"}
      /\ pc'[g] \notin {"activate", "prepare"} => pc[g] \in {"prepare", "journal", "launch"}
      /\ pc'[g] \notin {"activate", "prepare"} /\ pc[g] = "prepare" => Announce(g)
  <2>1. CASE Prepare(g) \/ Issue(g)
    BY <2>1 DEF Prepare, Issue, At
  <2>2. CASE Start(g) \/ Activate(g) \/ Announce(g) \/ Journal(g) \/ Exec(g)
    BY <2>2 DEF Start, Activate, Announce, Journal, Exec, At, Goto
  <2> QED BY <2>1, <2>2
<1>2. val'[g].exit = val[g].exit /\ res'[g].recorded = res[g].recorded
  <2>1. CASE Activate(g) \/ Journal(g)
    BY <2>1 DEF Activate, Journal, SetVal, Values, Columns
  <2>2. CASE Start(g) \/ Prepare(g) \/ Announce(g) \/ Issue(g) \/ Exec(g)
    BY <2>2 DEF Start, Prepare, Announce, Issue, Exec, localVars
  <2> QED BY <2>1, <2>2
<1>3. /\ trail'[s]["PROCESS_EXIT"] = trail[s]["PROCESS_EXIT"]
      /\ trail'[s]["DECOY_ACCESS"] = trail[s]["DECOY_ACCESS"]
      /\ trail'[s]["CONTAINMENT_ACTIVATED"] = trail[s]["CONTAINMENT_ACTIVATED"]
  <2>1. CASE Start(g) \/ Announce(g)
    BY <2>1, AddEventEffect, LifecycleAssumption DEF Start, Announce, TypeOK
  <2>2. CASE Prepare(g) \/ Activate(g) \/ Journal(g) \/ Issue(g) \/ Exec(g)
    BY <2>2 DEF Prepare, Activate, Journal, Issue, Exec, CreateDecoy, UpdateSession, storeVars
  <2> QED BY <2>1, <2>2
<1>4. Triggered(s)' = Triggered(s) /\ (Armed(s) => Armed(s)') /\ (Announce(g) => Armed(s)')
  <2>1. CASE Prepare(g)
    <3>1. PICK d \in Decoys : CreateDecoy(s, d, "armed")
      BY <2>1 DEF Prepare, Unarmed
    <3>2. ~Announce(g)
      BY <2>1 DEF Prepare, Announce, Unarmed
    <3>3. \A e \in Decoys : /\ decoys'[s][e] = "triggered" <=> decoys[s][e] = "triggered"
                            /\ decoys[s][e] # "absent" => decoys'[s][e] # "absent"
      BY <3>1 DEF CreateDecoy, TypeOK, StoreTypeOK
    <3> QED BY <3>2, <3>3 DEF Triggered, Armed
  <2>2. CASE Start(g) \/ Announce(g) \/ Activate(g) \/ Journal(g) \/ Issue(g) \/ Exec(g)
    BY <2>2 DEF Start, Announce, Activate, Journal, Issue, Exec, AddEvent, UpdateSession,
                storeVars, Unarmed, Triggered, Armed
  <2> QED BY <2>1, <2>2
<1>5. ArmedPart(g, s)'
  <2>1. pc[g] \in {"journal", "launch"} => Armed(s)
    BY DEF Account, ArmedPart, RunPhases, PastRecovery, Phases
  <2> QED BY <1>1, <1>4, <2>1 DEF ArmedPart
<1>6. CleanSoFar(g, s)'
  BY <1>1 DEF CleanSoFar, Importing
<1>7. pc[g] \in RunPhases \ Concluding /\ pc'[g] \in RunPhases \ Concluding
  BY <1>1 DEF RunPhases, PastRecovery, Phases, Concluding
<1> QED BY <1>2, <1>3, <1>4, <1>5, <1>6, <1>7, BeforeImport

\* Up to the verification of the cleanup nothing is written.
LEMMA ExecuteAccount ==
    ASSUME TypeOK, Safe, NEW g \in Procs, NEW s \in Sessions, s = cur[g], Account(g, s),
           \/ StopAgent(g) \/ StopAgentFails(g) \/ LaunchFails(g) \/ Flush(g)
           \/ FlushFails(g) \/ StopSidecars(g) \/ StopSidecarsFails(g) \/ Collect(g)
           \/ CollectFails(g) \/ Mark(g) \/ MarkFails(g)
    PROVE  Account(g, s)'
<1> USE OwnTypes
<1>1. /\ pc[g] \in {"launch", "running", "flush", "stop", "collect", "mark"}
      /\ pc'[g] \in {"flush", "stop", "collect", "mark", "verify"}
  BY DEF StopAgent, StopAgentFails, LaunchFails, Flush, FlushFails, StopSidecars,
         StopSidecarsFails, Collect, CollectFails, Mark, MarkFails, At, Goto, AfterStop
<1>2. UNCHANGED <<storeVars, val>> /\ res'[g].recorded = res[g].recorded
  <2>1. UNCHANGED <<storeVars, val>>
    BY DEF StopAgent, StopAgentFails, LaunchFails, Flush, FlushFails, StopSidecars,
           StopSidecarsFails, Collect, CollectFails, Mark, MarkFails, localVars
  <2>2. res'[g].recorded = res[g].recorded
    BY ZenonT(30) DEF StopAgent, StopAgentFails, LaunchFails, Flush, FlushFails, StopSidecars,
           StopSidecarsFails, Collect, CollectFails, Mark, MarkFails, localVars, SetRes, Results
  <2> QED BY <2>1, <2>2
<1>3. pc[g] \in RunPhases \ Concluding /\ pc'[g] \in RunPhases \ Concluding
  BY <1>1 DEF RunPhases, PastRecovery, Phases, Concluding
<1>4. ArmedPart(g, s)'
  <2>1. Armed(s)
    BY <1>1 DEF Account, ArmedPart, RunPhases, PastRecovery, Phases
  <2> QED BY <1>2, <2>1 DEF ArmedPart, Armed, storeVars
<1>5. CleanSoFar(g, s)'
  <2>1. CASE StopAgent(g) \/ StopAgentFails(g)
    <3>1. pc'[g] = "flush"
      BY <2>1 DEF StopAgent, StopAgentFails, Goto
    <3> QED BY <3>1 DEF CleanSoFar, Importing
  <2>2. CASE \/ LaunchFails(g) \/ FlushFails(g) \/ StopSidecarsFails(g) \/ CollectFails(g)
             \/ MarkFails(g)
    <3>1. res'[g].err
      BY <2>2 DEF LaunchFails, FlushFails, StopSidecarsFails, CollectFails, MarkFails, SetRes,
                  Results
    <3> QED BY <3>1 DEF CleanSoFar
  <2>3. CASE Flush(g)
    <3>1. pc'[g] = "stop" /\ res'[g].flushed
      BY <2>3 DEF Flush, Goto, SetRes, Results
    <3> QED BY <3>1 DEF CleanSoFar, Importing
  <2>4. CASE StopSidecars(g)
    <3>1. pc'[g] = (IF res[g].flushed THEN "collect" ELSE "mark") /\ res' = res
      BY <2>4 DEF StopSidecars, Goto, AfterStop, localVars
    <3>2. ~res[g].err => res[g].flushed
      BY <1>3, <2>4 DEF StopSidecars, At, Account, CleanSoFar
    <3> QED BY <3>1, <3>2 DEF CleanSoFar, Importing
  <2>5. CASE Collect(g)
    <3>1. pc'[g] = "mark" /\ res'[g].accesses = logged[s] /\ logged' = logged
      BY <2>5 DEF Collect, Goto, SetRes, Results, world, sentinelVars
    <3> QED BY <3>1 DEF CleanSoFar, Importing
  <2>6. CASE Mark(g)
    <3>1. /\ pc[g] = "mark" /\ pc'[g] = "verify" /\ logged' = logged
          /\ res'[g].accesses = res[g].accesses /\ res'[g].err = res[g].err
      BY <2>6 DEF Mark, At, Goto, SetRes, Results, world, sentinelVars
    <3> QED BY <1>3, <3>1 DEF Account, CleanSoFar, Importing
  <2> QED BY <2>1, <2>2, <2>3, <2>4, <2>5, <2>6
<1>6. Triggered(s)' = Triggered(s)
  BY <1>2 DEF Triggered, storeVars
<1> QED BY <1>2, <1>3, <1>4, <1>5, <1>6, BeforeImport DEF storeVars

\* What awaits cleanup is an error; the import starts from a blank account.
LEMMA VerifyAccount ==
    ASSUME TypeOK, Safe, NEW g \in Procs, NEW s \in Sessions, s = cur[g], Account(g, s),
           Verify(g) \/ VerifyFails(g)
    PROVE  Account(g, s)'
<1> USE OwnTypes
<1>1. /\ pc[g] = "verify" /\ pc'[g] = "import" /\ UNCHANGED storeVars /\ logged' = logged
      /\ res'[g].recorded = res[g].recorded /\ res'[g].accesses = res[g].accesses
      /\ val'[g].exit = val[g].exit
  <2>1. /\ pc[g] = "verify" /\ pc'[g] = "import" /\ UNCHANGED storeVars /\ logged' = logged
    BY DEF Verify, VerifyFails, At, Goto, world, sentinelVars
  <2>2. res'[g].recorded = res[g].recorded /\ res'[g].accesses = res[g].accesses
    BY DEF Verify, VerifyFails, SetRes, Results
  <2>3. val'[g].exit = val[g].exit
    BY DEF Verify, VerifyFails, SetVal, Values, Columns
  <2> QED BY <2>1, <2>2, <2>3
<1>2. ~res'[g].err => ~res[g].err /\ ~val'[g].cleanup
  <2>1. CASE Verify(g)
    <3>1. res'[g].err = (res[g].err \/ present[cur[g]] # {})
      BY <2>1 DEF Verify, SetRes, Results
    <3>2. val'[g].cleanup = (present[cur[g]] # {})
      BY <2>1 DEF Verify, SetVal, Values, Columns
    <3> QED BY <3>1, <3>2
  <2>2. CASE VerifyFails(g)
    BY <2>2 DEF VerifyFails, SetRes, Results
  <2> QED BY <2>1, <2>2
<1>3. /\ pc[g] \in RunPhases \ Concluding /\ pc[g] \notin {"start", "activate", "prepare", "fail"}
      /\ "import" \in RunPhases /\ "import" \in Concluding
  BY <1>1 DEF RunPhases, PastRecovery, Phases, Concluding
<1>4. Triggered(s)' = Triggered(s) /\ Triggered(s) = {} /\ Armed(s)'
  BY <1>1, <1>3 DEF Account, NothingImported, ArmedPart, Triggered, Armed, storeVars
<1>5. NotExited(g, s)' /\ NothingImported(g, s)' /\ ArmedPart(g, s)'
  BY <1>1, <1>3, <1>4 DEF Account, NotExited, NothingImported, ArmedPart, storeVars
<1>6. CleanSoFar(g, s)'
  BY <1>1, <1>2, <1>3 DEF Account, CleanSoFar
<1>7. Imported(g, s)'
  <2>1. IsFiniteSet({}) /\ Cardinality({}) = 0
    BY FS_EmptySet
  <2>2. trail[s]["DECOY_ACCESS"] = 0 /\ trail[s]["CONTAINMENT_ACTIVATED"] = 0 /\ ~res[g].recorded
    BY <1>3 DEF Account, NothingImported
  <2> QED BY <1>1, <1>4, <2>1, <2>2 DEF Imported, storeVars
<1> QED BY <1>5, <1>6, <1>7 DEF Account

\* What every step of the import may rely on, and what it leaves as it is.
LEMMA ImportFrame ==
    ASSUME TypeOK, Safe, NEW g \in Procs, NEW s \in Sessions, s = cur[g], Account(g, s),
           Import(g) \/ Access(g) \/ Witness(g) \/ Contain(g) \/ Exit(g)
    PROVE  /\ pc[g] \in {"import", "access", "witness", "contain"}
           /\ pc'[g] \in {"access", "witness", "contain", "final", "fail"}
           /\ Imported(g, s) /\ Armed(s) /\ val[g].exit = NoExit
           /\ trail[s]["PROCESS_EXIT"] = 0
           /\ NothingImported(g, s)' /\ ArmedPart(g, s)' /\ CleanSoFar(g, s)'
<1> USE OwnTypes
<1>1. /\ pc[g] \in {"import", "access", "witness", "contain"}
      /\ pc'[g] \in {"access", "witness", "contain", "final", "fail"}
  BY DEF Import, Access, Witness, Contain, Exit, At, Goto
<1>2. Imported(g, s) /\ Armed(s) /\ val[g].exit = NoExit /\ trail[s]["PROCESS_EXIT"] = 0
  <2>1. /\ pc[g] \in Importing /\ pc[g] \in RunPhases \ {"start", "activate", "prepare", "fail"}
        /\ pc[g] \in RunPhases \ {"final", "fail"}
    BY <1>1 DEF Importing, RunPhases, PastRecovery, Phases
  <2> QED BY <2>1 DEF Account, ArmedPart, NotExited
<1>3. NothingImported(g, s)'
  BY <1>1 DEF NothingImported, Concluding
<1>4. ArmedPart(g, s)'
  <2>1. CASE UNCHANGED decoys
    BY <1>2, <2>1 DEF ArmedPart, Armed
  <2>2. CASE Access(g)
    <3>1. PICK d \in Decoys : TriggerDecoy(s, d)
      BY <2>2, ResBooleans DEF Access, Unrecorded, TypeOK
    <3>2. \A e \in Decoys : decoys'[s][e] # "absent"
      BY <1>2, <3>1 DEF TriggerDecoy, Armed, TypeOK, StoreTypeOK
    <3> QED BY <3>2 DEF ArmedPart, Armed
  <2>3. CASE Exit(g)
    BY <2>1, <2>3 DEF Exit, AddEvent, storeVars
  <2>4. CASE Import(g) \/ Witness(g) \/ Contain(g)
    BY <2>1, <2>4 DEF Import, Witness, Contain, AddEvent, storeVars
  <2> QED BY <2>2, <2>3, <2>4
<1>5. CleanSoFar(g, s)'
  <2>1. /\ res'[g].err = res[g].err /\ res'[g].accesses = res[g].accesses /\ logged' = logged
        /\ val'[g].cleanup = val[g].cleanup
    <3>1. logged' = logged
      BY DEF Import, Access, Witness, Contain, Exit, world, sentinelVars
    <3>2. res'[g].err = res[g].err /\ res'[g].accesses = res[g].accesses
      BY DEF Import, Access, Witness, Contain, Exit, SetRes, Results, localVars
    <3>3. val'[g].cleanup = val[g].cleanup
      BY DEF Import, Access, Witness, Contain, Exit, SetVal, Values, Columns, localVars
    <3> QED BY <3>1, <3>2, <3>3
  <2>2. pc[g] \in Importing /\ pc[g] \in RunPhases /\ pc'[g] \notin {"stop", "collect"}
    BY <1>1 DEF Importing, RunPhases, PastRecovery, Phases
  <2> QED BY <1>1, <2>1, <2>2 DEF Account, CleanSoFar
<1> QED BY <1>1, <1>2, <1>3, <1>4, <1>5

LEMMA ImportAccount ==
    ASSUME TypeOK, Safe, NEW g \in Procs, NEW s \in Sessions, s = cur[g], Account(g, s),
           Import(g)
    PROVE  Account(g, s)'
<1> DEFINE contained == val[g].contained \/ res[g].contained
<1>1. /\ pc[g] = "import" /\ pc'[g] \in {"access", "fail"}
      /\ UNCHANGED <<storeVars, res>>
      /\ val'[g].exit = val[g].exit /\ val'[g].contained = contained
      /\ pc'[g] = "access" => ~Contradictory(contained, res[g].accesses)
  <2>1. /\ pc[g] = "import" /\ pc'[g] \in {"access", "fail"} /\ UNCHANGED <<storeVars, res>>
        /\ pc'[g] = "access" => ~Contradictory(contained, res[g].accesses)
    BY OwnTypes DEF Import, At, Goto
  <2>2. val'[g].exit = val[g].exit /\ val'[g].contained = contained
    BY OwnTypes DEF Import, SetVal, Values, Columns
  <2> QED BY <2>1, <2>2
<1>2. CASE pc'[g] = "fail"
  BY <1>2, FailAccount
<1>3. CASE pc'[g] = "access"
  <2>1. contained <=> ContainOnDecoy /\ res[g].accesses # {}
    BY <1>1, <1>3 DEF Contradictory
  <2>2. Imported(g, s) /\ Triggered(s)' = Triggered(s) /\ Triggered(s) = {}
    BY <1>1, ImportFrame DEF Imported, Triggered, storeVars
  <2>3. Imported(g, s)'
    BY <1>1, <1>3, <2>1, <2>2 DEF Imported, storeVars
  <2>4. NotExited(g, s)'
    BY <1>1, ImportFrame DEF NotExited, storeVars
  <2> QED BY <2>3, <2>4, ImportFrame DEF Account
<1> QED BY <1>1, <1>2, <1>3

\* A decoy is triggered, and its event is owed.
LEMMA AccessAccount ==
    ASSUME TypeOK, Safe, NEW g \in Procs, NEW s \in Sessions, s = cur[g], Account(g, s),
           Access(g)
    PROVE  Account(g, s)'
<1>1. /\ pc[g] = "access" /\ pc'[g] = "witness" /\ UNCHANGED <<trail, val, res>>
  BY OwnTypes DEF Access, At, Goto, TriggerDecoy, localVars
<1>2. PICK d \in Decoys : d \in res[g].accesses /\ decoys[s][d] = "armed" /\ TriggerDecoy(s, d)
  BY ResBooleans DEF Access, Unrecorded, TypeOK
<1>3. Triggered(s)' = Triggered(s) \cup {d} /\ d \notin Triggered(s)
  BY <1>2 DEF TriggerDecoy, Triggered, TypeOK, StoreTypeOK
<1>4. Imported(g, s)
  BY ImportFrame
<1>5. IsFiniteSet(Triggered(s)') /\ Cardinality(Triggered(s)') = Cardinality(Triggered(s)) + 1
  <2>1. PICK T : T = Triggered(s)
    OBVIOUS
  <2>2. IsFiniteSet(T) /\ d \notin T
    BY <1>3, <1>4, <2>1 DEF Imported
  <2>3. IsFiniteSet(T \cup {d}) /\ Cardinality(T \cup {d}) = Cardinality(T) + 1
    BY <2>2, FS_AddElement
  <2>4. Triggered(s)' = T \cup {d}
    BY <1>3, <2>1
  <2> QED BY <2>1, <2>3, <2>4
<1>6. Imported(g, s)'
  <2>1. trail'[s]["DECOY_ACCESS"] + 1 = Cardinality(Triggered(s)')
    BY <1>1, <1>4, <1>5, FS_CardinalityType, LifecycleAssumption
       DEF Imported, TypeOK, StoreTypeOK
  <2>2. IsFiniteSet(Triggered(s))' /\ Triggered(s)' \subseteq res'[g].accesses
    BY <1>1, <1>2, <1>3, <1>4, <1>5 DEF Imported
  <2> QED BY <1>1, <1>4, <2>1, <2>2 DEF Imported
<1>7. NotExited(g, s)'
  BY <1>1, ImportFrame DEF NotExited
<1> QED BY <1>6, <1>7, ImportFrame DEF Account

\* The event of the decoy, and of the containment, each once.
LEMMA WitnessAccount ==
    ASSUME TypeOK, Safe, NEW g \in Procs, NEW s \in Sessions, s = cur[g], Account(g, s),
           Witness(g) \/ Contain(g)
    PROVE  Account(g, s)'
<1> USE OwnTypes
<1>0. "DECOY_ACCESS" \in EventTypes /\ "CONTAINMENT_ACTIVATED" \in EventTypes
         /\ "PROCESS_EXIT" \in EventTypes
  BY LifecycleAssumption
<1>1. Imported(g, s) /\ val' = val
  BY ImportFrame DEF Witness, Contain, localVars
<1>2. CASE Witness(g)
  <2>1. /\ pc[g] = "witness" /\ res' = res /\ pc'[g] \in {"contain", "access"}
        /\ pc'[g] = "contain" <=> ContainOnDecoy /\ val[g].contained /\ ~res[g].recorded
        /\ AddEvent(s, "DECOY_ACCESS")
    BY <1>2 DEF Witness, At, Goto, localVars
  <2>2. /\ trail'[s]["DECOY_ACCESS"] = trail[s]["DECOY_ACCESS"] + 1
        /\ trail'[s]["CONTAINMENT_ACTIVATED"] = trail[s]["CONTAINMENT_ACTIVATED"]
        /\ trail'[s]["PROCESS_EXIT"] = trail[s]["PROCESS_EXIT"]
        /\ Triggered(s)' = Triggered(s)
    BY <1>0, <2>1, AddEventEffect DEF TypeOK, Triggered
  <2>3. trail[s]["DECOY_ACCESS"] \in Nat
    BY <1>0 DEF TypeOK, StoreTypeOK
  <2>4. trail'[s]["DECOY_ACCESS"] + 0 = Cardinality(Triggered(s)')
    BY <1>1, <2>1, <2>2, <2>3 DEF Imported
  <2>5. Imported(g, s)'
    BY <1>1, <2>1, <2>2, <2>4 DEF Imported
  <2>6. NotExited(g, s)'
    BY <1>1, <2>2, ImportFrame DEF NotExited
  <2> QED BY <2>5, <2>6, ImportFrame DEF Account
<1>3. CASE Contain(g)
  <2>1. /\ pc[g] = "contain" /\ pc'[g] = "access" /\ res'[g].recorded
        /\ res'[g].accesses = res[g].accesses
        /\ AddEvent(s, "CONTAINMENT_ACTIVATED")
    BY <1>3 DEF Contain, At, Goto, SetRes, Results
  <2>2. /\ trail'[s]["CONTAINMENT_ACTIVATED"] = trail[s]["CONTAINMENT_ACTIVATED"] + 1
        /\ trail'[s]["DECOY_ACCESS"] = trail[s]["DECOY_ACCESS"]
        /\ trail'[s]["PROCESS_EXIT"] = trail[s]["PROCESS_EXIT"]
        /\ Triggered(s)' = Triggered(s)
    BY <1>0, <2>1, AddEventEffect DEF TypeOK, Triggered
  <2>3. Imported(g, s)'
    BY <1>1, <2>1, <2>2 DEF Imported
  <2>4. NotExited(g, s)'
    BY <1>1, <2>2, ImportFrame DEF NotExited
  <2> QED BY <2>3, <2>4, ImportFrame DEF Account
<1> QED BY <1>2, <1>3

\* Nothing observed is left to record when the exit is recorded.
LEMMA ExitAccount ==
    ASSUME TypeOK, Safe, NEW g \in Procs, NEW s \in Sessions, s = cur[g], Account(g, s),
           Exit(g)
    PROVE  Account(g, s)'
<1> USE OwnTypes
<1>0. "DECOY_ACCESS" \in EventTypes /\ "CONTAINMENT_ACTIVATED" \in EventTypes
         /\ "PROCESS_EXIT" \in EventTypes
  BY LifecycleAssumption
<1>1. /\ pc[g] = "access" /\ pc'[g] = "final" /\ res' = res /\ Unrecorded(g) = {}
      /\ \/ AddEvent(s, "PROCESS_EXIT") /\ SetVal(g, [val[g] EXCEPT !.exit = res[g].exit])
         \/ UNCHANGED <<storeVars, val>>
  BY DEF Exit, At, Goto
<1>2. Imported(g, s) /\ Armed(s) /\ val[g].exit = NoExit /\ trail[s]["PROCESS_EXIT"] = 0
  BY ImportFrame
<1>3. /\ trail'[s]["CONTAINMENT_ACTIVATED"] = trail[s]["CONTAINMENT_ACTIVATED"]
      /\ trail'[s]["DECOY_ACCESS"] = trail[s]["DECOY_ACCESS"]
      /\ Triggered(s)' = Triggered(s) /\ val'[g].contained = val[g].contained
      /\ val'[g].exit # NoExit => trail'[s]["PROCESS_EXIT"] = 1
  <2>1. CASE UNCHANGED <<storeVars, val>>
    BY <1>2, <2>1 DEF storeVars, Triggered
  <2>2. CASE AddEvent(s, "PROCESS_EXIT") /\ SetVal(g, [val[g] EXCEPT !.exit = res[g].exit])
    <3>1. val'[g].contained = val[g].contained
      BY <2>2 DEF SetVal, Values, Columns
    <3> QED BY <1>0, <1>2, <2>2, <3>1, AddEventEffect DEF TypeOK, Triggered
  <2> QED BY <1>1, <2>1, <2>2
<1>4. res[g].accesses \subseteq Triggered(s)
  BY <1>1, <1>2, ResBooleans DEF Unrecorded, Armed, Triggered, TypeOK, StoreTypeOK
<1>5. Imported(g, s)'
  BY <1>1, <1>2, <1>3, <1>4 DEF Imported
<1>6. NotExited(g, s)'
  BY <1>1 DEF NotExited
<1> QED BY <1>5, <1>6, ImportFrame DEF Account

LEMMA RunsOnAccount ==
    ASSUME TypeOK, Safe, NEW g \in Procs, NEW s \in Sessions, s = cur[g], Account(g, s),
           RunsOn(g)
    PROVE  Account(g, s)'
<1>1. CASE JournalFails(g) \/ ExitFails(g) \/ StoreFails(g)
  <2>1. pc'[g] = "fail"
    BY <1>1, OwnTypes DEF JournalFails, ExitFails, StoreFails, Goto
  <2> QED BY <2>1, FailAccount
<1>2. CASE ~(JournalFails(g) \/ ExitFails(g) \/ StoreFails(g))
  BY <1>2, PrepareAccount, ExecuteAccount, VerifyAccount, ImportAccount, AccessAccount,
     WitnessAccount, ExitAccount DEF RunsOn
<1> QED BY <1>1, <1>2

-----------------------------------------------------------------------------
(* The steps outside a run.                                                *)

\* Of an invocation outside a run only its debts are of interest.
LEMMA OutsideReport ==
    ASSUME NEW h, pc[h] \notin RunPhases, pc'[h] \notin RunPhases, FreshPart(h),
           val'[h] = val[h], res'[h] = res[h], DebtsPart(h)'
    PROVE  ReportPart(h)'
BY DEF FreshPart, ReportPart

\* An invocation that leaves forgets everything, and the others were idle.
LEMMA LeaveReport ==
    ASSUME TypeOK, Safe, \A h \in Procs : ReportPart(h), NEW g \in Procs, pc[g] # "idle",
           Leave(g)
    PROVE  \A h \in Procs : ReportPart(h)'
<1>1. \A h \in Procs : pc'[h] = "idle"
  BY OthersIdle DEF Leave, Goto, TypeOK, LocalTypeOK, Safe
<1>2. \A h \in Procs : FreshPart(h)'
  <2>1. val'[g] = FreshValue /\ res'[g] = NoResult
    BY DEF Leave, TypeOK, LocalTypeOK
  <2>2. ASSUME NEW h \in Procs, h # g PROVE val'[h] = FreshValue /\ res'[h] = NoResult
    <3>1. pc[h] = "idle" /\ FreshPart(h)
      BY <2>2, OthersIdle DEF Safe, ReportPart
    <3> QED BY <2>2, <3>1 DEF Leave, TypeOK, LocalTypeOK, FreshPart, RunPhases, PastRecovery
  <2> QED BY <2>1, <2>2 DEF FreshPart
<1> QED BY <1>1, <1>2 DEF ReportPart, DebtsPart, RunPhases, PastRecovery, Recovering

LEMMA LeaveCompletion ==
    ASSUME TypeOK, Safe, CompletionInvariant, Next, NEW g \in Procs,
           Exhausted(g) \/ Abort(g) \/ Crash(g) \/ ReconcileFails(g)
    PROVE  CompletionInvariant'
<1>1. pc[g] # "idle" /\ Leave(g) /\ UNCHANGED storeVars
  BY DEF Exhausted, Abort, Crash, ReconcileFails, At
<1>2. \A s \in Sessions : BooksPart(s)'
  BY <1>1, ReportParts, BooksKept DEF SameBooks, storeVars
<1>3. \A h \in Procs : ReportPart(h)'
  BY <1>1, ReportParts, LeaveReport
<1> QED BY <1>2, <1>3, ReportPartsNext

\* The terminal row of a run without an error is a clean account.
LEMMA CloseCompletion ==
    ASSUME TypeOK, Safe, ContainmentInvariant, CompletionInvariant, Next,
           NEW g \in Procs, Final(g) \/ Fail(g)
    PROVE  CompletionInvariant'
<1>1. pc[g] \in {"final", "fail"} /\ pc[g] # "idle" /\ pc[g] \in RunPhases /\ Leave(g)
  BY DEF Final, Fail, CloseAs, At, RunPhases, PastRecovery, Phases
<1>2. PICK s \in Sessions : s = cur[g] /\ rows[s].status \in Open
  BY <1>1, OwnSession DEF Safe
<1>3. PICK status \in Terminal, t \in Stamps :
          /\ FinalizeSession(s, [val[g] EXCEPT !.status = status, !.ended = t])
          /\ status = "completed" => pc[g] = "final" /\ ~res[g].err /\ val[g].exit = 0
          /\ UNCHANGED world
  BY <1>2 DEF Final, Fail, CloseAs, Outcome, Terminal, At
<1> DEFINE v == [val[g] EXCEPT !.status = status, !.ended = t]
<1>4. /\ v.status = status /\ v.contained = val[g].contained /\ v.exit = val[g].exit
      /\ v.cleanup = val[g].cleanup
  BY OwnTypes DEF Values, Columns
<1>5. FinalizeSession(s, v)
  BY <1>3
<1> HIDE DEF v
<1>6. rows' = [rows EXCEPT ![s] = v] /\ UNCHANGED <<trail, decoys>>
  BY <1>2, <1>4, <1>5 DEF FinalizeSession, Open, Terminal
<1>7. rows'[s] = v /\ \A u \in Sessions : u # s => SameBooks(u)
  BY <1>6 DEF TypeOK, StoreTypeOK, SameBooks
<1>8. (\A u \in Sessions : BooksPart(u)) /\ (\A h \in Procs : ReportPart(h))
  BY ReportParts
<1>9. BooksPart(s)'
  <2>1. CASE status = "failed"
    BY <1>4, <1>7, <2>1, OpenBooks
  <2>2. CASE status = "completed"
    <3>1. pc[g] = "final" /\ ~res[g].err /\ val[g].exit = 0
      BY <1>3, <2>2
    <3>2. Imported(g, s) /\ CleanSoFar(g, s)
      BY <1>1, <1>2, <1>8, <3>1 DEF ReportPart, Account, Importing
    <3>3. res[g].accesses = logged[s] /\ ~val[g].cleanup
      BY <1>1, <3>1, <3>2 DEF CleanSoFar, Importing
    <3>4. ~agent[s]
      BY <1>2, <3>1, <3>3, AgentIsCleanup DEF Concluding
    <3>5. Quiet(s)
      <4>1. StoppedPart(g, s)
        BY <1>2, <3>1, Parts
           DEF RunPart, Stopped, Unstopped, Unlaunched, RunPhases, PastRecovery, Phases
      <4> QED BY <3>1, <4>1 DEF StoppedPart, Noted
    <3>6. /\ Triggered(s)' = Triggered(s) /\ logged'[s] = logged[s] /\ Quiet(s)' /\ ~agent'[s]
      BY <1>3, <1>6, <3>4, <3>5 DEF Triggered, Quiet, world, dockerVars, sentinelVars
    <3>7. Triggered(s) = logged[s]
      BY <3>1, <3>2, <3>3 DEF Imported
    <3>8. trail[s]["PROCESS_EXIT"] = 1 /\ trail[s]["DECOY_ACCESS"] = Cardinality(logged[s])
      <4>1. trail[s]["DECOY_ACCESS"] \in Nat
        BY LifecycleAssumption DEF TypeOK, StoreTypeOK
      <4> QED BY <3>1, <3>2, <3>7, <4>1, StoreAssumption DEF Imported
    <3>9. /\ val[g].contained <=> (ContainOnDecoy /\ logged[s] # {})
          /\ val[g].contained => trail[s]["CONTAINMENT_ACTIVATED"] = 1
      BY <3>1, <3>2, <3>3, <3>7 DEF Imported
    <3>10. Clean(s)'
      BY <1>4, <1>6, <1>7, <3>1, <3>3, <3>6, <3>7, <3>8, <3>9 DEF Clean
    <3> QED BY <1>4, <1>7, <2>2, <3>6, <3>10 DEF BooksPart
  <2> QED BY <2>1, <2>2 DEF Terminal
<1>10. \A u \in Sessions : BooksPart(u)'
  BY <1>7, <1>8, <1>9, BooksKept
<1> QED BY <1>1, <1>8, <1>10, LeaveReport, ReportPartsNext

\* A session that is created has no books.
LEMMA CreateCompletion ==
    ASSUME TypeOK, Safe, CompletionInvariant, Next, NEW g \in Procs, Create(g)
    PROVE  CompletionInvariant'
<1>1. PICK s \in Sessions :
          /\ rows[s].status = "absent" /\ rows' = [rows EXCEPT ![s] = FreshValue]
          /\ cur' = [cur EXCEPT ![g] = s] /\ UNCHANGED <<trail, decoys>>
  BY DEF Create, CreateSession
<1>2. pc[g] = "create" /\ Goto(g, "start") /\ UNCHANGED <<val, res>>
  BY DEF Create, At
<1>3. (\A u \in Sessions : BooksPart(u)) /\ (\A h \in Procs : ReportPart(h))
  BY ReportParts
<1>4. rows'[s].status \in Open /\ \A u \in Sessions : u # s => SameBooks(u)
  BY <1>1 DEF TypeOK, StoreTypeOK, FreshValue, Open, SameBooks
<1>5. \A u \in Sessions : BooksPart(u)'
  BY <1>3, <1>4, BooksKept, OpenBooks
<1>6. pc'[g] = "start" /\ cur'[g] = s
        /\ \A h \in Procs : h # g => pc'[h] = "idle" /\ pc[h] = "idle"
  BY <1>1, <1>2, OneActs, OthersIdle DEF Safe, TypeOK, LocalTypeOK
<1>7. \A h \in Procs : h # g => ReportPart(h)'
  BY <1>2, <1>3, <1>6, OutsideReport
     DEF ReportPart, DebtsPart, RunPhases, PastRecovery, Recovering
<1>8. Account(g, s)'
  <2>1. val'[g] = FreshValue /\ res'[g] = NoResult
    BY <1>2, <1>3 DEF ReportPart, FreshPart, RunPhases, PastRecovery, Phases
  <2>2. Triggered(s)' = {} /\ \A t \in EventTypes : trail'[s][t] = 0
    BY <1>1, <1>3 DEF BooksPart, Triggered
  <2>3. {"PROCESS_EXIT", "DECOY_ACCESS", "CONTAINMENT_ACTIVATED"} \subseteq EventTypes
    BY LifecycleAssumption
  <2>4. NotExited(g, s)' /\ NothingImported(g, s)'
    BY <2>1, <2>2, <2>3 DEF NotExited, NothingImported, FreshValue, NoResult
  <2>5. ArmedPart(g, s)' /\ CleanSoFar(g, s)' /\ pc'[g] \notin Importing
    BY <1>6 DEF ArmedPart, CleanSoFar, Importing
  <2> QED BY <2>4, <2>5 DEF Account
<1>9. ReportPart(g)'
  BY <1>6, <1>8 DEF ReportPart, FreshPart, DebtsPart, RunPhases, PastRecovery, Phases, Recovering
<1> QED BY <1>5, <1>7, <1>9, ReportPartsNext

\* Recovery writes only about sessions that need it, which are not completed.
LEMMA RecoverCompletion ==
    ASSUME TypeOK, Safe, CompletionInvariant, Next, NEW g \in Procs,
           Acquire(g) \/ Recovers(g)
    PROVE  CompletionInvariant'
<1>1. (\A u \in Sessions : BooksPart(u)) /\ (\A h \in Procs : ReportPart(h))
  BY ReportParts
<1>2. /\ pc[g] \in {"idle", "scan"} \cup Recovering
      /\ pc'[g] \in {"scan", "create"} \cup Recovering /\ pc'[g] # "idle"
      /\ UNCHANGED <<val, res>>
      /\ \A h \in Procs : h # g => pc[h] = "idle" /\ pc'[h] = "idle"
  <2>1. pc[g] \in {"idle", "scan"} \cup Recovering /\ UNCHANGED <<val, res>>
    BY DEF Acquire, Recovers, Scan, Reconcile, Restore, Settle, At, Recovering, localVars
  <2>2. pc'[g] \in {"scan", "create"} \cup Recovering /\ pc'[g] # "idle"
    BY OwnTypes DEF Acquire, Recovers, Scan, Reconcile, Restore, Settle, Goto, Recovering
  <2>3. \A h \in Procs : h # g => pc[h] = "idle"
    BY OthersIdle, LifecycleAssumption
       DEF Acquire, Recovers, Scan, Reconcile, Restore, Settle, At, LockHeld, Safe
  <2>4. \A h \in Procs : h # g => pc'[h] = pc[h]
    BY OwnTypes DEF Acquire, Recovers, Scan, Reconcile, Restore, Settle, Goto
  <2> QED BY <2>1, <2>2, <2>3, <2>4
<1>3. \A h \in Procs : h # g => ReportPart(h)'
  BY <1>1, <1>2, OutsideReport DEF ReportPart, DebtsPart, RunPhases, PastRecovery, Recovering
<1>4. ASSUME DebtsPart(g)' PROVE ReportPart(g)'
  <2>1. pc[g] \notin RunPhases /\ pc'[g] \notin RunPhases /\ FreshPart(g)
    BY <1>1, <1>2 DEF ReportPart, RunPhases, PastRecovery, Recovering
  <2> QED BY <1>2, <1>4, <2>1, OutsideReport
<1>5. CASE Acquire(g) \/ Scan(g) \/ Reconcile(g)
  <2>1. UNCHANGED storeVars
    BY <1>5 DEF Acquire, Scan, Reconcile
  <2>2. \A s \in Sessions : BooksPart(s)'
    BY <1>1, <2>1, BooksKept DEF SameBooks, storeVars
  <2>3. DebtsPart(g)'
    <3>1. CASE Acquire(g)
      <4>1. pc'[g] = "scan"
        BY <3>1, OwnTypes DEF Acquire, Goto
      <4> QED BY <4>1 DEF DebtsPart, Recovering
    <3>2. CASE Scan(g)
      <4>1. toSettle'[g] = {s \in Sessions : NeedsRecovery(rows[s])}
        BY <3>2 DEF Scan, TypeOK, LocalTypeOK
      <4> QED BY <2>1, <4>1 DEF DebtsPart, storeVars
    <3>3. CASE Reconcile(g)
      <4>1. toSettle' = toSettle /\ DebtsPart(g) /\ pc[g] \in Recovering
        BY <1>1, <3>3 DEF Reconcile, ReportPart, At, Recovering
      <4> QED BY <2>1, <4>1 DEF DebtsPart, storeVars
    <3> QED BY <1>5, <3>1, <3>2, <3>3
  <2> QED BY <1>3, <1>4, <2>2, <2>3, ReportPartsNext
<1>6. CASE Restore(g)
  <2>1. PICK s \in Sessions :
            /\ s \in toSettle[g]
            /\ AddEvent(s, "CONTAINMENT_ACTIVATED") \/ UNCHANGED storeVars
    BY <1>6 DEF Restore, First
  <2>2. toSettle' = toSettle /\ DebtsPart(g) /\ pc[g] \in Recovering /\ rows' = rows
    BY <1>1, <1>6, <2>1 DEF Restore, ReportPart, At, Recovering, AddEvent, storeVars
  <2>3. DebtsPart(g)' /\ NeedsRecovery(rows[s])
    BY <2>1, <2>2 DEF DebtsPart
  <2>4. rows[s].status # "absent" /\ rows[s].status # "completed"
    <3>1. rows[s].status = "absent" => ~rows[s].cleanup
      BY DEF TypeOK, StoreTypeOK, Rows, Values, Columns, Open, Terminal, AbsentRow
    <3>2. rows[s].status = "completed" => ~rows[s].cleanup
      BY <1>1 DEF BooksPart, Clean
    <3> QED BY <2>3, <3>1, <3>2 DEF NeedsRecovery, Open
  <2>5. \A u \in Sessions : u # s => SameBooks(u)
    BY <2>1 DEF AddEvent, storeVars, SameBooks, TypeOK, StoreTypeOK
  <2>6. BooksPart(s)'
    BY <2>2, <2>4 DEF BooksPart
  <2>7. \A u \in Sessions : BooksPart(u)'
    BY <1>1, <2>5, <2>6, BooksKept
  <2> QED BY <1>3, <1>4, <2>3, <2>7, ReportPartsNext
<1>7. CASE Settle(g)
  <2>1. PICK s \in Sessions :
            /\ s \in toSettle[g]
            /\ toSettle' = [toSettle EXCEPT ![g] = @ \ {s}]
            /\ rows'[s].status \in {"failed", rows[s].status}
            /\ \A u \in Sessions : u # s => rows'[u] = rows[u]
    BY <1>7, SettleWrites
  <2>2. pc[g] \in Recovering /\ DebtsPart(g) /\ UNCHANGED <<trail, decoys>>
    BY <1>1, <1>7 DEF Settle, At, Recovering, ReportPart, FinalizeSession, UpdateSession
  <2>3. NeedsRecovery(rows[s]) /\ toSettle[g] \subseteq Sessions
    BY <2>1, <2>2 DEF DebtsPart, TypeOK, LocalTypeOK
  <2>4. rows'[s].status # "completed" /\ rows'[s].status # "absent"
    <3>1. rows[s].status = "absent" => ~rows[s].cleanup
      BY DEF TypeOK, StoreTypeOK, Rows, Values, Columns, Open, Terminal, AbsentRow
    <3>2. rows[s].status = "completed" => ~rows[s].cleanup
      BY <1>1 DEF BooksPart, Clean
    <3> QED BY <2>1, <2>3, <3>1, <3>2 DEF NeedsRecovery, Open
  <2>5. \A u \in Sessions : BooksPart(u)'
    BY <1>1, <2>1, <2>2, <2>4, BooksKept DEF SameBooks, BooksPart
  <2>6. DebtsPart(g)'
    <3>1. toSettle'[g] = toSettle[g] \ {s}
      BY <2>1 DEF TypeOK, LocalTypeOK
    <3> QED BY <2>1, <2>2, <2>3, <3>1 DEF DebtsPart
  <2> QED BY <1>3, <1>4, <2>5, <2>6, ReportPartsNext
<1> QED BY <1>5, <1>6, <1>7 DEF Recovers

\* Outside the invocations only the log of an open session grows unaccounted for.
LEMMA EnvironmentCompletion ==
    ASSUME TypeOK, Safe, ContainmentInvariant, CompletionInvariant, Next,
           NEW s \in Sessions, Environment(s)
    PROVE  CompletionInvariant'
<1>1. /\ UNCHANGED <<storeVars, pc, cur, val, res, recoveryVars, historyVars>>
      /\ \A u \in Sessions : u # s => SameScene(u)
  BY EnvironmentFrame
<1>2. (\A u \in Sessions : BooksPart(u)) /\ (\A h \in Procs : ReportPart(h))
  BY ReportParts
<1>3. \A u \in Sessions : BooksPart(u)'
  BY <1>1, <1>2, BooksKept DEF SameBooks, storeVars
<1>4. ASSUME NEW g \in Procs PROVE ReportPart(g)'
  <2>1. FreshPart(g)' /\ DebtsPart(g)'
    BY <1>1, <1>2 DEF ReportPart, FreshPart, DebtsPart, recoveryVars, storeVars
  <2>2. ASSUME pc[g] \in RunPhases PROVE Account(g, cur[g])'
    <3>1. PICK u \in Sessions : u = cur[g] /\ cur'[g] = u
      BY <1>1, <2>2 DEF Safe, OwnsOpenSession
    <3>2. Account(g, u)
      BY <1>2, <2>2, <3>1 DEF ReportPart
    <3>3. Triggered(u)' = Triggered(u) /\ Armed(u)' = Armed(u)
      BY <1>1 DEF Triggered, Armed, storeVars
    <3>4. ASSUME ~res[g].err, pc[g] \in {"mark", "verify"} \cup Importing
          PROVE  logged'[u] = logged[u]
      <4>1. CASE u # s
        BY <1>1, <4>1 DEF SameScene
      <4>2. CASE u = s
        <5>1. StoppedPart(g, u)
          BY <2>2, <3>1, <3>4, Parts
             DEF RunPart, Stopped, Unstopped, Unlaunched, Importing
        <5>2. marking[s] = {}
          BY <3>4, <4>2, <5>1 DEF StoppedPart, Noted, Quiet
        <5> QED BY <4>2, <5>2 DEF Environment, DaemonCreates, DaemonRemoves, Remove, AgentOpens,
                                  SentinelMarks, SentinelLogs, sentinelVars
      <4> QED BY <4>1, <4>2
    <3>5. CleanSoFar(g, u)'
      BY <1>1, <3>2, <3>4 DEF Account, CleanSoFar
    <3>6. NotExited(g, u)' /\ NothingImported(g, u)' /\ ArmedPart(g, u)'
      BY <1>1, <3>2, <3>3 DEF Account, NotExited, NothingImported, ArmedPart, storeVars
    <3>7. pc'[g] \in Importing => Imported(g, u)'
      BY <1>1, <3>2, <3>3 DEF Account, Imported, storeVars
    <3> QED BY <3>1, <3>5, <3>6, <3>7 DEF Account
  <2> QED BY <1>1, <2>1, <2>2 DEF ReportPart
<1> QED BY <1>3, <1>4, ReportPartsNext

-----------------------------------------------------------------------------
LEMMA InitCompletion == Init => CompletionInvariant
<1> SUFFICES ASSUME Init PROVE CompletionInvariant
  OBVIOUS
<1>1. \A g \in Procs : ReportPart(g)
  BY DEF Init, ReportPart, FreshPart, DebtsPart, RunPhases, PastRecovery, Recovering
<1>2. \A s \in Sessions : BooksPart(s)
  BY DEF Init, StoreInit, BooksPart, AbsentRow, Triggered
<1> QED BY <1>1, <1>2, ReportParts

LEMMA NextCompletion ==
    ASSUME TypeOK, Safe, ContainmentInvariant, CompletionInvariant, Next
    PROVE  CompletionInvariant'
<1>1. ASSUME NEW g \in Procs, RunsOn(g) PROVE CompletionInvariant'
  <2>1. PICK s \in Sessions : s = cur[g]
    BY <1>1, RunsOnLocals, OwnSession DEF Safe
  <2>2. Account(g, s)
    BY <1>1, <2>1, RunsOnLocals, ReportParts DEF ReportPart
  <2> QED BY <1>1, <2>1, <2>2, RunsOnAccount, RunsOnReport
<1>2. ASSUME NEW g \in Procs, Acquire(g) \/ Works(g) \/ Errs(g) \/ Crash(g)
      PROVE  CompletionInvariant'
  BY <1>1, <1>2, RecoverCompletion, CreateCompletion, LeaveCompletion, CloseCompletion
     DEF Works, Recovers, Prepares, Executes, Concludes, Errs, RunsOn
<1>3. ASSUME NEW s \in Sessions, Environment(s) PROVE CompletionInvariant'
  BY <1>3, EnvironmentCompletion
<1> QED BY <1>2, <1>3 DEF Next

LEMMA IdleCompletion ==
    ASSUME CompletionInvariant, UNCHANGED vars PROVE CompletionInvariant'
<1>1. UNCHANGED <<rows, trail, decoys, pc, cur, val, res, toSettle, agent, queued, marking, logged>>
  BY DEF vars, storeVars, localVars, dockerVars, sentinelVars
<1>2. ASSUME NEW s \in Sessions PROVE BooksPart(s)'
  <2>1. BooksPart(s)' = BooksPart(s)
    BY <1>1 DEF BooksPart, Clean, Triggered, Quiet
  <2> QED BY <2>1, ReportParts
<1>3. ASSUME NEW g \in Procs PROVE ReportPart(g)'
  <2>1. ReportPart(g)' = ReportPart(g)
    BY <1>1 DEF ReportPart, FreshPart, DebtsPart, Account, NotExited, NothingImported, ArmedPart,
                CleanSoFar, Imported, Triggered, Armed
  <2> QED BY <2>1, ReportParts
<1> QED BY <1>2, <1>3, ReportPartsNext

(***************************************************************************)
(* What makes a completed row a clean account holds for any number of      *)
(* invocations, sessions, decoys, crashes and failures, beside the other   *)
(* two invariants (manager.go:281-293, 440-513).                           *)
(***************************************************************************)
THEOREM CompletionInvariance == Spec => []CompletionInvariant
<1>1. Init => CompletionInvariant
  BY InitCompletion
<1>2. LifecycleInvariant /\ ContainmentInvariant /\ CompletionInvariant /\ [Next]_vars
          => CompletionInvariant'
  BY NextCompletion, IdleCompletion DEF LifecycleInvariant, Safe
<1> QED BY <1>1, <1>2, LifecycleInvariance, ContainmentInvariance, PTL DEF Spec

(***************************************************************************)
(* A session is completed only if its command exited with 0, nothing of it *)
(* is left, and every decoy the sentinel logged, and the containment it    *)
(* demanded, is in the record.                                             *)
(***************************************************************************)
THEOREM CompletedIsClean == Spec => []CompletedMeansClean
BY CompletionInvariance, PTL DEF CompletionInvariant

=============================================================================
