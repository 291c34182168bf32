----------------------- MODULE SessionLifecycleProofs -----------------------
(***************************************************************************)
(* The lifecycle for any number of invocations, sessions, Docker objects,  *)
(* decoys, crashes and failures.                                           *)
(***************************************************************************)
EXTENDS SessionLifecycle, SessionStoreProofs

\* An invocation at work is at a phase of a run or of recovery, and knows its
\* own session.
LEMMA LeaveType ==
    ASSUME LocalTypeOK, NEW g \in Procs, Leave(g)
    PROVE  LocalTypeOK'
<1>1. FreshValue \in Values /\ NoResult \in Results
  BY StoreAssumption DEF FreshValue, Values, Columns, Open, NoResult, Results
<1>2. NoRows \in [Sessions -> Columns(Open \cup Terminal \cup {"absent"})]
  BY DEF NoRows, AbsentRow, Columns
<1> QED BY <1>1, <1>2 DEF LocalTypeOK, Leave, Goto, Phases

LEMMA RemoveType ==
    ASSUME WorldTypeOK, NEW s \in Sessions, NEW asked \in SUBSET Kinds,
           NEW left \in SUBSET Kinds, Remove(s, asked, left),
           accepted' \in [Sessions -> SUBSET Kinds]
    PROVE  WorldTypeOK'
<1> DEFINE stay == (present[s] \ asked) \cup left
<1>1. stay \in SUBSET Kinds /\ (doomed[s] \ asked) \cup left \in SUBSET Kinds
  BY DEF WorldTypeOK
<1>2. /\ present' = [present EXCEPT ![s] = stay]
      /\ doomed' = [doomed EXCEPT ![s] = (@ \ asked) \cup left]
      /\ agent' = [agent EXCEPT ![s] = @ /\ "agent" \in stay]
      /\ queued' = [queued EXCEPT ![s] = IF "sentinel" \in stay THEN @ ELSE {}]
      /\ marking' = [marking EXCEPT ![s] = IF "sentinel" \in stay THEN @ ELSE {}]
      /\ UNCHANGED <<logged, marker>>
  BY DEF Remove
<1> HIDE DEF stay
<1>3. present' \in [Sessions -> SUBSET Kinds] /\ doomed' \in [Sessions -> SUBSET Kinds]
  BY <1>1, <1>2 DEF WorldTypeOK
<1>4. agent' \in [Sessions -> BOOLEAN]
  BY <1>2 DEF WorldTypeOK
<1>5. queued' \in [Sessions -> SUBSET Decoys] /\ marking' \in [Sessions -> SUBSET Decoys]
  BY <1>2 DEF WorldTypeOK
<1> QED BY <1>2, <1>3, <1>4, <1>5 DEF WorldTypeOK

LEMMA FaultType ==
    ASSUME CountTypeOK, Fault, UNCHANGED <<historyVars, crashes>>
    PROVE  CountTypeOK'
BY LifecycleAssumption DEF CountTypeOK, Fault, historyVars

LEMMA SameStore == ASSUME StoreTypeOK, UNCHANGED storeVars PROVE StoreTypeOK'
BY DEF StoreTypeOK, storeVars

LEMMA SameWorld == ASSUME WorldTypeOK, UNCHANGED world PROVE WorldTypeOK'
BY DEF WorldTypeOK, world, dockerVars, sentinelVars

LEMMA SameCounts ==
    ASSUME CountTypeOK, UNCHANGED <<historyVars, crashes, faults>>
    PROVE  CountTypeOK'
BY DEF CountTypeOK, historyVars

LEMMA SameLocals ==
    ASSUME LocalTypeOK, UNCHANGED <<lock, localVars>>, pc' \in [Procs -> Phases]
    PROVE  LocalTypeOK'
BY DEF LocalTypeOK, localVars

-----------------------------------------------------------------------------
(* Types, action by action.                                                *)

LEMMA RecoveryTypes ==
    ASSUME TypeOK, NEW g \in Procs,
           Acquire(g) \/ Recovers(g) \/ ReconcileFails(g)
    PROVE  TypeOK'
<1> USE DEF TypeOK
<1>1. CASE Acquire(g)
  <2>1. pc' \in [Procs -> Phases]
    BY <1>1 DEF Acquire, Goto, LocalTypeOK, Phases
  <2>2. LocalTypeOK'
    BY <1>1, <2>1 DEF Acquire, LocalTypeOK, localVars
  <2> QED BY <1>1, <2>2, SameStore, SameWorld, SameCounts DEF Acquire
<1>2. CASE Scan(g)
  <2>1. pc' \in [Procs -> Phases]
    BY <1>2 DEF Scan, Goto, LocalTypeOK, Phases
  <2>2. rows \in [Sessions -> Columns(Open \cup Terminal \cup {"absent"})]
    <3>1. Rows \subseteq Columns(Open \cup Terminal \cup {"absent"})
      <4>1. AbsentRow \in Columns(Open \cup Terminal \cup {"absent"})
        BY DEF AbsentRow, Columns
      <4>2. Values \subseteq Columns(Open \cup Terminal \cup {"absent"})
        BY DEF Values, Columns
      <4> QED BY <4>1, <4>2 DEF Rows
    <3> QED BY <3>1 DEF StoreTypeOK
  <2>3. LocalTypeOK'
    BY <1>2, <2>1, <2>2 DEF Scan, LocalTypeOK
  <2> QED BY <1>2, <2>3, SameStore, SameWorld, SameCounts DEF Scan
<1>3. CASE Reconcile(g)
  <2>1. PICK s \in Sessions :
          /\ Remove(s, Kinds, {})
          /\ toSweep' = [toSweep EXCEPT ![g] = @ \ {s}]
          /\ Goto(g, IF toSweep[g] = {s} THEN "restore" ELSE "reconcile")
    BY <1>3 DEF Reconcile
  <2>2. WorldTypeOK'
    BY <1>3, <2>1, RemoveType DEF Reconcile, WorldTypeOK
  <2>3. pc' \in [Procs -> Phases]
    BY <2>1 DEF Goto, LocalTypeOK, Phases
  <2>4. LocalTypeOK'
    BY <1>3, <2>1, <2>3 DEF Reconcile, LocalTypeOK
  <2> QED BY <1>3, <2>2, <2>4, SameStore, SameCounts DEF Reconcile
<1>4. CASE Restore(g)
  <2>1. PICK s \in Sessions :
          \/ /\ AddEvent(s, "CONTAINMENT_ACTIVATED")
             /\ snap' = [snap EXCEPT ![g][s].contained = TRUE]
          \/ UNCHANGED <<storeVars, snap>>
    BY <1>4 DEF Restore
  <2>2. "CONTAINMENT_ACTIVATED" \in EventTypes
    BY LifecycleAssumption
  <2>3. StoreTypeOK'
    BY <2>1, <2>2, AddEventType, SameStore
  <2>4. snap' \in [Procs -> [Sessions -> Columns(Open \cup Terminal \cup {"absent"})]]
    <3>1. snap[g][s] \in Columns(Open \cup Terminal \cup {"absent"})
      BY DEF LocalTypeOK
    <3>2. [snap[g][s] EXCEPT !.contained = TRUE]
              \in Columns(Open \cup Terminal \cup {"absent"})
      BY <3>1 DEF Columns
    <3>3. [snap[g] EXCEPT ![s].contained = TRUE]
              \in [Sessions -> Columns(Open \cup Terminal \cup {"absent"})]
      BY <3>2 DEF LocalTypeOK
    <3> QED BY <2>1, <3>3 DEF LocalTypeOK
  <2>5. pc' \in [Procs -> Phases]
    BY <1>4 DEF Restore, Goto, LocalTypeOK, Phases
  <2>6. LocalTypeOK'
    BY <1>4, <2>4, <2>5 DEF Restore, LocalTypeOK
  <2> QED BY <1>4, <2>3, <2>6, SameWorld, SameCounts DEF Restore
<1>5. CASE Settle(g)
  <2>1. PICK s \in Sessions :
          /\ s \in toSettle[g]
          /\ LET swept == [snap[g][s] EXCEPT !.cleanup = FALSE]
             IN  IF swept.status \in Open
                 THEN \E t \in Stamps :
                         FinalizeSession(s, [swept EXCEPT !.status = "failed",
                                                          !.ended = t])
                 ELSE UpdateSession(s, swept)
          /\ toSettle' = [toSettle EXCEPT ![g] = @ \ {s}]
          /\ Goto(g, IF toSettle[g] = {s} THEN "create" ELSE "restore")
    BY <1>5 DEF Settle, First
  <2> DEFINE swept == [snap[g][s] EXCEPT !.cleanup = FALSE]
  <2>2. swept \in Columns(Open \cup Terminal \cup {"absent"})
    <3>1. snap[g][s] \in Columns(Open \cup Terminal \cup {"absent"})
      BY DEF LocalTypeOK
    <3> QED BY <3>1 DEF Columns
  <2>3. StoreTypeOK'
    <3>1. ASSUME NEW t \in Stamps
          PROVE  [swept EXCEPT !.status = "failed", !.ended = t] \in Values
      BY <2>2 DEF Values, Columns, Terminal
    <3>2. ASSUME UpdateSession(s, swept) PROVE swept \in Values
      <4>1. swept.status # "absent"
        BY <3>2 DEF UpdateSession, Updatable, StatusStep, Terminal
      <4> QED BY <2>2, <4>1 DEF Values, Columns
    <3> QED BY <2>1, <3>1, <3>2, FinalizeSessionType, UpdateSessionType
  <2>4. pc' \in [Procs -> Phases]
    BY <2>1 DEF Goto, LocalTypeOK, Phases
  <2>5. LocalTypeOK'
    BY <1>5, <2>1, <2>4 DEF Settle, LocalTypeOK
  <2> QED BY <1>5, <2>3, <2>5, SameWorld, SameCounts DEF Settle
<1>6. CASE ReconcileFails(g)
  <2>1. WorldTypeOK'
    <3>1. PICK s \in Sessions : \E left \in SUBSET present[s] : Remove(s, Kinds, left)
      BY <1>6 DEF ReconcileFails
    <3>2. PICK left \in SUBSET Kinds : Remove(s, Kinds, left)
      BY <3>1 DEF WorldTypeOK
    <3> QED BY <1>6, <3>2, RemoveType DEF ReconcileFails, WorldTypeOK
  <2> QED BY <1>6, <2>1, LeaveType, SameStore, FaultType DEF ReconcileFails
<1> QED BY <1>1, <1>2, <1>3, <1>4, <1>5, <1>6 DEF Recovers

\* At a phase of its run an invocation has a session of its own.
LEMMA OwnSession ==
    ASSUME OwnsOpenSession, NEW g \in Procs, pc[g] \in RunPhases
    PROVE  cur[g] \in Sessions /\ rows[cur[g]].status \in Open
BY DEF OwnsOpenSession, Live

\* The session value, as the run changes it, stays one the store accepts.
LEMMA ValType ==
    ASSUME LocalTypeOK, NEW g \in Procs
    PROVE  /\ val[g] \in Values
           /\ [val[g] EXCEPT !.status = "running"] \in Values
           /\ \A b \in BOOLEAN : [val[g] EXCEPT !.cleanup = b] \in Values
           /\ \A b \in BOOLEAN : [val[g] EXCEPT !.contained = b] \in Values
           /\ \A c \in ExitCodes : [val[g] EXCEPT !.exit = c] \in Values
           /\ \A t \in Stamps, v \in Terminal :
                 [val[g] EXCEPT !.status = v, !.ended = t] \in Values
<1>1. val[g] \in Values
  BY DEF LocalTypeOK
<1> QED BY <1>1 DEF Values, Columns, Open

LEMMA PrepareTypes ==
    ASSUME TypeOK, OwnsOpenSession, NEW g \in Procs,
           Prepares(g) \/ JournalFails(g)
    PROVE  TypeOK'
<1> USE DEF TypeOK
<1>0. pc[g] \in RunPhases => cur[g] \in Sessions
  BY OwnSession
<1>1. CASE Create(g)
  <2>1. PICK s \in Sessions : CreateSession(s, FreshValue) /\ cur' = [cur EXCEPT ![g] = s]
    BY <1>1 DEF Create
  <2>2. FreshValue \in Values
    BY DEF FreshValue, Values, Columns, Open
  <2>3. StoreTypeOK'
    BY <2>1, <2>2, CreateSessionType
  <2>4. pc' \in [Procs -> Phases]
    BY <1>1 DEF Create, Goto, LocalTypeOK, Phases
  <2>5. LocalTypeOK'
    BY <1>1, <2>1, <2>4 DEF Create, LocalTypeOK, recoveryVars
  <2> QED BY <1>1, <2>3, <2>5, SameWorld, SameCounts DEF Create
<1>2. CASE Exhausted(g)
  BY <1>2, LeaveType, SameStore, SameWorld, SameCounts DEF Exhausted
<1>3. CASE Start(g)
  <2>1. pc[g] \in RunPhases
    BY <1>3 DEF Start, At, RunPhases, PastRecovery, Phases
  <2>2. StoreTypeOK'
    BY <1>3, <1>0, <2>1, AddEventType, LifecycleAssumption DEF Start
  <2>3. pc' \in [Procs -> Phases]
    BY <1>3 DEF Start, Goto, LocalTypeOK, Phases
  <2> QED BY <1>3, <2>2, <2>3, SameLocals, SameWorld, SameCounts DEF Start
<1>4. CASE Activate(g)
  <2>1. pc[g] \in RunPhases
    BY <1>4 DEF Activate, At, RunPhases, PastRecovery, Phases
  <2> DEFINE value == [val[g] EXCEPT !.status = "running"]
  <2>2. value \in Values /\ UpdateSession(cur[g], value) /\ SetVal(g, value)
    BY <1>4, ValType DEF Activate
  <2>3. StoreTypeOK'
    BY <1>0, <2>1, <2>2, UpdateSessionType
  <2>4. pc' \in [Procs -> Phases]
    BY <1>4 DEF Activate, Goto, LocalTypeOK, Phases
  <2> HIDE DEF value
  <2>5. LocalTypeOK'
    BY <1>4, <2>2, <2>4 DEF Activate, LocalTypeOK, recoveryVars, SetVal
  <2> QED BY <1>4, <2>3, <2>5, SameWorld, SameCounts DEF Activate
<1>5. CASE Prepare(g)
  <2>1. pc[g] \in RunPhases
    BY <1>5 DEF Prepare, At, RunPhases, PastRecovery, Phases
  <2>2. StoreTypeOK'
    BY <1>5, <1>0, <2>1, DecoyType DEF Prepare, Unarmed
  <2>3. pc' \in [Procs -> Phases]
    BY <1>5 DEF Prepare, LocalTypeOK
  <2> QED BY <1>5, <2>2, <2>3, SameLocals, SameWorld, SameCounts DEF Prepare
<1>6. CASE Announce(g)
  <2>1. pc[g] \in RunPhases
    BY <1>6 DEF Announce, At, RunPhases, PastRecovery, Phases
  <2>2. StoreTypeOK'
    BY <1>6, <1>0, <2>1, AddEventType, LifecycleAssumption DEF Announce
  <2>3. pc' \in [Procs -> Phases]
    BY <1>6 DEF Announce, Goto, LocalTypeOK, Phases
  <2> QED BY <1>6, <2>2, <2>3, SameLocals, SameWorld, SameCounts DEF Announce
<1>7. CASE Journal(g)
  <2>1. pc[g] \in RunPhases
    BY <1>7 DEF Journal, At, RunPhases, PastRecovery, Phases
  <2> DEFINE value == [val[g] EXCEPT !.cleanup = TRUE]
  <2>2. value \in Values /\ UpdateSession(cur[g], value) /\ SetVal(g, value)
    BY <1>7, ValType DEF Journal
  <2>3. StoreTypeOK'
    BY <1>0, <2>1, <2>2, UpdateSessionType
  <2>4. pc' \in [Procs -> Phases]
    BY <1>7 DEF Journal, Goto, LocalTypeOK, Phases
  <2> HIDE DEF value
  <2>5. LocalTypeOK'
    BY <1>7, <2>2, <2>4 DEF Journal, LocalTypeOK, recoveryVars, SetVal
  <2> QED BY <1>7, <2>3, <2>5, SameWorld, SameCounts DEF Journal
<1>8. CASE JournalFails(g)
  <2>1. pc' \in [Procs -> Phases]
    BY <1>8 DEF JournalFails, Goto, LocalTypeOK, Phases
  <2>2. LocalTypeOK'
    BY <1>8, <2>1, ValType DEF JournalFails, LocalTypeOK, recoveryVars, SetVal
  <2> QED BY <1>8, <2>2, SameStore, SameWorld, FaultType DEF JournalFails
<1> QED BY <1>1, <1>2, <1>3, <1>4, <1>5, <1>6, <1>7, <1>8 DEF Prepares

LEMMA KindSets ==
    {"agent"} \in SUBSET Kinds /\ sidecars \in SUBSET Kinds /\ {} \in SUBSET Kinds
BY LifecycleAssumption DEF sidecars

\* A removal while the daemon's accepted requests stay as they are.
LEMMA RemoveOnlyType ==
    ASSUME WorldTypeOK, NEW s \in Sessions, NEW asked \in SUBSET Kinds,
           NEW left \in SUBSET Kinds, Remove(s, asked, left), UNCHANGED accepted
    PROVE  WorldTypeOK'
<1>1. accepted' \in [Sessions -> SUBSET Kinds]
  BY DEF WorldTypeOK
<1> QED BY <1>1, RemoveType

\* So does the result that the run assembles.
LEMMA ResType ==
    ASSUME LocalTypeOK, NEW g \in Procs
    PROVE  /\ res[g] \in Results
           /\ \A b \in BOOLEAN :
                 /\ [res[g] EXCEPT !.err = b] \in Results
                 /\ [res[g] EXCEPT !.flushed = b] \in Results
                 /\ [res[g] EXCEPT !.contained = b] \in Results
                 /\ [res[g] EXCEPT !.recorded = b] \in Results
           /\ \A b \in BOOLEAN, a \in SUBSET Decoys :
                 [res[g] EXCEPT !.accesses = a, !.contained = b] \in Results
           /\ \A b, e \in BOOLEAN, c \in ExitCodes :
                 [res[g] EXCEPT !.started = b, !.exit = c, !.err = e] \in Results
<1>1. res[g] \in Results
  BY DEF LocalTypeOK
<1> QED BY <1>1 DEF Results

LEMMA ResBooleans ==
    ASSUME LocalTypeOK, NEW g \in Procs
    PROVE  res[g].err \in BOOLEAN /\ res[g].contained \in BOOLEAN
                /\ res[g].accesses \in SUBSET Decoys /\ res[g].exit \in ExitCodes
BY DEF LocalTypeOK, Results

\* A step that only rewrites g's result and phase.
LEMMA ResStep ==
    ASSUME LocalTypeOK, NEW g \in Procs, NEW r \in Results, SetRes(g, r),
           NEW phase \in Phases, Goto(g, phase),
           UNCHANGED <<lock, cur, val, recoveryVars>>
    PROVE  LocalTypeOK'
BY DEF LocalTypeOK, SetRes, Goto, recoveryVars

LEMMA ValStep ==
    ASSUME LocalTypeOK, NEW g \in Procs, NEW v \in Values, SetVal(g, v),
           NEW phase \in Phases, Goto(g, phase),
           UNCHANGED <<lock, cur, res, recoveryVars>>
    PROVE  LocalTypeOK'
BY DEF LocalTypeOK, SetVal, Goto, recoveryVars

LEMMA ExecuteTypes ==
    ASSUME TypeOK, OwnsOpenSession, NEW g \in Procs, Executes(g)
    PROVE  TypeOK'
<1> USE DEF TypeOK
<1>0. pc[g] \in RunPhases => cur[g] \in Sessions
  BY OwnSession
<1>1. CASE Issue(g)
  <2>1. cur[g] \in Sessions
    BY <1>0, <1>1 DEF Issue, At, RunPhases, PastRecovery, Phases
  <2>2. PICK k \in Kinds : accepted' = [accepted EXCEPT ![cur[g]] = {k}]
    BY <1>1 DEF Issue
  <2>3. WorldTypeOK'
    BY <1>1, <2>1, <2>2 DEF Issue, WorldTypeOK, sentinelVars
  <2>4. LocalTypeOK'
    BY <1>1, SameLocals DEF Issue, LocalTypeOK
  <2> QED BY <1>1, <2>3, <2>4, SameStore, SameCounts DEF Issue
<1>2. CASE Exec(g)
  <2>1. cur[g] \in Sessions
    BY <1>0, <1>2 DEF Exec, At, RunPhases, PastRecovery, Phases
  <2>2. WorldTypeOK'
    BY <1>2, <2>1 DEF Exec, WorldTypeOK, sentinelVars
  <2>3. pc' \in [Procs -> Phases]
    BY <1>2 DEF Exec, Goto, LocalTypeOK, Phases
  <2> QED BY <1>2, <2>2, <2>3, SameLocals, SameStore, SameCounts DEF Exec
<1>3. CASE StopAgent(g)
  <2>1. cur[g] \in Sessions
    BY <1>0, <1>3 DEF StopAgent, At, RunPhases, PastRecovery, Phases
  <2>2. WorldTypeOK'
    BY <1>3, <2>1, RemoveOnlyType, KindSets DEF StopAgent
  <2>3. PICK r \in Results : SetRes(g, r)
    BY <1>3, ResType DEF StopAgent
  <2>4. LocalTypeOK'
    BY <1>3, <2>3, ResStep DEF StopAgent, Phases
  <2> QED BY <1>3, <2>2, <2>4, SameStore, SameCounts DEF StopAgent
<1>4. CASE Flush(g)
  <2>1. LocalTypeOK'
    BY <1>4, ResType, ResStep DEF Flush, Phases
  <2> QED BY <1>4, <2>1, SameStore, SameWorld, SameCounts DEF Flush
<1>5. CASE StopSidecars(g)
  <2>1. cur[g] \in Sessions
    BY <1>0, <1>5 DEF StopSidecars, At, RunPhases, PastRecovery, Phases
  <2>2. WorldTypeOK'
    BY <1>5, <2>1, RemoveOnlyType, KindSets DEF StopSidecars
  <2>3. pc' \in [Procs -> Phases]
    BY <1>5 DEF StopSidecars, Goto, AfterStop, LocalTypeOK, Phases
  <2> QED BY <1>5, <2>2, <2>3, SameLocals, SameStore, SameCounts DEF StopSidecars
<1>6. CASE Collect(g)
  <2>1. cur[g] \in Sessions
    BY <1>0, <1>6 DEF Collect, At, RunPhases, PastRecovery, Phases
  <2>2. logged[cur[g]] \in SUBSET Decoys /\ marker[cur[g]] \in BOOLEAN
    BY <2>1 DEF WorldTypeOK
  <2>3. LocalTypeOK'
    BY <1>6, <2>2, ResType, ResStep DEF Collect, Phases
  <2> QED BY <1>6, <2>3, SameStore, SameWorld, SameCounts DEF Collect
<1>7. CASE Mark(g)
  <2>1. [res[g] EXCEPT !.contained = @ \/ marker[cur[g]]] \in Results
    BY ResType
  <2>2. LocalTypeOK'
    BY <1>7, <2>1, ResStep DEF Mark, Phases
  <2> QED BY <1>7, <2>2, SameStore, SameWorld, SameCounts DEF Mark
<1>8. CASE Verify(g)
  <2> DEFINE pending == present[cur[g]] # {}
  <2>1. [res[g] EXCEPT !.err = @ \/ pending] \in Results
    BY ResType
  <2>2. [val[g] EXCEPT !.cleanup = pending] \in Values
    BY ValType
  <2>3. pc' \in [Procs -> Phases]
    BY <1>8 DEF Verify, Goto, LocalTypeOK, Phases
  <2>4. LocalTypeOK'
    BY <1>8, <2>1, <2>2, <2>3 DEF Verify, LocalTypeOK, SetRes, SetVal, recoveryVars
  <2> QED BY <1>8, <2>4, SameStore, SameWorld, SameCounts DEF Verify
<1> QED BY <1>1, <1>2, <1>3, <1>4, <1>5, <1>6, <1>7, <1>8 DEF Executes

LEMMA ExecuteFailureTypes ==
    ASSUME TypeOK, OwnsOpenSession, NEW g \in Procs,
           \/ LaunchFails(g) \/ StopAgentFails(g) \/ FlushFails(g)
           \/ StopSidecarsFails(g) \/ CollectFails(g) \/ MarkFails(g) \/ VerifyFails(g)
    PROVE  TypeOK'
<1> USE DEF TypeOK
<1>0. pc[g] \in RunPhases => cur[g] \in Sessions
  BY OwnSession
<1>1. CASE LaunchFails(g)
  <2>1. cur[g] \in Sessions
    BY <1>0, <1>1 DEF LaunchFails, At, RunPhases, PastRecovery, Phases
  <2>2. accepted' \in [Sessions -> SUBSET Kinds]
    BY <1>1, <2>1 DEF LaunchFails, WorldTypeOK
  <2>3. PICK left \in SUBSET Kinds : Remove(cur[g], {"agent"}, left)
    BY <1>1, <2>1 DEF LaunchFails, WorldTypeOK
  <2>4. WorldTypeOK'
    BY <2>1, <2>2, <2>3, RemoveType, LifecycleAssumption
  <2>5. LocalTypeOK'
    BY <1>1, ResType, ResStep DEF LaunchFails, Phases
  <2> QED BY <1>1, <2>4, <2>5, SameStore, FaultType DEF LaunchFails
<1>2. CASE StopAgentFails(g)
  <2>1. cur[g] \in Sessions
    BY <1>0, <1>2 DEF StopAgentFails, At, RunPhases, PastRecovery, Phases
  <2>0. UNCHANGED accepted /\ Remove(cur[g], {"agent"}, {"agent"})
    BY <1>2 DEF StopAgentFails
  <2>2. WorldTypeOK'
    BY <2>1, <2>0, RemoveOnlyType, KindSets
  <2>3. PICK r \in Results : SetRes(g, r)
    BY <1>2, ResType DEF StopAgentFails
  <2>4. LocalTypeOK'
    BY <1>2, <2>3, ResStep DEF StopAgentFails, Phases
  <2> QED BY <1>2, <2>2, <2>4, SameStore, FaultType DEF StopAgentFails
<1>3. CASE FlushFails(g)
  <2>1. LocalTypeOK'
    BY <1>3, ResType, ResStep DEF FlushFails, Phases
  <2> QED BY <1>3, <2>1, SameStore, SameWorld, FaultType DEF FlushFails
<1>4. CASE StopSidecarsFails(g)
  <2>1. cur[g] \in Sessions
    BY <1>0, <1>4 DEF StopSidecarsFails, At, RunPhases, PastRecovery, Phases
  <2>2. PICK left \in SUBSET Kinds : Remove(cur[g], sidecars, left)
    BY <1>4, <2>1 DEF StopSidecarsFails, WorldTypeOK
  <2>3. WorldTypeOK'
    BY <1>4, <2>1, <2>2, RemoveOnlyType, KindSets DEF StopSidecarsFails
  <2>4. AfterStop(g) \in Phases
    BY DEF AfterStop, Phases
  <2>5. LocalTypeOK'
    BY <1>4, <2>4, ResType, ResStep DEF StopSidecarsFails
  <2>6. CountTypeOK'
    BY <1>4, <2>1, LifecycleAssumption DEF StopSidecarsFails, CountTypeOK, Fault
  <2> QED BY <1>4, <2>3, <2>5, <2>6, SameStore DEF StopSidecarsFails
<1>5. CASE CollectFails(g)
  <2>1. LocalTypeOK'
    BY <1>5, ResType, ResStep DEF CollectFails, Phases
  <2> QED BY <1>5, <2>1, SameStore, SameWorld, FaultType DEF CollectFails
<1>6. CASE MarkFails(g)
  <2>1. cur[g] \in Sessions
    BY <1>0, <1>6 DEF MarkFails, At, RunPhases, PastRecovery, Phases
  <2>2. LocalTypeOK'
    BY <1>6, ResType, ResStep DEF MarkFails, Phases
  <2>3. CountTypeOK'
    BY <1>6, <2>1, LifecycleAssumption DEF MarkFails, CountTypeOK, Fault
  <2> QED BY <1>6, <2>2, <2>3, SameStore, SameWorld DEF MarkFails
<1>7. CASE VerifyFails(g)
  <2>1. pc' \in [Procs -> Phases]
    BY <1>7 DEF VerifyFails, Goto, LocalTypeOK, Phases
  <2>2. [res[g] EXCEPT !.err = TRUE] \in Results /\ [val[g] EXCEPT !.cleanup = TRUE] \in Values
    BY ResType, ValType
  <2>3. LocalTypeOK'
    BY <1>7, <2>1, <2>2 DEF VerifyFails, LocalTypeOK, SetRes, SetVal, recoveryVars
  <2> QED BY <1>7, <2>3, SameStore, SameWorld, FaultType DEF VerifyFails
<1> QED BY <1>1, <1>2, <1>3, <1>4, <1>5, <1>6, <1>7

LEMMA ConcludeTypes ==
    ASSUME TypeOK, OwnsOpenSession, NEW g \in Procs,
           Concludes(g) \/ ExitFails(g) \/ StoreFails(g) \/ Abort(g) \/ Crash(g)
    PROVE  TypeOK'
<1> USE DEF TypeOK
<1>0. pc[g] \in RunPhases => cur[g] \in Sessions
  BY OwnSession
<1>1. CASE Import(g)
  <2> DEFINE contained == val[g].contained \/ res[g].contained
  <2>1. [val[g] EXCEPT !.contained = contained] \in Values
    BY ValType
  <2>2. LocalTypeOK'
    BY <1>1, <2>1, ValStep DEF Import, Phases
  <2> QED BY <1>1, <2>2, SameStore, SameWorld, SameCounts DEF Import
<1>2. CASE Access(g)
  <2>1. PICK d \in Decoys : TriggerDecoy(cur[g], d)
    BY <1>2, ResBooleans DEF Access, Unrecorded
  <2>2. cur[g] \in Sessions
    BY <1>0, <1>2 DEF Access, At, RunPhases, PastRecovery, Phases
  <2>3. pc' \in [Procs -> Phases]
    BY <1>2 DEF Access, Goto, LocalTypeOK, Phases
  <2> QED BY <1>2, <2>1, <2>2, <2>3, DecoyType, SameLocals, SameWorld, SameCounts
          DEF Access
<1>3. CASE Witness(g)
  <2>1. cur[g] \in Sessions
    BY <1>0, <1>3 DEF Witness, At, RunPhases, PastRecovery, Phases
  <2>2. StoreTypeOK'
    BY <1>3, <2>1, AddEventType, LifecycleAssumption DEF Witness
  <2>3. pc' \in [Procs -> Phases]
    BY <1>3 DEF Witness, Goto, LocalTypeOK, Phases
  <2> QED BY <1>3, <2>2, <2>3, SameLocals, SameWorld, SameCounts DEF Witness
<1>4. CASE Contain(g)
  <2>1. cur[g] \in Sessions
    BY <1>0, <1>4 DEF Contain, At, RunPhases, PastRecovery, Phases
  <2>2. StoreTypeOK'
    BY <1>4, <2>1, AddEventType, LifecycleAssumption DEF Contain
  <2>3. LocalTypeOK'
    BY <1>4, ResType, ResStep DEF Contain, Phases
  <2> QED BY <1>4, <2>2, <2>3, SameWorld, SameCounts DEF Contain
<1>5. CASE Exit(g)
  <2>1. cur[g] \in Sessions
    BY <1>0, <1>5 DEF Exit, At, RunPhases, PastRecovery, Phases
  <2>2. \/ AddEvent(cur[g], "PROCESS_EXIT") /\ SetVal(g, [val[g] EXCEPT !.exit = res[g].exit])
        \/ UNCHANGED <<storeVars, val>>
    BY <1>5 DEF Exit
  <2>3. StoreTypeOK'
    BY <2>1, <2>2, AddEventType, SameStore, LifecycleAssumption
  <2>4. pc' \in [Procs -> Phases]
    BY <1>5 DEF Exit, Goto, LocalTypeOK, Phases
  <2>5. [val[g] EXCEPT !.exit = res[g].exit] \in Values
    BY ValType, ResBooleans
  <2>6. val' \in [Procs -> Values]
    BY <2>2, <2>5 DEF SetVal, LocalTypeOK
  <2>7. LocalTypeOK'
    BY <1>5, <2>4, <2>6 DEF Exit, LocalTypeOK, recoveryVars
  <2> QED BY <1>5, <2>3, <2>7, SameWorld, SameCounts DEF Exit
<1>6. ASSUME NEW status \in Terminal, pc[g] \in RunPhases, CloseAs(g, status)
      PROVE  TypeOK'
  <2>1. \A t \in Stamps : [val[g] EXCEPT !.status = status, !.ended = t] \in Values
    BY ValType
  <2>2. StoreTypeOK'
    BY <1>0, <1>6, <2>1, FinalizeSessionType DEF CloseAs
  <2> QED BY <1>6, <2>2, LeaveType, SameWorld, SameCounts DEF CloseAs
<1>7. CASE Final(g) \/ Fail(g)
  BY <1>6, <1>7 DEF Final, Fail, Outcome, Terminal, At, RunPhases, PastRecovery, Phases
<1>8. CASE ExitFails(g)
  <2>1. [val[g] EXCEPT !.exit = res[g].exit] \in Values
    BY ValType, ResBooleans
  <2>2. LocalTypeOK'
    BY <1>8, <2>1, ValStep DEF ExitFails, Phases
  <2> QED BY <1>8, <2>2, SameStore, SameWorld, FaultType DEF ExitFails
<1>9. CASE StoreFails(g)
  <2>1. pc' \in [Procs -> Phases]
    BY <1>9 DEF StoreFails, Goto, LocalTypeOK, Phases
  <2> QED BY <1>9, <2>1, SameLocals, SameStore, SameWorld, FaultType DEF StoreFails
<1>10. CASE Abort(g)
  BY <1>10, LeaveType, SameStore, SameWorld, FaultType DEF Abort
<1>11. CASE Crash(g)
  <2>1. CountTypeOK'
    BY <1>11, LifecycleAssumption DEF Crash, CountTypeOK, historyVars
  <2> QED BY <1>11, <2>1, LeaveType, SameStore, SameWorld DEF Crash
<1> QED BY <1>1, <1>2, <1>3, <1>4, <1>5, <1>7, <1>8, <1>9, <1>10, <1>11 DEF Concludes

LEMMA EnvironmentTypes ==
    ASSUME TypeOK, NEW s \in Sessions, Environment(s)
    PROVE  TypeOK'
<1> USE DEF TypeOK
<1>1. UNCHANGED <<storeVars, lock, pc, localVars, historyVars, crashes, faults>>
  BY DEF Environment, DaemonCreates, DaemonRemoves, AgentOpens, SentinelMarks, SentinelLogs
<1>2. StoreTypeOK' /\ LocalTypeOK' /\ CountTypeOK'
  BY <1>1, SameStore, SameCounts DEF LocalTypeOK, localVars
<1>3. CASE DaemonCreates(s)
  BY <1>2, <1>3 DEF DaemonCreates, WorldTypeOK, sentinelVars
<1>4. CASE DaemonRemoves(s)
  <2>1. PICK k \in Kinds : Remove(s, {k}, {})
    BY <1>4 DEF DaemonRemoves, WorldTypeOK
  <2> QED BY <1>2, <1>4, <2>1, RemoveOnlyType DEF DaemonRemoves
<1>5. CASE AgentOpens(s)
  BY <1>2, <1>5 DEF AgentOpens, WorldTypeOK, dockerVars
<1>6. CASE SentinelMarks(s)
  <2>1. marker' \in [Sessions -> BOOLEAN]
    BY <1>6 DEF SentinelMarks, WorldTypeOK
  <2>2. queued' \in [Sessions -> SUBSET Decoys] /\ marking' \in [Sessions -> SUBSET Decoys]
    BY <1>6 DEF SentinelMarks, WorldTypeOK
  <2> QED BY <1>2, <1>6, <2>1, <2>2 DEF SentinelMarks, WorldTypeOK, dockerVars
<1>7. CASE SentinelLogs(s)
  BY <1>2, <1>7 DEF SentinelLogs, WorldTypeOK, dockerVars
<1> QED BY <1>3, <1>4, <1>5, <1>6, <1>7 DEF Environment

LEMMA InitTypes == Init => TypeOK
<1> SUFFICES ASSUME Init PROVE TypeOK
  OBVIOUS
<1>1. StoreTypeOK
  BY StoreAssumption DEF Init, StoreInit, StoreTypeOK, Rows
<1>2. LocalTypeOK
  <2>1. FreshValue \in Values /\ NoResult \in Results
    BY StoreAssumption DEF FreshValue, Values, Columns, Open, NoResult, Results
  <2>2. NoRows \in [Sessions -> Columns(Open \cup Terminal \cup {"absent"})]
    BY DEF NoRows, AbsentRow, Columns
  <2> QED BY <2>1, <2>2 DEF Init, LocalTypeOK, Phases
<1>3. WorldTypeOK
  BY DEF Init, WorldTypeOK
<1>4. CountTypeOK
  BY LifecycleAssumption DEF Init, CountTypeOK
<1> QED BY <1>1, <1>2, <1>3, <1>4 DEF TypeOK

LEMMA NextTypes ==
    ASSUME TypeOK, OwnsOpenSession, Next PROVE TypeOK'
<1>1. ASSUME NEW g \in Procs, Acquire(g) \/ Works(g) \/ Errs(g) \/ Crash(g)
      PROVE  TypeOK'
  BY <1>1, RecoveryTypes, PrepareTypes, ExecuteTypes, ExecuteFailureTypes, ConcludeTypes
     DEF Works, Errs
<1>2. ASSUME NEW s \in Sessions, Environment(s) PROVE TypeOK'
  BY <1>2, EnvironmentTypes
<1> QED BY <1>1, <1>2 DEF Next

-----------------------------------------------------------------------------
(* The invariant, in four kinds of step: a step of the world, a step that  *)
(* ends an invocation without a write, a step inside a run, and the steps  *)
(* that write a row or take the lock, one by one.                          *)

Safe ==
    /\ LockHeld /\ OwnsOpenSession /\ RecoveryCovers /\ SweptIsDead /\ RecoveryDone
    /\ AgentHasContainer /\ AgentAccountedFor /\ LiveAgentJournaled /\ ClosedOnce

\* No command starts, and the container of one that goes on stays.
AgentsOnlyEnd ==
    \A s \in Sessions : agent'[s] => agent[s] /\ "agent" \in present'[s]

\* The holder of the flock is the only invocation that is not idle.
LEMMA OthersIdle ==
    ASSUME LockHeld, NEW g \in Procs, pc[g] # "idle", NEW h \in Procs, h # g
    PROVE  pc[h] = "idle"
BY DEF LockHeld

LEMMA WorldStep ==
    ASSUME TypeOK, Safe, UNCHANGED <<rows, ends, lock, pc, localVars>>, AgentsOnlyEnd
    PROVE  Safe'
<1> USE DEF Safe
<1>1. LockHeld' /\ OwnsOpenSession' /\ RecoveryCovers' /\ RecoveryDone' /\ ClosedOnce'
  BY DEF LockHeld, OwnsOpenSession, RecoveryCovers, RecoveryDone, ClosedOnce, Live,
         Closed, localVars
<1>2. SweptIsDead'
  <2>1. UNCHANGED <<pc, toSettle, toSweep>>
    BY DEF localVars
  <2>2. \A g \in Procs : toSettle[g] \subseteq Sessions
    BY DEF TypeOK, LocalTypeOK
  <2> QED BY <2>1, <2>2 DEF SweptIsDead, AgentsOnlyEnd
<1>3. AgentHasContainer' /\ LiveAgentJournaled'
  BY DEF AgentHasContainer, LiveAgentJournaled, AgentsOnlyEnd
<1>4. AgentAccountedFor'
  BY DEF AgentAccountedFor, AgentsOnlyEnd, localVars, OwnsOpenSession
<1> QED BY <1>1, <1>2, <1>3, <1>4

LEMMA LeavingStep ==
    ASSUME TypeOK, Safe, NEW g \in Procs, pc[g] # "idle", Leave(g),
           UNCHANGED <<rows, ends>>, AgentsOnlyEnd
    PROVE  Safe'
<1> USE DEF Safe
<1>1. \A h \in Procs : pc'[h] = "idle"
  BY OthersIdle DEF Leave, Goto, TypeOK, LocalTypeOK
<1>2. LockHeld' /\ RecoveryCovers' /\ SweptIsDead' /\ RecoveryDone' /\ AgentAccountedFor'
  BY <1>1 DEF LockHeld, RecoveryCovers, SweptIsDead, RecoveryDone, AgentAccountedFor,
              Recovering, PastRecovery, RunPhases
<1>3. OwnsOpenSession'
  BY <1>1 DEF OwnsOpenSession, Leave, FreshValue, Open, RunPhases, PastRecovery,
              TypeOK, LocalTypeOK
<1>4. ClosedOnce'
  BY DEF ClosedOnce, Closed
<1>5. AgentHasContainer' /\ LiveAgentJournaled'
  BY DEF AgentHasContainer, LiveAgentJournaled, AgentsOnlyEnd
<1> QED BY <1>2, <1>3, <1>4, <1>5

LEMMA RunStep ==
    ASSUME TypeOK, Safe, NEW g \in Procs, pc[g] \in RunPhases,
           NEW phase \in RunPhases, pc' = [pc EXCEPT ![g] = phase],
           NEW v \in Values, v.status \in Open, val' = [val EXCEPT ![g] = v],
           UNCHANGED <<rows, ends, lock, cur, recoveryVars>>, AgentsOnlyEnd,
           agent'[cur[g]] => /\ phase \notin Preparing
                             /\ phase \in Concluding => v.cleanup
    PROVE  Safe'
<1> USE DEF Safe
<1>1. pc[g] # "idle" /\ phase # "idle" /\ phase \in PastRecovery /\ phase \notin Recovering
  BY DEF RunPhases, PastRecovery, Recovering
<1>2. \A h \in Procs : h # g => pc'[h] = "idle"
  BY <1>1, OthersIdle DEF TypeOK, LocalTypeOK
<1>3. pc'[g] = phase /\ val'[g] = v
  BY DEF TypeOK, LocalTypeOK
<1>4. LockHeld'
  BY <1>1, <1>2, <1>3 DEF LockHeld
<1>5. OwnsOpenSession'
  BY <1>2, <1>3 DEF OwnsOpenSession, Live, TypeOK, LocalTypeOK, RunPhases, PastRecovery
<1>6. RecoveryCovers' /\ SweptIsDead'
  BY <1>1, <1>2, <1>3 DEF RecoveryCovers, SweptIsDead, Recovering
<1>7. RecoveryDone'
  <2>1. pc[g] \in PastRecovery /\ phase # "create"
    BY DEF RunPhases
  <2>2. \A s \in Sessions : NeedsRecovery(rows[s]) => s = cur[g]
    BY <2>1 DEF RecoveryDone
  <2> QED BY <1>2, <1>3, <2>1, <2>2 DEF RecoveryDone, PastRecovery
<1>8. AgentHasContainer' /\ LiveAgentJournaled' /\ ClosedOnce'
  BY DEF AgentHasContainer, LiveAgentJournaled, ClosedOnce, Closed, AgentsOnlyEnd
<1>9. AgentAccountedFor'
  BY <1>2, <1>3 DEF AgentAccountedFor, RunPhases, PastRecovery
<1> QED BY <1>4, <1>5, <1>6, <1>7, <1>8, <1>9

\* What a removal leaves running keeps its container.
LEMMA RemoveAgents ==
    ASSUME TypeOK, AgentHasContainer, NEW s \in Sessions, NEW asked, NEW left,
           Remove(s, asked, left)
    PROVE  /\ AgentsOnlyEnd
           /\ "agent" \in asked /\ "agent" \notin left => ~agent'[s]
<1>1. /\ present' = [present EXCEPT ![s] = (present[s] \ asked) \cup left]
      /\ agent' = [agent EXCEPT ![s] = @ /\ "agent" \in (present[s] \ asked) \cup left]
  BY DEF Remove
<1> QED BY <1>1 DEF AgentsOnlyEnd, AgentHasContainer, TypeOK, WorldTypeOK

LEMMA SameAgents ==
    ASSUME AgentHasContainer, UNCHANGED <<agent, present>> PROVE AgentsOnlyEnd
BY DEF AgentsOnlyEnd, AgentHasContainer

LEMMA EnvironmentSafe ==
    ASSUME TypeOK, Safe, NEW s \in Sessions, Environment(s)
    PROVE  Safe'
<1>1. UNCHANGED <<rows, ends, lock, pc, localVars>>
  BY DEF Environment, DaemonCreates, DaemonRemoves, AgentOpens, SentinelMarks,
         SentinelLogs, storeVars
<1>2. AgentsOnlyEnd
  <2>1. CASE DaemonCreates(s)
    BY <2>1 DEF DaemonCreates, AgentsOnlyEnd, AgentHasContainer, Safe, TypeOK, WorldTypeOK
  <2>2. CASE DaemonRemoves(s)
    BY <2>2, RemoveAgents DEF DaemonRemoves, Safe
  <2>3. CASE AgentOpens(s) \/ SentinelMarks(s) \/ SentinelLogs(s)
    BY <2>3, SameAgents DEF AgentOpens, SentinelMarks, SentinelLogs, dockerVars, Safe
  <2> QED BY <2>1, <2>2, <2>3 DEF Environment
<1> QED BY <1>1, <1>2, WorldStep

LEMMA LeavingSafe ==
    ASSUME TypeOK, Safe, NEW g \in Procs,
           Exhausted(g) \/ Abort(g) \/ Crash(g) \/ ReconcileFails(g)
    PROVE  Safe'
<1>1. pc[g] # "idle" /\ Leave(g) /\ UNCHANGED <<rows, ends>>
  BY DEF Exhausted, Abort, Crash, ReconcileFails, At, storeVars
<1>2. AgentsOnlyEnd
  <2>1. CASE ReconcileFails(g)
    BY <2>1, RemoveAgents DEF ReconcileFails, Safe
  <2>2. CASE Exhausted(g) \/ Abort(g) \/ Crash(g)
    BY <2>2, SameAgents DEF Exhausted, Abort, Crash, world, dockerVars, Safe
  <2> QED BY <2>1, <2>2
<1> QED BY <1>1, <1>2, LeavingStep

\* A step inside a run that leaves the session value alone.
LEMMA RunStepSameVal ==
    ASSUME TypeOK, Safe, NEW g \in Procs, pc[g] \in RunPhases,
           NEW phase \in RunPhases, pc' = [pc EXCEPT ![g] = phase],
           UNCHANGED <<rows, ends, lock, cur, val, recoveryVars>>, AgentsOnlyEnd,
           agent'[cur[g]] => /\ phase \notin Preparing
                             /\ phase \in Concluding => val[g].cleanup
    PROVE  Safe'
<1>1. val[g] \in Values /\ val[g].status \in Open /\ val' = [val EXCEPT ![g] = val[g]]
  BY DEF TypeOK, LocalTypeOK, Safe, OwnsOpenSession
<1> QED BY <1>1, RunStep

\* Before the command is executed it is not executing.
LEMMA NoAgentYet ==
    ASSUME TypeOK, Safe, NEW g \in Procs, pc[g] \in Preparing
    PROVE  pc[g] \in RunPhases /\ ~agent[cur[g]] /\ cur[g] \in Sessions
BY DEF Safe, AgentAccountedFor, OwnsOpenSession, Preparing, RunPhases, PastRecovery, Phases

LEMMA AgentIsCleanup ==
    ASSUME TypeOK, Safe, NEW g \in Procs, pc[g] \in Concluding
    PROVE  /\ pc[g] \in RunPhases /\ cur[g] \in Sessions
           /\ agent[cur[g]] => val[g].cleanup
BY DEF Safe, AgentAccountedFor, OwnsOpenSession, Concluding, RunPhases, PastRecovery, Phases

LEMMA PrepareSafe ==
    ASSUME TypeOK, Safe, NEW g \in Procs,
           Start(g) \/ Prepare(g) \/ Announce(g) \/ JournalFails(g) \/ Issue(g)
    PROVE  Safe'
<1>1. pc[g] \in Preparing
  BY DEF Start, Prepare, Announce, JournalFails, Issue, At, Preparing
<1>2. pc[g] \in RunPhases /\ ~agent[cur[g]] /\ cur[g] \in Sessions
  BY <1>1, NoAgentYet
<1>3. UNCHANGED <<rows, ends, lock, cur, recoveryVars, agent, present>>
  BY DEF Start, Prepare, Announce, JournalFails, Issue, AddEvent, CreateDecoy,
         localVars, world, dockerVars, storeVars, recoveryVars
<1>4. AgentsOnlyEnd /\ ~agent'[cur[g]]
  BY <1>2, <1>3, SameAgents DEF Safe
<1>5. CASE JournalFails(g)
  <2>1. [val[g] EXCEPT !.cleanup = TRUE] \in Values
    BY ValType DEF TypeOK
  <2>2. [val[g] EXCEPT !.cleanup = TRUE].status \in Open
    BY DEF Safe, OwnsOpenSession, TypeOK, LocalTypeOK, Values, Columns
  <2>3. "fail" \in RunPhases
    BY DEF RunPhases, PastRecovery, Phases
  <2> QED BY <1>2, <1>3, <1>4, <1>5, <2>1, <2>2, <2>3, RunStep DEF JournalFails, SetVal, Goto
<1>6. CASE Start(g) \/ Prepare(g) \/ Announce(g) \/ Issue(g)
  <2>1. UNCHANGED val
    BY <1>6 DEF Start, Prepare, Announce, Issue, localVars
  <2>2. PICK phase \in RunPhases : pc' = [pc EXCEPT ![g] = phase]
    <3>1. CASE Prepare(g) \/ Issue(g)
      BY <1>2, <3>1 DEF Prepare, Issue, TypeOK, LocalTypeOK
    <3>2. CASE Start(g) \/ Announce(g)
      BY <3>2 DEF Start, Announce, Goto, RunPhases, PastRecovery, Phases
    <3> QED BY <1>6, <3>1, <3>2
  <2> QED BY <1>2, <1>3, <1>4, <2>1, <2>2, RunStepSameVal
<1> QED BY <1>5, <1>6

LEMMA ExecuteSafe ==
    ASSUME TypeOK, Safe, NEW g \in Procs,
           \/ LaunchFails(g) \/ StopAgent(g) \/ StopAgentFails(g)
           \/ Flush(g) \/ FlushFails(g) \/ StopSidecars(g) \/ StopSidecarsFails(g)
           \/ Collect(g) \/ CollectFails(g) \/ Mark(g) \/ MarkFails(g)
    PROVE  Safe'
<1>1. pc[g] \in {"launch", "running", "flush", "stop", "collect", "mark"}
  BY DEF LaunchFails, StopAgent, StopAgentFails, Flush, FlushFails, StopSidecars,
         StopSidecarsFails, Collect, CollectFails, Mark, MarkFails, At
<1>2. pc[g] \in RunPhases /\ cur[g] \in Sessions
  BY <1>1 DEF RunPhases, PastRecovery, Phases, Safe, OwnsOpenSession
<1>3. UNCHANGED <<rows, ends, lock, cur, val, recoveryVars>>
  BY DEF LaunchFails, StopAgent, StopAgentFails, Flush, FlushFails, StopSidecars,
         StopSidecarsFails, Collect, CollectFails, Mark, MarkFails, storeVars,
         localVars, recoveryVars
<1>4. AgentsOnlyEnd
  <2>1. CASE \/ LaunchFails(g) \/ StopAgent(g) \/ StopAgentFails(g)
             \/ StopSidecars(g) \/ StopSidecarsFails(g)
    BY <1>2, <2>1, RemoveAgents
       DEF LaunchFails, StopAgent, StopAgentFails, StopSidecars, StopSidecarsFails, Safe
  <2>2. CASE \/ Flush(g) \/ FlushFails(g) \/ Collect(g) \/ CollectFails(g)
             \/ Mark(g) \/ MarkFails(g)
    BY <2>2, SameAgents, SMTT(30)
       DEF Flush, FlushFails, Collect, CollectFails, Mark, MarkFails, world, dockerVars, Safe
  <2> QED BY <2>1, <2>2, SMTT(30)
<1>5. PICK phase \in {"flush", "stop", "collect", "mark", "verify"} :
          pc' = [pc EXCEPT ![g] = phase]
  BY DEF LaunchFails, StopAgent, StopAgentFails, Flush, FlushFails, StopSidecars,
         StopSidecarsFails, Collect, CollectFails, Mark, MarkFails, Goto, AfterStop
<1>6. phase \in RunPhases /\ phase \notin Preparing /\ phase \notin Concluding
  BY DEF RunPhases, PastRecovery, Phases, Preparing, Concluding
<1> QED BY <1>2, <1>3, <1>4, <1>5, <1>6, RunStepSameVal

LEMMA VerifySafe ==
    ASSUME TypeOK, Safe, NEW g \in Procs, Verify(g) \/ VerifyFails(g)
    PROVE  Safe'
<1>1. pc[g] \in RunPhases /\ cur[g] \in Sessions
  BY DEF Verify, VerifyFails, At, RunPhases, PastRecovery, Phases, Safe, OwnsOpenSession
<1>2. UNCHANGED <<rows, ends, lock, cur, recoveryVars, agent, present>>
  BY DEF Verify, VerifyFails, storeVars, world, dockerVars, recoveryVars
<1>3. AgentsOnlyEnd
  BY <1>2, SameAgents DEF Safe
<1>4. PICK pending \in BOOLEAN :
          /\ val' = [val EXCEPT ![g] = [val[g] EXCEPT !.cleanup = pending]]
          /\ pending \/ present[cur[g]] = {}
  BY DEF Verify, VerifyFails, SetVal
<1> DEFINE v == [val[g] EXCEPT !.cleanup = pending]
<1>5. v \in Values /\ v.status \in Open /\ v.cleanup = pending
  <2>1. val[g] \in Values /\ val[g].status \in Open
    BY ValType DEF TypeOK, Safe, OwnsOpenSession
  <2>2. v \in Values
    BY ValType DEF TypeOK
  <2>3. v.status = val[g].status /\ v.cleanup = pending
    BY <2>1 DEF Values, Columns
  <2> QED BY <2>1, <2>2, <2>3
<1>6. agent'[cur[g]] => pending
  BY <1>1, <1>2, <1>4 DEF Safe, AgentHasContainer
<1>7. pc' = [pc EXCEPT ![g] = "import"] /\ "import" \in RunPhases /\ "import" \notin Preparing
  BY DEF Verify, VerifyFails, Goto, RunPhases, PastRecovery, Phases, Preparing
<1>8. val' = [val EXCEPT ![g] = v]
  BY <1>4
<1> HIDE DEF v
<1> QED BY <1>1, <1>2, <1>3, <1>5, <1>6, <1>7, <1>8, RunStep

LEMMA ConcludeSafe ==
    ASSUME TypeOK, Safe, NEW g \in Procs,
           Import(g) \/ Access(g) \/ Witness(g) \/ Contain(g) \/ Exit(g) \/ ExitFails(g)
    PROVE  Safe'
<1>1. pc[g] \in Concluding
  BY DEF Import, Access, Witness, Contain, Exit, ExitFails, At, Concluding
<1>2. pc[g] \in RunPhases /\ cur[g] \in Sessions /\ (agent[cur[g]] => val[g].cleanup)
  BY <1>1, AgentIsCleanup
<1>3. UNCHANGED <<rows, ends, lock, cur, recoveryVars, agent, present>>
  <2>1. CASE Exit(g)
    BY <2>1 DEF Exit, AddEvent, storeVars, world, dockerVars, recoveryVars
  <2>2. CASE Import(g) \/ Access(g) \/ Witness(g) \/ Contain(g) \/ ExitFails(g)
    BY <2>2 DEF Import, Access, Witness, Contain, ExitFails, AddEvent, TriggerDecoy,
                storeVars, localVars, world, dockerVars, recoveryVars
  <2> QED BY <2>1, <2>2
<1>4. AgentsOnlyEnd
  BY <1>3, SameAgents DEF Safe
<1>5. PICK phase \in Concluding : pc' = [pc EXCEPT ![g] = phase]
  BY DEF Import, Access, Witness, Contain, Exit, ExitFails, Goto, Concluding
<1>6. phase \in RunPhases /\ phase \notin Preparing
  BY DEF RunPhases, PastRecovery, Phases, Preparing, Concluding
<1>7. CASE Access(g) \/ Witness(g) \/ Contain(g)
  <2>1. UNCHANGED val
    BY <1>7 DEF Access, Witness, Contain, localVars
  <2> QED BY <1>2, <1>3, <1>4, <1>5, <1>6, <2>1, RunStepSameVal
<1>8. ASSUME NEW v \in Values, v.status = val[g].status, v.cleanup = val[g].cleanup,
             val' = [val EXCEPT ![g] = v]
      PROVE  Safe'
  <2>1. v.status \in Open
    BY <1>8 DEF Safe, OwnsOpenSession
  <2> QED BY <1>2, <1>3, <1>4, <1>5, <1>6, <1>8, <2>1, RunStep
<1>9. CASE Import(g)
  <2> DEFINE v == [val[g] EXCEPT !.contained = val[g].contained \/ res[g].contained]
  <2>1. v \in Values /\ v.status = val[g].status /\ v.cleanup = val[g].cleanup
    <3>1. val[g] \in Values /\ v \in Values
      BY ValType DEF TypeOK
    <3> QED BY <3>1 DEF Values, Columns
  <2>2. val' = [val EXCEPT ![g] = v]
    BY <1>9 DEF Import, SetVal
  <2> HIDE DEF v
  <2> QED BY <1>8, <2>1, <2>2
<1>10. CASE Exit(g) \/ ExitFails(g)
  <2> DEFINE v == [val[g] EXCEPT !.exit = res[g].exit]
  <2>1. v \in Values /\ v.status = val[g].status /\ v.cleanup = val[g].cleanup
    <3>1. val[g] \in Values /\ v \in Values
      BY ValType, ResBooleans DEF TypeOK
    <3> QED BY <3>1 DEF Values, Columns
  <2>2. val' = [val EXCEPT ![g] = v] \/ UNCHANGED val
    BY <1>10 DEF Exit, ExitFails, SetVal
  <2> HIDE DEF v
  <2> QED BY <1>2, <1>3, <1>4, <1>5, <1>6, <1>8, <2>1, <2>2, RunStepSameVal
<1> QED BY <1>7, <1>9, <1>10

LEMMA StoreFailsSafe ==
    ASSUME TypeOK, Safe, NEW g \in Procs, StoreFails(g)
    PROVE  Safe'
<1>1. pc[g] \in Preparing \cup Concluding
  BY DEF StoreFails, Preparing, Concluding
<1>2. pc[g] \in RunPhases /\ cur[g] \in Sessions /\ (agent[cur[g]] => val[g].cleanup)
  BY <1>1, NoAgentYet, AgentIsCleanup
<1>3. UNCHANGED <<rows, ends, lock, cur, val, recoveryVars, agent, present>>
  BY DEF StoreFails, storeVars, localVars, world, dockerVars, recoveryVars
<1>4. AgentsOnlyEnd
  BY <1>3, SameAgents DEF Safe
<1>5. pc' = [pc EXCEPT ![g] = "fail"] /\ "fail" \in RunPhases /\ "fail" \notin Preparing
  BY DEF StoreFails, Goto, RunPhases, PastRecovery, Phases, Preparing
<1> QED BY <1>2, <1>3, <1>4, <1>5, RunStepSameVal

\* What the recovery steps share: only g's phase moves, and g is the holder.
LEMMA RecoveryFrame ==
    ASSUME TypeOK, Safe, NEW g \in Procs, pc[g] # "idle", NEW phase \in Phases,
           phase \notin RunPhases, phase # "idle", Goto(g, phase),
           UNCHANGED <<lock, cur, val>>,
           \A u \in Sessions : agent'[u] => agent[u]
    PROVE  /\ LockHeld'
           /\ \A h \in Procs : h # g => pc'[h] = "idle"
           /\ pc'[g] = phase
           /\ OwnsOpenSession' /\ AgentAccountedFor'
<1>1. pc'[g] = phase /\ \A h \in Procs : h # g => pc'[h] = "idle"
  BY OthersIdle DEF Goto, TypeOK, LocalTypeOK, Safe
<1>2. LockHeld'
  BY <1>1 DEF LockHeld, Safe
<1>3. \A h \in Procs : pc'[h] \notin RunPhases
  BY <1>1 DEF RunPhases, PastRecovery
<1>4. OwnsOpenSession'
  BY <1>3 DEF OwnsOpenSession, Safe
<1>5. AgentAccountedFor'
  BY <1>3 DEF AgentAccountedFor
<1> QED BY <1>1, <1>2, <1>4, <1>5

LEMMA AcquireSafe ==
    ASSUME TypeOK, Safe, NEW g \in Procs, Acquire(g)
    PROVE  Safe'
<1> USE DEF Safe
<1>1. \A h \in Procs : pc[h] = "idle"
  BY LifecycleAssumption DEF Acquire, LockHeld
<1>2. pc'[g] = "scan" /\ lock' = g /\ \A h \in Procs : h # g => pc'[h] = "idle"
  BY <1>1 DEF Acquire, Goto, TypeOK, LocalTypeOK
<1>3. UNCHANGED <<rows, ends, cur, val, toSweep, toSettle, snap, agent, present>>
  BY DEF Acquire, storeVars, localVars, world, dockerVars
<1>4. \A h \in Procs : pc'[h] \notin Recovering /\ pc'[h] \notin PastRecovery
  BY <1>2 DEF Recovering, PastRecovery
<1>5. LockHeld'
  BY <1>2 DEF LockHeld
<1>6. RecoveryCovers' /\ SweptIsDead' /\ RecoveryDone' /\ AgentAccountedFor'
  BY <1>4 DEF RecoveryCovers, SweptIsDead, RecoveryDone, AgentAccountedFor, RunPhases
<1>7. OwnsOpenSession'
  BY <1>3, <1>4 DEF OwnsOpenSession, RunPhases
<1>8. AgentHasContainer' /\ LiveAgentJournaled' /\ ClosedOnce'
  BY <1>3 DEF AgentHasContainer, LiveAgentJournaled, ClosedOnce, Closed
<1> QED BY <1>5, <1>6, <1>7, <1>8

LEMMA ScanSafe ==
    ASSUME TypeOK, Safe, NEW g \in Procs, Scan(g)
    PROVE  Safe'
<1> USE DEF Safe
<1> DEFINE interrupted == {s \in Sessions : NeedsRecovery(rows[s])}
           phase == IF interrupted = {} THEN "create" ELSE "reconcile"
<1>1. /\ pc[g] # "idle" /\ Goto(g, phase)
      /\ toSweep' = [toSweep EXCEPT ![g] = interrupted]
      /\ toSettle' = [toSettle EXCEPT ![g] = interrupted]
      /\ snap' = [snap EXCEPT ![g] = rows]
      /\ UNCHANGED <<rows, ends, lock, cur, val, agent, present>>
  BY DEF Scan, At, storeVars, world, dockerVars
<1>2. phase \in Phases /\ phase \notin RunPhases /\ phase # "idle"
  BY DEF Phases, RunPhases, PastRecovery
<1>3. LockHeld' /\ OwnsOpenSession' /\ AgentAccountedFor'
  BY <1>1, <1>2, RecoveryFrame
<1>4. pc'[g] = phase /\ \A h \in Procs : h # g => pc'[h] = "idle"
  BY <1>1, <1>2, RecoveryFrame
<1>5. toSweep'[g] = interrupted /\ toSettle'[g] = interrupted /\ snap'[g] = rows
  BY <1>1 DEF TypeOK, LocalTypeOK
<1>6. RecoveryCovers'
  BY <1>1, <1>4, <1>5 DEF RecoveryCovers, Recovering
<1>7. SweptIsDead'
  BY <1>1, <1>4, <1>5 DEF SweptIsDead, Recovering
<1>8. RecoveryDone'
  BY <1>1, <1>4 DEF RecoveryDone, PastRecovery
<1>9. AgentHasContainer' /\ LiveAgentJournaled' /\ ClosedOnce'
  BY <1>1 DEF AgentHasContainer, LiveAgentJournaled, ClosedOnce, Closed
<1> QED BY <1>3, <1>6, <1>7, <1>8, <1>9

LEMMA ReconcileSafe ==
    ASSUME TypeOK, Safe, NEW g \in Procs, Reconcile(g)
    PROVE  Safe'
<1> USE DEF Safe
<1>1. PICK s \in Sessions :
         /\ s \in toSweep[g]
         /\ Remove(s, Kinds, {})
         /\ toSweep' = [toSweep EXCEPT ![g] = @ \ {s}]
         /\ Goto(g, IF toSweep[g] = {s} THEN "restore" ELSE "reconcile")
  BY DEF Reconcile, First
<1> DEFINE phase == IF toSweep[g] = {s} THEN "restore" ELSE "reconcile"
<1>2. /\ pc[g] = "reconcile"
      /\ UNCHANGED <<rows, ends, lock, cur, val, toSettle, snap>>
  BY DEF Reconcile, At, storeVars
<1>3. AgentsOnlyEnd /\ ~agent'[s]
  BY <1>1, RemoveAgents, LifecycleAssumption
<1>4. phase \in Phases /\ phase \notin RunPhases /\ phase # "idle"
  BY DEF Phases, RunPhases, PastRecovery
<1>5. /\ LockHeld' /\ OwnsOpenSession' /\ AgentAccountedFor'
      /\ pc'[g] = phase /\ \A h \in Procs : h # g => pc'[h] = "idle"
  BY <1>1, <1>2, <1>3, <1>4, RecoveryFrame DEF AgentsOnlyEnd
<1>6. RecoveryCovers'
  BY <1>2, <1>5 DEF RecoveryCovers, Recovering
<1>7. toSweep'[g] = toSweep[g] \ {s} /\ toSettle[g] \subseteq Sessions
  BY <1>1 DEF TypeOK, LocalTypeOK
<1>8. \A u \in toSettle[g] : agent[u] => u \in toSweep[g]
  BY <1>2 DEF SweptIsDead, Recovering
<1>9. SweptIsDead'
  <2> SUFFICES ASSUME NEW u \in toSettle[g], agent'[u]
               PROVE  phase = "reconcile" /\ u \in toSweep'[g]
    BY <1>2, <1>5 DEF SweptIsDead, Recovering
  <2>1. u # s /\ agent[u] /\ u \in toSweep[g]
    BY <1>3, <1>7, <1>8 DEF AgentsOnlyEnd
  <2> QED BY <1>7, <2>1
<1>10. RecoveryDone'
  BY <1>5 DEF RecoveryDone, PastRecovery
<1>11. AgentHasContainer' /\ LiveAgentJournaled' /\ ClosedOnce'
  BY <1>2, <1>3 DEF AgentHasContainer, LiveAgentJournaled, ClosedOnce, Closed, AgentsOnlyEnd
<1> QED BY <1>5, <1>6, <1>9, <1>10, <1>11

LEMMA RestoreSafe ==
    ASSUME TypeOK, Safe, NEW g \in Procs, Restore(g)
    PROVE  Safe'
<1> USE DEF Safe
<1>1. /\ pc[g] = "restore" /\ Goto(g, "settle")
      /\ UNCHANGED <<rows, ends, lock, cur, val, toSweep, toSettle, agent, present>>
  BY DEF Restore, At, AddEvent, storeVars, world, dockerVars
<1>2. \A u \in Sessions : snap'[g][u].status = snap[g][u].status
  <2>1. PICK s \in Sessions : \/ snap' = [snap EXCEPT ![g][s].contained = TRUE]
                              \/ UNCHANGED snap
    BY DEF Restore
  <2>2. snap[g] \in [Sessions -> Columns(Open \cup Terminal \cup {"absent"})]
    BY DEF TypeOK, LocalTypeOK
  <2>3. snap'[g] = [snap[g] EXCEPT ![s].contained = TRUE] \/ snap'[g] = snap[g]
    BY <2>1 DEF TypeOK, LocalTypeOK
  <2> QED BY <2>2, <2>3 DEF Columns
<1>3. "settle" \in Phases /\ "settle" \notin RunPhases
  BY DEF Phases, RunPhases, PastRecovery
<1>4. /\ LockHeld' /\ OwnsOpenSession' /\ AgentAccountedFor'
      /\ pc'[g] = "settle" /\ \A h \in Procs : h # g => pc'[h] = "idle"
  BY <1>1, <1>3, RecoveryFrame
<1>5. RecoveryCovers'
  BY <1>1, <1>2, <1>4 DEF RecoveryCovers, Recovering
<1>6. SweptIsDead'
  BY <1>1, <1>4 DEF SweptIsDead, Recovering
<1>7. RecoveryDone'
  BY <1>4 DEF RecoveryDone, PastRecovery
<1>8. AgentHasContainer' /\ LiveAgentJournaled' /\ ClosedOnce'
  BY <1>1 DEF AgentHasContainer, LiveAgentJournaled, ClosedOnce, Closed
<1> QED BY <1>4, <1>5, <1>6, <1>7, <1>8

\* What settling writes: the row of s is closed and needs recovery no more,
\* its containment is that of the snapshot, its SESSION_END matches, and no
\* other row changes.
LEMMA SettleWrites ==
    ASSUME TypeOK, Safe, NEW g \in Procs, Settle(g)
    PROVE  \E s \in Sessions :
              /\ First(toSettle[g], s) /\ s \in toSettle[g]
              /\ rows'[s].contained = snap[g][s].contained
              /\ rows'[s].status \in {"failed", rows[s].status}
              /\ toSettle' = [toSettle EXCEPT ![g] = @ \ {s}]
              /\ Goto(g, IF toSettle[g] = {s} THEN "create" ELSE "restore")
              /\ ~NeedsRecovery(rows'[s])
              /\ Closed(s)' <=> ends'[s] = 1
              /\ \A u \in Sessions : u # s => rows'[u] = rows[u] /\ ends'[u] = ends[u]
<1> USE DEF Safe
<1>1. PICK s \in Sessions :
          /\ First(toSettle[g], s) /\ s \in toSettle[g]
          /\ LET swept == [snap[g][s] EXCEPT !.cleanup = FALSE]
             IN  IF swept.status \in Open
                 THEN \E t \in Stamps :
                         FinalizeSession(s, [swept EXCEPT !.status = "failed",
                                                          !.ended = t])
                 ELSE UpdateSession(s, swept)
          /\ toSettle' = [toSettle EXCEPT ![g] = @ \ {s}]
          /\ Goto(g, IF toSettle[g] = {s} THEN "create" ELSE "restore")
  BY DEF Settle, First
<1> DEFINE swept == [snap[g][s] EXCEPT !.cleanup = FALSE]
<1>2. snap[g][s].status = rows[s].status
  BY <1>1 DEF RecoveryCovers, Settle, At, Recovering
<1>3. /\ snap[g][s] \in Columns(Open \cup Terminal \cup {"absent"})
      /\ rows \in [Sessions -> Rows] /\ ends \in [Sessions -> 0..1]
  BY DEF TypeOK, LocalTypeOK, StoreTypeOK
<1>4. swept.status = rows[s].status /\ swept.cleanup = FALSE
  BY <1>2, <1>3 DEF Columns
<1>5. CASE swept.status \in Open
  <2>1. PICK t \in Stamps :
            FinalizeSession(s, [swept EXCEPT !.status = "failed", !.ended = t])
    BY <1>1, <1>5
  <2> DEFINE value == [swept EXCEPT !.status = "failed", !.ended = t]
  <2>2. /\ value.status = "failed" /\ value.cleanup = FALSE
        /\ value.contained = snap[g][s].contained
    BY <1>3 DEF Columns
  <2>3. FinalizeSession(s, value)
    BY <2>1
  <2> HIDE DEF value
  <2>4. rows[s] # value
    BY <1>4, <1>5, <2>2 DEF Open
  <2>5. rows' = [rows EXCEPT ![s] = value] /\ ends' = [ends EXCEPT ![s] = 1]
    BY <2>3, <2>4 DEF FinalizeSession
  <2>6. rows'[s] = value /\ ends'[s] = 1
    BY <1>3, <2>5
  <2>7. ~NeedsRecovery(rows'[s]) /\ Closed(s)'
    BY <2>2, <2>6 DEF NeedsRecovery, Closed, Open, Terminal
  <2> QED BY <1>1, <1>3, <2>2, <2>5, <2>6, <2>7
<1>6. CASE swept.status \notin Open
  <2>1. UpdateSession(s, swept)
    BY <1>1, <1>6
  <2>2. rows' = [rows EXCEPT ![s] = swept] /\ UNCHANGED ends
    BY <2>1 DEF UpdateSession
  <2>3. rows'[s] = swept
    BY <1>3, <2>2
  <2>4. /\ ~NeedsRecovery(rows'[s]) /\ rows'[s].status = rows[s].status
        /\ rows'[s].contained = snap[g][s].contained
    BY <1>3, <1>4, <1>6, <2>3 DEF NeedsRecovery, Columns
  <2>5. Closed(s)' <=> Closed(s)
    BY <1>4, <2>3 DEF Closed
  <2> QED BY <1>1, <1>3, <2>2, <2>4, <2>5 DEF ClosedOnce
<1> QED BY <1>5, <1>6

LEMMA SettleSafe ==
    ASSUME TypeOK, Safe, NEW g \in Procs, Settle(g)
    PROVE  Safe'
<1> USE DEF Safe
<1>1. PICK s \in Sessions :
          /\ s \in toSettle[g]
          /\ toSettle' = [toSettle EXCEPT ![g] = @ \ {s}]
          /\ Goto(g, IF toSettle[g] = {s} THEN "create" ELSE "restore")
          /\ ~NeedsRecovery(rows'[s])
          /\ Closed(s)' <=> ends'[s] = 1
          /\ \A u \in Sessions : u # s => rows'[u] = rows[u] /\ ends'[u] = ends[u]
  BY SettleWrites
<1> DEFINE phase == IF toSettle[g] = {s} THEN "create" ELSE "restore"
<1>2. pc[g] = "settle" /\ UNCHANGED <<lock, cur, val, toSweep, snap, agent, present>>
  BY DEF Settle, At, world, dockerVars
<1>3. phase \in Phases /\ phase \notin RunPhases /\ phase # "idle"
  BY DEF Phases, RunPhases, PastRecovery
<1>4. pc'[g] = phase /\ \A h \in Procs : h # g => pc'[h] = "idle"
  BY <1>1, <1>2, OthersIdle DEF Goto, TypeOK, LocalTypeOK
<1>5. \A h \in Procs : pc'[h] \notin RunPhases
  BY <1>3, <1>4 DEF RunPhases, PastRecovery
<1>6. LockHeld' /\ OwnsOpenSession' /\ AgentAccountedFor'
  BY <1>2, <1>4, <1>5 DEF LockHeld, OwnsOpenSession, AgentAccountedFor
<1>7. /\ \A u \in Sessions : NeedsRecovery(rows[u]) => u \in toSettle[g]
      /\ \A u \in toSettle[g] : ~agent[u]
      /\ \A u \in toSettle[g] : u \in Sessions => snap[g][u].status = rows[u].status
  BY <1>2 DEF RecoveryCovers, SweptIsDead, Recovering
<1>8. toSettle'[g] = toSettle[g] \ {s}
  BY <1>1 DEF TypeOK, LocalTypeOK
<1>9. \A u \in Sessions : NeedsRecovery(rows'[u]) => u \in toSettle'[g]
  BY <1>1, <1>7, <1>8
<1>10. RecoveryCovers'
  BY <1>1, <1>2, <1>4, <1>7, <1>8, <1>9 DEF RecoveryCovers, Recovering
<1>11. SweptIsDead'
  BY <1>2, <1>4, <1>7, <1>8 DEF SweptIsDead, Recovering
<1>12. RecoveryDone'
  BY <1>1, <1>4, <1>8, <1>9 DEF RecoveryDone, PastRecovery
<1>13. AgentHasContainer' /\ LiveAgentJournaled'
  BY <1>1, <1>2, <1>7 DEF AgentHasContainer, LiveAgentJournaled
<1>14. ClosedOnce'
  BY <1>1 DEF ClosedOnce, Closed
<1> QED BY <1>6, <1>10, <1>11, <1>12, <1>13, <1>14

LEMMA CreateSafe ==
    ASSUME TypeOK, Safe, NEW g \in Procs, Create(g)
    PROVE  Safe'
<1> USE DEF Safe
<1>1. PICK s \in Sessions :
          /\ rows[s].status = "absent" /\ rows' = [rows EXCEPT ![s] = FreshValue]
          /\ cur' = [cur EXCEPT ![g] = s]
  BY DEF Create, CreateSession
<1>2. /\ pc[g] = "create" /\ Goto(g, "start")
      /\ UNCHANGED <<ends, lock, val, toSweep, toSettle, snap, agent, present>>
  BY DEF Create, CreateSession, At, world, dockerVars, recoveryVars
<1>3. pc'[g] = "start" /\ cur'[g] = s /\ \A h \in Procs : h # g => pc'[h] = "idle"
  BY <1>1, <1>2, OthersIdle DEF Goto, TypeOK, LocalTypeOK
<1>4. rows'[s] = FreshValue /\ \A u \in Sessions : u # s => rows'[u] = rows[u]
  BY <1>1 DEF TypeOK, StoreTypeOK
<1>5. \A u \in Sessions : ~NeedsRecovery(rows[u])
  BY <1>2 DEF RecoveryDone, PastRecovery, Phases
<1>6. rows[s] = AbsentRow
  BY <1>1 DEF TypeOK, StoreTypeOK, Rows, Values, Columns, Open, Terminal
<1>7. ~NeedsRecovery(rows[s]) /\ ~Closed(s)
  BY <1>6 DEF NeedsRecovery, AbsentRow, Open, Closed, Terminal
<1>8. ~agent[s]
  BY <1>7 DEF LiveAgentJournaled
<1>9. LockHeld' /\ RecoveryCovers' /\ SweptIsDead'
  BY <1>2, <1>3 DEF LockHeld, RecoveryCovers, SweptIsDead, Recovering
<1>10. OwnsOpenSession'
  BY <1>2, <1>3, <1>4 DEF OwnsOpenSession, Live, FreshValue, Open, RunPhases, PastRecovery
<1>11. AgentHasContainer' /\ LiveAgentJournaled'
  BY <1>2, <1>4, <1>8 DEF AgentHasContainer, LiveAgentJournaled
<1>12. ClosedOnce'
  <2>1. ~Closed(s)' /\ ends'[s] # 1
    BY <1>2, <1>4, <1>7 DEF Closed, FreshValue, Terminal, ClosedOnce
  <2> QED BY <1>2, <1>4, <2>1 DEF ClosedOnce, Closed
<1>13. AgentAccountedFor'
  BY <1>2, <1>3, <1>8 DEF AgentAccountedFor, RunPhases, PastRecovery
<1>15. RecoveryDone'
  BY <1>3, <1>4, <1>5 DEF RecoveryDone, PastRecovery
<1> QED BY <1>9, <1>10, <1>11, <1>12, <1>13, <1>15

\* A run's own row, still open, takes over a value that is open too.
LEMMA OpenRowStep ==
    ASSUME TypeOK, Safe, NEW g \in Procs, pc[g] \in Preparing,
           NEW phase \in Preparing, Goto(g, phase),
           NEW v \in Values, v.status \in Open, SetVal(g, v), UpdateSession(cur[g], v),
           UNCHANGED <<lock, cur, recoveryVars, agent, present>>
    PROVE  Safe'
<1> USE DEF Safe
<1>1. pc[g] \in RunPhases /\ ~agent[cur[g]] /\ cur[g] \in Sessions
  BY NoAgentYet
<1>2. phase \in RunPhases /\ phase \in PastRecovery /\ phase \notin Recovering
        /\ phase # "idle" /\ phase # "create" /\ pc[g] # "idle"
  BY <1>1 DEF RunPhases, PastRecovery, Phases, Preparing, Recovering
<1>3. pc'[g] = phase /\ val'[g] = v /\ \A h \in Procs : h # g => pc'[h] = "idle"
  BY <1>2, OthersIdle DEF Goto, SetVal, TypeOK, LocalTypeOK
<1>4. /\ rows'[cur[g]] = v /\ ends' = ends
      /\ \A u \in Sessions : u # cur[g] => rows'[u] = rows[u]
  BY <1>1 DEF UpdateSession, TypeOK, StoreTypeOK
<1>5. rows[cur[g]].status \in Open
  BY <1>1, OwnSession
<1>6. LockHeld' /\ RecoveryCovers' /\ SweptIsDead'
  BY <1>2, <1>3 DEF LockHeld, RecoveryCovers, SweptIsDead, Recovering
<1>7. OwnsOpenSession'
  BY <1>1, <1>3, <1>4 DEF OwnsOpenSession, Live, SetVal, RunPhases, PastRecovery,
                         TypeOK, LocalTypeOK
<1>8. RecoveryDone'
  <2>1. \A u \in Sessions : NeedsRecovery(rows[u]) => u = cur[g]
    BY <1>1 DEF RecoveryDone, RunPhases
  <2> QED BY <1>2, <1>3, <1>4, <2>1 DEF RecoveryDone, PastRecovery
<1>9. AgentHasContainer' /\ LiveAgentJournaled' /\ AgentAccountedFor'
  BY <1>1, <1>3, <1>4 DEF AgentHasContainer, LiveAgentJournaled, AgentAccountedFor,
                         RunPhases, PastRecovery
<1>10. ClosedOnce'
  <2>1. ~Closed(cur[g]) /\ ~Closed(cur[g])'
    BY <1>4, <1>5 DEF Closed, Open, Terminal
  <2> QED BY <1>1, <1>4, <2>1 DEF ClosedOnce, Closed
<1> QED BY <1>6, <1>7, <1>8, <1>9, <1>10

LEMMA OpenRowSafe ==
    ASSUME TypeOK, Safe, NEW g \in Procs, Activate(g) \/ Journal(g)
    PROVE  Safe'
<1>1. CASE Activate(g)
  <2> DEFINE v == [val[g] EXCEPT !.status = "running"]
  <2>1. v \in Values /\ v.status \in Open
    <3>1. v \in Values /\ val[g] \in Values
      BY ValType DEF TypeOK
    <3> QED BY <3>1 DEF Values, Columns, Open
  <2>2. UpdateSession(cur[g], v) /\ SetVal(g, v) /\ Goto(g, "prepare")
    BY <1>1 DEF Activate
  <2>3. /\ pc[g] \in Preparing /\ "prepare" \in Preparing
        /\ UNCHANGED <<lock, cur, recoveryVars, agent, present>>
    BY <1>1 DEF Activate, At, Preparing, world, dockerVars
  <2> HIDE DEF v
  <2> QED BY <2>1, <2>2, <2>3, OpenRowStep
<1>2. CASE Journal(g)
  <2> DEFINE v == [val[g] EXCEPT !.cleanup = TRUE]
  <2>1. v \in Values /\ v.status \in Open
    <3>1. v \in Values /\ val[g] \in Values /\ val[g].status \in Open
      BY ValType DEF TypeOK, Safe, OwnsOpenSession
    <3> QED BY <3>1 DEF Values, Columns
  <2>2. UpdateSession(cur[g], v) /\ SetVal(g, v) /\ Goto(g, "launch")
    BY <1>2 DEF Journal
  <2>3. /\ pc[g] \in Preparing /\ "launch" \in Preparing
        /\ UNCHANGED <<lock, cur, recoveryVars, agent, present>>
    BY <1>2 DEF Journal, At, Preparing, world, dockerVars
  <2> HIDE DEF v
  <2> QED BY <2>1, <2>2, <2>3, OpenRowStep
<1> QED BY <1>1, <1>2

\* The only step that starts a command.
LEMMA ExecSafe ==
    ASSUME TypeOK, Safe, NEW g \in Procs, Exec(g)
    PROVE  Safe'
<1> USE DEF Safe
<1>1. pc[g] = "launch" /\ "agent" \in present[cur[g]]
  BY DEF Exec, At
<1>2. pc[g] \in RunPhases /\ pc[g] # "idle" /\ cur[g] \in Sessions /\ Live(cur[g])
  BY <1>1 DEF RunPhases, PastRecovery, Phases, OwnsOpenSession
<1>3. UNCHANGED <<rows, ends, lock, cur, val, toSweep, toSettle, snap, present>>
  BY DEF Exec, storeVars, localVars
<1>4. pc'[g] = "running" /\ \A h \in Procs : h # g => pc'[h] = "idle"
  BY <1>2, OthersIdle DEF Exec, Goto, TypeOK, LocalTypeOK
<1>5. \A u \in Sessions : agent'[u] => agent[u] \/ u = cur[g]
  BY <1>2 DEF Exec, TypeOK, WorldTypeOK
<1>6. LockHeld' /\ RecoveryCovers' /\ SweptIsDead'
  BY <1>2, <1>3, <1>4 DEF LockHeld, RecoveryCovers, SweptIsDead, Recovering
<1>7. OwnsOpenSession'
  BY <1>2, <1>3, <1>4 DEF OwnsOpenSession, Live, RunPhases, PastRecovery
<1>8. RecoveryDone'
  <2>1. \A u \in Sessions : NeedsRecovery(rows[u]) => u = cur[g]
    BY <1>2 DEF RecoveryDone, RunPhases
  <2> QED BY <1>3, <1>4, <2>1 DEF RecoveryDone, PastRecovery
<1>9. AgentHasContainer' /\ LiveAgentJournaled' /\ ClosedOnce'
  BY <1>1, <1>2, <1>3, <1>5 DEF AgentHasContainer, LiveAgentJournaled, NeedsRecovery,
                               Live, ClosedOnce, Closed
<1>10. AgentAccountedFor'
  BY <1>3, <1>4 DEF AgentAccountedFor, Preparing, Concluding, RunPhases, PastRecovery
<1> QED BY <1>6, <1>7, <1>8, <1>9, <1>10

LEMMA CloseSafe ==
    ASSUME TypeOK, Safe, NEW g \in Procs, Final(g) \/ Fail(g)
    PROVE  Safe'
<1> USE DEF Safe
<1>1. pc[g] \in Concluding
  BY DEF Final, Fail, At, Concluding
<1>2. /\ pc[g] \in RunPhases /\ cur[g] \in Sessions /\ pc[g] # "idle"
      /\ agent[cur[g]] => val[g].cleanup
  BY <1>1, AgentIsCleanup DEF Concluding
<1>3. PICK status \in Terminal, t \in Stamps :
          FinalizeSession(cur[g], [val[g] EXCEPT !.status = status, !.ended = t])
  BY DEF Final, Fail, CloseAs, Outcome, Terminal
<1> DEFINE v == [val[g] EXCEPT !.status = status, !.ended = t]
<1>4. v.status \in Terminal /\ v.cleanup = val[g].cleanup
  <2>1. val[g] \in Values
    BY DEF TypeOK, LocalTypeOK
  <2> QED BY <2>1 DEF Values, Columns
<1>5. FinalizeSession(cur[g], v)
  BY <1>3
<1> HIDE DEF v
<1>6. rows[cur[g]].status \in Open
  BY <1>2, OwnSession
<1>7. rows' = [rows EXCEPT ![cur[g]] = v] /\ ends' = [ends EXCEPT ![cur[g]] = 1]
  BY <1>4, <1>5, <1>6 DEF FinalizeSession, Open, Terminal
<1>8. /\ rows'[cur[g]] = v /\ ends'[cur[g]] = 1
      /\ \A u \in Sessions : u # cur[g] => rows'[u] = rows[u] /\ ends'[u] = ends[u]
  BY <1>2, <1>7 DEF TypeOK, StoreTypeOK
<1>9. Leave(g) /\ UNCHANGED <<agent, present>>
  BY DEF Final, Fail, CloseAs, world, dockerVars
<1>10. \A h \in Procs : pc'[h] = "idle"
  BY <1>2, <1>9, OthersIdle DEF Leave, Goto, TypeOK, LocalTypeOK
<1>11. /\ LockHeld' /\ RecoveryCovers' /\ SweptIsDead' /\ RecoveryDone'
       /\ AgentAccountedFor'
  BY <1>10 DEF LockHeld, RecoveryCovers, SweptIsDead, RecoveryDone, AgentAccountedFor,
               Recovering, PastRecovery, RunPhases
<1>12. OwnsOpenSession'
  BY <1>9, <1>10 DEF OwnsOpenSession, Leave, FreshValue, Open, RunPhases, PastRecovery,
                     TypeOK, LocalTypeOK
<1>13. AgentHasContainer' /\ LiveAgentJournaled'
  BY <1>2, <1>4, <1>8, <1>9 DEF AgentHasContainer, LiveAgentJournaled, NeedsRecovery
<1>14. ClosedOnce'
  BY <1>2, <1>4, <1>8 DEF ClosedOnce, Closed
<1> QED BY <1>11, <1>12, <1>13, <1>14

-----------------------------------------------------------------------------
LEMMA InitSafe == Init => Safe
<1> SUFFICES ASSUME Init PROVE Safe
  OBVIOUS
<1>1. \A g \in Procs : pc[g] = "idle" /\ val[g] = FreshValue
  BY DEF Init
<1>2. LockHeld /\ OwnsOpenSession /\ RecoveryCovers /\ SweptIsDead /\ RecoveryDone
        /\ AgentAccountedFor
  BY <1>1 DEF LockHeld, OwnsOpenSession, RecoveryCovers, SweptIsDead, RecoveryDone,
              AgentAccountedFor, FreshValue, Open, Recovering, PastRecovery, RunPhases
<1>3. AgentHasContainer /\ LiveAgentJournaled
  BY DEF Init, AgentHasContainer, LiveAgentJournaled
<1>4. ClosedOnce
  BY DEF Init, StoreInit, ClosedOnce, Closed, AbsentRow, Terminal
<1> QED BY <1>2, <1>3, <1>4 DEF Safe

LEMMA NextSafe ==
    ASSUME TypeOK, Safe, Next PROVE Safe'
<1>1. ASSUME NEW g \in Procs, Acquire(g) \/ Works(g) \/ Errs(g) \/ Crash(g)
      PROVE  Safe'
  BY <1>1, AcquireSafe, ScanSafe, ReconcileSafe, RestoreSafe, SettleSafe, CreateSafe,
     PrepareSafe, OpenRowSafe, ExecSafe, ExecuteSafe, VerifySafe, ConcludeSafe,
     CloseSafe, StoreFailsSafe, LeavingSafe
     DEF Works, Recovers, Prepares, Executes, Concludes, Errs
<1>2. ASSUME NEW s \in Sessions, Environment(s) PROVE Safe'
  BY <1>2, EnvironmentSafe
<1> QED BY <1>1, <1>2 DEF Next

(***************************************************************************)
(* The inductive invariant of the session lifecycle holds for any number   *)
(* of competing invocations, crashes and failures.                         *)
(***************************************************************************)
THEOREM LifecycleInvariance == Spec => []LifecycleInvariant
<1>1. Init => LifecycleInvariant
  BY InitTypes, InitSafe DEF LifecycleInvariant, Safe
<1>2. LifecycleInvariant /\ [Next]_vars => LifecycleInvariant'
  <2> SUFFICES ASSUME LifecycleInvariant, [Next]_vars PROVE LifecycleInvariant'
    OBVIOUS
  <2>1. TypeOK /\ Safe
    BY DEF LifecycleInvariant, Safe
  <2>2. CASE Next
    BY <2>1, <2>2, NextTypes, NextSafe DEF LifecycleInvariant, Safe
  <2>3. CASE UNCHANGED vars
    <3>1. UNCHANGED <<storeVars, lock, pc, localVars, world, historyVars, crashes, faults>>
      BY <2>3 DEF vars, world
    <3>2. TypeOK'
      BY <2>1, <3>1, SameStore, SameWorld, SameCounts DEF TypeOK, LocalTypeOK, localVars
    <3>3. Safe'
      BY <2>1, <3>1, SameAgents, WorldStep DEF storeVars, world, dockerVars, Safe
    <3> QED BY <3>2, <3>3 DEF LifecycleInvariant, Safe
  <2> QED BY <2>2, <2>3
<1> QED BY <1>1, <1>2, PTL DEF Spec

\* The state of every invocation, of the store and of Docker keeps its type.
THEOREM LifecycleTypes == Spec => []TypeOK
BY LifecycleInvariance, PTL DEF LifecycleInvariant

(***************************************************************************)
(* A terminal row and its SESSION_END never part, whoever closed the       *)
(* session and wherever a crash fell (sqlite.go:265-267).                  *)
(***************************************************************************)
THEOREM ClosingIsAtomic == Spec => []ClosedOnce
BY LifecycleInvariance, PTL DEF LifecycleInvariant

\* No invocation is past recovery beside a session that needs recovery.
THEOREM RecoveryComesFirst == Spec => []RecoveryDone
BY LifecycleInvariance, PTL DEF LifecycleInvariant

\* Every command that executes is of a session the next recovery will find.
THEOREM AgentsAreJournaled == Spec => []LiveAgentJournaled
BY LifecycleInvariance, PTL DEF LifecycleInvariant

-----------------------------------------------------------------------------
(***************************************************************************)
(* Two consequences of the invariant that need an argument of their own: a *)
(* project never has two sessions to recover, hence never two commands at  *)
(* work; and the rows the lifecycle writes are an execution of the         *)
(* write-once ledger.                                                      *)
(***************************************************************************)
\* How a step may change the rows and the end events.
RowsKept == UNCHANGED <<rows, ends>>

RowOpened(s) == CreateSession(s, FreshValue)

RowUpdated(s) ==
    \E v \in Values : UpdateSession(s, v) /\ (v.status \in Open <=> Live(s))
                        /\ (NeedsRecovery(v) => NeedsRecovery(rows[s]))

RowClosed(s) ==
    \E v \in Values : FinalizeSession(s, v) /\ NeedsRecovery(rows[s])

LEMMA SettleKind ==
    ASSUME TypeOK, Safe, NEW g \in Procs, Settle(g)
    PROVE  \E s \in Sessions : RowUpdated(s) \/ RowClosed(s)
<1>1. PICK s \in Sessions :
          /\ s \in toSettle[g]
          /\ LET swept == [snap[g][s] EXCEPT !.cleanup = FALSE]
             IN  IF swept.status \in Open
                 THEN \E t \in Stamps :
                         FinalizeSession(s, [swept EXCEPT !.status = "failed",
                                                          !.ended = t])
                 ELSE UpdateSession(s, swept)
  BY DEF Settle, First
<1> DEFINE swept == [snap[g][s] EXCEPT !.cleanup = FALSE]
<1>2. snap[g][s].status = rows[s].status
  BY <1>1 DEF RecoveryCovers, Settle, At, Recovering, Safe
<1>3. snap[g][s] \in Columns(Open \cup Terminal \cup {"absent"})
  BY DEF TypeOK, LocalTypeOK
<1>4. swept.status = rows[s].status /\ swept.cleanup = FALSE
         /\ swept \in Columns(Open \cup Terminal \cup {"absent"})
  BY <1>2, <1>3 DEF Columns
<1>5. CASE swept.status \in Open
  <2>1. PICK t \in Stamps :
            FinalizeSession(s, [swept EXCEPT !.status = "failed", !.ended = t])
    BY <1>1, <1>5
  <2>2. [swept EXCEPT !.status = "failed", !.ended = t] \in Values
    BY <1>4 DEF Columns, Values, Terminal
  <2> QED BY <1>4, <1>5, <2>1, <2>2 DEF RowClosed, NeedsRecovery
<1>6. CASE swept.status \notin Open
  <2>1. UpdateSession(s, swept)
    BY <1>1, <1>6
  <2>2. swept \in Values
    <3>1. swept.status # "absent"
      BY <1>4, <2>1 DEF UpdateSession, Updatable
    <3> QED BY <1>4, <3>1 DEF Values, Columns
  <2>3. ~NeedsRecovery(swept) /\ ~Live(s)
    BY <1>4, <1>6 DEF NeedsRecovery, Live
  <2> HIDE DEF swept
  <2> QED BY <1>6, <2>1, <2>2, <2>3 DEF RowUpdated
<1> QED BY <1>5, <1>6

LEMMA OwnRowKind ==
    ASSUME TypeOK, Safe, NEW g \in Procs,
           Activate(g) \/ Journal(g) \/ Final(g) \/ Fail(g)
    PROVE  \E s \in Sessions : RowUpdated(s) \/ RowClosed(s)
<1>1. pc[g] \in RunPhases
  BY DEF Activate, Journal, Final, Fail, At, RunPhases, PastRecovery, Phases
<1>2. cur[g] \in Sessions /\ rows[cur[g]].status \in Open
  BY <1>1, OwnSession DEF Safe
<1>3. NeedsRecovery(rows[cur[g]]) /\ Live(cur[g])
  BY <1>2 DEF NeedsRecovery, Live
<1>4. val[g] \in Values /\ val[g].status \in Open
  BY ValType DEF TypeOK, Safe, OwnsOpenSession
<1>5. CASE Activate(g)
  <2>1. [val[g] EXCEPT !.status = "running"] \in Values
          /\ [val[g] EXCEPT !.status = "running"].status \in Open
    BY <1>4 DEF Values, Columns, Open
  <2> QED BY <1>2, <1>3, <1>5, <2>1 DEF Activate, RowUpdated
<1>6. CASE Journal(g)
  <2>1. [val[g] EXCEPT !.cleanup = TRUE] \in Values
          /\ [val[g] EXCEPT !.cleanup = TRUE].status \in Open
    BY <1>4 DEF Values, Columns
  <2> QED BY <1>2, <1>3, <1>6, <2>1 DEF Journal, RowUpdated
<1>7. CASE Final(g) \/ Fail(g)
  <2>1. PICK status \in Terminal, t \in Stamps :
            FinalizeSession(cur[g], [val[g] EXCEPT !.status = status, !.ended = t])
    BY <1>7 DEF Final, Fail, CloseAs, Outcome, Terminal
  <2>2. [val[g] EXCEPT !.status = status, !.ended = t] \in Values
    BY ValType DEF TypeOK
  <2> QED BY <1>2, <1>3, <2>1, <2>2 DEF RowClosed
<1> QED BY <1>5, <1>6, <1>7

\* Every step of the lifecycle is of one of the four kinds, and a row is only
\* created when no row needs recovery.
LEMMA StepKinds ==
    ASSUME TypeOK, Safe, Next
    PROVE  \/ RowsKept
           \/ \E s \in Sessions :
                 \/ RowOpened(s) /\ \A u \in Sessions : ~NeedsRecovery(rows[u])
                 \/ RowUpdated(s) \/ RowClosed(s)
<1>1. ASSUME NEW g \in Procs, Acquire(g) \/ Recovers(g)
      PROVE  RowsKept \/ Settle(g)
  <2>1. CASE Acquire(g) \/ Scan(g) \/ Reconcile(g)
    BY <2>1 DEF Acquire, Scan, Reconcile, RowsKept, storeVars
  <2>2. CASE Restore(g)
    BY <2>2 DEF Restore, AddEvent, RowsKept, storeVars
  <2> QED BY <1>1, <2>1, <2>2 DEF Recovers
<1>2. ASSUME NEW g \in Procs, Prepares(g)
      PROVE  RowsKept \/ Create(g) \/ Activate(g) \/ Journal(g)
  BY <1>2 DEF Prepares, Exhausted, Start, Prepare, Announce, AddEvent, CreateDecoy,
              RowsKept, storeVars
<1>3. ASSUME NEW g \in Procs, Executes(g) PROVE RowsKept
  BY <1>3 DEF Executes, Issue, Exec, StopAgent, Flush, StopSidecars, Collect, Mark, Verify,
              RowsKept, storeVars
<1>4. ASSUME NEW g \in Procs, Concludes(g)
      PROVE  RowsKept \/ Final(g) \/ Fail(g)
  <2>1. CASE Exit(g)
    BY <2>1 DEF Exit, AddEvent, RowsKept, storeVars
  <2>2. CASE Import(g) \/ Access(g) \/ Witness(g) \/ Contain(g)
    BY <2>2 DEF Import, Access, Witness, Contain, AddEvent, TriggerDecoy, RowsKept, storeVars
  <2> QED BY <1>4, <2>1, <2>2 DEF Concludes
<1>5. ASSUME NEW g \in Procs, Errs(g) \/ Crash(g) PROVE RowsKept
  BY <1>5 DEF Errs, ReconcileFails, JournalFails, LaunchFails, StopAgentFails, FlushFails,
              StopSidecarsFails, CollectFails, MarkFails, VerifyFails, ExitFails,
              StoreFails, Abort, Crash, RowsKept, storeVars
<1>6. ASSUME NEW s \in Sessions, Environment(s) PROVE RowsKept
  BY <1>6 DEF Environment, DaemonCreates, DaemonRemoves, AgentOpens, SentinelMarks,
              SentinelLogs, RowsKept, storeVars
<1>7. ASSUME NEW g \in Procs, Create(g)
      PROVE  \E s \in Sessions : /\ RowOpened(s)
                                 /\ \A u \in Sessions : ~NeedsRecovery(rows[u])
  <2>1. \A u \in Sessions : ~NeedsRecovery(rows[u])
    BY <1>7 DEF Create, At, Safe, RecoveryDone, PastRecovery, Phases
  <2> QED BY <1>7, <2>1 DEF Create, RowOpened
<1> QED BY <1>1, <1>2, <1>3, <1>4, <1>5, <1>6, <1>7, SettleKind, OwnRowKind
        DEF Next, Works

-----------------------------------------------------------------------------
\* What each kind of write does to the rows that need recovery.
LEMMA WriteFrame ==
    ASSUME TypeOK, NEW s \in Sessions, RowUpdated(s) \/ RowClosed(s)
    PROVE  \A u \in Sessions : NeedsRecovery(rows'[u]) => NeedsRecovery(rows[u])
<1>0. rows \in [Sessions -> Rows]
  BY DEF TypeOK, StoreTypeOK
<1>1. CASE RowUpdated(s)
  <2>1. PICK v \in Values : /\ rows' = [rows EXCEPT ![s] = v]
                            /\ NeedsRecovery(v) => NeedsRecovery(rows[s])
    BY <1>1 DEF RowUpdated, UpdateSession
  <2> QED BY <1>0, <2>1
<1>2. CASE RowClosed(s)
  <2>1. PICK v \in Values : /\ \/ rows' = [rows EXCEPT ![s] = v]
                               \/ UNCHANGED rows
                            /\ NeedsRecovery(rows[s])
    BY <1>2 DEF RowClosed, FinalizeSession
  <2> QED BY <1>0, <2>1
<1> QED BY <1>1, <1>2

(***************************************************************************)
(* A project never has two sessions that are open or await cleanup.        *)
(***************************************************************************)
THEOREM OneDebtAtATime == Spec => []OneInterrupted
<1>1. Init => OneInterrupted
  BY DEF Init, StoreInit, OneInterrupted, AbsentRow, NeedsRecovery, Open
<1>2. LifecycleInvariant /\ OneInterrupted /\ [Next]_vars => OneInterrupted'
  <2> SUFFICES ASSUME LifecycleInvariant, OneInterrupted, [Next]_vars
               PROVE  OneInterrupted'
    OBVIOUS
  <2>0. TypeOK /\ Safe
    BY DEF LifecycleInvariant, Safe
  <2>1. CASE RowsKept \/ UNCHANGED vars
    BY <2>1 DEF RowsKept, vars, storeVars, OneInterrupted
  <2>2. ASSUME NEW s \in Sessions, RowOpened(s),
               \A u \in Sessions : ~NeedsRecovery(rows[u])
        PROVE  OneInterrupted'
    <3>1. \A u \in Sessions : u # s => rows'[u] = rows[u]
      BY <2>0, <2>2 DEF RowOpened, CreateSession, TypeOK, StoreTypeOK
    <3> QED BY <2>2, <3>1 DEF OneInterrupted
  <2>3. ASSUME NEW s \in Sessions, RowUpdated(s) \/ RowClosed(s)
        PROVE  OneInterrupted'
    BY <2>0, <2>3, WriteFrame DEF OneInterrupted
  <2> QED BY <2>0, <2>1, <2>2, <2>3, StepKinds
<1> QED BY <1>1, <1>2, LifecycleInvariance, PTL DEF Spec

(***************************************************************************)
(* Two untrusted commands of a project never execute at the same time.     *)
(***************************************************************************)
THEOREM OneAgentAtATime == Spec => []OneLiveAgent
<1>1. LiveAgentJournaled /\ OneInterrupted => OneLiveAgent
  BY DEF LiveAgentJournaled, OneInterrupted, OneLiveAgent
<1> QED BY <1>1, AgentsAreJournaled, OneDebtAtATime, PTL

-----------------------------------------------------------------------------
(* The refinement: each kind of write is one action of the ledger.         *)

LEMMA OpenedInLedger ==
    ASSUME TypeOK, NEW s \in Sessions, RowOpened(s)
    PROVE  Ledger!OpenSession(s)
<1>1. /\ rows[s].status = "absent" /\ UNCHANGED ends
      /\ rows' = [rows EXCEPT ![s] = FreshValue]
  BY DEF RowOpened, CreateSession
<1>2. rows[s] = AbsentRow /\ rows \in [Sessions -> Rows]
  BY <1>1 DEF TypeOK, StoreTypeOK, Rows, Values, Columns, Open, Terminal
<1>3. rows'[s] = FreshValue /\ \A u \in Sessions : u # s => rows'[u] = rows[u]
  BY <1>1, <1>2
<1>4. /\ ~Closed(s) /\ ~Live(s) /\ ~Closed(s)' /\ Live(s)'
      /\ rows'[s].contained = rows[s].contained
  BY <1>2, <1>3 DEF Closed, Live, AbsentRow, FreshValue, Open, Terminal
<1>5. \A u \in Sessions : u # s => (Closed(u)' <=> Closed(u)) /\ (Live(u)' <=> Live(u))
  BY <1>3 DEF Closed, Live
<1>6. [u \in Sessions |-> IF Closed(u) THEN "closed"
                          ELSE IF Live(u) THEN "open" ELSE "none"][s] = "none"
  BY <1>4
<1>7. [u \in Sessions |-> IF Closed(u) THEN "closed"
                          ELSE IF Live(u) THEN "open" ELSE "none"]'
        = [[u \in Sessions |-> IF Closed(u) THEN "closed"
                               ELSE IF Live(u) THEN "open" ELSE "none"]
              EXCEPT ![s] = "open"]
  BY <1>4, <1>5
<1>8. UNCHANGED [u \in Sessions |-> IF Closed(u) THEN Verdict(rows[u]) ELSE <<>>]
  BY <1>3, <1>4, <1>5
<1>9. UNCHANGED [u \in Sessions |-> rows[u].contained]
  BY <1>3, <1>4
<1> QED BY <1>1, <1>6, <1>7, <1>8, <1>9 DEF Ledger!OpenSession

LEMMA UpdatedInLedger ==
    ASSUME TypeOK, NEW s \in Sessions, RowUpdated(s)
    PROVE  Ledger!NoteContainment(s) \/ UNCHANGED Ledger!ledgerVars
<1>1. PICK v \in Values : UpdateSession(s, v) /\ (v.status \in Open <=> Live(s))
  BY DEF RowUpdated
<1>2. rows \in [Sessions -> Rows] /\ UNCHANGED ends /\ rows' = [rows EXCEPT ![s] = v]
  BY <1>1 DEF UpdateSession, TypeOK, StoreTypeOK
<1>3. rows'[s] = v /\ \A u \in Sessions : u # s => rows'[u] = rows[u]
  BY <1>2
<1>4. /\ rows[s].status # "absent" /\ (rows[s].contained => v.contained)
      /\ rows[s].status \in Terminal => /\ v.status = rows[s].status
                                        /\ v.ended = rows[s].ended
                                        /\ v.exit = rows[s].exit
  BY <1>1 DEF UpdateSession, Updatable, StatusStep, Terminal
<1>5. v.status \in Open \cup Terminal /\ v.contained \in BOOLEAN
  BY DEF Values, Columns
<1>6. rows[s].status \in Open \cup Terminal /\ rows[s].contained \in BOOLEAN
  BY <1>2, <1>4 DEF Rows, Values, Columns, AbsentRow
<1>7. (Closed(s)' <=> Closed(s)) /\ (Live(s)' <=> Live(s))
  BY <1>1, <1>3, <1>4, <1>5, <1>6 DEF Closed, Live, Open, Terminal
<1>8. Closed(s) => Verdict(rows'[s]) = Verdict(rows[s])
  BY <1>3, <1>4 DEF Closed, Verdict
<1>9. \A u \in Sessions : /\ Closed(u)' <=> Closed(u)
                          /\ Live(u)' <=> Live(u)
                          /\ Closed(u) => Verdict(rows'[u]) = Verdict(rows[u])
  BY <1>3, <1>7, <1>8 DEF Closed, Live
<1>10. /\ UNCHANGED [u \in Sessions |-> IF Closed(u) THEN "closed"
                                        ELSE IF Live(u) THEN "open" ELSE "none"]
       /\ UNCHANGED [u \in Sessions |-> IF Closed(u) THEN Verdict(rows[u]) ELSE <<>>]
  BY <1>9
<1>11. CASE v.contained = rows[s].contained
  <2>1. UNCHANGED [u \in Sessions |-> rows[u].contained]
    BY <1>3, <1>11
  <2> QED BY <1>2, <1>10, <2>1 DEF Ledger!ledgerVars
<1>12. CASE v.contained # rows[s].contained
  <2>1. v.contained = TRUE
    BY <1>4, <1>5, <1>6, <1>12
  <2>2. [u \in Sessions |-> rows[u].contained]'
            = [[u \in Sessions |-> rows[u].contained] EXCEPT ![s] = TRUE]
    BY <1>3, <2>1
  <2>3. Closed(s) \/ Live(s)
    BY <1>6 DEF Closed, Live
  <2> QED BY <1>2, <1>10, <2>2, <2>3 DEF Ledger!NoteContainment
<1> QED BY <1>11, <1>12

LEMMA ClosedInLedger ==
    ASSUME TypeOK, ClosedOnce, NEW s \in Sessions, RowClosed(s)
    PROVE  Ledger!Next \/ UNCHANGED Ledger!ledgerVars
<1>1. PICK v \in Values : FinalizeSession(s, v)
  BY DEF RowClosed
<1>2. /\ rows \in [Sessions -> Rows] /\ ends \in [Sessions -> 0..1]
      /\ v.status \in Terminal /\ v.ended # NoStamp
  BY <1>1 DEF FinalizeSession, IsVerdict, TypeOK, StoreTypeOK
<1>3. CASE rows[s] = v /\ UNCHANGED rows /\ ends' = [ends EXCEPT ![s] = 1]
  <2>1. ends[s] = 1
    BY <1>2, <1>3 DEF ClosedOnce, Closed
  <2>2. UNCHANGED <<rows, ends>>
    BY <1>2, <1>3, <2>1
  <2> QED BY <2>2 DEF Ledger!ledgerVars, Closed, Live, Verdict
<1>4. CASE /\ Closable(rows[s], v) /\ rows' = [rows EXCEPT ![s] = v]
           /\ ends' = [ends EXCEPT ![s] = 1]
  <2>1. rows'[s] = v /\ \A u \in Sessions : u # s => rows'[u] = rows[u]
    BY <1>2, <1>4
  <2>2. Live(s) /\ ~Closed(s) /\ Closed(s)' /\ (rows[s].contained => v.contained)
    BY <1>2, <1>4, <2>1 DEF Closable, Live, Closed, Open, Terminal
  <2>3. Verdict(v) \in Terminal \X Stamps \X (ExitCodes \cup {NoExit})
    BY <1>2 DEF Verdict, Values, Columns
  <2>4. v.contained \in BOOLEAN
    BY DEF Values, Columns
  <2>5. \A u \in Sessions : u # s => (Closed(u)' <=> Closed(u)) /\ (Live(u)' <=> Live(u))
    BY <2>1 DEF Closed, Live
  <2>6. [u \in Sessions |-> IF Closed(u) THEN "closed"
                            ELSE IF Live(u) THEN "open" ELSE "none"]'
          = [[u \in Sessions |-> IF Closed(u) THEN "closed"
                                 ELSE IF Live(u) THEN "open" ELSE "none"]
                EXCEPT ![s] = "closed"]
    BY <2>2, <2>5
  <2>7. [u \in Sessions |-> IF Closed(u) THEN Verdict(rows[u]) ELSE <<>>]'
          = [[u \in Sessions |-> IF Closed(u) THEN Verdict(rows[u]) ELSE <<>>]
                EXCEPT ![s] = Verdict(v)]
    BY <2>1, <2>2, <2>5
  <2>8. [u \in Sessions |-> rows[u].contained]'
          = [[u \in Sessions |-> rows[u].contained] EXCEPT ![s] = v.contained]
    BY <2>1
  <2>9. Ledger!CloseSession(s, Verdict(v))
    BY <1>4, <2>2, <2>4, <2>6, <2>7, <2>8 DEF Ledger!CloseSession
  <2> QED BY <2>3, <2>9 DEF Ledger!Next
<1> QED BY <1>1, <1>3, <1>4 DEF FinalizeSession

(***************************************************************************)
(* The lifecycle, with its crashes, failures and recovery, implements the  *)
(* write-once ledger: sessions are opened once and closed once, the end    *)
(* record appears in the closing step, and containment is never withdrawn. *)
(***************************************************************************)
THEOREM LifecycleImplementsLedger == Spec => ImplementsLedger
<1>1. Init => Ledger!Init
  BY DEF Init, StoreInit, Ledger!Init, Closed, Live, AbsentRow, Open, Terminal
<1>2. LifecycleInvariant /\ [Next]_vars => [Ledger!Next]_(Ledger!ledgerVars)
  <2> SUFFICES ASSUME LifecycleInvariant, [Next]_vars
               PROVE  Ledger!Next \/ UNCHANGED Ledger!ledgerVars
    OBVIOUS
  <2>0. TypeOK /\ Safe /\ ClosedOnce
    BY DEF LifecycleInvariant, Safe
  <2>1. CASE RowsKept \/ UNCHANGED vars
    <3>1. UNCHANGED <<rows, ends>>
      BY <2>1 DEF RowsKept, vars, storeVars
    <3> QED BY <3>1 DEF Ledger!ledgerVars, Closed, Live, Verdict
  <2>2. ASSUME NEW s \in Sessions, RowOpened(s) PROVE Ledger!Next
    BY <2>0, <2>2, OpenedInLedger DEF Ledger!Next
  <2>3. ASSUME NEW s \in Sessions, RowUpdated(s)
        PROVE  Ledger!Next \/ UNCHANGED Ledger!ledgerVars
    BY <2>0, <2>3, UpdatedInLedger DEF Ledger!Next
  <2>4. ASSUME NEW s \in Sessions, RowClosed(s)
        PROVE  Ledger!Next \/ UNCHANGED Ledger!ledgerVars
    BY <2>0, <2>4, ClosedInLedger
  <2> QED BY <2>0, <2>1, <2>2, <2>3, <2>4, StepKinds
<1> QED BY <1>1, <1>2, LifecycleInvariance, PTL DEF Spec, ImplementsLedger, Ledger!Spec

=============================================================================
