-------------------------- MODULE SessionLifecycle --------------------------
(***************************************************************************)
(* `ghost run` from the project lock to the terminal record, across        *)
(* crashes: session.Manager.Run and its recovery of interrupted sessions,  *)
(* the Docker runtime as the manager sees it, and the sentinel that marks  *)
(* containment.  Every process g runs one invocation at a time; a crash    *)
(* ends it between any two steps, releases its flock, and leaves the       *)
(* database, the session directories and the Docker objects as they are:   *)
(* containers keep running and the daemon still carries out a request it   *)
(* has accepted.                                                           *)
(*                                                                         *)
(* Bounds: every failing call costs one of MaxFaults, every crash one of   *)
(* MaxCrashes; a session sees each decoy opened at most once; invocations  *)
(* stop creating sessions when Sessions is used up.                        *)
(***************************************************************************)
EXTENDS SessionStore

CONSTANTS
    Procs,          \* Ghost invocations that compete for the project
    Free,           \* the value of a lock nobody holds
    NoSession,      \* an invocation that has no session of its own yet
    Kinds,          \* Docker objects of a session
    ContainOnDecoy, \* the configured response to a decoy access
    MaxCrashes, MaxFaults

ASSUME LifecycleAssumption ==
    /\ Sessions \subseteq Nat          \* numbered in the order of creation
    /\ NoSession \notin Sessions
    /\ Free \notin Procs
    /\ {"agent", "sentinel"} \subseteq Kinds
    /\ EventTypes = {"SESSION_START", "PROCESS_START", "DECOY_ACCESS",
                     "CONTAINMENT_ACTIVATED", "PROCESS_EXIT"}
    /\ ContainOnDecoy \in BOOLEAN
    /\ MaxCrashes \in Nat /\ MaxFaults \in Nat

VARIABLES
    lock,       \* holder of the flock on .run.lock
    pc,         \* pc[g]: where in Manager.Run invocation g is
    cur,        \* cur[g]: the session g created
    val,        \* val[g]: g's in-memory Session value
    res,        \* res[g]: the RunResult and runErr being assembled
    toSweep,    \* toSweep[g]: sessions whose Docker objects g must still remove
    toSettle,   \* toSettle[g]: sessions g must still bring to a terminal row
    snap,       \* snap[g]: the rows RecoverySessions returned to g
    present,    \* present[s]: Docker objects of s that exist
    accepted,   \* accepted[s]: creations the daemon accepted and has not done
    doomed,     \* doomed[s]: objects whose removal was requested and not confirmed
    agent,      \* agent[s]: the untrusted command of s is executing
    queued,     \* queued[s]: decoy events in the sentinel's inotify queue
    marking,    \* marking[s]: decoy events the handler has marked, not yet logged
    logged,     \* logged[s]: decoys in the observation log of s
    marker,     \* marker[s]: the containment marker file of s exists
    unreadable, \* history: sessions whose marker could not be read at run time
    unstopped,  \* history: sessions whose sidecars were not confirmed stopped
    crashes, faults

localVars == <<cur, val, res, toSweep, toSettle, snap>>
dockerVars == <<present, accepted, doomed, agent>>
sentinelVars == <<queued, marking, logged, marker>>
historyVars == <<unreadable, unstopped>>
vars == <<storeVars, lock, pc, localVars, dockerVars, sentinelVars,
          historyVars, crashes, faults>>

Phases == {"idle", "scan", "reconcile", "restore", "settle", "create",
           "start", "activate", "prepare", "journal", "launch", "running",
           "flush", "stop", "collect", "mark", "verify", "import", "access",
           "witness", "contain", "final", "fail"}

\* Mutant: the status is left at its zero value.
UnsetValue == AbsentRow

\* The session value NewID leads to.
FreshValue == [status |-> "created", ended |-> NoStamp, exit |-> NoExit,
               contained |-> FALSE, cleanup |-> FALSE]

\* RunResult{}: nothing started, nothing observed.
NoResult == [started |-> FALSE, exit |-> 0, err |-> FALSE, flushed |-> FALSE,
             accesses |-> {}, contained |-> FALSE, pending |-> FALSE,
             recorded |-> FALSE]

Results == [started : BOOLEAN, exit : ExitCodes, err : BOOLEAN,
            flushed : BOOLEAN, accesses : SUBSET Decoys, contained : BOOLEAN,
            pending : BOOLEAN, recorded : BOOLEAN]

LocalTypeOK ==
    /\ lock \in Procs \cup {Free}
    /\ pc \in [Procs -> Phases]
    /\ cur \in [Procs -> Sessions \cup {NoSession}]
    /\ val \in [Procs -> Values]
    /\ res \in [Procs -> Results]
    /\ toSweep \in [Procs -> SUBSET Sessions]
    /\ toSettle \in [Procs -> SUBSET Sessions]
    /\ snap \in [Procs -> [Sessions -> Columns(Open \cup Terminal \cup {"absent"})]]

WorldTypeOK ==
    /\ present \in [Sessions -> SUBSET Kinds]
    /\ accepted \in [Sessions -> SUBSET Kinds]
    /\ doomed \in [Sessions -> SUBSET Kinds]
    /\ agent \in [Sessions -> BOOLEAN]
    /\ queued \in [Sessions -> SUBSET Decoys]
    /\ marking \in [Sessions -> SUBSET Decoys]
    /\ logged \in [Sessions -> SUBSET Decoys]
    /\ marker \in [Sessions -> BOOLEAN]

CountTypeOK ==
    /\ unreadable \subseteq Sessions
    /\ unstopped \subseteq Sessions
    /\ crashes \in 0..MaxCrashes
    /\ faults \in 0..MaxFaults

TypeOK == StoreTypeOK /\ LocalTypeOK /\ WorldTypeOK /\ CountTypeOK

NoRows == [s \in Sessions |-> AbsentRow]

Init ==
    /\ StoreInit
    /\ lock = Free
    /\ pc = [g \in Procs |-> "idle"]
    /\ cur = [g \in Procs |-> NoSession]
    /\ val = [g \in Procs |-> FreshValue]
    /\ res = [g \in Procs |-> NoResult]
    /\ toSweep = [g \in Procs |-> {}]
    /\ toSettle = [g \in Procs |-> {}]
    /\ snap = [g \in Procs |-> NoRows]
    /\ present = [s \in Sessions |-> {}]
    /\ accepted = [s \in Sessions |-> {}]
    /\ doomed = [s \in Sessions |-> {}]
    /\ agent = [s \in Sessions |-> FALSE]
    /\ queued = [s \in Sessions |-> {}]
    /\ marking = [s \in Sessions |-> {}]
    /\ logged = [s \in Sessions |-> {}]
    /\ marker = [s \in Sessions |-> FALSE]
    /\ unreadable = {}
    /\ unstopped = {}
    /\ crashes = 0
    /\ faults = 0

-----------------------------------------------------------------------------
(* Shared pieces of the steps.                                             *)

At(g, phase) == pc[g] = phase
Goto(g, phase) == pc' = [pc EXCEPT ![g] = phase]

Fault == faults < MaxFaults /\ faults' = faults + 1

SetVal(g, value) == val' = [val EXCEPT ![g] = value]
SetRes(g, result) == res' = [res EXCEPT ![g] = result]

\* The invocation is over: its locals are gone and its flock is released,
\* whether it returned (deferred runLock.Close) or was killed.
Leave(g) ==
    /\ lock' = Free
    /\ Goto(g, "idle")
    /\ cur' = [cur EXCEPT ![g] = NoSession]
    /\ val' = [val EXCEPT ![g] = FreshValue]
    /\ res' = [res EXCEPT ![g] = NoResult]
    /\ toSweep' = [toSweep EXCEPT ![g] = {}]
    /\ toSettle' = [toSettle EXCEPT ![g] = {}]
    /\ snap' = [snap EXCEPT ![g] = NoRows]

\* The Docker objects of s in `asked` are removed, except `left`, whose removal
\* was requested and not confirmed.  A sentinel that goes takes its queue along.
Remove(s, asked, left) ==
    LET stay == (present[s] \ asked) \cup left
        watched == "sentinel" \in stay
    IN  /\ present' = [present EXCEPT ![s] = stay]
        /\ doomed' = [doomed EXCEPT ![s] = (@ \ asked) \cup left]
        /\ agent' = [agent EXCEPT ![s] = @ /\ "agent" \in stay]
        /\ queued' = [queued EXCEPT ![s] = IF watched THEN @ ELSE {}]
        /\ marking' = [marking EXCEPT ![s] = IF watched THEN @ ELSE {}]
        /\ UNCHANGED <<logged, marker>>

sidecars == Kinds \ {"agent"}

\* Recovery and the deletion of the run's own objects proceed in order.
First(S, s) == s \in S /\ \A u \in S : s <= u

world == <<dockerVars, sentinelVars>>
recoveryVars == <<toSweep, toSettle, snap>>

-----------------------------------------------------------------------------
(* Entering the run: the project lock, then recovery of every session that *)
(* the database shows as interrupted or not verifiably cleaned up.         *)

\* Mutant: the run goes on without the lock it was refused.
AcquireUnlocked(g) ==
    /\ At(g, "idle")
    /\ lock' = g
    /\ Goto(g, "scan")
    /\ UNCHANGED <<storeVars, localVars, world, historyVars, crashes, faults>>

Acquire(g) ==
    /\ At(g, "idle")
    /\ lock = Free
    /\ lock' = g
    /\ Goto(g, "scan")
    /\ UNCHANGED <<storeVars, localVars, world, historyVars, crashes, faults>>

\* Mutant: IncompleteSessions is asked where RecoverySessions belongs.
ScanOpenOnly(g) ==
    /\ At(g, "scan")
    /\ LET interrupted == {s \in Sessions : rows[s].status \in Open}
       IN  /\ toSweep' = [toSweep EXCEPT ![g] = interrupted]
           /\ toSettle' = [toSettle EXCEPT ![g] = interrupted]
           /\ Goto(g, IF interrupted = {} THEN "create" ELSE "reconcile")
    /\ snap' = [snap EXCEPT ![g] = rows]
    /\ UNCHANGED <<storeVars, lock, cur, val, res, world, historyVars, crashes, faults>>

Scan(g) ==
    /\ At(g, "scan")
    /\ LET interrupted == {s \in Sessions : NeedsRecovery(rows[s])}
       IN  /\ toSweep' = [toSweep EXCEPT ![g] = interrupted]
           /\ toSettle' = [toSettle EXCEPT ![g] = interrupted]
           /\ Goto(g, IF interrupted = {} THEN "create" ELSE "reconcile")
    /\ snap' = [snap EXCEPT ![g] = rows]
    /\ UNCHANGED <<storeVars, lock, cur, val, res, world, historyVars, crashes, faults>>

\* Mutant: the agent's container is not among the objects removed.
ReconcileSidecars(g) ==
    /\ At(g, "reconcile")
    /\ \E s \in Sessions :
          /\ First(toSweep[g], s)
          /\ Remove(s, sidecars, {})
          /\ toSweep' = [toSweep EXCEPT ![g] = @ \ {s}]
          /\ Goto(g, IF toSweep[g] = {s} THEN "restore" ELSE "reconcile")
    /\ UNCHANGED <<storeVars, lock, cur, val, res, toSettle, snap, accepted,
                   historyVars, crashes, faults>>

\* DockerRuntime.Recover on the next id: every object labelled with it goes.
Reconcile(g) ==
    /\ At(g, "reconcile")
    /\ \E s \in Sessions :
          /\ First(toSweep[g], s)
          /\ Remove(s, Kinds, {})
          /\ toSweep' = [toSweep EXCEPT ![g] = @ \ {s}]
          /\ Goto(g, IF toSweep[g] = {s} THEN "restore" ELSE "reconcile")
    /\ UNCHANGED <<storeVars, lock, cur, val, res, toSettle, snap, accepted,
                   historyVars, crashes, faults>>

\* One removal fails or times out: Recover returns the error, Run returns it.
ReconcileFails(g) ==
    /\ At(g, "reconcile")
    /\ \E s \in Sessions :
          /\ First(toSweep[g], s)
          /\ \E left \in SUBSET present[s] : Remove(s, Kinds, left)
    /\ Fault /\ Leave(g)
    /\ UNCHANGED <<storeVars, accepted, historyVars, crashes>>

\* Mutant: the marker is not looked at.
RestoreNothing(g) ==
    /\ At(g, "restore")
    /\ Goto(g, "settle")
    /\ UNCHANGED <<storeVars, lock, localVars, world, historyVars, crashes, faults>>

\* The marker of an interrupted session is live authority over its row.
Restore(g) ==
    /\ At(g, "restore")
    /\ \E s \in Sessions :
          /\ First(toSettle[g], s)
          /\ IF marker[s] /\ ~snap[g][s].contained
             THEN /\ AddEvent(s, "CONTAINMENT_ACTIVATED")
                  /\ snap' = [snap EXCEPT ![g][s].contained = TRUE]
             ELSE UNCHANGED <<storeVars, snap>>
    /\ Goto(g, "settle")
    /\ UNCHANGED <<lock, cur, val, res, toSweep, toSettle, world, historyVars,
                   crashes, faults>>

\* Mutant: the cleanup journal of a closed session is not cleared.
SettleKeepingJournal(g) ==
    /\ At(g, "settle")
    /\ \E s \in Sessions :
          /\ First(toSettle[g], s)
          /\ IF snap[g][s].status \in Open
             THEN \E t \in Stamps :
                     FinalizeSession(s, [snap[g][s] EXCEPT !.status = "failed",
                                                           !.ended = t])
             ELSE UpdateSession(s, snap[g][s])
          /\ toSettle' = [toSettle EXCEPT ![g] = @ \ {s}]
          /\ Goto(g, IF toSettle[g] = {s} THEN "create" ELSE "restore")
    /\ UNCHANGED <<lock, cur, val, res, toSweep, snap, world, historyVars,
                   crashes, faults>>

\* Mutant: an interrupted session is closed by a plain update of its row.
SettleByUpdate(g) ==
    /\ At(g, "settle")
    /\ \E s \in Sessions, t \in Stamps :
          /\ First(toSettle[g], s)
          /\ UpdateSession(s, [snap[g][s] EXCEPT
                !.status = IF @ \in Open THEN "failed" ELSE @,
                !.ended = IF @ = NoStamp THEN t ELSE @,
                !.cleanup = FALSE])
          /\ toSettle' = [toSettle EXCEPT ![g] = @ \ {s}]
          /\ Goto(g, IF toSettle[g] = {s} THEN "create" ELSE "restore")
    /\ UNCHANGED <<lock, cur, val, res, toSweep, snap, world, historyVars,
                   crashes, faults>>

\* Close the interrupted session as failed, or clear the journal of one that
\* was closed before its cleanup could be verified.
Settle(g) ==
    /\ At(g, "settle")
    /\ \E s \in Sessions :
          /\ First(toSettle[g], s)
          /\ LET swept == [snap[g][s] EXCEPT !.cleanup = FALSE]
             IN  IF swept.status \in Open
                 THEN \E t \in Stamps :
                         FinalizeSession(s, [swept EXCEPT !.status = "failed",
                                                          !.ended = t])
                 ELSE UpdateSession(s, swept)
          /\ toSettle' = [toSettle EXCEPT ![g] = @ \ {s}]
          /\ Goto(g, IF toSettle[g] = {s} THEN "create" ELSE "restore")
    /\ UNCHANGED <<lock, cur, val, res, toSweep, snap, world, historyVars,
                   crashes, faults>>

-----------------------------------------------------------------------------
(* Up to the hand-off to Docker.                                           *)

Create(g) ==
    /\ At(g, "create")
    /\ \E s \in Sessions :
          /\ First({u \in Sessions : rows[u].status = "absent"}, s)
          /\ CreateSession(s, FreshValue)
          /\ cur' = [cur EXCEPT ![g] = s]
    /\ Goto(g, "start")
    /\ UNCHANGED <<lock, val, res, recoveryVars, world, historyVars, crashes, faults>>

\* Bound: Sessions is used up.
Exhausted(g) ==
    /\ At(g, "create")
    /\ \A s \in Sessions : rows[s].status # "absent"
    /\ Leave(g)
    /\ UNCHANGED <<storeVars, world, historyVars, crashes, faults>>

Start(g) ==
    /\ At(g, "start")
    /\ AddEvent(cur[g], "SESSION_START")
    /\ Goto(g, "activate")
    /\ UNCHANGED <<lock, localVars, world, historyVars, crashes, faults>>

Activate(g) ==
    /\ At(g, "activate")
    /\ LET value == [val[g] EXCEPT !.status = "running"]
       IN  UpdateSession(cur[g], value) /\ SetVal(g, value)
    /\ Goto(g, "prepare")
    /\ UNCHANGED <<lock, cur, res, recoveryVars, world, historyVars, crashes, faults>>

Unarmed(s) == {d \in Decoys : decoys[s][d] = "absent"}

Prepare(g) ==
    /\ At(g, "prepare")
    /\ \E d \in Unarmed(cur[g]) : CreateDecoy(cur[g], d, "armed")
    /\ UNCHANGED <<lock, pc, localVars, world, historyVars, crashes, faults>>

Announce(g) ==
    /\ At(g, "prepare")
    /\ Unarmed(cur[g]) = {}
    /\ AddEvent(cur[g], "PROCESS_START")
    /\ Goto(g, "journal")
    /\ UNCHANGED <<lock, localVars, world, historyVars, crashes, faults>>

\* The journal is durable before Docker is asked for anything.
Journal(g) ==
    /\ At(g, "journal")
    /\ LET value == [val[g] EXCEPT !.cleanup = TRUE]
       IN  UpdateSession(cur[g], value) /\ SetVal(g, value)
    /\ Goto(g, "launch")
    /\ UNCHANGED <<lock, cur, res, recoveryVars, world, historyVars, crashes, faults>>

\* value.CleanupPending was set before the failing UpdateSession.
JournalFails(g) ==
    /\ At(g, "journal")
    /\ SetVal(g, [val[g] EXCEPT !.cleanup = TRUE])
    /\ Goto(g, "fail")
    /\ Fault
    /\ UNCHANGED <<storeVars, lock, cur, res, recoveryVars, world, historyVars, crashes>>

-----------------------------------------------------------------------------
(* The Docker run: runPrepared and runAgent.                               *)

\* docker run / network create / docker create, one after the other: the
\* sentinel first, the agent's container last.
Issue(g) ==
    /\ At(g, "launch")
    /\ LET s == cur[g]
       IN  /\ accepted[s] = {}
           /\ \E k \in Kinds \ present[s] :
                 /\ k # "sentinel" => "sentinel" \in present[s]
                 /\ k = "agent" => sidecars \subseteq present[s]
                 /\ accepted' = [accepted EXCEPT ![s] = {k}]
    /\ UNCHANGED <<storeVars, lock, pc, localVars, present, doomed, agent,
                   sentinelVars, historyVars, crashes, faults>>

\* The agent's container exists: docker start, then the exec of the command.
Exec(g) ==
    /\ At(g, "launch")
    /\ "agent" \in present[cur[g]]
    /\ agent' = [agent EXCEPT ![cur[g]] = TRUE]
    /\ Goto(g, "running")
    /\ UNCHANGED <<storeVars, lock, localVars, present, accepted, doomed,
                   sentinelVars, historyVars, crashes, faults>>

\* A Docker call of the launch fails.  The daemon may have accepted it all the
\* same.  With the sidecars up runAgent was entered, and runPrepared goes on to
\* flush the sentinel; otherwise it returns through its deferred stops.
LaunchFails(g) ==
    /\ At(g, "launch")
    /\ LET s == cur[g]
       IN  /\ \E outstanding \in SUBSET accepted[s] :
                 accepted' = [accepted EXCEPT ![s] = outstanding]
           /\ \E left \in SUBSET (present[s] \cap {"agent"}) :
                 Remove(s, {"agent"}, left)
           /\ Goto(g, IF sidecars \subseteq present[s] THEN "flush" ELSE "stop")
    /\ SetRes(g, [res[g] EXCEPT !.err = TRUE])
    /\ Fault
    /\ UNCHANGED <<storeVars, lock, cur, val, recoveryVars, historyVars, crashes>>

\* The command ended by itself (err FALSE, any exit code), or the deadline, a
\* cancellation or a resource limit ended it (err TRUE).  Its container is
\* stopped and removed.
StopAgent(g) ==
    /\ At(g, "running")
    /\ Remove(cur[g], {"agent"}, {})
    /\ \E code \in ExitCodes, err \in BOOLEAN :
          SetRes(g, [res[g] EXCEPT !.started = TRUE, !.exit = code, !.err = err])
    /\ Goto(g, "flush")
    /\ UNCHANGED <<storeVars, lock, cur, val, recoveryVars, accepted,
                   historyVars, crashes, faults>>

\* Neither stop, kill nor rm is confirmed: the agent may well go on.
StopAgentFails(g) ==
    /\ At(g, "running")
    /\ Remove(cur[g], {"agent"}, {"agent"})
    /\ \E started \in BOOLEAN, code \in ExitCodes :
          SetRes(g, [res[g] EXCEPT !.started = started, !.exit = code, !.err = TRUE])
    /\ Goto(g, "flush")
    /\ Fault
    /\ UNCHANGED <<storeVars, lock, cur, val, recoveryVars, accepted,
                   historyVars, crashes>>

\* The barrier file is acknowledged after every event queued before it.
Flush(g) ==
    /\ At(g, "flush")
    /\ "sentinel" \in present[cur[g]]
    /\ queued[cur[g]] = {} /\ marking[cur[g]] = {}
    /\ SetRes(g, [res[g] EXCEPT !.flushed = TRUE])
    /\ Goto(g, "stop")
    /\ UNCHANGED <<storeVars, lock, cur, val, recoveryVars, world, historyVars,
                   crashes, faults>>

FlushFails(g) ==
    /\ At(g, "flush")
    /\ SetRes(g, [res[g] EXCEPT !.err = TRUE])
    /\ Goto(g, "stop")
    /\ Fault
    /\ UNCHANGED <<storeVars, lock, cur, val, recoveryVars, world, historyVars, crashes>>

\* Observations are collected only after a confirmed flush.
AfterStop(g) == IF res[g].flushed THEN "collect" ELSE "mark"

StopSidecars(g) ==
    /\ At(g, "stop")
    /\ Remove(cur[g], sidecars, {})
    /\ Goto(g, AfterStop(g))
    /\ UNCHANGED <<storeVars, lock, localVars, accepted, historyVars, crashes, faults>>

StopSidecarsFails(g) ==
    /\ At(g, "stop")
    /\ \E left \in SUBSET (present[cur[g]] \cap sidecars) :
          Remove(cur[g], sidecars, left)
    /\ unstopped' = unstopped \cup {cur[g]}
    /\ SetRes(g, [res[g] EXCEPT !.err = TRUE])
    /\ Goto(g, AfterStop(g))
    /\ Fault
    /\ UNCHANGED <<storeVars, lock, cur, val, recoveryVars, accepted, unreadable, crashes>>

\* collectObservations: the log, each decoy once, and the marker.
Collect(g) ==
    /\ At(g, "collect")
    /\ SetRes(g, [res[g] EXCEPT !.accesses = logged[cur[g]],
                                !.contained = marker[cur[g]]])
    /\ Goto(g, "mark")
    /\ UNCHANGED <<storeVars, lock, cur, val, recoveryVars, world, historyVars,
                   crashes, faults>>

CollectFails(g) ==
    /\ At(g, "collect")
    /\ SetRes(g, [res[g] EXCEPT !.err = TRUE])
    /\ Goto(g, "mark")
    /\ Fault
    /\ UNCHANGED <<storeVars, lock, cur, val, recoveryVars, world, historyVars, crashes>>

\* The deferred reading of the marker at the return of runPrepared.
Mark(g) ==
    /\ At(g, "mark")
    /\ SetRes(g, [res[g] EXCEPT !.contained = @ \/ marker[cur[g]]])
    /\ Goto(g, "verify")
    /\ UNCHANGED <<storeVars, lock, cur, val, recoveryVars, world, historyVars,
                   crashes, faults>>

MarkFails(g) ==
    /\ At(g, "mark")
    /\ SetRes(g, [res[g] EXCEPT !.err = TRUE])
    /\ unreadable' = unreadable \cup {cur[g]}
    /\ Goto(g, "verify")
    /\ Fault
    /\ UNCHANGED <<storeVars, lock, cur, val, recoveryVars, world, unstopped, crashes>>

\* cleanupPending; the manager takes the answer over into its session value.
Verify(g) ==
    /\ At(g, "verify")
    /\ LET pending == present[cur[g]] # {}
       IN  /\ SetRes(g, [res[g] EXCEPT !.err = @ \/ pending])
           /\ SetVal(g, [val[g] EXCEPT !.cleanup = pending])
    /\ Goto(g, "import")
    /\ UNCHANGED <<storeVars, lock, cur, recoveryVars, world, historyVars,
                   crashes, faults>>

\* Mutant: a daemon that cannot be asked counts as nothing left behind.
VerifyFailsClean(g) ==
    /\ At(g, "verify")
    /\ SetRes(g, [res[g] EXCEPT !.err = TRUE])
    /\ SetVal(g, [val[g] EXCEPT !.cleanup = FALSE])
    /\ Goto(g, "import")
    /\ Fault
    /\ UNCHANGED <<storeVars, lock, cur, recoveryVars, world, historyVars, crashes>>

\* A daemon that cannot be asked is never proof of absence.
VerifyFails(g) ==
    /\ At(g, "verify")
    /\ SetRes(g, [res[g] EXCEPT !.err = TRUE])
    /\ SetVal(g, [val[g] EXCEPT !.cleanup = TRUE])
    /\ Goto(g, "import")
    /\ Fault
    /\ UNCHANGED <<storeVars, lock, cur, recoveryVars, world, historyVars, crashes>>

-----------------------------------------------------------------------------
(* Import of the runtime's evidence and the terminal record.               *)

\* Containment without a matching access, or an access without containment
\* where the policy demands it, is contradictory evidence.
Contradictory(contained, accesses) ==
    \/ contained /\ (~ContainOnDecoy \/ accesses = {})
    \/ ContainOnDecoy /\ accesses # {} /\ ~contained

Import(g) ==
    /\ At(g, "import")
    /\ LET contained == val[g].contained \/ res[g].contained
       IN  /\ SetVal(g, [val[g] EXCEPT !.contained = contained])
           /\ Goto(g, IF Contradictory(contained, res[g].accesses)
                      THEN "fail" ELSE "access")
    /\ UNCHANGED <<storeVars, lock, cur, res, recoveryVars, world, historyVars,
                   crashes, faults>>

\* Accesses whose decoy TriggerDecoy has not yet marked.
Unrecorded(g) == {d \in res[g].accesses : decoys[cur[g]][d] = "armed"}

Access(g) ==
    /\ At(g, "access")
    /\ \E d \in Unrecorded(g) : TriggerDecoy(cur[g], d)
    /\ Goto(g, "witness")
    /\ UNCHANGED <<lock, localVars, world, historyVars, crashes, faults>>

Witness(g) ==
    /\ At(g, "witness")
    /\ AddEvent(cur[g], "DECOY_ACCESS")
    /\ Goto(g, IF ContainOnDecoy /\ val[g].contained /\ ~res[g].recorded
               THEN "contain" ELSE "access")
    /\ UNCHANGED <<lock, localVars, world, historyVars, crashes, faults>>

\* containmentRecorded is set before the event is written.
Contain(g) ==
    /\ At(g, "contain")
    /\ AddEvent(cur[g], "CONTAINMENT_ACTIVATED")
    /\ SetRes(g, [res[g] EXCEPT !.recorded = TRUE])
    /\ Goto(g, "access")
    /\ UNCHANGED <<lock, cur, val, recoveryVars, world, historyVars, crashes, faults>>

\* PROCESS_EXIT, for a command that started.
Exit(g) ==
    /\ At(g, "access")
    /\ Unrecorded(g) = {}
    /\ IF res[g].started
       THEN /\ AddEvent(cur[g], "PROCESS_EXIT")
            /\ SetVal(g, [val[g] EXCEPT !.exit = res[g].exit])
       ELSE UNCHANGED <<storeVars, val>>
    /\ Goto(g, "final")
    /\ UNCHANGED <<lock, cur, res, recoveryVars, world, historyVars, crashes, faults>>

\* The exit code is already in the session value when its event fails.
ExitFails(g) ==
    /\ At(g, "access")
    /\ Unrecorded(g) = {}
    /\ res[g].started
    /\ SetVal(g, [val[g] EXCEPT !.exit = res[g].exit])
    /\ Goto(g, "fail")
    /\ Fault
    /\ UNCHANGED <<storeVars, lock, cur, res, recoveryVars, world, historyVars, crashes>>

\* Mutant: the exit code alone decides.
OutcomeByExit(g) == IF val[g].exit # 0 THEN "failed" ELSE "completed"

Outcome(g) == IF res[g].err \/ val[g].exit # 0 THEN "failed" ELSE "completed"

\* Manager.finalize with the given status, then the deferred unlock.
CloseAs(g, status) ==
    /\ \E t \in Stamps :
          FinalizeSession(cur[g], [val[g] EXCEPT !.status = status, !.ended = t])
    /\ Leave(g)
    /\ UNCHANGED <<world, historyVars, crashes, faults>>

Final(g) == At(g, "final") /\ CloseAs(g, Outcome(g))

\* Manager.fail
Fail(g) == At(g, "fail") /\ CloseAs(g, "failed")

-----------------------------------------------------------------------------
(* Failures of the store, crashes, and the world outside the process.      *)

\* A store call of the run is refused: Run goes to Manager.fail.
StoreFails(g) ==
    /\ pc[g] \in {"start", "activate", "prepare", "access", "witness", "contain"}
    /\ Goto(g, "fail")
    /\ Fault
    /\ UNCHANGED <<storeVars, lock, localVars, world, historyVars, crashes>>

\* A call that Run simply returns the error of: nothing is written, and what
\* was interrupted stays so for the next invocation.
Abort(g) ==
    /\ pc[g] \in {"scan", "restore", "settle", "create", "final", "fail"}
    /\ Leave(g)
    /\ Fault
    /\ UNCHANGED <<storeVars, world, historyVars, crashes>>

\* SIGKILL or power loss of the Ghost process between two steps.
Crash(g) ==
    /\ ~At(g, "idle")
    /\ crashes < MaxCrashes
    /\ crashes' = crashes + 1
    /\ Leave(g)
    /\ UNCHANGED <<storeVars, world, historyVars, faults>>

\* The daemon carries out a creation it accepted, whoever still waits for it.
DaemonCreates(s) ==
    /\ \E k \in accepted[s] :
          /\ present' = [present EXCEPT ![s] = @ \cup {k}]
          /\ accepted' = [accepted EXCEPT ![s] = @ \ {k}]
    /\ UNCHANGED <<storeVars, lock, pc, localVars, doomed, agent, sentinelVars,
                   historyVars, crashes, faults>>

\* The daemon completes a removal after the client gave up waiting for it.
DaemonRemoves(s) ==
    /\ \E k \in doomed[s] \cap present[s] : Remove(s, {k}, {})
    /\ UNCHANGED <<storeVars, lock, pc, localVars, accepted, historyVars, crashes, faults>>

\* The untrusted command opens a decoy under inotify watch.
\* Bound: each decoy is opened once in a session.
AgentOpens(s) ==
    /\ agent[s] /\ "sentinel" \in present[s]
    /\ \E d \in Decoys \ (queued[s] \cup marking[s] \cup logged[s]) :
          queued' = [queued EXCEPT ![s] = @ \cup {d}]
    /\ UNCHANGED <<storeVars, lock, pc, localVars, dockerVars, marking, logged,
                   marker, historyVars, crashes, faults>>

\* sentinel-handler: the marker first, ...
SentinelMarks(s) ==
    /\ marking[s] = {}
    /\ \E d \in queued[s] :
          /\ queued' = [queued EXCEPT ![s] = @ \ {d}]
          /\ marking' = [marking EXCEPT ![s] = {d}]
    /\ marker' = [marker EXCEPT ![s] = @ \/ ContainOnDecoy]
    /\ UNCHANGED <<storeVars, lock, pc, localVars, dockerVars, logged,
                   historyVars, crashes, faults>>

\* ... then the line in the observation log.
SentinelLogs(s) ==
    /\ marking[s] # {}
    /\ logged' = [logged EXCEPT ![s] = @ \cup marking[s]]
    /\ marking' = [marking EXCEPT ![s] = {}]
    /\ UNCHANGED <<storeVars, lock, pc, localVars, dockerVars, queued, marker,
                   historyVars, crashes, faults>>

-----------------------------------------------------------------------------
Recovers(g) == Scan(g) \/ Reconcile(g) \/ Restore(g) \/ Settle(g)

Prepares(g) ==
    Create(g) \/ Exhausted(g) \/ Start(g) \/ Activate(g) \/ Prepare(g)
        \/ Announce(g) \/ Journal(g)

Executes(g) ==
    Issue(g) \/ Exec(g) \/ StopAgent(g) \/ Flush(g) \/ StopSidecars(g)
        \/ Collect(g) \/ Mark(g) \/ Verify(g)

Concludes(g) ==
    Import(g) \/ Access(g) \/ Witness(g) \/ Contain(g) \/ Exit(g) \/ Final(g) \/ Fail(g)

\* What an invocation does when every call succeeds.
Works(g) == Recovers(g) \/ Prepares(g) \/ Executes(g) \/ Concludes(g)

\* What goes wrong: each step is charged to MaxFaults.
Errs(g) ==
    ReconcileFails(g) \/ JournalFails(g) \/ LaunchFails(g) \/ StopAgentFails(g)
        \/ FlushFails(g) \/ StopSidecarsFails(g) \/ CollectFails(g)
        \/ MarkFails(g) \/ VerifyFails(g) \/ ExitFails(g) \/ StoreFails(g) \/ Abort(g)

Environment(s) ==
    DaemonCreates(s) \/ DaemonRemoves(s) \/ AgentOpens(s)
        \/ SentinelMarks(s) \/ SentinelLogs(s)

Next ==
    \/ \E g \in Procs : Acquire(g) \/ Works(g) \/ Errs(g) \/ Crash(g)
    \/ \E s \in Sessions : Environment(s)

Spec == Init /\ [][Next]_vars

\* Somebody keeps running Ghost, a running invocation takes its steps, the
\* daemon answers and the sentinel works off its queue.  Nothing is promised of
\* late removals, of the agent, of failures or of crashes.
Fairness ==
    /\ \A g \in Procs : WF_vars(Works(g))
    /\ WF_vars(\E g \in Procs : Acquire(g))
    /\ \A s \in Sessions :
          WF_vars(DaemonCreates(s)) /\ WF_vars(SentinelMarks(s)) /\ WF_vars(SentinelLogs(s))

FairSpec == Spec /\ Fairness

-----------------------------------------------------------------------------
(* Properties.                                                             *)

Live(s) == rows[s].status \in Open
Closed(s) == rows[s].status \in Terminal

(***************************************************************************)
(* A session has its SESSION_END exactly when it is closed, whichever of   *)
(* Run, fail, recovery and a crash between any two of their steps decided  *)
(* its end: the terminal row and its end event are one transaction         *)
(* (sqlite.go:265-267, manager.go:527-589).                                *)
(***************************************************************************)
ClosedOnce == \A s \in Sessions : Closed(s) <=> ends[s] = 1

(***************************************************************************)
(* At most one untrusted command of a project executes at a time, even     *)
(* when a killed invocation left its agent running and when a failed stop  *)
(* left it running: recovery removes it, or refuses, before the next       *)
(* command is handed to Docker (manager.go:96-103, recovery.go:43-78).     *)
(***************************************************************************)
OneLiveAgent ==
    \A s, u \in Sessions : agent[s] /\ agent[u] => s = u

(***************************************************************************)
(* However many invocations died, at most one session of the project is    *)
(* ever open or awaiting cleanup: the debt of one crash is paid before the *)
(* next session is created (manager.go:96-121).                            *)
(***************************************************************************)
OneInterrupted ==
    \A s, u \in Sessions :
        NeedsRecovery(rows[s]) /\ NeedsRecovery(rows[u]) => s = u

(***************************************************************************)
(* A command that executes belongs to a session the next recovery will     *)
(* find: its row is open, or it is closed with its cleanup still journaled *)
(* (manager.go:235-242, docker.go:203-210).                                *)
(***************************************************************************)
LiveAgentJournaled == \A s \in Sessions : agent[s] => NeedsRecovery(rows[s])

(***************************************************************************)
(* An invocation that has come past recovery never runs beside a session   *)
(* that still needs it, and no second invocation recovers the session of a *)
(* live one as interrupted (manager.go:96-103, storage RecoverySessions).  *)
(***************************************************************************)
PastRecovery == Phases \ {"idle", "scan", "reconcile", "restore", "settle"}

RecoveryDone ==
    \A g \in Procs : pc[g] \in PastRecovery =>
        \A s \in Sessions :
            NeedsRecovery(rows[s]) => pc[g] # "create" /\ s = cur[g]

(***************************************************************************)
(* What holds between any two steps and makes the four invariants above    *)
(* inductive: the flock guards the whole run; the invocation's own session *)
(* is open until it closes it; what recovery still has to settle covers    *)
(* every row that needs it and was read with its present status; swept     *)
(* sessions have no agent; and an agent that outlived the run keeps the    *)
(* cleanup journal set (manager.go:96-103, 244-247, 527-589).              *)
(***************************************************************************)
Recovering == {"reconcile", "restore", "settle"}
RunPhases == PastRecovery \ {"create"}
Concluding == {"import", "access", "witness", "contain", "final", "fail"}
Preparing == {"start", "activate", "prepare", "journal", "launch"}

LockHeld == \A g \in Procs : pc[g] # "idle" => lock = g

OwnsOpenSession ==
    \A g \in Procs :
        /\ val[g].status \in Open
        /\ pc[g] \in RunPhases => cur[g] \in Sessions /\ Live(cur[g])

RecoveryCovers ==
    \A g \in Procs : pc[g] \in Recovering => \A s \in Sessions :
        /\ NeedsRecovery(rows[s]) => s \in toSettle[g]
        /\ s \in toSettle[g] => snap[g][s].status = rows[s].status

SweptIsDead ==
    \A g \in Procs : pc[g] \in Recovering => \A s \in toSettle[g] :
        agent[s] => pc[g] = "reconcile" /\ s \in toSweep[g]

AgentHasContainer == \A s \in Sessions : agent[s] => "agent" \in present[s]

AgentAccountedFor ==
    \A g \in Procs : pc[g] \in RunPhases /\ agent[cur[g]] =>
        /\ pc[g] \notin Preparing
        /\ pc[g] \in Concluding => val[g].cleanup

LifecycleInvariant ==
    /\ TypeOK
    /\ LockHeld
    /\ OwnsOpenSession
    /\ RecoveryCovers
    /\ SweptIsDead
    /\ RecoveryDone
    /\ AgentHasContainer
    /\ AgentAccountedFor
    /\ LiveAgentJournaled
    /\ ClosedOnce

(***************************************************************************)
(* Containment observed by the sentinel outlives crashes and failures: a   *)
(* settled session whose marker exists is recorded as contained, unless    *)
(* it was recorded as failed by a run that could not read the marker or    *)
(* could not confirm that the sentinel stopped (docker.go:216-230,         *)
(* manager.go:255-259, 548-566).                                           *)
(***************************************************************************)
Settled(s) == Closed(s) /\ ~rows[s].cleanup

ContainmentNotLost ==
    \A s \in Sessions :
        Settled(s) /\ marker[s] /\ ~rows[s].contained =>
            rows[s].status = "failed" /\ s \in unreadable \cup unstopped

(***************************************************************************)
(* What makes it inductive: a session is blank until its run asks Docker   *)
(* for anything, and has no history until its sidecars are to be stopped;  *)
(* decoys are only queued where a sentinel is; once the sidecars are gone, *)
(* or recovery has swept the session, nothing more is queued; what the     *)
(* marker said is carried from the result to the session value or the      *)
(* snapshot that is written (docker.go:203-230, manager.go:255-259,        *)
(* 548-577).                                                               *)
(***************************************************************************)
Unlaunched == {"start", "activate", "prepare", "journal"}
Unstopped == Unlaunched \cup {"launch", "running", "flush", "stop"}
Stopped == RunPhases \ Unstopped

Noted(s) == s \in unreadable \cup unstopped
Quiet(s) == queued[s] = {} /\ marking[s] = {}
Unseen(s) == Quiet(s) /\ logged[s] = {} /\ ~marker[s] /\ doomed[s] = {} /\ ~Noted(s)
Blank(s) == Unseen(s) /\ present[s] = {} /\ accepted[s] = {}

WatchedOrQuiet == \A s \in Sessions : "sentinel" \in present[s] \/ Quiet(s)

BlankBeforeLaunch ==
    /\ \A s \in Sessions : rows[s].status = "absent" => Blank(s)
    /\ \A g \in Procs : pc[g] \in Unlaunched => Blank(cur[g])

\* Docker is asked for one object after the other, for the agent's container last.
LaunchInOrder ==
    \A g \in Procs : pc[g] = "launch" =>
        /\ Unseen(cur[g])
        /\ \A k, l \in accepted[cur[g]] : k = l
        /\ "agent" \in present[cur[g]] \cup accepted[cur[g]] => sidecars \subseteq present[cur[g]]
        /\ "agent" \in present[cur[g]] => accepted[cur[g]] = {}

NothingOutstanding == \A s \in Sessions : agent[s] => accepted[s] = {}

\* A sentinel that was stopped does not come back beside the agent.
StoppedIsQuiet ==
    \A g \in Procs :
        /\ pc[g] \in Unstopped => ~Noted(cur[g])
        /\ pc[g] \in Stopped =>
            /\ Noted(cur[g]) => res[g].err
            /\ cur[g] \notin unstopped =>
                    Quiet(cur[g]) /\ ~(agent[cur[g]] /\ "sentinel" \in present[cur[g]])

MarkerCarried ==
    \A g \in Procs : pc[g] \in RunPhases /\ marker[cur[g]] /\ ~Noted(cur[g]) =>
        /\ pc[g] \in {"verify", "import"} => res[g].contained
        /\ pc[g] \in Concluding \ {"import"} => val[g].contained

SweptIsQuiet ==
    \A g \in Procs : pc[g] \in Recovering => \A s \in toSettle[g] :
        /\ Quiet(s) \/ (pc[g] = "reconcile" /\ s \in toSweep[g])
        /\ pc[g] = "settle" /\ First(toSettle[g], s) /\ marker[s] => snap[g][s].contained

SettledIsQuiet ==
    \A s \in Sessions : Settled(s) => Quiet(s) \/ (rows[s].status = "failed" /\ Noted(s))

ContainmentInvariant ==
    /\ WatchedOrQuiet
    /\ BlankBeforeLaunch
    /\ LaunchInOrder
    /\ NothingOutstanding
    /\ StoppedIsQuiet
    /\ MarkerCarried
    /\ SweptIsQuiet
    /\ SettledIsQuiet
    /\ ContainmentNotLost

(***************************************************************************)
(* A session is completed only on a clean account: its command exited with *)
(* 0 and PROCESS_EXIT says so, nothing awaits cleanup, its command is      *)
(* gone, and what the sentinel logged is in the record -- every decoy as   *)
(* triggered with its DECOY_ACCESS, and the containment it demanded        *)
(* (manager.go:281-293, 440-513).                                          *)
(***************************************************************************)
CompletedMeansClean ==
    \A s \in Sessions : rows[s].status = "completed" =>
        /\ rows[s].exit = 0
        /\ trail[s]["PROCESS_EXIT"] = 1
        /\ ~rows[s].cleanup
        /\ ~agent[s]
        /\ logged[s] = {d \in Decoys : decoys[s][d] = "triggered"}
        /\ trail[s]["DECOY_ACCESS"] = Cardinality(logged[s])
        /\ rows[s].contained <=> (ContainOnDecoy /\ logged[s] # {})
        /\ rows[s].contained => trail[s]["CONTAINMENT_ACTIVATED"] = 1

(***************************************************************************)
(* What makes it inductive: as long as a run has no error it has flushed   *)
(* the sentinel, has collected all that was logged, and has nothing to     *)
(* clean up; every access of the result is triggered, counted and, for the *)
(* first of a contained session, followed by the activation; recovery      *)
(* touches only sessions that need it (manager.go:281-293, 440-513).       *)
(***************************************************************************)
Triggered(s) == {d \in Decoys : decoys[s][d] = "triggered"}
Importing == {"import", "access", "witness", "contain", "final"}

FreshStart ==
    \A g \in Procs : pc[g] \notin RunPhases => val[g] = FreshValue /\ res[g] = NoResult

RecoversDebtsOnly ==
    \A g \in Procs : pc[g] \in Recovering =>
        \A s \in toSettle[g] : NeedsRecovery(rows[s])

\* Nothing is recorded of a session before it is created, and nothing that was observed
\* before the import.
RecordedInOrder ==
    /\ \A s \in Sessions : rows[s].status = "absent" =>
            Triggered(s) = {} /\ \A t \in EventTypes : trail[s][t] = 0
    /\ \A g \in Procs : pc[g] \in RunPhases \ {"final", "fail"} =>
            val[g].exit = NoExit /\ trail[cur[g]]["PROCESS_EXIT"] = 0
    /\ \A g \in Procs : pc[g] \in RunPhases \ Concluding =>
            /\ Triggered(cur[g]) = {} /\ ~res[g].recorded
            /\ trail[cur[g]]["DECOY_ACCESS"] = 0 /\ trail[cur[g]]["CONTAINMENT_ACTIVATED"] = 0

Armed(s) == \A d \in Decoys : decoys[s][d] # "absent"

DecoysArmed ==
    \A g \in Procs : pc[g] \in RunPhases \ {"start", "activate", "prepare", "fail"} => Armed(cur[g])

\* No error so far.
ErrorFree ==
    \A g \in Procs : pc[g] \in RunPhases /\ ~res[g].err =>
        /\ pc[g] \in {"stop", "collect"} => res[g].flushed
        /\ pc[g] \in {"mark", "verify"} \cup Importing => res[g].accesses = logged[cur[g]]
        /\ pc[g] \in Importing => ~val[g].cleanup

\* What has been imported.
ImportedInOrder ==
    \A g \in Procs : pc[g] \in Importing =>
        LET s == cur[g]
            missing == IF pc[g] = "witness" THEN 1 ELSE 0
        IN /\ IsFiniteSet(Triggered(s)) /\ Triggered(s) \subseteq res[g].accesses
           /\ pc[g] = "import" => Triggered(s) = {}
           /\ trail[s]["DECOY_ACCESS"] + missing = Cardinality(Triggered(s))
           /\ trail[s]["CONTAINMENT_ACTIVATED"] = IF res[g].recorded THEN 1 ELSE 0
           /\ pc[g] # "import" =>
                (val[g].contained <=> ContainOnDecoy /\ res[g].accesses # {})
           /\ pc[g] \in {"access", "final"} /\ val[g].contained /\ Triggered(s) # {} => res[g].recorded
           /\ pc[g] = "contain" => ~res[g].recorded
           /\ pc[g] = "final" =>
                /\ res[g].accesses \subseteq Triggered(s)
                /\ val[g].exit # NoExit => trail[s]["PROCESS_EXIT"] = 1

CompletedIsQuiet == \A s \in Sessions : rows[s].status = "completed" => Quiet(s)

CompletionInvariant ==
    /\ FreshStart
    /\ RecoversDebtsOnly
    /\ RecordedInOrder
    /\ DecoysArmed
    /\ ErrorFree
    /\ ImportedInOrder
    /\ CompletedIsQuiet
    /\ CompletedMeansClean

(***************************************************************************)
(* What the manager and its recovery do to the durable rows, with crashes  *)
(* anywhere, is an execution of the write-once ledger.                     *)
(***************************************************************************)
Verdict(row) == <<row.status, row.ended, row.exit>>

Ledger == INSTANCE SessionLedger WITH
    Verdicts  <- Terminal \X Stamps \X (ExitCodes \cup {NoExit}),
    NoVerdict <- <<>>,
    phase     <- [s \in Sessions |-> IF Closed(s) THEN "closed"
                                     ELSE IF Live(s) THEN "open" ELSE "none"],
    verdict   <- [s \in Sessions |-> IF Closed(s) THEN Verdict(rows[s]) ELSE <<>>],
    contained <- [s \in Sessions |-> rows[s].contained],
    published <- ends

ImplementsLedger == Ledger!Spec

(***************************************************************************)
(* Every session is closed in the end and its journal is cleared, however  *)
(* the invocations that owned it died, as long as somebody keeps running   *)
(* Ghost (architecture.md:76: the next run recovers it).                   *)
(***************************************************************************)
EverySessionSettles ==
    \A s \in Sessions : NeedsRecovery(rows[s]) ~> ~NeedsRecovery(rows[s])

(***************************************************************************)
(* A command left executing by a crash or by a failed stop is ended: the   *)
(* next invocation removes its container (recovery.go:46-78).              *)
(***************************************************************************)
AgentsAreEnded == \A s \in Sessions : agent[s] ~> ~agent[s]

=============================================================================
