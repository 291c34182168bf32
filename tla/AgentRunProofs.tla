--------------------------- MODULE AgentRunProofs ---------------------------
(***************************************************************************)
(* One execution for any exit codes and any number of failing Docker       *)
(* calls.                                                                  *)
(***************************************************************************)
EXTENDS AgentRun, TLAPS

LEMMA AgentStarts == Init => AgentInvariant
<1> SUFFICES ASSUME Init PROVE AgentInvariant
  OBVIOUS
<1>1. AgentTypeOK
  <2>1. [started |-> FALSE, exit |-> 0, kinds |-> {}]
            \in [started : BOOLEAN, exit : ExitCodes, kinds : SUBSET Kinds]
    BY AgentAssumption
  <2>2. 0 \in 0..MaxFaults /\ 0 \in ExitCodes
    BY AgentAssumption
  <2> QED BY <2>1, <2>2 DEF Init, AgentTypeOK, Errors
<1>2. Launching /\ Attachment /\ Watching /\ Endings /\ Counting /\ Progress /\ Spotless
  BY DEF Init, Launching, Attachment, Watching, Endings, Counting, Progress, Spotless
<1> QED BY <1>1, <1>2 DEF AgentInvariant

\* A launch either goes on, with nothing but the container made, or leaves
\* an error.
LEMMA LaunchKeeps == AgentInvariant /\ Launches => AgentInvariant'
<1> SUFFICES ASSUME AgentInvariant, Launches PROVE AgentInvariant'
  OBVIOUS
<1> USE AgentAssumption DEF AgentInvariant, AgentTypeOK, Launching, Attachment,
     Watching, Endings, Counting, Progress, Spotless, At, Goto, Fault, Join,
     CallFails, CommandEnds, Kill, Kinds, Observations, Errors, attachWorld,
     Deliver, watchWorld, Unwatched, settled, Take, TakeDone, Found, Started,
     mindful, mainVars, goVars, oomVars, worldVars
<1>1. CASE Create
  BY <1>1 DEF Create
<1>2. CASE CreateFails
  BY <1>2 DEF CreateFails
<1>3. CASE Start
  BY <1>3 DEF Start
<1>4. CASE StartFails
  BY <1>4 DEF StartFails
<1>5. CASE CreateExec
  BY <1>5 DEF CreateExec
<1> QED BY <1>1, <1>2, <1>3, <1>4, <1>5 DEF Launches

\* The attached goroutine says "ok" only when it has seen the command over.
LEMMA AttachKeeps == AgentInvariant /\ Attaches => AgentInvariant'
<1> SUFFICES ASSUME AgentInvariant, Attaches PROVE AgentInvariant'
  OBVIOUS
<1> USE AgentAssumption DEF AgentInvariant, AgentTypeOK, Launching, Attachment,
     Watching, Endings, Counting, Progress, Spotless, At, Goto, Fault, Join,
     CallFails, CommandEnds, Kill, Kinds, Observations, Errors, attachWorld,
     Deliver, watchWorld, Unwatched, settled, Take, TakeDone, Found, Started,
     mindful, mainVars, goVars, oomVars, worldVars
<1>1. CASE ExecStarts
  BY <1>1 DEF ExecStarts
<1>2. CASE AttachFails
  BY <1>2 DEF AttachFails
<1>3. CASE StreamEnds
  BY <1>3 DEF StreamEnds
<1>4. CASE PollEnds
  BY <1>4 DEF PollEnds
<1>5. CASE Detach
  BY <1>5 DEF Detach
<1> QED BY <1>1, <1>2, <1>3, <1>4, <1>5 DEF Attaches

\* An observation comes only while the sampling goroutine has not ended.
LEMMA WatchKeeps == AgentInvariant /\ Watches => AgentInvariant'
<1> SUFFICES ASSUME AgentInvariant, Watches PROVE AgentInvariant'
  OBVIOUS
<1> USE AgentAssumption DEF AgentInvariant, AgentTypeOK, Launching, Attachment,
     Watching, Endings, Counting, Progress, Spotless, At, Goto, Fault, Join,
     CallFails, CommandEnds, Kill, Kinds, Observations, Errors, attachWorld,
     Deliver, watchWorld, Unwatched, settled, Take, TakeDone, Found, Started,
     mindful, mainVars, goVars, oomVars, worldVars
<1>1. CASE Sample
  BY <1>1 DEF Sample
<1>2. CASE ObserveNothing
  BY <1>2 DEF ObserveNothing
<1>3. CASE WatchEnds
  BY <1>3 DEF WatchEnds
<1>4. CASE \E what \in Observations : Observe(what)
  <2>1. PICK what \in Observations : Observe(what)
    BY <1>4
  <2>2. CASE what = "oom"
    BY <2>1, <2>2 DEF Observe
  <2>3. CASE what = "pids"
    BY <2>1, <2>3 DEF Observe
  <2>4. CASE what = "unobservable"
    BY <2>1, <2>4 DEF Observe
  <2> QED BY <2>2, <2>3, <2>4
<1> QED BY <1>1, <1>2, <1>3, <1>4 DEF Watches

\* The select, the join of the sampling, TERM and the grace period.
LEMMA WaitKeeps == AgentInvariant /\ Waits => AgentInvariant'
<1> SUFFICES ASSUME AgentInvariant, Waits PROVE AgentInvariant'
  OBVIOUS
<1> USE AgentAssumption DEF AgentInvariant, AgentTypeOK, Launching, Attachment,
     Watching, Endings, Counting, Progress, Spotless, At, Goto, Fault, Join,
     CallFails, CommandEnds, Kill, Kinds, Observations, Errors, attachWorld,
     Deliver, watchWorld, Unwatched, settled, Take, TakeDone, Found, Started,
     mindful, mainVars, goVars, oomVars, worldVars
<1>1. CASE WaitDone
  BY <1>1 DEF WaitDone
<1>2. CASE WaitCancelled
  BY <1>2 DEF WaitCancelled
<1>3. CASE WaitObserved
  BY <1>3 DEF WaitObserved
<1>4. CASE Settle
  BY <1>4 DEF Settle
<1>5. CASE Signal
  <2>1. AgentTypeOK'
    BY <1>5 DEF Signal
  <2>2. Endings'
    <3>1. signalled'
      BY <1>5 DEF Signal
    <3>2. UNCHANGED <<command, ended, oomCount>>
      BY <1>5 DEF Signal
    <3>3. ended # "term"
      BY <1>5 DEF Signal
    <3> QED BY <3>1, <3>2, <3>3 DEF Endings
  <2>3. (Launching /\ Attachment /\ Watching /\ Counting /\ Progress /\ Spotless)'
    BY <1>5 DEF Signal
  <2> QED BY <2>1, <2>2, <2>3
<1>6. CASE GraceDone
  BY <1>6 DEF GraceDone
<1>7. CASE GraceOver
  BY <1>7 DEF GraceOver
<1> QED BY <1>1, <1>2, <1>3, <1>4, <1>5, <1>6, <1>7 DEF Waits

\* Everything that could spoil a run without an error is looked at before the
\* container goes.
LEMMA EndKeeps == AgentInvariant /\ Ends => AgentInvariant'
<1> SUFFICES ASSUME AgentInvariant, Ends PROVE AgentInvariant'
  OBVIOUS
<1> USE AgentAssumption DEF AgentInvariant, AgentTypeOK, Launching, Attachment,
     Watching, Endings, Counting, Progress, Spotless, At, Goto, Fault, Join,
     CallFails, CommandEnds, Kill, Kinds, Observations, Errors, attachWorld,
     Deliver, watchWorld, Unwatched, settled, Take, TakeDone, Found, Started,
     mindful, mainVars, goVars, oomVars, worldVars
<1>1. CASE Probe
  BY <1>1 DEF Probe
<1>2. CASE ProbeFails
  BY <1>2 DEF ProbeFails
<1>3. CASE Stop
  BY <1>3 DEF Stop
<1>4. CASE StopFails
  BY <1>4 DEF StopFails
<1>5. CASE JoinDone
  <2>1. CASE finished
    BY <1>5, <2>1 DEF JoinDone
  <2>2. CASE ~finished
    BY <1>5, <2>2 DEF JoinDone
  <2> QED BY <2>1, <2>2
<1>6. CASE Inspect
  <2> DEFINE exit == IF command = "over" THEN code ELSE 0
  <2>1. exit \in ExitCodes
    OBVIOUS
  <2>2. result' = [result EXCEPT !.started = Started, !.exit = exit]
    BY <1>6 DEF Inspect
  <2>3. result' \in [started : BOOLEAN, exit : ExitCodes, kinds : SUBSET Kinds]
    <3>1. result' = [started |-> Started, exit |-> exit, kinds |-> result.kinds]
      BY <2>2
    <3> HIDE DEF exit, Kinds
    <3> QED BY <2>1, <3>1
  <2>4. AgentTypeOK'
    BY <1>6, <2>3 DEF Inspect
  <2>5. (Launching /\ Attachment /\ Watching /\ Endings /\ Counting /\ Progress)'
    BY <1>6 DEF Inspect
  <2>6. Spotless'
    BY <1>6 DEF Inspect
  <2> QED BY <2>4, <2>5, <2>6
<1>7. CASE InspectFails
  BY <1>7 DEF InspectFails
<1>8. CASE Remove
  BY <1>8 DEF Remove
<1>9. CASE RemoveFails
  BY <1>9 DEF RemoveFails
<1>10. CASE Return
  BY <1>10 DEF Return
<1> QED BY <1>1, <1>2, <1>3, <1>4, <1>5, <1>6, <1>7, <1>8, <1>9, <1>10 DEF Ends

\* The command, the kernel, the daemon and the context act at any time.
LEMMA WorldKeeps == AgentInvariant /\ Surroundings => AgentInvariant'
<1> SUFFICES ASSUME AgentInvariant, Surroundings PROVE AgentInvariant'
  OBVIOUS
<1> USE AgentAssumption DEF AgentInvariant, AgentTypeOK, Launching, Attachment,
     Watching, Endings, Counting, Progress, Spotless, At, Goto, Fault, Join,
     CallFails, CommandEnds, Kill, Kinds, Observations, Errors, attachWorld,
     Deliver, watchWorld, Unwatched, settled, Take, TakeDone, Found, Started,
     mindful, mainVars, goVars, oomVars, worldVars
<1>1. CASE CommandExits
  BY <1>1 DEF CommandExits
<1>2. CASE OutOfMemory
  <2>1. AgentTypeOK'
    BY <1>2 DEF OutOfMemory
  <2>2. Endings'
    BY <1>2 DEF OutOfMemory
  <2>3. (Launching /\ Attachment /\ Watching /\ Counting /\ Progress)'
    BY <1>2 DEF OutOfMemory
  <2>4. Spotless'
    BY <1>2 DEF OutOfMemory
  <2> QED BY <2>1, <2>2, <2>3, <2>4
<1>3. CASE DaemonNotes
  BY <1>3 DEF DaemonNotes
<1>4. CASE Cancel("deadline")
  BY <1>4 DEF Cancel
<1>5. CASE Cancel("user")
  BY <1>5 DEF Cancel
<1> QED BY <1>1, <1>2, <1>3, <1>4, <1>5 DEF Surroundings
LEMMA AgentStutters == AgentInvariant /\ UNCHANGED vars => AgentInvariant'
BY DEF AgentInvariant, AgentTypeOK, Launching, Attachment, Watching,
       Endings, Counting, Progress, Spotless, vars, mainVars, goVars, oomVars, worldVars, At

-----------------------------------------------------------------------------
(***************************************************************************)
(* Every interleaving of runAgent's select, its two goroutines, the        *)
(* command and the deadline keeps the invariant (docker.go:343-507).       *)
(***************************************************************************)
THEOREM AgentInvariance == Spec => []AgentInvariant
<1>1. Init => AgentInvariant
  BY AgentStarts
<1>2. AgentInvariant /\ [Next]_vars => AgentInvariant'
  BY LaunchKeeps, AttachKeeps, WatchKeeps, WaitKeeps, EndKeeps, WorldKeeps, AgentStutters
     DEF Next
<1> QED BY <1>1, <1>2, PTL DEF Spec

(***************************************************************************)
(* The types of runAgent's variables: no observation but the two limits is *)
(* ever made evidence (docker.go:411-432).                                 *)
(***************************************************************************)
THEOREM AgentTypes == Spec => []AgentTypeOK
<1>1. AgentInvariant => AgentTypeOK
  BY DEF AgentInvariant
<1> QED BY <1>1, AgentInvariance, PTL

(***************************************************************************)
(* Without an error the command ended by itself with the exit code         *)
(* reported, whatever raced with it (docker.go:343-507, 189-212).          *)
(***************************************************************************)
THEOREM SuccessIsReal == Spec => []NoErrorMeansFinished
<1>1. AgentInvariant => NoErrorMeansFinished
  BY DEF AgentInvariant, Spotless, NoErrorMeansFinished, At
<1> QED BY <1>1, AgentInvariance, PTL

(***************************************************************************)
(* An OOM kill that is reported was counted by the kernel, whichever       *)
(* source reported it (docker.go:447-476).                                 *)
(***************************************************************************)
THEOREM OOMIsNeverInferred == Spec => []OOMIsObserved
<1>1. AgentInvariant => OOMIsObserved
  BY DEF AgentInvariant, Counting, OOMIsObserved
<1> QED BY <1>1, AgentInvariance, PTL

(***************************************************************************)
(* No command is killed that was not asked to end, unless the attached     *)
(* goroutine lost sight of it (docker.go:434-446, 477).                    *)
(***************************************************************************)
THEOREM TermComesFirst == Spec => []KilledAfterTerm
<1>1. AgentInvariant => KilledAfterTerm
  BY DEF AgentInvariant, Endings, KilledAfterTerm
<1> QED BY <1>1, AgentInvariance, PTL
=============================================================================
