# Verification of Ghost

Ghost runs an untrusted coding agent in Docker, shows it a decoy home directory,
watches the decoys, lets it reach the network only through a policy gateway that
may ask the user, and keeps a record of each session that outlives crashes. This
directory holds TLA+ models of the parts of Ghost in which several actors act at
once or in which something can die in the middle, TLC runs that check them on
small instances, and theorems about them that TLAPS proves for all instances.

Source references are to files of the repository (`internal/...` stands for
`src/internal/...`). `PROJECT.json` lists, for every definition, the lines it models.

Contents: 1 inventory, 2 plan, 3 modules and code, 4 runs, 5 fairness, 6 proofs,
7 where code and documents differ, 8 what is not modelled.

## 1. Inventory

| component | state | operations | talks to | hard to get right |
|---|---|---|---|---|
| Session manager (`internal/session/manager.go`) | the in-memory `Session`, the run's result, the flock on `.run.lock` | `Run`, recovery of interrupted sessions, `fail`, `finalize`, import of evidence | store, runtime, filesystem marker | a crash between any two steps, any call failing, a second invocation |
| Durable store (`internal/storage/sqlite.go`) | rows of sessions, events, decoys | `CreateSession`, `UpdateSession`, `FinalizeSession`, `AddEvent`, `CreateDecoy`, `TriggerDecoy`, `RecoverySessions` | manager, CLI | whole-row writes of values read earlier; retries after an unknown commit; close and end record as one |
| Docker runtime (`internal/runtime/docker.go`, `recovery.go`) | containers and networks labelled with a session, the session directory | `Run`/`runPrepared`, `cleanupPending`, `Recover` | Docker daemon, sentinel, gateway, broker, manager | the daemon acts after its client has gone; a removal that is not confirmed is not a removal |
| Agent execution (`docker.go` `runAgent`, `docker_exec.go`, `docker_resources.go`, `limits.go`) | the agent container, its exec, the resource counters | start, exec, TERM, grace, KILL, removal, outcome | Docker daemon | natural end, deadline, cancellation and resource limit race in one select |
| Sentinel (`docker.go` `sentinelHandler`, flush) | inotify queue, marker file, `events.jsonl`, acknowledgements | handle an access, handle a barrier, flush, stop | agent, gateway, host | accesses still queued when somebody asks; the order marker, record |
| Egress gateway (`network_docker.go`) | one handler process per connection, `events.jsonl` | policy gate, approval request, connection gate, record | sentinel (barrier, marker), broker (files), agent | a decoy opened between any two steps of a handler |
| Approval broker and controller (`approval_broker.go`, `approval/model.go`) | request and response files, workers, the mutex, session grants | consume, resolve, prompt, respond, cancel, stop | gateway, user | answer against deadline against cancellation; queued prompts; grants of one request used by another |
| Approval terminal (`approval/terminal.go`) | the byte in hand, the prompt and its line, the pipe to the agent | read, prompt, route, `Decide`, `Close` | user, controller, agent | late bytes, a feed nobody drains |
| Policy (`network/policy.go`, `policy/*.go`, `trust/model.go`, `session/security_context.go`) | none but the monotone security state | decide | manager, gateway | overlapping lists, normalisation |
| Evidence (`incidents/*.go`, `provenance/*.go`, `events/*.go`) | none; built from the stored events when somebody asks | `Build`, `Reconstruct` with one consumer per type of event | store, CLI | requests of concurrent connections paired with denials; whole-second times; histories that break off; nodes looked up through unordered edges |
| Prompt guard (`promptguard/*.go`, `inspectWorkspace` in `manager.go`) | the walk, the counters of its limits, the report | discover, open, measure, read, record | manager, store, whatever else changes the workspace | files exchanged while they are looked at; limits that silently hide a source |
| Configuration, CLI, deception generator, GhostBench | none that a run changes concurrently | parse, print, generate, drive | manager | input handling, not interleaving |

How a run goes: the manager takes the lock, recovers what earlier invocations left,
creates a row, journals `cleanup_pending`, and hands over to the runtime. The runtime
starts the sentinel, the gateway and the broker, then the agent. The agent opens decoys
(inotify events for the sentinel) and connects to the gateway; a handler of the gateway
asks the sentinel for a barrier and reads the marker before and after each wait, and for
some destinations posts a request file, which the broker gives to the controller, which
asks the user. When the command ends, the runtime flushes the sentinel, removes it, removes
the gateway, stops the broker and reads the log; the manager checks that the evidence is
coherent, imports it, and closes the session together with its `SESSION_END`. Before the agent
starts, the manager inspects the workspace for suspicious instructions; what it finds becomes
events and the context in which the user is asked. Reports are built from the events, later.

What makes each part correct:

* manager and runtime: one agent at a time in a project; an agent that runs belongs to a
  session the next recovery finds; every session is closed once, with one end record;
  containment is never lost; `completed` is said only of a clean account;
* store: history grows only, whatever its clients do;
* sentinel: an acknowledged barrier has everything queued before it behind it;
* gateway: nothing is forwarded whose last barrier came after a decoy access, nothing on
  the ask list without the user's word; every connection ends; evidence is coherent;
* broker and controller: single grants are not reused, late answers are not used, teardown
  is not held up by a prompt;
* evidence: each denial is told once, with its own request and its own approvals; containment
  has one owner; a report claims neither more nor less than the events show, also of a run that
  broke off;
* prompt guard: what is reported was read from the file that was there, within the limits, and
  a run is launched only with everything read or with the omission on record.

The list of hazards, each at its line with the properties that watch it, is in
`PROJECT.json` under "hazards".

## 2. Plan

| order | module | composes | abstract specification | state |
|---|---|---|---|---|
| 1 | `SessionStore` | | `HistoryOnlyGrows` | done, proved |
| 2 | `SessionLifecycle` | `SessionStore` with manager, runtime, sentinel | `SessionLedger` | done, safety proved |
| 3 | `Sentinel`, `Approvals`, `Gateway` | the first two in the third | | done, safety proved |
| 4 | `TerminalMux` | with the controller's side of `Decide` | | done, safety proved |
| 5 | `AgentRun` | details `Exec`, `StopAgent`, `StopAgentFails` of 2 | `NoErrorMeansFinished`: what a run without an error means | done, safety proved |
| 6 | `Provenance`, `Incidents`, `EvidenceTrail` | writers of the log, the manager's import, and the two pure readers | what a report may claim: the properties of the run `evidence` | done, proved |
| 7 | `WorkspaceScan` | the scanner with `inspectWorkspace` and other programs | | done, proved |

Policy tables and host normalisation were planned and are left out: see 8.

The plan is carried out: every safety invariant that a passing run checks is also a theorem (6);
liveness stays with TLC.

## 3. Modules and the code

**`SessionStore`** is the database behind `storage.Store`. Each writing method is one
action, because each is one SQLite transaction: it happens whole or, when it returns an
error, not at all. `Updatable`, `Closable`, `IsVerdict` and `StatusStep` are the conditions
of `UpdateSession`, of the `UPDATE` in `FinalizeSession` and of `validStatusTransition`.
`FinalizeSession` has two disjuncts, the close and the retry of a close that is already
there. Columns written once and only read back (command, runtime, network mode) are left
out; an event is counted under its type. `StoreSpec` lets clients call any method with any
value, so what it satisfies the store guarantees by itself. `StoreInit` is a new database whose tables are
empty; opening it and bringing it to the present schema come before the model begins. `CreateDecoy` takes the
state its caller gives, armed or triggered; the manager only arms decoys.

**`SessionLifecycle`** extends it with everything around a run. For each invocation `g`,
`pc[g]` is the place in `Manager.Run`, `val[g]` the in-memory session, `res[g]` the result
being assembled. The actions follow the code from top to bottom:

| part of the code | actions |
|---|---|
| lock, `recoverIncompleteSessions` | `Acquire`, `Scan`, `Reconcile`, `Restore`, `Settle` |
| `Run` up to the hand-off | `Create`, `Start`, `Activate`, `Prepare`, `Announce`, `Journal` |
| `runPrepared`, `runAgent`, `stop` | `Issue`, `Exec`, `StopAgent`, `Flush`, `StopSidecars`, `Collect`, `Mark`, `Verify` |
| import and end | `Import`, `Access`, `Witness`, `Contain`, `Exit`, `Final`, `Fail` |
| what can fail | `ReconcileFails`, `JournalFails`, `LaunchFails`, `StopAgentFails`, `FlushFails`, `StopSidecarsFails`, `CollectFails`, `MarkFails`, `VerifyFails`, `ExitFails`, `StoreFails`, `Abort` |
| death of the process | `Crash` |
| bound of the model, `Sessions` used up | `Exhausted` |
| outside the process | `DaemonCreates`, `DaemonRemoves`, `AgentOpens`, `SentinelMarks`, `SentinelLogs` |

A Docker creation is two steps: `Issue` (the daemon accepts) and `DaemonCreates`. A launch
that fails, or a crash, may come between them. A removal that is not confirmed leaves the
object in `doomed`, and the daemon may or may not remove it later. `unreadable` and
`unstopped` are history variables; no guard reads them.

**`SessionLedger`** is what a reader of a project's history is promised: opened once, closed
once with a verdict and an end record in one step, containment noted at any time after
opening and never withdrawn. It knows nothing of locks, crashes or Docker.
`SessionLifecycle!Ledger` maps rows to it: `phase` from the status, `verdict` from status,
completion time and exit code of a closed row, `published` from the `SESSION_END` count.

**`Sentinel`** is the inotify queue and the handler script. The handler runs once per event,
one at a time: `Mark` then `Record` for an access, `Acknowledge` for a barrier file. That
inotifyd waits for its handler, and that the kernel's queue does not overflow, are
assumptions about programs outside the repository.

**`Approvals`** is the host's side of human approval: request files, one worker per request,
`Controller.Resolve` under its mutex (`owner` is whoever holds it and prompts), the deadline,
the grants, the response files, cancellation and stop. `cut` says whether the broker's context has ended and by
what: the run's deadline, which expires its prompts like their own, or a cancellation (`ContextDone`). The
handler's answer, its error included, is a free choice.

**`Gateway`** composes the two with the handlers of the egress gateway and with
`runPrepared` after the agent's exit. The places of a handler are those between which the
script reads or writes something shared: `gate`, `signal`/`ack`/`check` for each of its
three barriers (`purpose` says which), `post`, `require`, `await`, `outcome`, `record`,
`withdraw`, `refuse`. `record` and `record_approval` read the marker and append their line afterwards;
they are `Sample` and `Write`. A write may fail (`RecordFails`; a line is written whole or not at all), and the
handler then goes on as the script does: denied when the line was to let it go on, otherwise as if it were
written. A handler whose patience has ended records that first (`GiveUp`, `Write`) and then takes its
request back (`WithdrawRequest`). The run's context may end while the command is
still connected (`RunEnds`), and the gateway serves on until teardown removes it; teardown cancels what is left. `Tick` lets time pass only when nobody has a step due, so the
deadline of a prompt and the patience of a handler are ordered as on a host that is not
overloaded. `Acceptable` is the manager's judgement of the log. A destination is an ask key,
`"allowed"` or `"other"`; name normalisation and the address guard are behind that.

**`TerminalMux`** is the approval terminal: the goroutine that reads the terminal (`held` is
the byte it offers on `reads`), the loop of `run` (`mux`; `feeding` is the byte in
`feed.Write`), the prompt and its line, `Decide` with its two selects, and the part of
`Resolve` that calls it and may stop waiting. Each case of a select is an action, so which of
several ready cases is taken is open. A byte is a newline, a word that allows, or something
else. `Approvals` takes the answer of a prompt as a free choice; this module says where it
comes from.

**`AgentRun`** is one execution of the command. `pc` follows `runAgent`; `attach` and `watch`
are its goroutines (`attachExec` with `waitExec`, and `observeResources`), `sent` and `channel`
what they deliver. The command, the kernel and the daemon have their own actions:
`CommandExits`, `OutOfMemory` (a child or the command itself), `DaemonNotes` (the daemon's
notice of an OOM kill, which may lag or never come), `Cancel`. A failing Docker call is charged
to `faults`; where a call may have had its effect before it failed, it may have in the model.
`SessionLifecycle` takes the outcome of an execution as a free choice; here it is derived.

**`Provenance`** is the builder's graph as the set of nodes, edges and evidence that it arrives
at: `NodesOf` and `EdgesOf` say what one event gives, `Scope` when a command is drawn at all,
`TemporalEdges` the chronology. `NodesFor` is the look-up of a node by event that reconstruction
uses. Edges are sorted by hash in the code, which is no order a property could rely on, so where
the code takes the first edge the model takes any. A field that is empty in the code is `"none"` here, so that
every event has the same fields of the same kinds; `Event` makes one.

**`Incidents`** is `Reconstruct`: `Begin` orders the events and builds the graph, and each
`Consume...` action is the consumer of one type of event, or one branch of it. `incidents` maps a key
(a decoy, the prompts, a containment, a denial) to what is known of that incident; a statement of a
timeline is its step, what it is about, and the events it cites. `AddStatements` is `addStatement` for each
of a set: a step said again of the same thing only gets more citations, so no order is involved. Wording, times shown and the order
of a report are left out.

**`EvidenceTrail`** composes the way there. The sidecars write concurrently, and a record takes
three steps: the marker is looked at (`Touch`, `Compose`), the clock is read in whole seconds
(`StampAccess`, `Stamp`), the line is appended. `FirstLines` is what a handler may begin with
(`policy_gate`): any connection may be denied, because a barrier, a gate or a name may fail; `NextLines` is how
its story goes on, `DecisionTypes` what `record` lets a decision be; `NetworkLine` and `ApprovalLine` are `record` and
`record_approval`. `Stop` loses lines that were not appended. `Imported` is the
manager's loop over the log, `ImportedTo[k]` where it stands after `k` lines: `Startup` is what was stored
before the launch (`OfDecoys` for the decoys, and a `POLICY_DENY` for each resource that is left absent), `Coherent` the judgement of the log as a whole, `Acceptable` its judgement of a line, `EvidenceTime` the clamping to
`PROCESS_START`, `ImportAccess`, `ImportApproval` and `ImportNetwork` the events it stores. `Store` keeps any
prefix of them, because Ghost may die or the store may fail anywhere, and recovery may add its own
`CONTAINMENT_ACTIVATED`. Then `Read` and `Replay` do what `Incidents` says. A time is a number of ticks of
which a second has more than the log has lines, as a second has more nanoseconds. `marked` of an
event says whether the marker stood when its line was appended; it is history that no operator reads.
A scenario (`config`) fixes what does not change in a session.

**`WorkspaceScan`** is the inspection of the workspace. `EnterDirectory` and `SeeEntry` are the walk
of `discover` over listings that were taken at one moment and may be stale when their entries are
looked at; `FileLimit`, `LookAt`, `Open`, `Measure` and `Read` are the treatment of a source, one step per system
call that other programs may come between; `Record` stores the events and updates the context.
`Write`, `Replace` and `Exchange` are the other programs. A file is an inode, so that the identity of
what was opened can be compared with what was seen; reading takes what the inode holds at one
instant. A listing and the list of candidates are sets put in order by `InOrder`: the i-th is the one that
i - 1 others come before, by `Position` (names) or `ByPriority` (names within priorities). The total that the
limit compares is kept as the code keeps it, by adding the size of what was read. `readBoundedText` asks for the size and
reads; the two are one step, because a file found too large is as if it had been read then, and any other is
taken at the reading, whose own limit notices that it has grown. `Interrupted` is every end of the inspection with an
error: a cancelled context, a directory or source that cannot be opened, listed, read or closed. Directories stay where
they are. What is assumed of the constants is what the code's input has: the limits are those
that `Limits.validate` accepts, paths are a tree in which the path of a directory is a prefix of the paths
below it and so sorts before them, and nothing is entered below a directory that is passed over.

The MC modules only declare model values, symmetry sets, the event types, and the scenarios and
workspaces that are looked at.

Definitions that begin with the comment "Mutant" are plausible mistakes in the definition
after them; no specification uses them. `PROJECT.json` says which property each one breaks.

## 4. Runs

| run | question | bounds |
|---|---|---|
| `store` | do the store's methods keep history and types whatever their clients call? | 1 session, 2 times, 2 exit codes, 1 event |
| `lifecycle` | do locking, journaling, recovery, containment and evidence fit together, and do the rows refine the ledger? | 2 invocations, 2 sessions, sidecar and gateway, 1 decoy, 1 crash, 2 failures |
| `lifecycle_liveness` | is every interrupted session settled and its agent ended? | 2 invocations, 2 sessions, 1 crash, 1 failure |
| `gateway` | fence, grants and coherence of evidence | 2 connections, 1 decoy, 1 key, deadline 2, patience 3, the run's deadline at any time, no failure |
| `gateway_faults` | is a confirmed flush complete, and do connections end, when a part fails? | 1 connection, 2 decoys, 2 flush requests, a cancellation at any time, 1 failure |
| `gateway_liveness` | does teardown end with queued prompts and a silent user? | 2 connections, deadline 1, patience 2, the run ends by its command |
| `terminal` | bytes, grants and termination when prompts, deadlines and the agent share a terminal | 2 requests, 2 bytes typed, lines of at most 1 byte |
| `agent_run` | what does an execution without an error mean, are OOM kills observed and not inferred, does it end? | exit codes 0, 1, 137, 2 failing Docker calls |
| `evidence` | does a report say of a session what happened in it? | 2 connections, up to 2 decoys, 2 seconds and 6 lines; six scenarios; cut short anywhere |
| `workspace_scan` | is what is reported what was there, is nothing missed silently, does the launch know? | 4 files, 2 directories, 5 entries, 2 files, 2 bytes each, 3 in all, 1 change, 1 failure |
| `late_grant`, `severity` | a statement of a comment or document, refuted; see 7 | smallest that shows it |

Why the bounds are enough to be worth something. Two invocations are what it takes to
compete for the lock; two sessions are what it takes for one to be recovered while the
other is created; one crash and two failures allow a crash in a run that has failed already,
and a failure of the recovery after it. Further invocations find the same states, since
`Leave` resets everything local. Two connections are what it takes for one prompt to queue
behind another, for one grant to be used by another request, and for one handler to act on
the marker between two steps of the other; one decoy suffices for the fence, and two are
needed for a flush to find one access handled and another queued. Two bytes are a word that
allows and its newline, divided between two prompts or between a prompt and the agent, or one
byte more than the longest line. Of the two causes that may end the run's context, each is checked where it
matters more: the deadline, which competes with those of two prompts, with two connections, the cancellation together
with a failure. In `agent_run`, 137 is both the code of a killed command and
one a command may choose; two failures allow the OOM counter and the removal, or the stop and
the attachment, to fail in one run. Patience exceeds the
deadline as 35 s exceed 30 s. `MaxEvents` in the lifecycle runs is not reached: no run of the
code writes as many events of a type. In `evidence`, two connections to one destination are
what it takes to pair crosswise, two seconds to append lines in another order than their times, two
decoys for one incident to be mistaken for another; the scenarios are `Asking` (two requests for approval,
contained before or after one), `Decided` (both answered and decided), `Answered` (every answer),
`Deciding` (no approvals, two seconds), `Reading` and `Watching` (two decoys, contained or not). In
`workspace_scan` every limit can be reached and every file, present or not, holds something binary,
something dangerous, something long or something too large; one change is enough for each race between
two system calls, since a later call sees it. What the bounds exclude: more than
two prompts in a queue, a crash followed by a crash of the recovery (proved in 6, for the
invariants there), more than one failure with two connections.

Deadlock is checked in the store and lifecycle runs (an invocation can always be started
again) and in `evidence` and `workspace_scan`, whose only ends are a finished report and a launched or
failed run (`Done`). The gateway, terminal and agent runs switch it off: a boundary, a terminal and an
execution come to their end.

## 5. Fairness

`SessionLifecycle!FairSpec`: each invocation keeps taking its ordinary steps (the code
is sequential and every external call has a timeout); somebody starts Ghost
again (`Acquire` of any process, not of each); the daemon carries out creations; the sentinel
works off its queue. No fairness for failures, crashes, late removals or the agent.
`EverySessionSettles` is thus relative to the user running Ghost again, as
architecture.md:76 says.

`Gateway!FairSpec`: handlers, sentinel, workers, the host and time. The agent need not connect
or exit, the user need not answer, the run's context need not end early (`RunEnds`), nothing need fail
(`HandlerFails`). `FlushTimesOut` is in the fair
disjunction of the host because the code bounds the flush; it is enabled only when the
sentinel is gone or a failure is charged, so it cannot hide a flush that would have worked.

`TerminalMux!FairSpec`: the two goroutines, `Decide`, and deadlines. Nobody need type, the
agent need not read, the run need not end. Fairness of the loop is one disjunction: a select
may prefer any case for ever.

`AgentRun!FairSpec`: `runAgent` keeps going, its timers included (`GraceOver`), a goroutine that has
been told to end ends (`Detach`, `WatchEnds`), and the deadline comes (`Cancel("deadline")`).
The command need not end, its output need not end or be taken, the daemon need not note
anything, and nothing need fail. That a Docker call returns is what the timeouts of
`dockerCleanup`, `stopAgent` and the probes ensure.

## 6. Proofs

The theorems about sessions hold for every number of invocations, sessions, decoys, crashes and
failures, those about an execution for any exit codes and number of failures.
The theorems about the boundary hold for every number of connections, decoys, destinations, flush requests
and faults and every deadline shorter than the gateway's patience; those about the terminal for every number
of calls and bytes and every bound on a line; those about the evidence for every finite number of connections
and every length of log, run and list of decoys; those about the inspection for every tree, contents and limits.
Assumptions: `StoreAssumption`, `LifecycleAssumption`, `AgentAssumption`, `GatewayAssumption`,
`TerminalAssumption` and `TrailAssumption`, which say of the constants that the null values are not values, that sessions are
numbered in the order of creation, which event types and exit codes exist, and that the host's
barrier tokens are nobody else's: the host names its tokens `host-...` (docker.go:1001), a handler
names its own `gateway.XXXXXX` (network_docker.go); and `LimitsAssumption`, `PathsAssumption` and `ContentsAssumption`
of the inspection, which 3 justifies. TLC evaluates all of them in the runs.

`SessionStoreProofs`: `StoreTypeCorrect` (with at most one `SESSION_END` per session) and
`HistoryKept`. The lemmas of this module are about one store method each and are cited by
the others.

`SessionLifecycleProofs`: `LifecycleInvariance`, `Spec => []LifecycleInvariant`. What
one would like to say -- `OneLiveAgent`, `RecoveryDone`, `LiveAgentJournaled`, `ClosedOnce` --
is not inductive: whether a new agent is the only one depends on what recovery had found and
removed. The invariant adds

* `LockHeld`: whoever is not idle holds the lock, so at most one invocation is in the run;
* `OwnsOpenSession`: past `create`, the invocation has a session of its own and its row is open;
* `RecoveryCovers`: what recovery still has to settle covers every row that needs it, and the
  snapshot it writes back has that row's present status;
* `SweptIsDead`: a session recovery has swept has no agent;
* `AgentHasContainer`: an agent runs only while its container exists;
* `AgentAccountedFor`: the run's own agent exists only after the journal, and when it has
  outlived the run the session value that will be written has `cleanup` set.

The proof has one lemma per group of actions (entering, preparing, Docker, evidence,
environment), each with one step per action and, where an action can disturb several
conjuncts, one step for each. `LifecycleTypes`, `ClosingIsAtomic`, `RecoveryComesFirst` and
`AgentsAreJournaled` are its parts.

The last part of the module is the refinement: `OneDebtAtATime` and `OneAgentAtATime` follow from the invariant
by the lock; `LifecycleImplementsLedger` shows that initial rows map to an initial ledger and
every step to `OpenSession`, `NoteContainment`, `CloseSession` or a stutter.

`AgentRunProofs`: `AgentInvariance`, `Spec => []AgentInvariant`, and from it `AgentTypes`,
`SuccessIsReal`, `OOMIsNeverInferred` and `TermComesFirst`. `NoErrorMeansFinished` speaks of the end
only; the invariant carries to it, from place to place, what an empty set of errors says so far:

* `Launching`: no command without its goroutines, and a failed launch has left an error;
* `Attachment`: "ok" is sent only of a command that is over, and what was received was sent;
* `Watching`: nothing is observed after the sampling has been joined;
* `Endings`: a command ended by TERM was signalled, one ended by the kernel was counted;
* `Counting`: counted before noted, noted before observed;
* `Progress`: whoever passes the first select without the command's end has an error and signals;
* `Spotless`: as long as there is no error, the counter was not raised when it was read, and after
  the inspection the command is over by itself, with the code reported.

`SessionOutcomeProofs` proves what a closed row means, with two more inductive invariants beside the
first. `ContainmentInvariance` follows one bit from the marker to the row. A session is blank
until its run asks Docker for anything (`BlankBeforeLaunch`, `LaunchInOrder`: the agent's container
comes last, so an agent has its sentinel); once the sidecars are gone, or recovery has swept the
session, nothing is queued any more that could still set the marker (`StoppedIsQuiet`, `SweptIsQuiet`);
and from then on what the marker says is in the result, then in the session value or recovery's
snapshot, then in the row (`MarkerCarried`, `SettledIsQuiet`). Where the sentinel was out of sight the
run carries an error, which is why `ContainmentNotLost` says `failed` of it (`ContainmentKept`).
`CompletionInvariance` follows the account of a run: `ErrorFree` says what a run without an
error has flushed, stopped and verified by each place; `ImportedInOrder` that what was imported so far is in
the store, one event each; `FreshStart` that an invocation outside a run carries nothing over from one before
it; `RecoversDebtsOnly` that recovery never touches a row that is closed and paid.
`CompletedIsClean` is the conjunction of these at the close.

`GatewayProofs`: the sentinel's queue orders accesses and barriers. `Behind(t, earlier)` says that
the accesses of `earlier` are in the log, or before the barrier `t` in the queue, and stays true while the
queue moves, because it moves at its ends only. `FenceSound` says of which accesses this holds: `fenced[c]`,
what had been opened when the handler asked for its connection barrier. For that the token must not be
outstanding when it is asked for: a handler's connection barrier is its last and is asked for once, and
the host's tokens are fresh (`HostSound`). `SentinelSound` adds that the marker
precedes the log. A handler that passes its last look at the marker has then seen a log
that holds no decoy of its `fenced` set: `FenceStands`. For the host the set is all of `opened`, because the
agent has ended: `FlushIsComplete`. `Named` and `InStep` say that posted requests have keys, which
`BoundaryTyped` needs.

The second part of `GatewayProofs`: in `ApprovalInvariant` every grant the broker keeps goes back to a session answer for
its key, every resolution and response that grants to an answer, and every outcome that a handler
goes on with to a response for its own destination; answers stand, and who has not asked has
none (`Unasked`). `UserApproves` is its last link. `EvidenceInvariant` says of each place of a handler which
records it has left as long as nothing has failed (`Story`), and of the host that no handler writes when it judges
(`TeardownSound`); `ManagerAgrees` compares these trails with `Acceptable`.

`TerminalProofs`: bytes are in one of four places, in order: handed out, in the feed, held by the reader, in
the terminal. Each step moves one to the next place (`MovingOn`), so what they hold together changes only
when something is typed (`OneReader`). A feed is empty outside a write (`FeedSound`), or the byte of a prompt
would overtake it. `PromptSound` ties the line of the prompt that is open to what its call was handed;
`VerdictSound` says that a verdict comes last, so a deadline that passes later finds the call concluded
(`GrantsNeedALine`). The attempt at this proof showed a slip in the model: `VerdictOn` was a `CASE` with
overlapping arms, which TLC reads from the top but which by its meaning lets any true arm be taken; it
now follows the order of the code (model.go:196-214).

`WorkspaceScanProofs`: `ScanInvariance`, `Spec => []ScanInvariant`. The invariant follows a source through the
inspection while other programs are at work:

* `DiskSound`, `ReadSound`, `ReportSound`: an inode is at one path at most, the file in hand was placed at the path
  of the first candidate, and what is reported was placed, is text, fits the limits, and is reported once;
  every byte of the total is one of a source;
* `WalkSound`, `WalkAccounted`: an entry still says the truth of a file nobody touched, and with some set of
  directories `entered`, everything in them that matters is a candidate or pending (`WalkedThrough`);
* `ReadAccounted`: after the walk it is a candidate, or in the report with what it holds, or a limit was reached;
* `RecordSound`: the events stored and those to be stored are the events of the report, and the context knows what
  the stored ones say.

From it follow `SourcesAreSound`, `NothingIsMissed` and `LaunchIsInformed`. That a walk that is over has entered
every directory is an induction over the tree: of the directories that were not entered take the one that sorts
first; its parent was entered, so it is pending, and nothing is.

`EvidenceTrailProofs` follows a denial from the marker to the report, in the order of the program; each invariant
rests on those before it.

* `WorldInvariance`: `WorldInvariant` says of the log that the lines of one connection stand in the order of their
  seconds and end with its decision (`HandlerSound`), that accesses do so too (`SentinelSound`), and that what
  is after an access, in place or in seconds, was written when the marker stood (`LogSound`). The seconds
  are where the order is hard: a handler reads the marker, then the clock, then appends.
* `StoredInvariance`: `ImportSound` is the invariant of the manager's loop, for each `k` of `ImportedTo[k]`; a function
  `from`, which the proof carries along, tells the line that each event came from. `TrailSound` is what is left of
  it for any prefix of what is imported, with or without the `CONTAINMENT_ACTIVATED` of recovery: a decision without an
  approval right after its request, approvals before the decision of their connection, the first access before the first
  activation and the others after one, and what was denied later marked. It is all that the reconstruction relies on.
* `ReplayInvariance`: every incident, index and anchor rests on events that were read, every statement cites
  events of its incident, and a severity that has to be high is. Under it are lemmas about the order of events
  (`Ordered` is a permutation in which a request comes right before its decision), about the graph, and about
  what adding statements, raising and enriching do to an incident. `TrailHasItsTypes` and
  `ReportClaimsNoMore` follow.
* `ContainmentInvariance`: all activations read so far are the action of one incident (`Acting`), which is as old as the
  first (`Dating`), which is or will be that of the decoy accessed first (`Owning`), and what is on record as a
  violation of policy came before it (`Violating`).
* `DenialInvariance`: a request that is pending has not been told of, and when the last event was a request, that very
  request is pending (`Awaiting`), or a denial would be paired with another one; no two statements cite the same
  denial or request, and each cites no more requests than denials, of one destination (`Accounting`). With the one before:
  `ContainmentHasItsOwner` and `EveryDenialIsAccountedFor`.
* `ApprovalInvariant` (inside `ApprovalsAreOfTheirDenials`): the approvals at hand are those read so far, and what an
  incident tells of approvals is what was asked for the denials it tells of. That none is still to come when its
  denial is read is in `TrailSound`.

Where these two modules define something over a sequence or a set, the proofs reason by a least counterexample
(`LeastOfNaturals`), because the library's induction theorems take an operator as a parameter, which the installed
provers cannot instantiate. `InOrder` is a comprehension and not a recursive sort for the same reason. Checking
`EvidenceTrailProofs` from nothing takes about ten minutes, the other modules a few minutes each.

Only model-checked: liveness (`EverySessionSettles`, `AgentsAreEnded`, `ConnectionsEnd`, `TeardownEnds`, `DecidesReturn`,
`LoopEnds`, `RunReturns`), which with fairness and `ENABLED` is beyond this prover. The two refuted statements
(7) are runs, not theorems. No module has a recursive operator. The invariants of this section were checked by
TLC, on the instances of the runs, before they were proved.

## 7. Where code and documents differ

Refuted by a run:

* `severity`: incidents.md:58 says that a valid severity in a `SECURITY_INCIDENT` event controls the
  decoy incident. The decoy of that event is looked for through edges in the order of their hashes
  (reconstruct.go:569-587). When the next event is the access to a second decoy, the edge to that one
  may come first; its incident does not exist yet, and the severity is dropped: the first incident
  stays at `HIGH` where `medium` was configured. Shadow exposure, access and containment are not
  affected, since those events are direct evidence of their nodes.
* `late_grant`: model.go:204-205 says that an answer to an operation that is no longer live is
  not reusable. A request that queues behind a prompt that expires is given up by the gateway
  a few seconds into its own prompt; "allow for session" given after that is kept and used.

Seen while modelling, and reachable in the models, without a run of their own:

* security-model.md:146 says that leftovers of a crash stay until the next recovery. A `docker
  create` the daemon accepted from the killed process may take effect after recovery has listed the
  session's objects (`DaemonCreates` after `Reconcile`); no later recovery looks at that session.
* docker.go:216-219 says that the marker is read after every sidecar has stopped. When stopping
  the sentinel is not confirmed, it is read all the same, and a containment that is marked a moment
  later reaches no record. `ContainmentNotLost` states what is left: such a session is recorded as
  failed.
* approvals.md:30 says that a contained session never receives ASK. Name resolution and the
  posting of the request come after the last marker test, so it may. The fence behind it holds:
  `FenceHolds` is about forwarding.
* prompt-injection-guard.md:14 says that an oversized directory is omitted. Its walk ends there
  (scanner.go:215-217): sources that sort after it are not looked at either, agent instructions
  included. `NothingMissedSilently` states what is left: `RESOURCE_LIMIT_TRIGGERED` says so.
* A denial of a connection that was asked about may be cited with the request of another connection
  to the same destination (reconstruct.go:378). `DenialsAccountedFor` and `ApprovalsMatch` state what is
  left: counts and approvals are right, and a denial that needed no approval has its own request.

## 8. Not modelled

Docker's preflight checks and the arguments of containers, HTTP framing and the address
guard of the gateway, SQL schema and migrations, listing queries and output: data without
control that the properties could see. Prompt guard's patterns, configuration parsing and
GhostBench: text and drivers. Of Docker's interface, the wire
format, the parsing of counters and the comparison of the limits it retained are single steps;
so are the words of a prompt's response. The policy tables (`policy/*.go`) and the decision by three
lists (`network/policy.go`) map a few enumerations to one, without state: a model of them would be
the same table again. Host and path normalisation is text. `EvidenceTrail` stores no `SESSION_END` and
no `RESOURCE_LIMIT_TRIGGERED` of the runtime (that of the inspection is there): no consumer of an incident reads them.
A line of which only a part was written is a record the manager rejects, or drops at the end of the log; `Gateway`
writes lines whole or not at all. The order, wording and rendering of
reports and the labels and levels of nodes are output. `Gateway` and `EvidenceTrail` each have the
writers of the log, the first with barriers, waits and teardown, the second with the order of lines,
their seconds and what becomes of them; a handler of the second writes its lines in the order of
the first. A partial last line that `readObservationRecords` drops is a line that was not appended. The broker's
listing and reading of a request file is one step. The composition of `TerminalMux` with
`Approvals` and of `AgentRun` with `SessionLifecycle` is not checked as one model: in each pair the
coarse module takes the outcome as a free choice.
