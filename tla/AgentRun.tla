------------------------------ MODULE AgentRun ------------------------------
(***************************************************************************)
(* One execution of the untrusted command: DockerRuntime.runAgent with its *)
(* two goroutines, one attached to the command and one that samples the    *)
(* container, the session's deadline, and the kernel and the daemon, which *)
(* know of OOM kills.                                                      *)
(*                                                                         *)
(* A Go select takes any of its ready cases: the command's end, the        *)
(* deadline, a cancellation and a resource observation race in the first   *)
(* one.  Timers are actions that may come at any time.                     *)
(*                                                                         *)
(* Abstractions: the error that is returned is the set of what went wrong; *)
(* the counter of OOM kills is whether it has grown; Docker's commands are *)
(* single steps, except the ones another goroutine can come between.       *)
(* Bound: MaxFaults Docker calls fail or time out.                         *)
(***************************************************************************)
EXTENDS Naturals

CONSTANTS ExitCodes, Killed, MaxFaults

ASSUME AgentAssumption ==
    /\ 0 \in ExitCodes
    /\ Killed \in ExitCodes \ {0}     \* 137, which a command may also choose
    /\ MaxFaults \in Nat

VARIABLES
    pc,         \* where runAgent is
    finished,   \* finished
    result,     \* result: started, exit and kinds of resource evidence
    errors,     \* runErr, joined
    attachErr,  \* attachErr has been received: "none", "ok" or "error"
    attach,     \* the attached goroutine
    sent,       \* what it puts into done
    detached,   \* cancelAttach has been called
    watch,      \* the sampling goroutine
    channel,    \* observations: "none" or the one observation in it
    unwatched,  \* cancelWatch has been called
    cause,      \* context.Cause(ctx)
    container,  \* the agent's container
    command,    \* the exec of the command; "refused" when it cannot be executed
    code,       \* its exit code
    ended,      \* history: "self", "term", "oom" or "killed"
    signalled,  \* the TERM of signalAgent has been asked for
    termed,     \* the command has received it
    oomCount,   \* the kernel's counter is above the baseline
    oomNoted,   \* Docker has noted an OOM kill
    oomAtProbe, \* history: the counter when it was read last
    faults

mainVars == <<pc, finished, result, errors, attachErr>>
goVars == <<attach, sent, detached, watch, channel, unwatched>>
oomVars == <<oomCount, oomNoted>>
worldVars == <<container, command, code, ended, termed, oomVars>>
vars == <<mainVars, goVars, cause, worldVars, signalled, oomAtProbe, faults>>

Kinds == {"oom", "pids", "timeout"}
Observations == {"oom", "pids", "unobservable"}
Errors == {"launch", "cancelled", "limit", "unobservable", "probe", "stop", "attach",
           "inspect", "running", "notstarted", "remove"}

AgentTypeOK ==
    /\ pc \in {"create", "start", "exec", "wait", "settle", "signal", "grace", "probe",
               "stop", "join", "inspect", "remove", "teardown", "returned"}
    /\ finished \in BOOLEAN
    /\ result \in [started : BOOLEAN, exit : ExitCodes, kinds : SUBSET Kinds]
    /\ errors \subseteq Errors
    /\ attachErr \in {"none", "ok", "error"}
    /\ attach \in {"none", "starting", "streaming", "polling", "done"}
    /\ sent \in {"none", "ok", "error"}
    /\ detached \in BOOLEAN
    /\ watch \in {"none", "ticking", "probing", "ended"}
    /\ channel \in Observations \cup {"none"}
    /\ unwatched \in BOOLEAN
    /\ cause \in {"none", "deadline", "user"}
    /\ container \in {"absent", "created", "running", "stopped"}
    /\ command \in {"none", "created", "refused", "running", "over"}
    /\ code \in ExitCodes
    /\ ended \in {"none", "self", "term", "oom", "killed"}
    /\ signalled \in BOOLEAN /\ termed \in BOOLEAN
    /\ oomCount \in BOOLEAN /\ oomNoted \in BOOLEAN /\ oomAtProbe \in BOOLEAN
    /\ faults \in 0..MaxFaults

Init ==
    /\ pc = "create" /\ finished = FALSE
    /\ result = [started |-> FALSE, exit |-> 0, kinds |-> {}]
    /\ errors = {} /\ attachErr = "none"
    /\ attach = "none" /\ sent = "none" /\ detached = FALSE
    /\ watch = "none" /\ channel = "none" /\ unwatched = FALSE
    /\ cause = "none"
    /\ container = "absent" /\ command = "none" /\ code = 0 /\ ended = "none"
    /\ signalled = FALSE /\ termed = FALSE
    /\ oomCount = FALSE /\ oomNoted = FALSE /\ oomAtProbe = FALSE
    /\ faults = 0

-----------------------------------------------------------------------------
At(place) == pc = place
Goto(place) == pc' = place
Fault == faults < MaxFaults /\ faults' = faults + 1
Join(more) == errors' = errors \cup more
\* A Docker call under ctx fails by itself, or because ctx is done.
CallFails == IF cause # "none" THEN UNCHANGED faults ELSE Fault

\* The command ends, for the reason and with the code given.
CommandEnds(reason, c) ==
    /\ command' = "over"
    /\ ended' = reason
    /\ code' = c

\* Whatever runs in the container is killed with it.
Kill == IF command = "running" THEN CommandEnds("killed", Killed)
                               ELSE UNCHANGED <<command, ended, code>>

-----------------------------------------------------------------------------
(* runAgent up to the execution.                                           *)

Create ==
    /\ At("create")
    /\ container' = "created"
    /\ Goto("start")
    /\ UNCHANGED <<finished, result, errors, attachErr, goVars, cause, command, code, ended,
                   termed, oomVars, signalled, oomAtProbe, faults>>

\* The daemon may have created it all the same, and cleanupAgent may fail.
CreateFails ==
    /\ At("create")
    /\ CallFails
    /\ container' \in {"absent", "created"}
    /\ Join({"launch"})
    /\ Goto("teardown")
    /\ UNCHANGED <<finished, result, attachErr, goVars, cause, command, code, ended,
                   termed, oomVars, signalled, oomAtProbe>>

\* verifyAgentLimits, start, and the baseline of the OOM counter.
Start ==
    /\ At("start")
    /\ cause = "none"
    /\ container' = "running"
    /\ Goto("exec")
    /\ UNCHANGED <<finished, result, errors, attachErr, goVars, cause, command, code, ended,
                   termed, oomVars, signalled, oomAtProbe, faults>>

StartFails ==
    /\ pc \in {"start", "exec"}
    /\ CallFails
    /\ container' \in {container, "running"}
    /\ Join({"launch"})
    /\ Goto("remove")
    /\ UNCHANGED <<finished, result, attachErr, goVars, cause, command, code, ended,
                   termed, oomVars, signalled, oomAtProbe>>

\* createExec, and the two goroutines.
CreateExec ==
    /\ At("exec")
    /\ command' = "created"
    /\ attach' = "starting"
    /\ watch' = "ticking"
    /\ Goto("wait")
    /\ UNCHANGED <<finished, result, errors, attachErr, sent, detached, channel, unwatched,
                   cause, container, code, ended, termed, oomVars, signalled, oomAtProbe,
                   faults>>

-----------------------------------------------------------------------------
(* The attached goroutine: attachExec, then waitExec.                      *)

attachWorld == <<mainVars, detached, watch, channel, unwatched, cause, container, code,
                 ended, termed, oomVars, signalled, oomAtProbe>>

ExecStarts ==
    /\ attach = "starting"
    /\ container = "running" /\ command = "created"
    /\ command' \in {"running", "refused"}
    /\ attach' = "streaming"
    /\ UNCHANGED <<attachWorld, sent, faults>>

Deliver(outcome) == attach' = "done" /\ sent' = outcome

\* The stream or a poll fails, at no time a proof that the command is over.
\* A start that fails may have reached the daemon.
AttachFails ==
    /\ attach \in {"starting", "streaming", "polling"}
    /\ IF attach = "starting" /\ container # "running" THEN UNCHANGED faults ELSE Fault
    /\ command' \in {command} \cup (IF command = "created" /\ container = "running"
                                    THEN {"running"} ELSE {})
    /\ Deliver("error")
    /\ UNCHANGED attachWorld

\* The output is at its end, which is not the end of the command: that has
\* yet to be asked for.  It may never come: its receiver may block.
StreamEnds ==
    /\ attach = "streaming"
    /\ attach' = "polling"
    /\ UNCHANGED <<attachWorld, sent, command, faults>>

\* Mutant: the end of the output is taken for the end of the command.
PollEndsAtOnce ==
    /\ attach = "polling"
    /\ Deliver("ok")
    /\ UNCHANGED <<attachWorld, command, faults>>

PollEnds ==
    /\ attach = "polling" /\ command # "running"
    /\ Deliver("ok")
    /\ UNCHANGED <<attachWorld, command, faults>>

\* Mutant: a write to the caller's output is not given up.
DetachUnblocked ==
    /\ attach \in {"starting", "polling"} /\ detached
    /\ Deliver("error")
    /\ UNCHANGED <<attachWorld, command, faults>>

Detach ==
    /\ attach \in {"starting", "streaming", "polling"} /\ detached
    /\ Deliver("error")
    /\ UNCHANGED <<attachWorld, command, faults>>

-----------------------------------------------------------------------------
(* The sampling goroutine: observeResources.                               *)

watchWorld == <<mainVars, attach, sent, detached, unwatched, cause, worldVars, signalled,
                oomAtProbe>>
Unwatched == unwatched \/ cause # "none"

Sample ==
    /\ watch = "ticking" /\ ~Unwatched
    /\ watch' = "probing"
    /\ UNCHANGED <<watchWorld, channel, faults>>

\* The inspection after docker stats is not under the context: what it shows
\* is sent even when nobody watches any more.
Observe(what) ==
    /\ watch = "probing"
    /\ CASE what = "oom"  -> oomNoted /\ UNCHANGED faults
         [] what = "pids" -> container = "running" /\ command \in {"running", "over"}
                            /\ UNCHANGED faults
         [] what = "unobservable" -> Fault
    /\ channel' = what
    /\ watch' = "ended"
    /\ UNCHANGED watchWorld

ObserveNothing ==
    /\ watch = "probing"
    /\ ~oomNoted
    /\ watch' = IF container = "running" THEN "ticking" ELSE "ended"
    /\ UNCHANGED <<watchWorld, channel, faults>>

WatchEnds ==
    /\ watch \in {"ticking", "probing"} /\ Unwatched
    /\ watch' = "ended"
    /\ UNCHANGED <<watchWorld, channel, faults>>

-----------------------------------------------------------------------------
(* runAgent from the first select on.                                      *)

\* What the main goroutine leaves alone while it waits for the others.
settled == <<sent, detached, watch, cause, worldVars, oomAtProbe, faults>>

\* Mutant: whatever was observed is made evidence.
TakeAny(what) ==
    /\ result' = [result EXCEPT !.kinds = @ \cup {what}]
    /\ Join({"limit"})
    /\ channel' = "none"

\* An observation taken from the channel: evidence, or the loss of sight.
Take(what) ==
    /\ result' = [result EXCEPT !.kinds = @ \cup ({what} \cap Kinds)]
    /\ Join(IF what \in Kinds THEN {"limit"} ELSE {"unobservable"})
    /\ channel' = "none"

\* <-done: the error is looked at when everything else went well.
TakeDone ==
    /\ attach = "done"
    /\ finished' = TRUE
    /\ attachErr' = sent

WaitDone ==
    /\ At("wait")
    /\ TakeDone
    /\ unwatched' = TRUE
    /\ Goto("settle")
    /\ UNCHANGED <<result, errors, attach, channel, settled, signalled>>

WaitCancelled ==
    /\ At("wait")
    /\ cause # "none"
    /\ Join({"cancelled"})
    /\ unwatched' = TRUE
    /\ Goto("settle")
    /\ UNCHANGED <<finished, result, attachErr, attach, channel, settled, signalled>>

WaitObserved ==
    /\ At("wait")
    /\ channel # "none"
    /\ Take(channel)
    /\ unwatched' = TRUE
    /\ Goto("settle")
    /\ UNCHANGED <<finished, attachErr, attach, settled, signalled>>

\* Mutant: an unfinished command gets no TERM of its own.
SettleUnsignalled ==
    /\ At("settle")
    /\ watch = "ended"
    /\ IF channel = "none" THEN UNCHANGED <<result, errors, channel>> ELSE Take(channel)
    /\ Goto("probe")
    /\ UNCHANGED <<finished, attachErr, attach, unwatched, settled, signalled>>

\* <-watchDone, and an observation that came at the same time.
Settle ==
    /\ At("settle")
    /\ watch = "ended"
    /\ IF channel = "none" THEN UNCHANGED <<result, errors, channel>> ELSE Take(channel)
    /\ Goto(IF finished THEN "probe" ELSE "signal")
    /\ UNCHANGED <<finished, attachErr, attach, unwatched, settled, signalled>>

\* signalAgent; whether the TERM arrives is not looked at.
Signal ==
    /\ At("signal")
    /\ signalled' = TRUE
    /\ termed' \in BOOLEAN
    /\ termed' => command = "running" /\ container = "running"
    /\ Goto("grace")
    /\ UNCHANGED <<finished, result, errors, attachErr, goVars, cause, container, command,
                   code, ended, oomVars, oomAtProbe, faults>>

GraceDone ==
    /\ At("grace")
    /\ TakeDone
    /\ Goto("probe")
    /\ UNCHANGED <<result, errors, attach, channel, unwatched, settled, signalled>>

GraceOver ==
    /\ At("grace")
    /\ Goto("probe")
    /\ UNCHANGED <<finished, result, errors, attachErr, attach, channel, unwatched,
                   settled, signalled>>

Found(oom) ==
    IF oom THEN /\ result' = [result EXCEPT !.kinds = @ \cup {"oom"}]
                /\ Join({"limit"})
           ELSE UNCHANGED <<result, errors>>

\* The kernel's counter, while the container still runs.
Probe ==
    /\ At("probe")
    /\ oomAtProbe' = oomCount
    /\ Found(oomCount)
    /\ Goto("stop")
    /\ UNCHANGED <<finished, attachErr, goVars, cause, worldVars, signalled, faults>>

\* Mutant: no evidence is evidence of absence.
ProbeFailsQuietly ==
    /\ At("probe")
    /\ Fault
    /\ oomAtProbe' = oomCount
    /\ Found(oomNoted)
    /\ Goto("stop")
    /\ UNCHANGED <<finished, attachErr, goVars, cause, worldVars, signalled>>

\* Mutant: a counter that cannot be read counts as an OOM kill.
ProbeFailsAsKill ==
    /\ At("probe")
    /\ Fault
    /\ oomAtProbe' = oomCount
    /\ Found(TRUE)
    /\ Goto("stop")
    /\ UNCHANGED <<finished, attachErr, goVars, cause, worldVars, signalled>>

\* Without the counter, only positive evidence of the daemon counts, if its
\* state or its history can be had.
ProbeFails ==
    /\ At("probe")
    /\ Fault
    /\ oomAtProbe' = oomCount
    /\ \/ /\ oomNoted
          /\ result' = [result EXCEPT !.kinds = @ \cup {"oom"}]
          /\ Join({"probe", "limit"})
       \/ Join({"probe"}) /\ UNCHANGED result
    /\ Goto("stop")
    /\ UNCHANGED <<finished, attachErr, goVars, cause, worldVars, signalled>>

\* stopAgent, gracefully or by its fallback; then cancelAttach.
Stop ==
    /\ At("stop")
    /\ container' = "stopped"
    /\ Kill
    /\ detached' = TRUE
    /\ Goto("join")
    /\ UNCHANGED <<finished, result, errors, attachErr, attach, sent, watch, channel,
                   unwatched, cause, termed, oomVars, signalled, oomAtProbe, faults>>

\* A failing stop or removal may have had its effect.
StopFails ==
    /\ At("stop")
    /\ Fault
    /\ \/ container' = "stopped" /\ Kill
       \/ UNCHANGED <<container, command, ended, code>>
    /\ Join({"stop"})
    /\ detached' = TRUE
    /\ Goto("join")
    /\ UNCHANGED <<finished, result, attachErr, attach, sent, watch, channel, unwatched,
                   cause, termed, oomVars, signalled, oomAtProbe>>

JoinDone ==
    /\ At("join")
    /\ IF finished THEN UNCHANGED <<finished, attachErr>> ELSE TakeDone
    /\ Goto("inspect")
    /\ UNCHANGED <<result, errors, attach, channel, unwatched, settled, signalled>>

Started == command \in {"running", "over"}

\* inspectExec, and the verdict on what it says.
Inspect ==
    /\ At("inspect")
    /\ command # "created"
    /\ result' = [result EXCEPT !.started = Started,
                                !.exit = IF command = "over" THEN code ELSE 0]
    /\ Join({e \in {"running"} : command = "running"}
            \cup {e \in {"attach"} : errors = {} /\ command # "running" /\ attachErr = "error"}
            \cup {e \in {"notstarted"} : ~Started})
    /\ Goto("remove")
    /\ UNCHANGED <<finished, attachErr, goVars, cause, worldVars, signalled, oomAtProbe,
                   faults>>

\* An exec that never ran has no coherent state.
InspectFails ==
    /\ At("inspect")
    /\ IF command = "created" THEN UNCHANGED faults ELSE Fault
    /\ Join({"inspect"})
    /\ Goto("remove")
    /\ UNCHANGED <<finished, result, attachErr, goVars, cause, worldVars, signalled,
                   oomAtProbe>>

\* The deferred removal by identity.
Remove ==
    /\ At("remove")
    /\ container' = "absent"
    /\ Kill
    /\ Goto("teardown")
    /\ UNCHANGED <<finished, result, errors, attachErr, goVars, cause, termed, oomVars,
                   signalled, oomAtProbe, faults>>

RemoveFails ==
    /\ At("remove")
    /\ Fault
    /\ \/ container' = "absent" /\ Kill
       \/ UNCHANGED <<container, command, ended, code>>
    /\ Join({"remove"})
    /\ Goto("teardown")
    /\ UNCHANGED <<finished, result, attachErr, goVars, cause, termed, oomVars,
                   signalled, oomAtProbe>>

\* dockerPreparedRun.Run, when the sidecars are down as well.
Return ==
    /\ At("teardown")
    /\ result' = [result EXCEPT !.kinds = @ \cup {k \in {"timeout"} : cause = "deadline"}]
    /\ Join({e \in {"cancelled"} : cause = "deadline"})
    /\ Goto("returned")
    /\ UNCHANGED <<finished, attachErr, goVars, cause, worldVars, signalled, oomAtProbe,
                   faults>>

-----------------------------------------------------------------------------
(* The command, the kernel, the daemon, and the context.                   *)

mindful == <<mainVars, goVars, signalled, oomAtProbe, faults>>

CommandExits ==
    /\ command = "running"
    /\ \/ \E c \in ExitCodes : CommandEnds("self", c)
       \/ termed /\ \E c \in ExitCodes : CommandEnds("term", c)
    /\ UNCHANGED <<mindful, cause, container, termed, oomVars>>

\* A process of the container is killed for lack of memory: the command, or a
\* child whose parent goes on.
OutOfMemory ==
    /\ container = "running" /\ command \in {"running", "over"}
    /\ oomCount' = TRUE
    /\ \/ command = "running" /\ CommandEnds("oom", Killed)
       \/ UNCHANGED <<command, ended, code>>
    /\ UNCHANGED <<mindful, cause, container, termed, oomNoted>>

\* The daemon's own notice may lag or never come.
DaemonNotes ==
    /\ oomCount /\ ~oomNoted
    /\ oomNoted' = TRUE
    /\ UNCHANGED <<mindful, cause, container, command, code, ended, termed, oomCount>>

Cancel(why) ==
    /\ ~At("returned") /\ cause = "none"
    /\ cause' = why
    /\ UNCHANGED <<mindful, worldVars>>

-----------------------------------------------------------------------------
Launches == Create \/ CreateFails \/ Start \/ StartFails \/ CreateExec

Attaches == ExecStarts \/ AttachFails \/ StreamEnds \/ PollEnds \/ Detach

Watches ==
    Sample \/ ObserveNothing \/ WatchEnds \/ \E what \in Observations : Observe(what)

Waits == WaitDone \/ WaitCancelled \/ WaitObserved \/ Settle \/ Signal \/ GraceDone \/ GraceOver

Ends == Probe \/ ProbeFails \/ Stop \/ StopFails \/ JoinDone \/ Inspect \/ InspectFails
            \/ Remove \/ RemoveFails \/ Return

Surroundings ==
    CommandExits \/ OutOfMemory \/ DaemonNotes \/ Cancel("deadline") \/ Cancel("user")

Next == Launches \/ Attaches \/ Watches \/ Waits \/ Ends \/ Surroundings

Spec == Init /\ [][Next]_vars

\* The goroutines run, a goroutine that was told to end ends, and the deadline
\* comes.  The command need not end, nor its output, nor anything fail.
Fairness ==
    /\ WF_vars(Launches) /\ WF_vars(Waits) /\ WF_vars(Ends)
    /\ WF_vars(Detach)
    /\ WF_vars(WatchEnds \/ ObserveNothing)
    /\ WF_vars(Cancel("deadline"))

FairSpec == Spec /\ Fairness

-----------------------------------------------------------------------------
(* Properties.                                                             *)

(***************************************************************************)
(* A run without an error is what it looks like: the command ended by      *)
(* itself with the exit code reported, before the deadline, no limit was   *)
(* found exceeded and no process had been killed for lack of memory when   *)
(* that was looked at, and the container is gone -- whichever of the       *)
(* command, the deadline, the sampling and the failing calls came first    *)
(* (docker.go:343-507, 189-212).                                           *)
(***************************************************************************)
NoErrorMeansFinished ==
    At("returned") /\ errors = {} =>
        /\ result.started /\ ended = "self" /\ result.exit = code
        /\ result.kinds = {} /\ channel = "none"
        /\ ~oomAtProbe
        /\ cause # "deadline"
        /\ container = "absent"

(***************************************************************************)
(* An OOM kill is reported only when the kernel has counted one, never     *)
(* inferred from an exit code or from a probe that failed                  *)
(* (docker.go:447-476, limits.go:56-57; runtime-resources.md:57).          *)
(***************************************************************************)
OOMIsObserved == "oom" \in result.kinds => oomCount

(***************************************************************************)
(* Ghost kills a command that still runs only after it has asked it to     *)
(* end, unless it has lost sight of the command                            *)
(* (docker.go:434-446, 477; runtime-resources.md:19).                      *)
(***************************************************************************)
KilledAfterTerm == ended = "killed" => signalled \/ attachErr = "error"

(***************************************************************************)
(* The execution comes to an end at its deadline, though the command       *)
(* ignores TERM, the receiver of its output blocks, or every probe fails   *)
(* (docker.go:408-446, 477-481; docker_exec.go:203-208).                   *)
(***************************************************************************)
RunReturns == <>At("returned")
-----------------------------------------------------------------------------
(* What makes them true: the inductive invariant, by what it speaks of.    *)

\* Before the execution there is neither a command nor a goroutine, and a
\* launch that failed has left an error.
Launching ==
    /\ pc \in {"create", "start", "exec"} => command = "none" /\ errors = {}
    /\ command = "none" =>
          /\ attach = "none" /\ watch = "none" /\ channel = "none"
          /\ ended = "none" /\ ~signalled
          /\ \/ pc \in {"create", "start", "exec"}
             \/ pc \in {"remove", "teardown", "returned"} /\ errors # {}

\* The attached goroutine reports "ok" only of a command that is over, and
\* what was received from it is what it sent.
Attachment ==
    /\ attach = "none" => command = "none"
    /\ attach = "starting" => command = "created"
    /\ attach \in {"streaming", "polling"} => command \in {"refused", "running", "over"}
    /\ attach = "done" <=> sent # "none"
    /\ sent = "ok" => command \in {"refused", "over"}
    /\ IF finished THEN attach = "done" /\ attachErr = sent ELSE attachErr = "none"

\* Nothing is observed once the sampling has been joined.
Watching ==
    pc \in {"signal", "grace", "probe", "stop", "join", "inspect"} =>
        watch = "ended" /\ channel = "none"

\* What ended the command is known to whoever is to tell.
Endings ==
    /\ command = "over" <=> ended # "none"
    /\ ended = "term" => termed
    /\ termed => signalled
    /\ ended = "oom" => oomCount
    /\ ended = "killed" => signalled \/ attachErr = "error"

\* An OOM kill is counted before it is noted, observed or reported.
Counting ==
    /\ oomNoted => oomCount
    /\ channel = "oom" => oomNoted
    /\ "oom" \in result.kinds => oomCount

\* Whoever leaves the wait for another reason than the command's end has an
\* error, and asks the command to end.
Progress ==
    /\ pc \in {"create", "start", "exec", "wait", "signal", "grace"} => ~finished
    /\ pc \in {"create", "start", "exec", "wait", "settle", "signal"} => ~signalled
    /\ pc \in {"settle", "signal"} => finished \/ errors # {}
    /\ pc \in {"grace", "probe", "stop", "join"} => finished \/ signalled
    /\ pc \in {"inspect"} => finished
    /\ pc \in {"remove", "teardown", "returned"} /\ command # "none" => finished
    /\ signalled => errors # {}

\* As long as there is no error, what has been passed went well.
Spotless ==
    errors = {} =>
        /\ result.kinds = {} /\ ~oomAtProbe
        /\ pc \in {"stop", "join", "inspect"} => ended # "oom" \/ attachErr = "error"
        /\ pc \in {"remove", "teardown", "returned"} =>
              /\ watch = "ended" /\ channel = "none"
              /\ result.started /\ command = "over" /\ ended = "self"
              /\ result.exit = code
        /\ pc \in {"teardown", "returned"} => container = "absent"
        /\ pc = "returned" => cause # "deadline"

(***************************************************************************)
(* The invariant that carries the three safety properties above through    *)
(* every interleaving of docker.go:343-507.                                *)
(***************************************************************************)
AgentInvariant ==
    /\ AgentTypeOK
    /\ Launching /\ Attachment /\ Watching /\ Endings /\ Counting
    /\ Progress /\ Spotless
=============================================================================
