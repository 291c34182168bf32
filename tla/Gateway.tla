------------------------------ MODULE Gateway -------------------------------
(***************************************************************************)
(* The boundary of a running session: the egress gateway with one handler  *)
(* process per connection, composed with the sentinel's queue and with     *)
(* human approval on the host, and the host that takes them down when the  *)
(* agent's command has ended and judges the evidence they left.            *)
(*                                                                         *)
(* A handler reads the containment marker several times and writes several *)
(* records; between any two of these steps the sentinel, the other         *)
(* handlers, the broker and the user may act.                              *)
(*                                                                         *)
(* Bounds: one connection per element of Requests, MaxAttempts flush       *)
(* requests of the host, MaxFaults failures.                               *)
(***************************************************************************)
EXTENDS Sentinel, Approvals, Functions

CONSTANTS
    Patience,       \* how long a handler polls for a response, in ticks
    EarlyEnds,      \* how the run's context may end before its teardown does
    MaxAttempts, MaxFaults

ASSUME GatewayAssumption ==
    /\ Patience \in Nat /\ Patience > DecisionTimeout
    /\ {"allowed", "other"} \cap Keys = {}
    /\ EarlyEnds \subseteq Causes
    /\ "host" \notin Requests    \* barrier tokens begin with host- or gateway.
    /\ MaxAttempts \in Nat \ {0} /\ MaxFaults \in Nat

VARIABLES
    pc,         \* pc[c]: where the handler of connection c is
    dest,       \* dest[c]: an ask key, "allowed", or on neither list
    purpose,    \* purpose[c]: which barrier of the handler is next or under way
    writing,    \* writing[c]: the record in hand has its contained flag
    flag,       \* flag[c]: that flag
    outcome,    \* outcome[c]: how the approval of c ended
    asked,      \* connections that carry a request id
    waited,     \* waited[c]: ticks spent polling for the response
    trail,      \* trail[c]: the records of c in events.jsonl, in their order
    fenced,     \* history: decoys opened when connection_gate asked its barrier
    phase,      \* where runPrepared is
    attempt,    \* flush requests made
    flushed,    \* the flush was acknowledged
    faults

recordVars == <<writing, flag, trail>>
askVars == <<outcome, asked, waited>>
handlerVars == <<pc, dest, purpose, recordVars, askVars, fenced>>
hostVars == <<phase, attempt, flushed>>
vars == <<sentinelVars, approvalVars, handlerVars, hostVars, faults>>

Destinations == Keys \cup {"allowed", "other"}
Purposes == {"policy", "approval", "connection"}
Outcomes == {"granted", "denied", "expired", "unavailable"}
Writers == {"require", "outcome", "record", "refuse"}
\* Nobody compares the contained flag of the other records.
Sampled == {"require", "record"}
Ended == {"forwarded", "refused", "killed"}
Handling == {"gate", "signal", "ack", "check", "post", "await", "withdraw"} \cup Writers

Tokens == (Requests \X Purposes) \cup ({"host"} \X (1..MaxAttempts))

Records == [kind : Outcomes \cup {"required", "ALLOW", "DENY"}, contained : BOOLEAN]

HandlerTypeOK ==
    /\ pc \in [Requests -> {"idle"} \cup Handling \cup Ended]
    /\ dest \in [Requests -> Destinations]
    /\ purpose \in [Requests -> Purposes]
    /\ writing \in [Requests -> BOOLEAN]
    /\ flag \in [Requests -> BOOLEAN]
    /\ outcome \in [Requests -> Outcomes]
    /\ asked \subseteq Requests
    /\ waited \in [Requests -> 0..Patience]
    /\ trail \in [Requests -> Seq(Records)]
    /\ fenced \in [Requests -> SUBSET Decoys]

BoundaryTypeOK ==
    /\ up \in BOOLEAN /\ marked \in BOOLEAN /\ marker \in BOOLEAN
    /\ \A i \in DOMAIN queue :
          queue[i] \in {AccessTo(d) : d \in Decoys} \cup {BarrierOf(t) : t \in Tokens}
    /\ acks \subseteq Tokens
    /\ opened \subseteq Decoys
    /\ logged \subseteq Decoys
    /\ ApprovalTypeOK
    /\ HandlerTypeOK
    /\ phase \in {"running", "flush", "sentinel", "gateway", "broker", "drain",
                  "collect", "accepted", "rejected", "uncollected"}
    /\ attempt \in 0..MaxAttempts
    /\ flushed \in BOOLEAN
    /\ faults \in 0..MaxFaults

Init ==
    /\ SentinelInit
    /\ ApprovalInit
    /\ pc = [c \in Requests |-> "idle"]
    /\ dest = [c \in Requests |-> "other"]
    /\ purpose = [c \in Requests |-> "policy"]
    /\ writing = [c \in Requests |-> FALSE]
    /\ flag = [c \in Requests |-> FALSE]
    /\ outcome = [c \in Requests |-> "unavailable"]
    /\ asked = {}
    /\ waited = [c \in Requests |-> 0]
    /\ trail = [c \in Requests |-> <<>>]
    /\ fenced = [c \in Requests |-> {}]
    /\ phase = "running"
    /\ attempt = 0
    /\ flushed = FALSE
    /\ faults = 0

-----------------------------------------------------------------------------
(* The gateway handler.                                                    *)

At(c, place) == pc[c] = place
Goto(c, place) == pc' = [pc EXCEPT ![c] = place]
Fault == faults < MaxFaults /\ faults' = faults + 1

\* The agent connects; a malformed request is refused at once.
Arrive(c, d) ==
    /\ At(c, "idle") /\ phase = "running"
    /\ dest' = [dest EXCEPT ![c] = d]
    /\ Goto(c, "gate") \/ (d = "other" /\ Goto(c, "refuse"))
    /\ UNCHANGED <<sentinelVars, approvalVars, purpose, recordVars, askVars, fenced,
                   hostVars, faults>>

\* policy_gate, the marker test before the barrier.
Gate(c) ==
    /\ At(c, "gate")
    /\ Goto(c, IF marker THEN "refuse" ELSE "signal")
    /\ UNCHANGED <<sentinelVars, approvalVars, dest, purpose, recordVars, askVars, fenced,
                   hostVars, faults>>

\* containment_barrier, up to the request; a session that does not contain on
\* access has no barrier.
RequestBarrier(c) ==
    /\ At(c, "signal")
    /\ fenced' = [fenced EXCEPT ![c] = IF purpose[c] = "connection" THEN opened ELSE {}]
    /\ IF ContainOnDecoy
       THEN Signal(<<c, purpose[c]>>) /\ Goto(c, "ack")
       ELSE UNCHANGED sentinelVars /\ Goto(c, "check")
    /\ UNCHANGED <<approvalVars, dest, purpose, recordVars, askVars, hostVars, faults>>

SeeAck(c) ==
    /\ At(c, "ack")
    /\ <<c, purpose[c]>> \in acks
    /\ Forget(<<c, purpose[c]>>)
    /\ Goto(c, "check")
    /\ UNCHANGED <<approvalVars, dest, purpose, recordVars, askVars, fenced,
                   hostVars, faults>>

\* Mutant: the polls are not counted.
BarrierWaitsOn(c) == FALSE

\* 500 polls without an acknowledgement.
BarrierTimesOut(c) ==
    /\ At(c, "ack")
    /\ <<c, purpose[c]>> \notin acks
    /\ Goto(c, "refuse")
    /\ UNCHANGED <<sentinelVars, approvalVars, dest, purpose, recordVars, askVars, fenced,
                   hostVars, faults>>

\* The marker test after a barrier, and what the handler goes on to: the lists
\* and the resolution of the name after the first one, the connection gate
\* after the one that follows a grant, the ALLOW record after the last.
Check(c) ==
    /\ At(c, "check")
    /\ \/ /\ marker \/ purpose[c] = "policy"
          /\ Goto(c, "refuse")
          /\ UNCHANGED purpose
       \/ /\ ~marker
          /\ purpose[c] = "policy" /\ dest[c] \in Keys
          /\ Goto(c, "post")
          /\ UNCHANGED purpose
       \/ /\ ~marker
          /\ purpose[c] = "approval" \/ (purpose[c] = "policy" /\ dest[c] = "allowed")
          /\ Goto(c, "signal")
          /\ purpose' = [purpose EXCEPT ![c] = "connection"]
       \/ /\ ~marker
          /\ purpose[c] = "connection"
          /\ Goto(c, "record")
          /\ UNCHANGED purpose
    /\ UNCHANGED <<sentinelVars, approvalVars, dest, recordVars, askVars, fenced,
                   hostVars, faults>>

\* request_approval: the request file, moved into place.
PostRequest(c) ==
    /\ At(c, "post")
    /\ Post(c, dest[c])
    /\ asked' = asked \cup {c}
    /\ Goto(c, "require")
    /\ UNCHANGED <<sentinelVars, dest, purpose, recordVars, outcome, waited, fenced,
                   hostVars, faults>>

\* The request id is taken before the file is written and moved.
PostFails(c) ==
    /\ At(c, "post")
    /\ asked' = asked \cup {c}
    /\ Goto(c, "refuse")
    /\ Fault
    /\ UNCHANGED <<sentinelVars, approvalVars, dest, purpose, recordVars, outcome, waited,
                   fenced, hostVars>>

\* record and record_approval look at the marker, ...
Sample(c) ==
    /\ pc[c] \in Sampled
    /\ ~writing[c]
    /\ IF At(c, "record") /\ marker
       THEN Goto(c, "refuse") /\ UNCHANGED <<writing, flag>>
       ELSE /\ writing' = [writing EXCEPT ![c] = TRUE]
            /\ flag' = [flag EXCEPT ![c] = marker]
            /\ UNCHANGED pc
    /\ UNCHANGED <<sentinelVars, approvalVars, dest, purpose, askVars, trail, fenced,
                   hostVars, faults>>

Kind(c) == CASE At(c, "require") -> "required"
             [] At(c, "outcome") -> outcome[c]
             [] At(c, "record")  -> "ALLOW"
             [] At(c, "refuse")  -> "DENY"

\* ... and append their line afterwards.  Giving up is recorded before the
\* request is withdrawn.
Writing(c) == writing[c] \/ pc[c] \in Writers \ Sampled
AfterRefusal(c) == IF waited[c] = Patience THEN "withdraw" ELSE "refuse"

Write(c) ==
    /\ Writing(c)
    /\ trail' = [trail EXCEPT ![c] = Append(@, [kind |-> Kind(c), contained |-> flag[c]])]
    /\ writing' = [writing EXCEPT ![c] = FALSE]
    /\ flag' = [flag EXCEPT ![c] = FALSE]
    /\ Goto(c, CASE At(c, "require") -> "await"
                 [] At(c, "outcome") -> IF outcome[c] = "granted" THEN "signal" ELSE AfterRefusal(c)
                 [] At(c, "record")  -> "forwarded"
                 [] At(c, "refuse")  -> "refused")
    /\ purpose' = [purpose EXCEPT ![c] = IF At(c, "outcome") THEN "approval" ELSE @]
    /\ UNCHANGED <<sentinelVars, approvalVars, dest, askVars, fenced,
                   hostVars, faults>>

\* The line cannot be appended.  A grant, a request or a connection that cannot
\* be put on record is refused; a refusal stands without its record.
RecordFails(c) ==
    /\ Writing(c)
    /\ writing' = [writing EXCEPT ![c] = FALSE]
    /\ flag' = [flag EXCEPT ![c] = FALSE]
    /\ Goto(c, CASE At(c, "outcome") /\ outcome[c] # "granted" -> AfterRefusal(c)
                 [] At(c, "refuse") -> "refused"
                 [] OTHER -> "refuse")
    /\ purpose' = [purpose EXCEPT ![c] = IF At(c, "outcome") THEN "approval" ELSE @]
    /\ Fault
    /\ UNCHANGED <<sentinelVars, approvalVars, dest, askVars, trail, fenced, hostVars>>

OutcomeOf(r) == IF r \in Granting THEN "granted" ELSE r

TakeResponse(c) ==
    /\ At(c, "await")
    /\ response[c] # "none"
    /\ outcome' = [outcome EXCEPT ![c] = OutcomeOf(response[c])]
    /\ waited' = [waited EXCEPT ![c] = 0]
    /\ Goto(c, "outcome")
    /\ UNCHANGED <<sentinelVars, approvalVars, dest, purpose, recordVars, asked, fenced,
                   hostVars, faults>>

\* Mutant: giving up is not recorded.
GiveUpSilently(c) ==
    /\ At(c, "await")
    /\ response[c] = "none" /\ waited[c] = Patience
    /\ waited' = [waited EXCEPT ![c] = 0]
    /\ Goto(c, "refuse")
    /\ Withdraw(c)
    /\ UNCHANGED <<sentinelVars, dest, purpose, recordVars, outcome, asked, fenced,
                   hostVars, faults>>

\* 3500 polls without a response: the outcome first, ...
GiveUp(c) ==
    /\ At(c, "await")
    /\ response[c] = "none" /\ waited[c] = Patience
    /\ outcome' = [outcome EXCEPT ![c] = "unavailable"]
    /\ Goto(c, "outcome")
    /\ UNCHANGED <<sentinelVars, approvalVars, dest, purpose, recordVars, asked, waited,
                   fenced, hostVars, faults>>

\* ... and when it is on record the channel's files are removed.
WithdrawRequest(c) ==
    /\ At(c, "withdraw")
    /\ Withdraw(c)
    /\ waited' = [waited EXCEPT ![c] = 0]
    /\ Goto(c, "refuse")
    /\ UNCHANGED <<sentinelVars, dest, purpose, recordVars, outcome, asked, fenced,
                   hostVars, faults>>

HandlerStep(c) ==
    Gate(c) \/ RequestBarrier(c) \/ SeeAck(c) \/ BarrierTimesOut(c) \/ Check(c)
        \/ PostRequest(c) \/ Sample(c) \/ Write(c) \/ TakeResponse(c) \/ GiveUp(c)
        \/ WithdrawRequest(c)

HandlerFails(c) == PostFails(c) \/ RecordFails(c)

-----------------------------------------------------------------------------
(* Time passes only when nobody has a step due.                            *)

HandlerDue(c) ==
    \/ pc[c] \in Handling \ {"ack", "await"}
    \/ At(c, "await") /\ (response[c] # "none" \/ waited[c] = Patience)

Tick ==
    /\ ~BrokerDue
    /\ \A c \in Requests : ~HandlerDue(c)
    /\ owner # NoRequest \/ \E c \in Requests : At(c, "await")
    /\ age' = IF owner = NoRequest THEN age ELSE age + 1
    /\ waited' = [c \in Requests |-> IF At(c, "await") THEN waited[c] + 1 ELSE waited[c]]
    /\ UNCHANGED <<sentinelVars, posted, wanted, worker, owner, answer, resolution,
                   response, grants, cut, scanning, pc, dest, purpose, recordVars,
                   outcome, asked, fenced, hostVars, faults>>

-----------------------------------------------------------------------------
(* The host, after the agent's command has ended: runPrepared.             *)

Stage(next) == phase' = next

AgentExits ==
    /\ phase = "running"
    /\ Stage("flush")
    /\ attempt' = 1
    /\ Signal(<<"host", 1>>)
    /\ UNCHANGED <<approvalVars, handlerVars, flushed, faults>>

\* Every 100 ms the host drops its request, with an acknowledgement that has
\* just come, and signals again under a new token.
FlushAgain ==
    /\ phase = "flush" /\ attempt < MaxAttempts
    /\ attempt' = attempt + 1
    /\ acks' = acks \ {<<"host", attempt>>}
    /\ queue' = Enqueued(BarrierOf(<<"host", attempt + 1>>))
    /\ UNCHANGED <<up, marked, marker, logged, opened>>
    /\ UNCHANGED <<approvalVars, handlerVars, phase, flushed, faults>>

\* Mutant: after the last request the host takes the flush for done.
FlushDoneAtLast ==
    /\ phase = "flush"
    /\ <<"host", attempt>> \in acks \/ attempt = MaxAttempts
    /\ Forget(<<"host", attempt>>)
    /\ flushed' = TRUE
    /\ Stage("sentinel")
    /\ UNCHANGED <<approvalVars, handlerVars, attempt, faults>>

FlushDone ==
    /\ phase = "flush"
    /\ <<"host", attempt>> \in acks
    /\ Forget(<<"host", attempt>>)
    /\ flushed' = TRUE
    /\ Stage("sentinel")
    /\ UNCHANGED <<approvalVars, handlerVars, attempt, faults>>

FlushTimesOut ==
    /\ phase = "flush"
    /\ ~up \/ faults < MaxFaults
    /\ faults' = IF up THEN faults + 1 ELSE faults
    /\ Stage("sentinel")
    /\ UNCHANGED <<sentinelVars, approvalVars, handlerVars, attempt, flushed>>

RemoveSentinel ==
    /\ phase = "sentinel"
    /\ IF up THEN StopSentinel ELSE UNCHANGED sentinelVars
    /\ Stage("gateway")
    /\ UNCHANGED <<approvalVars, handlerVars, attempt, flushed, faults>>

\* Removing the gateway's container ends its handlers where they are.
RemoveGateway ==
    /\ phase = "gateway"
    /\ pc' = [c \in Requests |-> IF pc[c] \in Handling THEN "killed" ELSE pc[c]]
    /\ writing' = [c \in Requests |-> FALSE]
    /\ flag' = [c \in Requests |-> FALSE]
    /\ Stage("broker")
    /\ UNCHANGED <<sentinelVars, approvalVars, dest, purpose, askVars, trail, fenced,
                   attempt, flushed, faults>>

StopBroker ==
    /\ phase = "broker"
    /\ ContextDone("cancelled")
    /\ Stage("drain")
    /\ UNCHANGED <<sentinelVars, handlerVars, attempt, flushed, faults>>

Drained ==
    /\ phase = "drain"
    /\ BrokerStopped
    /\ Stage(IF flushed THEN "collect" ELSE "uncollected")
    /\ UNCHANGED <<sentinelVars, approvalVars, handlerVars, attempt, flushed, faults>>

\* Evidence import: what Manager.Run accepts of the observations, which it
\* takes in the order of the log.
Kinds(c) == {trail[c][i].kind : i \in DOMAIN trail[c]}
Before(c, i) == {trail[c][j].kind : j \in 1..(i - 1)}

AcceptableAt(c, i) ==
    LET entry == trail[c][i]
    IN  CASE entry.kind = "required" ->
                 ~entry.contained /\ "required" \notin Before(c, i)
          [] entry.kind \in Outcomes ->
                 "required" \in Before(c, i) /\ Before(c, i) \cap Outcomes = {}
          [] entry.kind = "ALLOW" ->
                 /\ ~entry.contained
                 /\ \/ dest[c] = "allowed" /\ c \notin asked
                    \/ dest[c] \in Keys /\ "granted" \in Before(c, i)
          [] entry.kind = "DENY" ->
                 c \in asked => Before(c, i) \cap Outcomes # {}

Unresolved(c) == "required" \in Kinds(c) /\ Kinds(c) \cap Outcomes = {}

Acceptable ==
    /\ marker <=> (ContainOnDecoy /\ logged # {})
    /\ \A c \in Requests : /\ \A i \in DOMAIN trail[c] : AcceptableAt(c, i)
                           /\ ~Unresolved(c)

Collect ==
    /\ phase = "collect"
    /\ Stage(IF Acceptable THEN "accepted" ELSE "rejected")
    /\ UNCHANGED <<sentinelVars, approvalVars, handlerVars, attempt, flushed, faults>>

HostStep ==
    FlushAgain \/ FlushDone \/ RemoveSentinel \/ RemoveGateway \/ StopBroker
        \/ Drained \/ Collect

-----------------------------------------------------------------------------
\* The steps of one component leave the others alone.
SentinelStep ==
    /\ Handle
    /\ UNCHANGED <<approvalVars, handlerVars, hostVars, faults>>

AgentOpens ==
    /\ phase = "running"
    /\ \E d \in Decoys : Open(d)
    /\ UNCHANGED <<approvalVars, handlerVars, hostVars, faults>>

SentinelDies ==
    /\ phase \in {"running", "flush"}
    /\ StopSentinel
    /\ Fault
    /\ UNCHANGED <<approvalVars, handlerVars, hostVars>>

BrokerSteps ==
    /\ ScanEnds \/ \E r \in Requests : BrokerStep(r)
    /\ UNCHANGED <<sentinelVars, handlerVars, hostVars, faults>>

UserAnswers ==
    /\ \E r \in Requests, a \in Answers : Answer(r, a)
    /\ UNCHANGED <<sentinelVars, handlerVars, hostVars, faults>>

BrokerFails ==
    /\ \E r \in Requests : WorkerFails(r)
    /\ Fault
    /\ UNCHANGED <<sentinelVars, handlerVars, hostVars>>

\* The run's deadline passes or the user interrupts it.  The broker's context
\* ends with the run's, while the gateway serves until it is removed; flush and
\* teardown have contexts of their own.
RunEnds ==
    /\ Live
    /\ \E cause \in EarlyEnds : ContextDone(cause)
    /\ UNCHANGED <<sentinelVars, handlerVars, hostVars, faults>>

Next ==
    \/ \E c \in Requests :
          \/ HandlerStep(c)
          \/ HandlerFails(c)
          \/ \E d \in Destinations : Arrive(c, d)
    \/ SentinelStep \/ AgentOpens \/ SentinelDies
    \/ BrokerSteps \/ UserAnswers \/ BrokerFails \/ RunEnds
    \/ Tick
    \/ AgentExits \/ FlushTimesOut \/ HostStep

Spec == Init /\ [][Next]_vars

\* Handlers, sentinel, broker and host run, and time passes.  The agent need
\* not connect or exit, the user need not answer, nothing need fail.
Fairness ==
    /\ \A c \in Requests : WF_vars(HandlerStep(c))
    /\ WF_vars(SentinelStep)
    /\ WF_vars(BrokerSteps)
    /\ WF_vars(Tick)
    /\ WF_vars(HostStep \/ FlushTimesOut)

FairSpec == Spec /\ Fairness

-----------------------------------------------------------------------------
(* Properties.                                                             *)

(***************************************************************************)
(* The fence: no connection is forwarded whose last barrier was requested  *)
(* after the agent had opened a decoy, whatever the sentinel, the other    *)
(* handlers and the approval of the connection did in between              *)
(* (network-security.md:68-72; network_docker.go:120-142, docker.go:741).  *)
(***************************************************************************)
FenceHolds ==
    ContainOnDecoy =>
        \A c \in Requests : At(c, "forwarded") => fenced[c] = {}

(***************************************************************************)
(* A confirmed flush leaves no access behind: once the host goes on to     *)
(* collect, every decoy the agent opened is in the log, and marked         *)
(* (docker.go:822-826, 961-998; architecture.md:90).                       *)
(***************************************************************************)
EvidenceComplete ==
    flushed => /\ opened = logged
               /\ ContainOnDecoy /\ opened # {} => marker

(***************************************************************************)
(* An ASK destination is reached only on the user's word: an answer to     *)
(* this very request, or an answer for the session to a request with the   *)
(* same scheme, host, port and method.  Neither a timeout, a cancelled     *)
(* broker nor another request's single grant opens it                      *)
(* (model.go:163-227, approval_broker.go:133-182).                         *)
(***************************************************************************)
ApprovedByUser ==
    \A c \in Requests : At(c, "forwarded") /\ dest[c] \in Keys =>
        \/ answer[c] \in {"once", "session"}
        \/ \E r \in Requests : answer[r] = "session" /\ wanted[r] = dest[c]

(***************************************************************************)
(* The manager accepts whatever evidence the sidecars can leave, unless a  *)
(* component failed, a handler was killed with its approval still open, or *)
(* containment set in between the policy gate of a request and its         *)
(* APPROVAL_REQUIRED (manager.go:281-293, 338-345, 366, 405-413, 490-494). *)
(***************************************************************************)
EvidenceAgrees ==
    phase = "rejected" =>
        \/ faults > 0
        \/ \E c \in Requests : At(c, "killed") /\ Unresolved(c)
        \/ \E c \in Requests : [kind |-> "required", contained |-> TRUE] \in Range(trail[c])

(***************************************************************************)
(* Every connection ends: a handler neither waits for a sentinel that is   *)
(* gone nor for a user who never answers, and the broker's prompts follow  *)
(* one another (network_docker.go:120-136, 181-225, model.go:190-205).     *)
(***************************************************************************)
ConnectionsEnd ==
    \A c \in Requests : ~At(c, "idle") ~> pc[c] \in Ended

(***************************************************************************)
(* When the agent has exited, teardown comes to its end: the flush, the    *)
(* broker's workers and a prompt nobody answers cannot hold it             *)
(* (docker.go:244-311, approval_broker.go:194-204).                        *)
(***************************************************************************)
TeardownEnds ==
    phase # "running" ~> phase \in {"accepted", "rejected", "uncollected"}

(***************************************************************************)
(* The comment at model.go:204-205 says that an approval which arrives     *)
(* after its operation is no longer live must not be reusable.  While the  *)
(* agent runs, a grant for the session is stored only when the gateway     *)
(* still waits for the request it answers.                                 *)
(***************************************************************************)
GrantsAreLive ==
    [][phase = "running" =>
           \A k \in grants' \ grants :
               \E c \in Requests : /\ owner = c /\ wanted[c] = k
                                   /\ pc[c] \in {"require", "await"}]_vars

-----------------------------------------------------------------------------
(* The inductive invariant, by what it is about.                           *)

\* Every access the agent made while the sentinel ran is in the log or queued
\* for it, and containment is marked before an access is logged.
Outstanding(t) == t \in acks \/ \E i \in DOMAIN queue : queue[i] = BarrierOf(t)

SentinelSound ==
    /\ queue \in Seq({AccessTo(d) : d \in Decoys} \cup {BarrierOf(t) : t \in Tokens})
    /\ ~up => queue = <<>>
    /\ marked => queue # <<>> /\ Head(queue).kind = "access"
    /\ \A i \in DOMAIN queue : queue[i].kind = "access" => queue[i].of \in opened
    /\ logged \subseteq opened
    /\ up => \A d \in opened \ logged : \E i \in DOMAIN queue : queue[i] = AccessTo(d)
    /\ marker => ContainOnDecoy /\ opened # {}
    /\ ContainOnDecoy /\ (marked \/ logged # {}) => marker

\* The accesses of `earlier` are logged before the barrier t is acknowledged.
Behind(t, earlier) ==
    /\ t \in acks => earlier \subseteq logged
    /\ \A i \in DOMAIN queue :
          queue[i] = BarrierOf(t) =>
              \A d \in earlier : d \in logged \/ \E j \in 1..(i - 1) : queue[j] = AccessTo(d)

Beginning == {"idle", "gate", "post", "require", "await", "outcome"}
AtBarrier == {"signal", "ack", "check"}

\* The connection barrier of a handler is its last, and is requested once.
FenceSound ==
    \A c \in Requests :
        /\ pc[c] \in Beginning => purpose[c] = "policy"
        /\ purpose[c] # "connection" \/ At(c, "signal") => ~Outstanding(<<c, "connection">>)
        /\ purpose[c] = "connection" /\ At(c, "ack") => Behind(<<c, "connection">>, fenced[c])
        /\ ContainOnDecoy =>
              /\ purpose[c] = "connection" /\ At(c, "check") => fenced[c] \subseteq logged
              /\ pc[c] \in {"record", "forwarded"} => fenced[c] = {}

\* The host asks for its barriers when the agent has ended.
HostSound ==
    /\ phase = "running" =>
          ~flushed /\ \A n \in 1..MaxAttempts : ~Outstanding(<<"host", n>>)
    /\ phase # "running" => attempt # 0
    /\ \A n \in 1..MaxAttempts : Behind(<<"host", n>>, opened)
    /\ flushed => opened = logged

\* A request that the broker has heard of has its key.
Named ==
    \A r \in Requests :
        r \in posted \/ worker[r] # "none" \/ owner = r => wanted[r] \in Keys

\* A flag is in hand only for the records that sample the marker, and only a
\* request with a key is posted.
InStep ==
    \A c \in Requests :
        /\ writing[c] => pc[c] \in Sampled
        /\ At(c, "post") => dest[c] \in Keys

FenceInvariant == BoundaryTypeOK /\ SentinelSound /\ Named /\ InStep /\ FenceSound /\ HostSound

\* What the broker resolves and the grants it keeps go back to answers.
UserAllows(r, k) ==
    \/ answer[r] \in {"once", "session"}
    \/ \E q \in Requests : answer[q] = "session" /\ wanted[q] = k

Unasked(r) ==
    /\ r \notin posted /\ worker[r] = "none" /\ owner # r
    /\ answer[r] = "none" /\ resolution[r] = "none" /\ response[r] = "none"
    /\ outcome[r] = "unavailable"

AnswersSound ==
    /\ \A k \in grants : \E q \in Requests : answer[q] = "session" /\ wanted[q] = k
    /\ \A r \in Requests :
          /\ r \notin asked => Unasked(r)
          /\ resolution[r] \in Granting => UserAllows(r, wanted[r])
          /\ response[r] \in Granting => UserAllows(r, wanted[r])

\* A handler has asked from its request file on, for its own destination, and
\* goes on to the last barrier only where it was granted or need not ask.
Unposted(c) == pc[c] \in {"idle", "gate", "post"} \/ (pc[c] \in AtBarrier /\ purpose[c] = "policy")
Passed(c) == (pc[c] \in AtBarrier /\ purpose[c] # "policy") \/ At(c, "record")

AsksSound ==
    \A c \in Requests :
        /\ Unposted(c) => c \notin asked
        /\ pc[c] \in {"require", "await", "outcome"} => wanted[c] = dest[c] /\ c \in asked
        /\ pc[c] \in {"require", "await", "outcome"} => dest[c] \in Keys
        /\ outcome[c] = "granted" => UserAllows(c, dest[c])
        /\ (Passed(c) \/ At(c, "forwarded")) /\ dest[c] \in Keys => outcome[c] = "granted"

ApprovalInvariant == FenceInvariant /\ AnswersSound /\ AsksSound

\* The records a handler has left when none has failed, by how far it has come.
Required(f) == [kind |-> "required", contained |-> f]
Plain(k) == [kind |-> k, contained |-> FALSE]
Silent(c) == trail[c] = <<>>
Pending(c) == \E f \in BOOLEAN : trail[c] = <<Required(f)>>
Settled(c, o) == \E f \in BOOLEAN : trail[c] = <<Required(f), Plain(o)>>

Admitted(c) == \/ dest[c] = "allowed" /\ c \notin asked /\ Silent(c)
               \/ dest[c] \in Keys /\ Settled(c, "granted")

Story(c) ==
    /\ Unposted(c) \/ At(c, "require") => Silent(c)
    /\ pc[c] \in {"await", "outcome"} => Pending(c)
    /\ Passed(c) => Admitted(c)
    /\ pc[c] \in {"withdraw", "refuse"} => \/ c \notin asked /\ Silent(c)
                                         \/ \E o \in Outcomes : Settled(c, o)
    /\ At(c, "forwarded") =>
          \/ dest[c] = "allowed" /\ c \notin asked /\ trail[c] = <<Plain("ALLOW")>>
          \/ dest[c] \in Keys /\ \E f \in BOOLEAN :
                trail[c] = <<Required(f), Plain("granted"), Plain("ALLOW")>>
    /\ At(c, "refused") =>
          \/ c \notin asked /\ trail[c] = <<Plain("DENY")>>
          \/ \E f \in BOOLEAN, o \in Outcomes :
                trail[c] = <<Required(f), Plain(o), Plain("DENY")>>
    /\ At(c, "killed") => Silent(c) \/ Pending(c) \/ \E o \in Outcomes : Settled(c, o)

RecordsSound ==
    \A c \in Requests :
        /\ ~writing[c] \/ At(c, "record") => ~flag[c]
        /\ faults = 0 => Story(c)

\* Nobody writes any more when the evidence is judged.
TeardownSound ==
    /\ phase \notin {"running", "flush", "sentinel", "gateway"} =>
          \A c \in Requests : pc[c] \in {"idle"} \cup Ended
    /\ phase = "collect" => flushed
    /\ EvidenceAgrees

EvidenceInvariant == ApprovalInvariant /\ RecordsSound /\ TeardownSound
=============================================================================
