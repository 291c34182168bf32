---------------------------- MODULE EvidenceTrail ----------------------------
(***************************************************************************)
(* From what happens in a run to the report about it: the sidecars write   *)
(* their log (runtime/network_docker.go, runtime/docker.go), the manager   *)
(* turns the log into events (session/manager.go, Run), and later somebody *)
(* asks for the incidents (Incidents, Provenance).                         *)
(*                                                                         *)
(* A record is made in steps: the marker is looked at, the clock is read   *)
(* in whole seconds, the line is appended.  Several writers do so at once, *)
(* so lines need not be in the order of their seconds.                     *)
(***************************************************************************)
EXTENDS Incidents

CONSTANTS
    Connections,    \* connections to the gateway; also the ids of their approval requests
    Scenarios       \* what varies between sessions, and how much happens in one: see Scenario

Destinations == {"allowed", "ask", "other"}
Answers ==
    {<<"APPROVAL_GRANTED", "USER_DECISION">>, <<"APPROVAL_GRANTED", "SESSION_APPROVAL">>,
     <<"APPROVAL_DENIED", "USER_DECISION">>, <<"APPROVAL_EXPIRED", "AUTOMATIC_FAIL_CLOSED">>,
     <<"APPROVAL_UNAVAILABLE", "AUTOMATIC_FAIL_CLOSED">>}

\* contain, severity: on_decoy_access of ghost.yaml, "none" for no recorded incident; prompt: severity
\* of a finding in the workspace, "none" for none; limited: its inspection met a limit; decoys: in the
\* order of their creation; denied: resources of the home that are left absent; reached: where the
\* agent tries to connect to; answers: what may become of a request for approval, with the source of
\* the answer.  Bounds: seconds that pass, accesses, lines of the log.
Scenario(s) ==
    /\ s.contain \in BOOLEAN /\ s.severity \in {"none", "LOW", "MEDIUM", "HIGH"}
    /\ s.prompt \in Range(Severities) \cup {"none"}
    /\ s.reached \subseteq Destinations /\ s.answers \subseteq Answers
    /\ {s.seconds, s.accesses, s.lines} \subseteq Nat /\ s.decoys \in Seq(Range(s.decoys))
    /\ s.limited \in BOOLEAN /\ s.denied \in Seq(Range(s.denied))

ASSUME TrailAssumption ==
    NoRequest \notin Connections /\ IsFiniteSet(Connections) /\ \A s \in Scenarios : Scenario(s)

VARIABLES
    config,         \* the member of Scenarios that this session is
    stage,          \* "starting", "running", "stopped", "stored", "reading"
    started,        \* whether the agent ever ran
    clock,          \* the second it is
    marker,         \* the containment marker
    sentinel,       \* the line the sentinel's handler is making, NoLine when idle
    conns,          \* per connection, the state of its handler
    log,            \* events.jsonl
    stored          \* the session's events

worldVars == <<clock, marker, sentinel, conns, log>>
vars == <<config, stage, started, worldVars, stored, replayVars>>

NoLine == [kind |-> "none"]

\* A line of the log; saw is the marker its writer saw, marked what it is at the append.
Line(kind, type, resource, rid, source, saw) ==
    [kind |-> kind, type |-> type, resource |-> resource, rid |-> rid, source |-> source,
     saw |-> saw, unix |-> Never, marked |-> FALSE]

\* A handler: its last line, where it is bound for, the id of its approval request, the line it is making.
Unconnected == [c \in Connections |-> [last |-> "none", to |-> "none", rid |-> NoRequest, line |-> NoLine]]

-----------------------------------------------------------------------------
(* The run: writers of the log. *)

\* Lines written or being made.
Lines == Len(log) + Cardinality({c \in Connections : conns[c].line # NoLine}) + (IF sentinel = NoLine THEN 0 ELSE 1)

Running == stage = "running" /\ UNCHANGED <<config, stage, started, stored, replayVars>>

Launch ==
    /\ stage = "starting"
    /\ stage' = "running" /\ started' = TRUE
    /\ UNCHANGED <<config, worldVars, stored, replayVars>>

\* The runtime fails before the command runs; nothing will have been observed.
LaunchFails ==
    /\ stage = "starting"
    /\ stage' = "stopped"
    /\ UNCHANGED <<config, started, worldVars, stored, replayVars>>

Tick ==
    /\ Running
    /\ clock < config.seconds
    /\ clock' = clock + 1
    /\ UNCHANGED <<marker, sentinel, conns, log>>

\* sentinel-handler: the marker, then the second, then the line.
Touch(d) ==
    /\ Running
    /\ sentinel = NoLine
    /\ Cardinality({i \in DOMAIN log : log[i].kind = "access"}) < config.accesses /\ Lines < config.lines
    /\ marker' = (marker \/ config.contain)
    /\ sentinel' = Line("access", "DECOY_ACCESS", d, NoRequest, "none", marker')
    /\ UNCHANGED <<clock, conns, log>>

StampAccess ==
    /\ Running
    /\ sentinel # NoLine /\ sentinel.unix = Never
    /\ sentinel' = [sentinel EXCEPT !.unix = clock]
    /\ UNCHANGED <<clock, marker, conns, log>>

AppendAccess ==
    /\ Running
    /\ sentinel # NoLine /\ sentinel.unix # Never
    /\ log' = Append(log, [sentinel EXCEPT !.marked = marker])
    /\ sentinel' = NoLine
    /\ UNCHANGED <<clock, marker, conns>>

\* gateway-handler, as far as its lines go (Gateway has the rest).
NetworkLine(c, type) == Line("network", type, conns[c].to, conns[c].rid, "none", marker)
ApprovalLine(c, type, source) == Line("approval", type, conns[c].to, conns[c].rid, source, marker)

\* What a decision may be: ALLOW is not recorded of a contained session, and any connection may be
\* denied, for a gate, a barrier or a name that failed.
DecisionTypes == IF marker THEN {"NETWORK_DENY"} ELSE {"NETWORK_ALLOW", "NETWORK_DENY"}

\* One destination is allowed, one refused and one must be asked about, whatever has become of
\* the marker since the gate.
FirstLines(c) ==
    LET bound(d, type) == [NetworkLine(c, type) EXCEPT !.resource = d]
        asked == [ApprovalLine(c, "APPROVAL_REQUIRED", "AUTOMATIC_POLICY") EXCEPT !.resource = "ask", !.rid = c]
    IN {bound(d, "NETWORK_DENY") : d \in config.reached}
       \cup {l \in {bound("allowed", type) : type \in DecisionTypes} \cup {asked} : l.resource \in config.reached}

\* What it may write next.
NextLines(c) ==
    CASE conns[c].last = "none" -> FirstLines(c)
      [] conns[c].last = "APPROVAL_REQUIRED" -> {ApprovalLine(c, answer[1], answer[2]) : answer \in config.answers}
      [] conns[c].last = "APPROVAL_GRANTED" -> {NetworkLine(c, type) : type \in DecisionTypes}
      [] conns[c].last \in Outcomes \ {"APPROVAL_GRANTED"} -> {NetworkLine(c, "NETWORK_DENY")}
      [] OTHER -> {}

\* record and record_approval: the marker first, ...
Compose(c) ==
    /\ Running
    /\ conns[c].line = NoLine /\ Lines < config.lines
    /\ \E line \in NextLines(c) :
        conns' = [conns EXCEPT ![c] = [@ EXCEPT !.to = line.resource, !.rid = line.rid, !.line = line]]
    /\ UNCHANGED <<clock, marker, sentinel, log>>

\* ... then the second, ...
Stamp(c) ==
    /\ Running
    /\ conns[c].line # NoLine /\ conns[c].line.unix = Never
    /\ conns' = [conns EXCEPT ![c].line.unix = clock]
    /\ UNCHANGED <<clock, marker, sentinel, log>>

\* ... then the line.
AppendLine(c) ==
    /\ Running
    /\ conns[c].line # NoLine /\ conns[c].line.unix # Never
    /\ log' = Append(log, [conns[c].line EXCEPT !.marked = marker])
    /\ conns' = [conns EXCEPT ![c] = [@ EXCEPT !.last = conns[c].line.type, !.line = NoLine]]
    /\ UNCHANGED <<clock, marker, sentinel>>

\* The command has ended and the sidecars are gone; lines that were not appended are lost.
Stop ==
    /\ stage = "running"
    /\ stage' = "stopped"
    /\ UNCHANGED <<config, started, worldVars, stored, replayVars>>

-----------------------------------------------------------------------------
(* Manager.Run: what is stored before the command runs, and of its log. *)

\* Mutant: the id of the event before.
PutStale(events, e) == Append(events, [e EXCEPT !.id = Len(events)])

Put(events, e) == Append(events, [e EXCEPT !.id = Len(events) + 1])
PutAll(events, more) == events \o [i \in DOMAIN more |-> [more[i] EXCEPT !.id = Len(events) + i]]

\* Time: a second has more ticks than the log has lines, so that a line's number fits into
\* its second.  PROCESS_START comes late in second 0, what came before it earlier.
TicksPerSecond == config.lines + 2
StartedAt == TicksPerSecond - 1
AfterRun == (config.seconds + 1) * TicksPerSecond

OfDecoys ==
    [i \in 1 .. 2 * Len(config.decoys) |->
        LET path == config.decoys[(i + 1) \div 2]
        IN IF i % 2 = 1 THEN Event("DECOY_CREATED", 0, path, "none") ELSE Event("POLICY_SHADOW", 0, path, "SHADOW")]

Startup ==
    <<Event("SESSION_START", 0, "none", "none"), Event("UNTRUSTED_CONTENT_OBSERVED", 0, "AGENTS.md", "none")>>
    \o (IF config.prompt = "none" THEN <<>>
        ELSE <<[Event("PROMPT_INJECTION_SUSPECTED", 0, "AGENTS.md", "none") EXCEPT !.severity = config.prompt]>>)
    \o (IF config.limited THEN <<Event("RESOURCE_LIMIT_TRIGGERED", 0, "workspace", "none")>> ELSE <<>>)
    \o <<Event("POLICY_ALLOW", 0, "workspace", "ALLOW"), Event("POLICY_ALLOW", 0, "network", "ALLOW"),
         Event("POLICY_ASK", 0, "network", "ASK")>>
    \o OfDecoys
    \o [i \in DOMAIN config.denied |-> Event("POLICY_DENY", 0, config.denied[i], "DENY")]
    \o <<Event("PROCESS_START", StartedAt, "none", "none")>>

\* collectObservations dates a line by its second and its number; runtimeEvidenceTime moves
\* what seems to be older than PROCESS_START to it.
DetectedAt(i) == log[i].unix * TicksPerSecond + (i - 1)
EvidenceTime(i) == IF DetectedAt(i) < StartedAt THEN StartedAt ELSE DetectedAt(i)

FromLine(i, type, decision) ==
    [id |-> 0, ts |-> EvidenceTime(i), type |-> type, resource |-> log[i].resource, decision |-> decision,
     rid |-> log[i].rid, ref |-> 0, source |-> log[i].source, severity |-> "none", marked |-> log[i].marked]

\* Only the first access to a decoy is evidence.
FirstAccess(i) == \A j \in 1 .. i - 1 : log[j].resource # log[i].resource
Accesses == {i \in DOMAIN log : log[i].kind = "access" /\ FirstAccess(i)}

\* An access is stored as DECOY_ACCESS and what follows from it; the first of a contained
\* session also as the activation.
ImportAccess(events, i) ==
    LET activation == config.contain /\ \A j \in Accesses : i <= j
    IN PutAll(events,
        <<FromLine(i, "DECOY_ACCESS", "SHADOW"),
          [FromLine(i, "SENSITIVE_RESOURCE_REQUESTED", "SHADOW") EXCEPT !.ref = Len(events) + 1]>>
        \o (IF activation THEN <<[FromLine(i, "CONTAINMENT_ACTIVATED", "DENY") EXCEPT !.resource = "none"]>> ELSE <<>>)
        \o (IF config.severity = "none" THEN <<>>
            ELSE <<[FromLine(i, "SECURITY_INCIDENT", "SHADOW") EXCEPT !.severity = config.severity]>>))

OfRequest(events, rid, types) == {k \in DOMAIN events : events[k].rid = rid /\ events[k].type \in types}

\* APPROVAL_REQUIRED is stored with the request it holds up, an outcome with a reference to it.
ImportApproval(events, i) ==
    LET type == log[i].type
    IN IF type = "APPROVAL_REQUIRED"
       THEN PutAll(events, <<FromLine(i, "NETWORK_REQUEST", "none"), FromLine(i, type, "ASK")>>)
       ELSE Put(events, [FromLine(i, type, IF type = "APPROVAL_GRANTED" THEN "ALLOW" ELSE "DENY") EXCEPT
                !.ref = CHOOSE k \in OfRequest(events, log[i].rid, {"APPROVAL_REQUIRED"}) : TRUE])

\* A decision without an approval is stored with a request of its own.
ImportNetwork(events, i) ==
    LET decision == FromLine(i, log[i].type, IF log[i].type = "NETWORK_ALLOW" THEN "ALLOW" ELSE "DENY")
    IN IF log[i].rid = NoRequest THEN PutAll(events, <<FromLine(i, "NETWORK_REQUEST", "none"), decision>>)
       ELSE Put(events, decision)

\* What the manager accepts of a line, given what it has stored of those before.
Acceptable(events, i) ==
    LET asked == OfRequest(events, log[i].rid, {"APPROVAL_REQUIRED"})
        answered == OfRequest(events, log[i].rid, Outcomes)
        granted == OfRequest(events, log[i].rid, {"APPROVAL_GRANTED"})
    IN CASE log[i].type = "APPROVAL_REQUIRED" -> asked = {} /\ ~log[i].saw
         [] log[i].type \in Outcomes -> asked # {} /\ answered = {}
         [] log[i].type = "NETWORK_ALLOW" -> ~log[i].saw /\ (log[i].resource = "allowed" \/ granted # {})
         [] log[i].type = "NETWORK_DENY" -> log[i].rid = NoRequest \/ answered # {}
         [] OTHER -> TRUE

ImportLine(done, i) ==
    LET taken == CASE log[i].kind = "access" -> ImportAccess(done.events, i)
                   [] log[i].kind = "approval" -> ImportApproval(done.events, i)
                   [] log[i].kind = "network" -> ImportNetwork(done.events, i)
    IN IF ~done.ok \/ (log[i].kind = "access" /\ ~FirstAccess(i)) THEN done
       ELSE IF Acceptable(done.events, i) THEN [done EXCEPT !.events = taken]
       ELSE [done EXCEPT !.ok = FALSE]

\* Containment and accesses must tell the same story.
Coherent == config.contain => (marker <=> Accesses # {})

\* The observations of all kinds in the order of their lines, as far as the k-th.
ImportedTo[k \in 0 .. Len(log)] ==
    IF k = 0 THEN [events |-> PutAll(<<>>, Startup), ok |-> Coherent] ELSE ImportLine(ImportedTo[k - 1], k)

\* Each request must have an outcome, or the run fails.
Imported ==
    LET done == ImportedTo[Len(log)]
        unanswered == {c \in Connections : /\ OfRequest(done.events, c, {"APPROVAL_REQUIRED"}) # {}
                                           /\ OfRequest(done.events, c, Outcomes) = {}}
    IN IF done.ok /\ unanswered = {} /\ started
       THEN Put(done.events, Event("PROCESS_EXIT", AfterRun, "none", "none"))
       ELSE done.events

\* What reaches the store: all of it, or what was there before Ghost died or the store failed.
\* If Ghost did not get to the end of the session, the next invocation may have, and has then
\* recorded the marker it found.  SESSION_END, which nobody reads, is left out.
Store ==
    /\ stage = "stopped"
    /\ stage' = "stored"
    /\ LET all == Imported
           activation == [Event("CONTAINMENT_ACTIVATED", AfterRun + 1, "none", "DENY") EXCEPT !.marked = TRUE]
       IN \E n \in 1 .. Len(all), recovered \in BOOLEAN :
            stored' = IF recovered /\ marker THEN Put(SubSeq(all, 1, n), activation) ELSE SubSeq(all, 1, n)
    /\ clock' = 0 /\ marker' = FALSE /\ sentinel' = NoLine /\ conns' = Unconnected /\ log' = <<>>
    /\ UNCHANGED <<config, started, replayVars>>

\* Somebody asks for the incidents.
Read ==
    /\ stage = "stored"
    /\ stage' = "reading"
    /\ Begin(Range(stored))
    /\ UNCHANGED <<config, started, worldVars, stored>>

Replay ==
    /\ stage = "reading"
    /\ ReplayStep
    /\ UNCHANGED <<config, stage, started, worldVars, stored>>

Done == Replayed /\ UNCHANGED vars

Init ==
    /\ config \in Scenarios
    /\ stage = "starting" /\ started = FALSE
    /\ clock = 0 /\ marker = FALSE /\ sentinel = NoLine /\ conns = Unconnected /\ log = <<>>
    /\ stored = <<>>
    /\ ReplayInit

Next ==
    \/ Launch \/ LaunchFails \/ Tick \/ StampAccess \/ AppendAccess \/ Stop \/ Store \/ Read \/ Replay \/ Done
    \/ \E d \in Range(config.decoys) : Touch(d)
    \/ \E c \in Connections : Compose(c) \/ Stamp(c) \/ AppendLine(c)

Spec == Init /\ [][Next]_vars

-----------------------------------------------------------------------------
(* What the stored events and the report hold. *)

Events == Range(ordered)
OfType(type) == {e \in Events : e.type = type}
Cited(cited, type) == {e \in OfType(type) : e.id \in cited}
Statements(key, steps) == {s \in incidents[key].timeline : s.step \in steps}
Denials == UNION {{key} \X Statements(key, {"NETWORK_DENIED"}) : key \in DOMAIN incidents}

\* The trail's state has its types: events are stored with the ids the store gives them, and an
\* incident cites nothing but events that exist.
TrailTypeOK ==
    /\ config \in Scenarios /\ started \in BOOLEAN /\ marker \in BOOLEAN /\ clock \in 0 .. config.seconds
    /\ stage \in {"starting", "running", "stopped", "stored", "reading"}
    /\ Lines <= config.lines
    /\ \A i \in DOMAIN stored : stored[i].id = i
    /\ next \in 1 .. Len(ordered) + 1
    /\ \A key \in DOMAIN incidents :
        /\ incidents[key].severity \in Range(Severities)
        /\ \A id \in incidents[key].evidence : \E e \in Events : e.id = id

\* reconstruct.go pairs a denial with the last request still pending to the same destination.
\* However requests of two connections are interleaved, each denial is in the timeline of
\* exactly one incident; one that needed no approval is cited with its own request, no request
\* is cited for two timelines, and none for more denials, or for another destination.
DenialsAccountedFor ==
    Replayed =>
        /\ \A e \in OfType("NETWORK_DENY") : Cardinality({d \in Denials : e.id \in d[2].cited}) = 1
        /\ \A d \in Denials :
            LET denied == Cited(d[2].cited, "NETWORK_DENY")
                requested == Cited(d[2].cited, "NETWORK_REQUEST")
            IN /\ \A e \in denied : e.rid = NoRequest => e.id - 1 \in d[2].cited
               /\ Cardinality(requested) <= Cardinality(denied)
               /\ \A q \in requested : \E e \in denied : q.resource = e.resource /\ BeforeOrEqual(q, e)
               /\ \A other \in Denials \ {d} : requested \cap Cited(other[2].cited, "NETWORK_REQUEST") = {}

\* All activations of a session are the action of one incident: that of the decoy accessed
\* first, if an access was stored.  Every denial after the first activation belongs to it, and
\* to no violation of network policy.
ActivationsHaveOneOwner ==
    LET activations == OfType("CONTAINMENT_ACTIVATED")
        acting == {key \in DOMAIN incidents : incidents[key].action # {}}
    IN Replayed =>
        IF activations = {} THEN acting = {}
        ELSE \E key \in acting :
            /\ acting = {key}
            /\ incidents[key].action = {e.id : e \in activations}
            /\ OfType("DECOY_ACCESS") # {} => key = DecoyNode(Earliest(OfType("DECOY_ACCESS")).resource)
            /\ \A e \in OfType("NETWORK_DENY") :
                BeforeOrEqual(Earliest(activations), e) =>
                    /\ e.id \in incidents[key].evidence
                    /\ OfDenial(e) \notin DOMAIN incidents

\* What a report says was denied after containment was recorded when the marker stood.
LaterIsLater ==
    \A key \in {contained} \ {NoIncident} :
        \A s \in Statements(key, {"NETWORK_DENIED"}) : \A e \in Cited(s.cited, "NETWORK_DENY") : e.marked

\* What a report makes of containment is true although recovery may record the activation again
\* after a crash between CONTAINMENT_ACTIVATED and the end of the session, and although the
\* sidecars write concurrently and date their lines in whole seconds, some of them before
\* PROCESS_START.
ContainmentOwned == ActivationsHaveOneOwner /\ LaterIsLater

\* A severity is backed by evidence of its incident, and an incident that later activity has
\* joined is at least HIGH, whatever severity the configuration or the detector gave it.
SeverityBacked ==
    \A key \in DOMAIN incidents :
        LET i == incidents[key]
        IN /\ i.backing # {} /\ i.backing \subseteq i.evidence
           /\ (i.type = "DECOY_ACCESS_WITH_NETWORK_ACTIVITY" \/ Statements(key, {"LATER_SECURITY_ACTIVITY"}) # {})
                => Rank(i.severity) >= Rank("HIGH")

\* A command scope is drawn only for a command that ran.
NoScopeWithoutRun ==
    (stage = "reading" /\ Process \in RelevantNodes(graph, {e.id : e \in Events})) => started

\* A report claims no more and no less than its evidence shows: in its severities, and in the
\* command scope, which the PROCESS_START of a launch that failed must not make.
ClaimsBacked == SeverityBacked /\ NoScopeWithoutRun

\* What was asked and answered is told of a denial if and only if it was about that very
\* connection, not another one to the same destination.
ApprovalsMatch ==
    Replayed => \A key \in DOMAIN incidents :
        LET denied == UNION {Cited(s.cited, "NETWORK_DENY") : s \in Statements(key, {"NETWORK_DENIED"})}
            told == UNION {s.cited : s \in Statements(key, {"APPROVAL_REQUIRED"} \cup Outcomes)}
        IN told = {a.id : a \in {b \in Events : /\ b.type \in {"APPROVAL_REQUIRED"} \cup Outcomes
                                                /\ \E e \in denied : e.rid = b.rid}}

\* docs/incidents.md: a valid severity in a SECURITY_INCIDENT controls the decoy incident, which
\* has the HIGH it was opened with otherwise.  (Of a session, all of them have one severity.)
RecordedSeverityControls ==
    Replayed => \A e \in OfType("SECURITY_INCIDENT") :
        LET incident == incidents[DecoyNode(e.resource)]
        IN incident.type = "DECOY_ACCESS" => incident.severity = e.severity
=============================================================================
