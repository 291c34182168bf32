------------------------------ MODULE Incidents ------------------------------
(***************************************************************************)
(* internal/incidents/reconstruct.go: the incidents of one session, from   *)
(* its stored events and the graph of Provenance.  The events are taken in *)
(* order, each by the consumer of its type; incidents has one record for   *)
(* each incident opened so far.                                            *)
(*                                                                         *)
(* A statement of a timeline is known by its step and by what its text     *)
(* speaks about; wording, summaries, times and the order in which a report *)
(* lists things are left out.                                              *)
(***************************************************************************)
EXTENDS Provenance

VARIABLES
    ordered,        \* the events, in order
    next,           \* the event to be consumed
    graph,          \* provenance.Build of the same events
    incidents,      \* what has been opened, by key
    shadows,        \* shadowByDecoy
    pending,        \* pendingRequests: by destination, the last request not yet denied
    latest,         \* latestDecoy
    contained,      \* containedIncident
    prompts,        \* promptEvidence
    untrusted,      \* untrustedEvidence
    processStart,   \* processStartID
    approvals       \* approvalEvidence

replayVars == <<ordered, next, graph, incidents, shadows, pending, latest, contained,
                prompts, untrusted, processStart, approvals>>
contextVars == <<ordered, graph>>

\* Keys of incidents.
NoIncident == <<"none", 0>>
OfDecoy(n) == n
OfPrompts == <<"prompts", 0>>
OfContainment(e) == <<"containment", e.id>>
OfDenial(e) == <<"denial", e.id>>

Never == 0 - 1
Severities == <<"LOW", "MEDIUM", "HIGH", "CRITICAL">>
Rank(severity) == CHOOSE i \in DOMAIN Severities : Severities[i] = severity

Incident(type, severity, cited) ==
    [type |-> type, severity |-> severity, backing |-> cited, recorded |-> FALSE,
     activated |-> Never, action |-> {}, timeline |-> {}, evidence |-> {}]

Statement(step, about, cited) == [step |-> step, about |-> about, cited |-> cited]

\* The same words are said once, with all the evidence there is for them.
AddStatements(incident, statements) ==
    LET all == incident.timeline \cup statements
        saying(s) == {t \in all : t.step = s.step /\ t.about = s.about}
    IN [incident EXCEPT !.timeline = {[s EXCEPT !.cited = UNION {t.cited : t \in saying(s)}] : s \in all},
                        !.evidence = @ \cup UNION {s.cited : s \in statements}]

AddStatement(incident, s) == AddStatements(incident, {s})

Raise(incident, severity, cited) ==
    IF Rank(incident.severity) < Rank(severity)
    THEN [incident EXCEPT !.severity = severity, !.backing = cited]
    ELSE incident

EventOf(id) == CHOOSE e \in Range(ordered) : e.id = id

\* A map with one of its entries new or replaced.
Updated(map, key, value) == [k \in DOMAIN map \cup {key} |-> IF k = key THEN value ELSE map[k]]
With(key, incident) == Updated(incidents, key, incident)

-----------------------------------------------------------------------------
(* Reconstruct, up to its loop, and what the consumers share. *)

\* What consume has a case for; it passes over the other events.
Consumed ==
    {"PROCESS_START", "UNTRUSTED_CONTENT_OBSERVED", "POLICY_SHADOW", "DECOY_ACCESS",
     "PROMPT_INJECTION_SUSPECTED", "SENSITIVE_RESOURCE_REQUESTED", "SECURITY_INCIDENT",
     "CONTAINMENT_ACTIVATED", "NETWORK_REQUEST", "APPROVAL_REQUIRED", "NETWORK_DENY"} \cup Outcomes

NextOf(events, i) ==
    CHOOSE j \in i .. Len(events) + 1 :
        /\ j \in DOMAIN events => events[j].type \in Consumed
        /\ \A k \in i .. j - 1 : events[k].type \notin Consumed

Begin(events) ==
    /\ ordered' = Ordered(events)
    /\ graph' = Build(ordered')
    /\ next' = NextOf(ordered', 1)
    /\ UNCHANGED <<incidents, shadows, pending, latest, contained, prompts, untrusted, processStart, approvals>>

ReplayInit ==
    /\ ordered = <<>> /\ next = 1 /\ graph = <<>>
    /\ incidents = <<>> /\ shadows = <<>> /\ pending = <<>>
    /\ latest = NoIncident /\ contained = NoIncident
    /\ prompts = <<>> /\ untrusted = {} /\ processStart = 0 /\ approvals = {}

\* The next event is of one of the types.
Taking(types) ==
    /\ next \in DOMAIN ordered
    /\ ordered[next].type \in types
    /\ next' = NextOf(ordered, next + 1)

\* exposureEvidenceBefore: what was observed of the workspace, and the start of the command.
ExposureBefore(e) ==
    {id \in untrusted \cup ({processStart} \ {0}) : BeforeOrEqual(EventOf(id), e)}

\* Of an incident or of nothing, when fewer than two events speak of exposure.
Exposed(incident, e) ==
    IF Cardinality(ExposureBefore(e)) < 2 THEN incident
    ELSE AddStatement(incident, Statement("UNTRUSTED_CONTENT_EXPOSURE", None, ExposureBefore(e) \cup {e.id}))

\* Mutant: what happened later leaves the severity as it is.
EnrichedOnly(incident, e, about) ==
    IF prompts = <<>> THEN incident
    ELSE AddStatement(incident, Statement("LATER_SECURITY_ACTIVITY", about, Range(prompts) \cup {e.id}))

\* enrichPromptIncident: something later happened in a session with suspicious instructions.
Enriched(incident, e, about) ==
    LET cited == Range(prompts) \cup {e.id}
    IN IF prompts = <<>> \/ ~BeforeOrEqual(EventOf(prompts[Len(prompts)]), e) THEN incident
       ELSE Raise(AddStatement(incident, Statement("LATER_SECURITY_ACTIVITY", about, cited)), "HIGH", cited)

\* The incidents after the prompt incident, if there is one, has learnt of e; of an access also
\* with what it was exposed to.
Prompted(all, e, about) ==
    IF OfPrompts \notin DOMAIN all THEN all
    ELSE [all EXCEPT ![OfPrompts] = Enriched(IF e.type = "DECOY_ACCESS" THEN Exposed(@, e) ELSE @, e, about)]

-----------------------------------------------------------------------------
(* consume, by type. *)

ConsumeStart ==
    /\ Taking({"PROCESS_START"})
    /\ processStart' = IF processStart = 0 THEN ordered[next].id ELSE processStart
    /\ UNCHANGED <<contextVars, incidents, shadows, pending, latest, contained, prompts, untrusted, approvals>>

ConsumeUntrusted ==
    /\ Taking({"UNTRUSTED_CONTENT_OBSERVED"})
    /\ untrusted' = untrusted \cup {ordered[next].id}
    /\ UNCHANGED <<contextVars, incidents, shadows, pending, latest, contained, prompts, processStart, approvals>>

ConsumeShadow ==
    /\ Taking({"POLICY_SHADOW"})
    /\ \E n \in NodesFor(graph, ordered[next].id, "DECOY") :
        shadows' = IF n \in DOMAIN shadows THEN shadows ELSE Updated(shadows, n, ordered[next])
    /\ UNCHANGED <<contextVars, incidents, pending, latest, contained, prompts, untrusted, processStart, approvals>>

ConsumeDecoyAccessed ==
    /\ Taking({"DECOY_ACCESS"})
    /\ \E n \in NodesFor(graph, ordered[next].id, "DECOY") :
        LET e == ordered[next]
            opened == IF n \in DOMAIN shadows
                      THEN AddStatement(Incident("DECOY_ACCESS", "HIGH", {e.id}),
                                        Statement("SHADOW_EXPOSED", n, {shadows[n].id}))
                      ELSE Incident("DECOY_ACCESS", "HIGH", {e.id})
            known == IF OfDecoy(n) \in DOMAIN incidents THEN incidents[OfDecoy(n)] ELSE opened
            scope == IF NodesFor(graph, e.id, "PROCESS") = {} THEN None ELSE Process
            accessed == Exposed(AddStatement(known, Statement("DECOY_ACCESSED", scope, {e.id})), e)
        IN /\ incidents' = Prompted(With(OfDecoy(n), accessed), e, n)
           /\ latest' = OfDecoy(n)
    /\ UNCHANGED <<contextVars, shadows, pending, contained, prompts, untrusted, processStart, approvals>>

ConsumePrompt ==
    /\ Taking({"PROMPT_INJECTION_SUSPECTED"})
    /\ \E source \in NodesFor(graph, ordered[next].id, "RESOURCE") :
        LET e == ordered[next]
            severity == IF e.severity = "none" THEN "LOW" ELSE e.severity
            known == IF OfPrompts \in DOMAIN incidents THEN Raise(incidents[OfPrompts], severity, {e.id})
                     ELSE Incident("SUSPICIOUS_INSTRUCTIONS", severity, {e.id})
            seen == {id \in untrusted : EventOf(id).resource = e.resource /\ BeforeOrEqual(EventOf(id), e)}
            observed == IF seen = {} THEN known
                        ELSE AddStatement(known, Statement("UNTRUSTED_CONTENT_OBSERVED", source,
                                          {CHOOSE id \in seen : TRUE}))
        IN incidents' = With(OfPrompts, AddStatement(observed, Statement("SUSPICIOUS_INSTRUCTIONS_OBSERVED", source, {e.id})))
    /\ prompts' = Append(prompts, ordered[next].id)
    /\ UNCHANGED <<contextVars, shadows, pending, latest, contained, untrusted, processStart, approvals>>

ConsumeSensitive ==
    /\ Taking({"SENSITIVE_RESOURCE_REQUESTED"})
    /\ LET e == ordered[next]
           sources == {s \in SensitiveSource(e, Range(ordered)) : DecoyNode(s.resource) \in DOMAIN incidents}
       IN incidents' = IF sources = {} THEN incidents
                       ELSE [incidents EXCEPT ![DecoyNode(e.resource)] =
                                AddStatement(@, Statement("SENSITIVE_RESOURCE_REQUESTED", None, {e.ref, e.id}))]
    /\ UNCHANGED <<contextVars, shadows, pending, latest, contained, prompts, untrusted, processStart, approvals>>

\* The severity recorded first controls the incident, later ones can only raise it, and none
\* lowers an incident that network activity has joined.
ConsumeRecorded ==
    /\ Taking({"SECURITY_INCIDENT"})
    /\ \E n \in NodesFor(graph, ordered[next].id, "DECOY") :
        LET e == ordered[next]
            incident == [incidents[OfDecoy(n)] EXCEPT !.evidence = @ \cup {e.id}]
            controls == ~incident.recorded \/ Rank(e.severity) > Rank(incident.severity)
            rated == IF e.severity # "none" /\ controls
                     THEN [incident EXCEPT !.severity = e.severity, !.backing = {e.id}, !.recorded = TRUE]
                     ELSE incident
        IN incidents' =
            CASE OfDecoy(n) \notin DOMAIN incidents -> incidents
              [] OfDecoy(n) \in DOMAIN incidents /\ rated.type = "DECOY_ACCESS_WITH_NETWORK_ACTIVITY" ->
                    [incidents EXCEPT ![OfDecoy(n)] = Raise(rated, "HIGH", rated.action \cup {e.id})]
              [] OTHER -> [incidents EXCEPT ![OfDecoy(n)] = rated]
    /\ UNCHANGED <<contextVars, shadows, pending, latest, contained, prompts, untrusted, processStart, approvals>>

Applied(incident, e) ==
    AddStatement([incident EXCEPT !.action = @ \cup {e.id}], Statement("CONTAINMENT_ACTIVATED", None, {e.id}))

\* The first activation belongs to the decoy accessed last, or to an incident of its own.
ConsumeContainmentFirst ==
    /\ contained = NoIncident
    /\ Taking({"CONTAINMENT_ACTIVATED"})
    /\ LET e == ordered[next]
           key == IF latest = NoIncident THEN OfContainment(e) ELSE latest
           incident == IF latest = NoIncident THEN Incident("CONTAINMENT_ACTIVATED", "MEDIUM", {e.id}) ELSE incidents[latest]
       IN /\ incidents' = With(key, [Applied(incident, e) EXCEPT !.activated = e.ts])
          /\ contained' = key
    /\ UNCHANGED <<contextVars, shadows, pending, latest, prompts, untrusted, processStart, approvals>>

\* Mutant: each activation is an incident.
ConsumeContainmentNew ==
    /\ contained # NoIncident
    /\ Taking({"CONTAINMENT_ACTIVATED"})
    /\ LET e == ordered[next]
       IN incidents' = With(OfContainment(e), Applied(Incident("CONTAINMENT_ACTIVATED", "MEDIUM", {e.id}), e))
    /\ UNCHANGED <<contextVars, shadows, pending, latest, contained, prompts, untrusted, processStart, approvals>>

\* Further activations are more evidence of the first.
ConsumeContainmentAgain ==
    /\ contained # NoIncident
    /\ Taking({"CONTAINMENT_ACTIVATED"})
    /\ incidents' = [incidents EXCEPT ![contained] = Applied(@, ordered[next])]
    /\ UNCHANGED <<contextVars, shadows, pending, latest, contained, prompts, untrusted, processStart, approvals>>

ConsumeRequest ==
    /\ Taking({"NETWORK_REQUEST"})
    /\ \E n \in NodesFor(graph, ordered[next].id, "NETWORK_DESTINATION") : pending' = Updated(pending, n, ordered[next])
    /\ UNCHANGED <<contextVars, incidents, shadows, latest, contained, prompts, untrusted, processStart, approvals>>

ConsumeApproval ==
    /\ Taking({"APPROVAL_REQUIRED"} \cup Outcomes)
    /\ approvals' = approvals \cup {ordered[next]}
    /\ UNCHANGED <<contextVars, incidents, shadows, pending, latest, contained, prompts, untrusted, processStart>>

\* Mutant: what was asked and answered about the destination.
ApprovalsForDestination(e) == {a \in approvals : a.resource = e.resource /\ BeforeOrEqual(a, e)}

\* addApprovalStatements: what was asked and answered for this very request.
ApprovalsFor(e) ==
    {a \in approvals : a.resource = e.resource /\ a.rid = e.rid /\ e.rid # NoRequest /\ BeforeOrEqual(a, e)}

\* The user is said to have decided only where the user did.
SaidOf(a) ==
    CASE a.type = "APPROVAL_GRANTED" -> a.source \in {"USER_DECISION", "SESSION_APPROVAL"}
      [] a.type = "APPROVAL_DENIED" -> a.source = "USER_DECISION"
      [] a.type \in {"APPROVAL_EXPIRED", "APPROVAL_UNAVAILABLE"} -> a.source = "AUTOMATIC_FAIL_CLOSED"
      [] OTHER -> TRUE

WithApprovals(incident, e) ==
    AddStatements(incident, {Statement(a.type, a.source, {a.id}) : a \in {b \in ApprovalsFor(e) : SaidOf(b)}})

\* The request a denial is paired with: the last one to the destination that is still pending.
PairedWith(n, e) ==
    IF n \in DOMAIN pending /\ BeforeOrEqual(pending[n], e) THEN {pending[n].id} ELSE {}

\* Mutant: a request stays pending after its denial.
StillPending(n, e) == pending

Unpaired(n, e) ==
    IF PairedWith(n, e) = {} THEN pending ELSE [d \in DOMAIN pending \ {n} |-> pending[d]]

AfterContainment(e) == contained # NoIncident /\ e.ts >= incidents[contained].activated

\* A denial in a contained session joins the incident that contained it, ...
ConsumeDenyContained ==
    /\ Taking({"NETWORK_DENY"})
    /\ AfterContainment(ordered[next])
    /\ \E n \in NodesFor(graph, ordered[next].id, "NETWORK_DESTINATION") :
        LET e == ordered[next]
            all == Prompted(incidents, e, n)
            cited == all[contained].action \cup PairedWith(n, e) \cup {e.id}
            joined == AddStatement(WithApprovals(all[contained], e), Statement("NETWORK_DENIED", n, cited))
        IN /\ incidents' = [all EXCEPT ![contained] =
                IF joined.type = "DECOY_ACCESS"
                THEN Raise([joined EXCEPT !.type = "DECOY_ACCESS_WITH_NETWORK_ACTIVITY"], "HIGH", cited)
                ELSE joined]
           /\ pending' = Unpaired(n, e)
    /\ UNCHANGED <<contextVars, shadows, latest, contained, prompts, untrusted, processStart, approvals>>

\* ... any other is an incident of its own.
ConsumeDeny ==
    /\ Taking({"NETWORK_DENY"})
    /\ ~AfterContainment(ordered[next])
    /\ \E n \in NodesFor(graph, ordered[next].id, "NETWORK_DESTINATION") :
        LET e == ordered[next]
            denied == WithApprovals(Incident("NETWORK_POLICY_VIOLATION", "MEDIUM", {e.id}), e)
            violation == AddStatement(denied, Statement("NETWORK_DENIED", n, PairedWith(n, e) \cup {e.id}))
        IN /\ incidents' = Updated(Prompted(incidents, e, n), OfDenial(e), violation)
           /\ pending' = Unpaired(n, e)
    /\ UNCHANGED <<contextVars, shadows, latest, contained, prompts, untrusted, processStart, approvals>>

ReplayStep ==
    \/ ConsumeStart \/ ConsumeUntrusted \/ ConsumeShadow \/ ConsumeDecoyAccessed \/ ConsumePrompt
    \/ ConsumeSensitive \/ ConsumeRecorded \/ ConsumeContainmentFirst \/ ConsumeContainmentAgain
    \/ ConsumeRequest \/ ConsumeApproval \/ ConsumeDenyContained \/ ConsumeDeny

Replayed == ordered # <<>> /\ next = Len(ordered) + 1
=============================================================================
