----------------------------- MODULE Provenance -----------------------------
(***************************************************************************)
(* internal/provenance/builder.go: the graph of one session, built from    *)
(* its stored events and from nothing else.  A node is a pair of its kind  *)
(* and its identity.  The builder makes nodes and edges while it goes      *)
(* through the events; here they are the set of what each event gives.     *)
(*                                                                         *)
(* Identities that the code normalises (paths, host names) are identities  *)
(* here.  Labels, trust classes and levels are left out, and so are the    *)
(* hashes that name edges: the order of hashes in which a reader goes      *)
(* through edges is no order at all (NodesFor).                            *)
(***************************************************************************)
EXTENDS Integers, FiniteSets, Sequences, Functions

CONSTANT NoRequest      \* an event that belongs to no approval request

\* The fields of an event that are read, "none" in one that is empty; ref is the event another one names as its source.
\* No operator reads marked: it says whether the containment marker stood when what the
\* event records was written down.
Event(type, ts, resource, decision) ==
    [id |-> 0, ts |-> ts, type |-> type, resource |-> resource, decision |-> decision, rid |-> NoRequest,
     ref |-> 0, source |-> "none", severity |-> "none", marked |-> FALSE]

Policies == {"POLICY_ALLOW", "POLICY_DENY", "POLICY_SHADOW", "POLICY_ASK"}
NetworkDecisions == {"NETWORK_ALLOW", "NETWORK_DENY", "APPROVAL_REQUIRED"}
Outcomes == {"APPROVAL_GRANTED", "APPROVAL_DENIED", "APPROVAL_UNAVAILABLE", "APPROVAL_EXPIRED"}
Signals == {"UNTRUSTED_CONTENT_OBSERVED", "PROMPT_INJECTION_SUSPECTED",
            "SENSITIVE_RESOURCE_REQUESTED", "RESOURCE_LIMIT_TRIGGERED"}

BeforeOrEqual(left, right) ==
    \/ left.ts < right.ts
    \/ left.ts = right.ts /\ left.id <= right.id

\* Events by time, events of one time by id.  A second copy of an event adds nothing.
Ordered(input) ==
    LET rank == [e \in input |-> Cardinality({f \in input : BeforeOrEqual(f, e)})]
    IN [i \in 1 .. Cardinality(input) |-> CHOOSE e \in input : rank[e] = i]

Earliest(events) == CHOOSE e \in events : \A f \in events : BeforeOrEqual(e, f)

-----------------------------------------------------------------------------
(* Nodes. *)

None == <<"NONE", 0>>
Session == <<"SESSION", 0>>
Process == <<"PROCESS", 0>>
DecoyNode(d) == <<"DECOY", d>>
Network(d) == <<"NETWORK_DESTINATION", d>>
Resource(r) == <<"RESOURCE", r>>
Decision(e) == <<"POLICY_DECISION", e.id>>
Outcome(e) == <<IF e.source = "USER_DECISION" THEN "USER_DECISION" ELSE "POLICY_DECISION", e.id>>
Signal(e) == <<"SECURITY_SIGNAL", e.id>>
Recorded(e) == <<"INCIDENT", e.id>>

\* The events that could not have come about without a running command.
ProcessProofs(e, events) ==
    {p \in events : p.type \in {"PROCESS_EXIT", "DECOY_ACCESS", "NETWORK_REQUEST"} /\ BeforeOrEqual(e, p)}

\* PROCESS_START says what was about to be started; its process is drawn if something proves it:
\* the first such start with its first proof, or nothing.
Scope(events) ==
    LET starts == {e \in events : e.type = "PROCESS_START" /\ ProcessProofs(e, events) # {}}
    IN IF starts = {} THEN {}
       ELSE LET e == Earliest(starts) IN {[start |-> e, proof |-> Earliest(ProcessProofs(e, events))]}

\* The APPROVAL_REQUIRED an outcome names, if it is one of the same request and not a later one.
RequiredFor(e, events) ==
    {r \in events : /\ r.id = e.ref /\ r.type = "APPROVAL_REQUIRED" /\ BeforeOrEqual(r, e)
                    /\ r.resource = e.resource /\ r.rid = e.rid /\ e.rid # NoRequest}

\* The DECOY_ACCESS a SENSITIVE_RESOURCE_REQUESTED names, if it is one of the same path and not later.
SensitiveSource(e, events) ==
    {s \in events : s.id = e.ref /\ s.type = "DECOY_ACCESS" /\ BeforeOrEqual(s, e) /\ s.resource = e.resource}

\* The nodes an event is evidence of.  SECURITY_INCIDENT is evidence of a node of its own and of
\* the edge from the decoy, not of the decoy.
NodesOf(e, events) ==
    CASE e.type = "SESSION_START" -> {Session}
      [] e.type \in {"DECOY_CREATED", "DECOY_ACCESS"} -> {DecoyNode(e.resource)}
      [] e.type \in Policies ->
            {IF e.decision = "SHADOW" THEN DecoyNode(e.resource) ELSE Resource(e.resource), Decision(e)}
      [] e.type = "NETWORK_REQUEST" -> {Network(e.resource)}
      [] e.type \in NetworkDecisions -> {Network(e.resource), Decision(e)}
      [] e.type \in Outcomes -> {Outcome(e) : r \in RequiredFor(e, events)}
      [] e.type = "CONTAINMENT_ACTIVATED" -> {Decision(e)}
      [] e.type = "SECURITY_INCIDENT" -> {Recorded(e)}
      [] e.type = "RESOURCE_LIMIT_TRIGGERED" -> {Signal(e)}
      [] e.type \in Signals \ {"RESOURCE_LIMIT_TRIGGERED"} -> {Resource(e.resource), Signal(e)}
      [] OTHER -> {}

\* The node that stands for an event in the chronology, None when there is none.
Anchor(e, events) ==
    CASE e.type = "DECOY_ACCESS" -> DecoyNode(e.resource)
      [] e.type = "NETWORK_REQUEST" -> Network(e.resource)
      [] e.type \in NetworkDecisions \cup {"CONTAINMENT_ACTIVATED"} -> Decision(e)
      [] e.type \in Outcomes /\ RequiredFor(e, events) # {} -> Outcome(e)
      [] e.type = "SECURITY_INCIDENT" -> Recorded(e)
      [] e.type \in Signals -> Signal(e)
      [] OTHER -> None

-----------------------------------------------------------------------------
(* Edges. *)

Edge(type, from, to, evidence) == [type |-> type, from |-> from, to |-> to, evidence |-> evidence]

EdgeForDecision(decision) ==
    CASE decision = "ALLOW" -> "ALLOWED"
      [] decision = "SHADOW" -> "SHADOWED"
      [] decision = "ASK" -> "REQUIRED_APPROVAL"
      [] OTHER -> "DENIED"

\* A decoy that has a node by the time e is consumed.
DecoyKnown(e, events) ==
    \E f \in events : /\ f.resource = e.resource
                      /\ \/ f.type \in {"DECOY_CREATED", "POLICY_SHADOW"}
                         \/ f.type = "DECOY_ACCESS" /\ BeforeOrEqual(f, e)

\* The relations an event is evidence of; one with the command only if there is a scope s for it.
EdgesOf(e, events, scope) ==
    CASE e.type = "DECOY_ACCESS" -> {Edge("ACCESSED", Process, DecoyNode(e.resource), {e.id}) : s \in scope}
      [] e.type = "NETWORK_REQUEST" -> {Edge("REQUESTED", Process, Network(e.resource), {e.id}) : s \in scope}
      [] e.type \in Policies ->
            {Edge(EdgeForDecision(e.decision), n, Decision(e), {e.id}) : n \in NodesOf(e, events) \ {Decision(e)}}
      [] e.type \in NetworkDecisions ->
            {Edge(EdgeForDecision(e.decision), Network(e.resource), Decision(e), {e.id})}
      [] e.type \in Outcomes ->
            {Edge(IF e.type = "APPROVAL_GRANTED" THEN "GRANTED" ELSE "DENIED", Decision(r), Outcome(e), {e.id}) :
                r \in RequiredFor(e, events)}
      [] e.type = "CONTAINMENT_ACTIVATED" -> {Edge("CONTAINED", Session, Decision(e), {e.id})}
      [] e.type = "SECURITY_INCIDENT" /\ DecoyKnown(e, events) ->
            {Edge("TRIGGERED", DecoyNode(e.resource), Recorded(e), {e.id})}
      [] e.type = "RESOURCE_LIMIT_TRIGGERED" -> {Edge("SIGNALED", Session, Signal(e), {e.id})}
      [] e.type \in Signals \ {"RESOURCE_LIMIT_TRIGGERED"} ->
            {Edge("SIGNALED", Resource(e.resource), Signal(e), {e.id})}
            \cup {Edge("EXPOSED_TO", Process, Resource(e.resource), {e.id, s.start.id, s.proof.id}) :
                    s \in {t \in scope : e.type = "UNTRUSTED_CONTENT_OBSERVED" /\ BeforeOrEqual(e, t.start)}}
            \cup {Edge("REQUESTED", Process, Resource(e.resource), {e.ref, e.id}) :
                    s \in {t \in scope : e.type = "SENSITIVE_RESOURCE_REQUESTED" /\ SensitiveSource(e, events) # {}}}
      [] OTHER -> {}

\* The events that something stands for, in order.
Anchored(ordered, events) == SelectSeq(ordered, LAMBDA e : Anchor(e, events) # None)

\* FOLLOWED_BY between neighbours of them.
TemporalEdges(ordered, events) ==
    LET anchored == Anchored(ordered, events)
        follows(i) == Edge("FOLLOWED_BY", Anchor(anchored[i], events), Anchor(anchored[i + 1], events),
                           {anchored[i].id, anchored[i + 1].id})
    IN {edge \in {follows(i) : i \in 1 .. Len(anchored) - 1} : edge.from # edge.to}

\* evidence relates an event to the nodes it is evidence of.
Build(ordered) ==
    LET events == Range(ordered)
        scope == Scope(events)
        ofScope == UNION {{<<s.start.id, Process>>, <<s.proof.id, Process>>} : s \in scope}
    IN [evidence |-> ofScope \cup UNION {{<<e.id, n>> : n \in NodesOf(e, events)} : e \in events},
        edges |-> (UNION {EdgesOf(e, events, scope) : e \in events})
                    \cup {Edge("STARTED", Session, Process, {s.start.id, s.proof.id}) : s \in scope}
                    \cup TemporalEdges(ordered, events)]

-----------------------------------------------------------------------------
(* What a reader of the graph asks. *)

\* incidents.nodeForEvidence: a node of the kind that the event is evidence of, else the end
\* of an edge.  Edges come in the order of their hashes, so any of them may be the first.
NodesFor(graph, id, kind) ==
    LET direct == {n \in {pair[2] : pair \in {p \in graph.evidence : p[1] = id}} : n[1] = kind}
        ends == UNION {{edge.from, edge.to} : edge \in {f \in graph.edges : id \in f.evidence}}
    IN IF direct # {} THEN direct ELSE {n \in ends : n[1] = kind}

\* graphReferences: an incident refers to the edges whose whole evidence it has.
RelevantEdges(graph, evidence) == {edge \in graph.edges : edge.evidence \subseteq evidence}

RelevantNodes(graph, evidence) ==
    {pair[2] : pair \in {p \in graph.evidence : p[1] \in evidence}}
        \cup UNION {{edge.from, edge.to} : edge \in RelevantEdges(graph, evidence)}
=============================================================================
