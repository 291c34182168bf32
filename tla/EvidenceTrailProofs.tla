------------------------ MODULE EvidenceTrailProofs ------------------------
(***************************************************************************)
(* Reconstruction for any number of connections, decoys, lines and seconds *)
(* and any order of what happens in a run.                                 *)
(*                                                                         *)
(* In the order of the program: what the log says (WorldInvariant), what   *)
(* is stored of it (StoredInvariant), the order of the events, the graph   *)
(* and the timelines as such, and the replay (ReplayInvariant,             *)
(* ContainmentInvariant, DenialInvariant, ApprovalInvariant).              *)
(***************************************************************************)
EXTENDS EvidenceTrail, FiniteSetTheorems, SequenceTheorems, WellFoundedInduction, TLAPS

(***************************************************************************)
(* The run: what the log says.                                             *)
(***************************************************************************)

Decisions == {"NETWORK_ALLOW", "NETWORK_DENY"}
ApprovalTypes == {"APPROVAL_REQUIRED"} \cup Outcomes

IsLine(l) ==
    /\ l = [kind |-> l.kind, type |-> l.type, resource |-> l.resource, rid |-> l.rid, source |-> l.source,
            saw |-> l.saw, unix |-> l.unix, marked |-> l.marked]
    /\ l.kind \in {"access", "approval", "network"} /\ l.unix \in Nat \cup {Never}

\* Only approvals name a source, and only what was asked about has a request.
LineSound(l) ==
    /\ IsLine(l)
    /\ l.kind = "access" => l.type = "DECOY_ACCESS" /\ l.rid = NoRequest
    /\ l.kind = "approval" =>
        /\ l.rid \in Connections /\ l.resource = "ask"
        /\ l.type = "APPROVAL_REQUIRED" \/ <<l.type, l.source>> \in Answers
    /\ l.kind = "network" =>
        /\ l.type \in Decisions
        /\ l.rid = NoRequest \/ (l.rid \in Connections /\ l.resource = "ask")

\* A handler asks about "ask" only, ends with its decision, and dates its lines in their order.
HandlerSound(c) ==
    LET h == conns[c]
    IN /\ h = [last |-> h.last, to |-> h.to, rid |-> h.rid, line |-> h.line]
       /\ h.rid \in {NoRequest, c} /\ h.last \in {"none"} \cup ApprovalTypes \cup Decisions
       /\ h.line # NoLine =>
            /\ LineSound(h.line) /\ h.line.kind # "access" /\ h.line.unix <= clock
            /\ h.line.rid = h.rid /\ h.line.resource = h.to
       /\ h.last = "none" /\ h.line = NoLine => h.rid = NoRequest
       /\ h.last = "none" => \A i \in DOMAIN log : log[i].rid # c
       /\ h.last \in ApprovalTypes => h.rid = c /\ h.to = "ask"
       /\ h.last \in Decisions => h.line = NoLine
       /\ \A i \in DOMAIN log : log[i].rid = c =>
            /\ log[i].kind = "network" => h.last \in Decisions
            /\ h.line # NoLine /\ h.line.unix # Never => log[i].unix <= h.line.unix

SentinelSound ==
    sentinel # NoLine =>
        /\ LineSound(sentinel) /\ sentinel.kind = "access" /\ sentinel.unix <= clock
        /\ config.contain => marker
        /\ sentinel.unix # Never => \A i \in DOMAIN log :
            /\ log[i].kind = "access" => log[i].unix <= sentinel.unix
            /\ config.contain /\ log[i].unix > sentinel.unix => log[i].marked

\* Lines of one connection, and accesses, are in the order of their seconds; what is after an
\* access in the log, or of a later second, was written when the marker stood.
LogSound ==
    /\ \A i \in DOMAIN log : LineSound(log[i]) /\ log[i].unix \in 0 .. clock
    /\ \A i, j \in DOMAIN log :
        /\ i < j /\ log[i].rid = log[j].rid /\ log[i].rid \in Connections =>
            log[i].kind = "approval" /\ log[i].unix <= log[j].unix
        /\ i < j /\ log[i].kind = "access" /\ log[j].kind = "access" => log[i].unix <= log[j].unix
        /\ config.contain /\ log[i].kind = "access" =>
            marker /\ (i < j \/ log[i].unix < log[j].unix => log[j].marked)

WorldInvariant ==
    /\ config \in Scenarios /\ started \in BOOLEAN /\ marker \in BOOLEAN /\ clock \in 0 .. config.seconds
    /\ stage \in {"starting", "running", "stopped", "stored", "reading"}
    /\ stage = "starting" => ~started
    /\ ~started => stage # "running" /\ log = <<>> /\ ~marker
    /\ DOMAIN conns = Connections /\ log \in Seq(Range(log))
    /\ Lines <= config.lines
    /\ marker => config.contain
    /\ SentinelSound /\ LogSound
    /\ \A c \in Connections : HandlerSound(c)

(***************************************************************************)
(* What is stored.                                                         *)
(***************************************************************************)

IsEvent(e) ==
    /\ e = [id |-> e.id, ts |-> e.ts, type |-> e.type, resource |-> e.resource, decision |-> e.decision,
            rid |-> e.rid, ref |-> e.ref, source |-> e.source, severity |-> e.severity, marked |-> e.marked]
    /\ e.id \in Nat \ {0} /\ e.ts \in Nat /\ e.severity \in Range(Severities) \cup {"none"}

Of(events, type) == {e \in events : e.type = type}

\* What reconstruction relies on, of the events of any session that broke off anywhere.
TrailSound(events) ==
    /\ IsFiniteSet(events) /\ events # {}
    /\ \A e \in events : IsEvent(e)
    /\ \A e, f \in events : e.id = f.id => e = f
    /\ ~started => \A e \in events : e.type \notin {"PROCESS_EXIT", "DECOY_ACCESS", "NETWORK_REQUEST"}
    \* A decision without an approval comes right after its request.
    /\ \A e \in Of(events, "NETWORK_DENY") : e.rid = NoRequest =>
        \E q \in Of(events, "NETWORK_REQUEST") : q.id = e.id - 1 /\ q.ts = e.ts /\ q.resource = e.resource
    \* Approvals come before the decision of their connection.
    /\ \A a \in events : a.type \in ApprovalTypes => a.rid \in Connections /\ a.resource = "ask" /\ SaidOf(a)
    /\ \A e \in Of(events, "NETWORK_DENY") : e.rid # NoRequest => e.resource = "ask"
    /\ \A a \in events, e \in Of(events, "NETWORK_DENY") :
        a.type \in ApprovalTypes /\ a.rid = e.rid => BeforeOrEqual(a, e)
    \* The first access comes before containment, the others after it.
    /\ \A f \in Of(events, "CONTAINMENT_ACTIVATED"), e \in Of(events, "NETWORK_DENY") : BeforeOrEqual(f, e) => e.marked
    /\ Of(events, "CONTAINMENT_ACTIVATED") # {} /\ Of(events, "DECOY_ACCESS") # {} =>
        \E first \in Of(events, "DECOY_ACCESS") :
            /\ \A f \in Of(events, "CONTAINMENT_ACTIVATED") : BeforeOrEqual(first, f)
            /\ \A d \in Of(events, "DECOY_ACCESS") \ {first} :
                \E f \in Of(events, "CONTAINMENT_ACTIVATED") : BeforeOrEqual(f, d)

StoredInvariant ==
    /\ stage \in {"stored", "reading"} => TrailSound(Range(stored))
    /\ \A i \in DOMAIN stored : stored[i].id = i

(***************************************************************************)
(* Reconstruction.                                                         *)
(***************************************************************************)

Ids == {e.id : e \in Events}
Past == {ordered[i] : i \in 1 .. next - 1}

IsStatement(s) == s = [step |-> s.step, about |-> s.about, cited |-> s.cited]
Distinct(timeline) == \A s, t \in timeline : s.step = t.step /\ s.about = t.about => s = t

IncidentRecord(i) ==
    /\ i = [type |-> i.type, severity |-> i.severity, backing |-> i.backing, recorded |-> i.recorded,
            activated |-> i.activated, action |-> i.action, timeline |-> i.timeline, evidence |-> i.evidence]
    /\ i.severity \in Range(Severities)
    /\ i.backing # {} /\ i.backing \subseteq Ids /\ i.action \subseteq Ids /\ i.evidence \subseteq Ids
    /\ \A s \in i.timeline : IsStatement(s) /\ s.cited \subseteq i.evidence
    /\ Distinct(i.timeline)

IncidentBacked(i) == i.backing \subseteq i.evidence /\ i.action \subseteq i.evidence

\* A severity that has to be high is.
IncidentRated(i) ==
    i.type = "DECOY_ACCESS_WITH_NETWORK_ACTIVITY" \/ (\E s \in i.timeline : s.step = "LATER_SECURITY_ACTIVITY")
        => Rank(i.severity) >= 3

\* Only the incident of the prompts is told what came later.
IncidentsSound(all) ==
    \A key \in DOMAIN all :
        /\ IncidentRecord(all[key]) /\ IncidentBacked(all[key]) /\ IncidentRated(all[key])
        /\ key # OfPrompts => \A s \in all[key].timeline : s.step # "LATER_SECURITY_ACTIVITY"
        /\ key[1] \in {"DECOY", "prompts", "containment", "denial"}

ReplayInvariant ==
    /\ stage # "reading" => ReplayInit
    /\ stage = "reading" =>
        /\ ordered = Ordered(Range(stored)) /\ graph = Build(ordered)
        /\ next \in 1 .. Len(ordered) + 1 /\ (next \in DOMAIN ordered => ordered[next].type \in Consumed)
        /\ untrusted \subseteq Ids /\ processStart \in Ids \cup {0}
        /\ prompts \in Seq(Ids)
        /\ \A n \in DOMAIN shadows : shadows[n] \in Events
        /\ \A n \in DOMAIN pending : pending[n] \in Events
        /\ \A a \in approvals : a \in Events /\ a.type \in ApprovalTypes
        /\ latest \in {NoIncident} \cup DOMAIN incidents /\ contained \in {NoIncident} \cup DOMAIN incidents
        /\ latest[1] \in {"none", "DECOY"} /\ contained[1] \in {"none", "DECOY", "containment"}
        /\ IncidentsSound(incidents)

-----------------------------------------------------------------------------
LEMMA ConfigFacts ==
    ASSUME config \in Scenarios
    PROVE  /\ config.contain \in BOOLEAN /\ config.severity \in {"none", "LOW", "MEDIUM", "HIGH"}
           /\ config.prompt \in Range(Severities) \cup {"none"}
           /\ config.answers \subseteq Answers
           /\ config.seconds \in Nat /\ config.lines \in Nat
           /\ config.decoys \in Seq(Range(config.decoys))
           /\ config.denied \in Seq(Range(config.denied))
BY TrailAssumption DEF Scenario

LEMMA AnswerTypes == \A type, source : <<type, source>> \in Answers => type \in Outcomes
BY DEF Answers, Outcomes

LEMMA NextLinesSound ==
    ASSUME NEW c \in Connections, NEW line \in NextLines(c), HandlerSound(c), conns[c].line = NoLine,
           config \in Scenarios
    PROVE  /\ LineSound(line) /\ line.kind # "access" /\ line.unix = Never
           /\ line.rid \in {NoRequest, c}
           /\ conns[c].last \notin Decisions
           /\ conns[c].last \in ApprovalTypes => line.rid = c /\ line.resource = "ask"
<1> DEFINE h == conns[c]
<1>1. h.last \in {"none"} \cup ApprovalTypes \cup Decisions /\ h.rid \in {NoRequest, c}
      /\ (h.last = "none" => h.rid = NoRequest) /\ (h.last \in ApprovalTypes => h.rid = c /\ h.to = "ask")
  BY DEF HandlerSound
<1>2. Never \notin Nat /\ Never \in Int
  BY DEF Never
<1>3. CASE h.last = "none"
  <2> DEFINE bound(d, type) == [NetworkLine(c, type) EXCEPT !.resource = d]
             asked == [ApprovalLine(c, "APPROVAL_REQUIRED", "AUTOMATIC_POLICY") EXCEPT !.resource = "ask", !.rid = c]
  <2>1. line \in FirstLines(c)
    BY <1>3 DEF NextLines, Outcomes
  <2>2. line = asked \/ \E d : \E type \in Decisions : line = bound(d, type)
    BY <2>1 DEF FirstLines, DecisionTypes, Decisions
  <2> QED BY <1>1, <1>2, <1>3, <2>2
          DEF NetworkLine, ApprovalLine, Line, LineSound, IsLine, Decisions, ApprovalTypes, Outcomes
<1>4. CASE h.last = "APPROVAL_REQUIRED"
  <2>1. PICK answer \in config.answers : line = ApprovalLine(c, answer[1], answer[2])
    BY <1>4 DEF NextLines, Outcomes
  <2>2. answer \in Answers
    BY ConfigFacts
  <2>3. answer[1] \in Outcomes /\ <<answer[1], answer[2]>> \in Answers
    BY <2>2 DEF Answers, Outcomes
  <2> QED BY <1>1, <1>2, <1>4, <2>1, <2>3 DEF ApprovalLine, Line, LineSound, IsLine, ApprovalTypes, Decisions
<1>5. CASE h.last \in Outcomes
  <2>1. \E type \in Decisions : line = NetworkLine(c, type)
    BY <1>5 DEF NextLines, DecisionTypes, Outcomes, Decisions
  <2> QED BY <1>1, <1>2, <1>5, <2>1 DEF NetworkLine, Line, LineSound, IsLine, ApprovalTypes, Decisions, Outcomes
<1>6. CASE h.last \in Decisions
  BY <1>6 DEF NextLines, Decisions, Outcomes
<1> QED BY <1>1, <1>3, <1>4, <1>5, <1>6 DEF ApprovalTypes

\* Connections that are making a line.
Busy == {c \in Connections : conns[c].line # NoLine}

LEMMA BusyFacts ==
    /\ IsFiniteSet(Busy) /\ Cardinality(Busy) \in Nat
    /\ \A c \in Busy : Cardinality(Busy \ {c}) = Cardinality(Busy) - 1
    /\ \A c \in Connections \ Busy : Cardinality(Busy \cup {c}) = Cardinality(Busy) + 1
<1>1. IsFiniteSet(Busy)
  <2>1. Busy \in SUBSET Connections
    BY DEF Busy
  <2> QED BY <2>1, TrailAssumption, FS_Subset
<1> QED BY <1>1, FS_CardinalityType, FS_AddElement, FS_RemoveElement DEF Busy

LEMMA LinesAre == Lines = Len(log) + Cardinality(Busy) + (IF sentinel = NoLine THEN 0 ELSE 1)
BY DEF Lines, Busy

LEMMA WorldInit == Init => WorldInvariant
<1> SUFFICES ASSUME Init PROVE WorldInvariant
  OBVIOUS
<1>1. config.seconds \in Nat /\ config.lines \in Nat
  BY ConfigFacts DEF Init
<1>2. DOMAIN conns = Connections /\ \A c \in Connections : HandlerSound(c)
  BY DEF Init, Unconnected, HandlerSound, ApprovalTypes, Decisions, Outcomes
<1>3. Lines = 0
  <2>1. Busy = {}
    BY DEF Init, Unconnected, Busy
  <2>2. Cardinality(Busy) = 0
    BY <2>1, FS_EmptySet
  <2>3. Len(log) = 0 /\ sentinel = NoLine
    BY DEF Init
  <2> QED BY <2>2, <2>3, LinesAre
<1>4. Lines <= config.lines /\ log = <<>> /\ log \in Seq(Range(log)) /\ clock \in 0 .. config.seconds
  BY <1>1, <1>3 DEF Init
<1>5. SentinelSound /\ LogSound
  BY DEF Init, SentinelSound, LogSound
<1> QED BY <1>2, <1>4, <1>5 DEF Init, WorldInvariant

\* A step that leaves the log, the handlers and the sentinel as they are.
LEMMA WorldStands ==
    ASSUME WorldInvariant, UNCHANGED <<config, sentinel, conns, log, marker>>,
           clock' \in clock .. config.seconds
    PROVE  /\ Lines' = Lines /\ SentinelSound' /\ LogSound' /\ \A c \in Connections : HandlerSound(c)'
<1>0. clock \in Nat /\ clock' \in Nat /\ clock <= clock' /\ config.seconds \in Nat
  BY ConfigFacts DEF WorldInvariant
<1>1. Lines' = Lines
  BY DEF Lines
<1>2. \A l : LineSound(l) => l.unix \in Int
  BY DEF LineSound, IsLine, Never
<1>3. SentinelSound'
  BY <1>0, <1>2 DEF WorldInvariant, SentinelSound
<1>4. LogSound'
  BY <1>0 DEF WorldInvariant, LogSound
<1>5. \A c \in Connections : HandlerSound(c)'
  BY <1>0, <1>2 DEF WorldInvariant, HandlerSound
<1> QED BY <1>1, <1>3, <1>4, <1>5

LEMMA TouchSound ==
    ASSUME WorldInvariant, NEW d \in Range(config.decoys), Touch(d)
    PROVE  WorldInvariant'
<1> USE DEF Touch, Running
<1>1. /\ sentinel' = Line("access", "DECOY_ACCESS", d, NoRequest, "none", marker')
      /\ sentinel'.kind = "access" /\ sentinel'.unix = Never /\ sentinel' # NoLine
      /\ config.contain \in BOOLEAN
  BY ConfigFacts DEF Line, NoLine, WorldInvariant
<1>2. LineSound(sentinel')
  BY <1>1 DEF Line, LineSound, IsLine, Never
<1>3. Never <= clock /\ (config.contain => marker')
  BY DEF WorldInvariant, Never
<1>4. SentinelSound'
  <2>1. sentinel'.unix <= clock' /\ (config'.contain => marker') /\ sentinel'.unix = Never
    <3>1. clock' = clock /\ config' = config
      OBVIOUS
    <3> HIDE DEF Touch
    <3> QED BY <1>1, <1>3, <3>1
  <2>2. LineSound(sentinel)'
    BY <1>2 DEF LineSound, IsLine
  <2> HIDE DEF Touch
  <2> QED BY <1>1, <2>1, <2>2 DEF SentinelSound
<1>5. LogSound'
  BY DEF WorldInvariant, LogSound
<1>6. \A c \in Connections : HandlerSound(c)'
  BY DEF WorldInvariant, HandlerSound
<1>7. Lines' <= config.lines
  <2>1. Lines' = Lines + 1
    <3>1. Busy' = Busy /\ log' = log /\ sentinel = NoLine
      BY DEF Busy
    <3>2. Lines' = Len(log') + Cardinality(Busy') + (IF sentinel' = NoLine THEN 0 ELSE 1)
      BY DEF Lines, Busy
    <3> QED BY <1>1, <3>1, <3>2, BusyFacts, LinesAre DEF WorldInvariant
  <2>2. Lines \in Nat /\ config.lines \in Nat
    BY ConfigFacts, BusyFacts, LinesAre DEF WorldInvariant
  <2> QED BY <2>1, <2>2
<1> QED BY <1>1, <1>4, <1>5, <1>6, <1>7 DEF WorldInvariant

LEMMA Appended ==
    ASSUME NEW s, s \in Seq(Range(s)), NEW x
    PROVE  /\ Append(s, x) \in Seq(Range(Append(s, x)))
           /\ Len(s) \in Nat /\ Len(Append(s, x)) = Len(s) + 1 /\ DOMAIN s = 1 .. Len(s)
           /\ DOMAIN Append(s, x) = 1 .. Len(s) + 1
           /\ \A i \in 1 .. Len(s) : Append(s, x)[i] = s[i]
           /\ Append(s, x)[Len(s) + 1] = x
<1>1. s \in Seq(Range(s) \cup {x}) /\ x \in Range(s) \cup {x}
  OBVIOUS
<1>2. Append(s, x) \in Seq(Range(s) \cup {x})
  BY <1>1
<1>3. Append(s, x) \in Seq(Range(Append(s, x)))
  BY <1>2, SeqOfRange
<1> QED BY <1>1, <1>2, <1>3, AppendProperties

LEMMA StampAccessSound ==
    ASSUME WorldInvariant, StampAccess
    PROVE  WorldInvariant'
<1> USE DEF StampAccess, Running
<1>1. /\ sentinel' = [sentinel EXCEPT !.unix = clock] /\ LineSound(sentinel) /\ sentinel.kind = "access"
      /\ config.contain => marker
      /\ clock \in Nat /\ config' = config /\ log' = log /\ marker' = marker /\ clock' = clock
  BY ConfigFacts DEF WorldInvariant, SentinelSound
<1>2. LineSound(sentinel') /\ sentinel'.kind = "access" /\ sentinel'.unix = clock /\ sentinel' # NoLine
  <2>1. LineSound(sentinel) => sentinel = [kind |-> sentinel.kind, type |-> sentinel.type, resource |-> sentinel.resource,
            rid |-> sentinel.rid, source |-> sentinel.source, saw |-> sentinel.saw, unix |-> sentinel.unix,
            marked |-> sentinel.marked]
    BY DEF LineSound, IsLine
  <2> QED BY <1>1, <2>1 DEF LineSound, IsLine, NoLine
<1>3. \A i \in DOMAIN log : log[i].unix \in 0 .. clock
  BY DEF WorldInvariant, LogSound
<1>4. SentinelSound'
  BY <1>1, <1>2, <1>3 DEF SentinelSound
<1>5. LogSound'
  BY DEF WorldInvariant, LogSound
<1>6. \A c \in Connections : HandlerSound(c)'
  BY DEF WorldInvariant, HandlerSound
<1>7. Lines' <= config.lines
  <2>1. Lines' = Len(log') + Cardinality(Busy') + (IF sentinel' = NoLine THEN 0 ELSE 1)
    BY DEF Lines, Busy
  <2>2. Busy' = Busy
    BY DEF Busy
  <2>3. Lines' = Lines
    BY <1>1, <1>2, <2>1, <2>2, LinesAre
  <2> QED BY <2>3 DEF WorldInvariant
<1> QED BY <1>1, <1>4, <1>5, <1>6, <1>7 DEF WorldInvariant

LEMMA AppendAccessSound ==
    ASSUME WorldInvariant, AppendAccess
    PROVE  WorldInvariant'
<1> DEFINE line == [sentinel EXCEPT !.marked = marker]
<1> USE DEF AppendAccess, Running
<1>1. /\ log' = Append(log, line) /\ sentinel' = NoLine /\ sentinel # NoLine
      /\ LineSound(sentinel) /\ sentinel.kind = "access" /\ sentinel.unix \in 0 .. clock
      /\ config.contain => marker
      /\ clock \in Nat /\ config' = config /\ marker' = marker /\ clock' = clock
  BY ConfigFacts DEF WorldInvariant, SentinelSound, LineSound, IsLine
<1>2. /\ LineSound(line) /\ line.kind = "access" /\ line.unix = sentinel.unix /\ line.marked = marker
      /\ line.rid = NoRequest
  <2>1. sentinel = [kind |-> sentinel.kind, type |-> sentinel.type, resource |-> sentinel.resource,
            rid |-> sentinel.rid, source |-> sentinel.source, saw |-> sentinel.saw, unix |-> sentinel.unix,
            marked |-> sentinel.marked]
    BY <1>1 DEF LineSound, IsLine
  <2> QED BY <1>1, <2>1 DEF LineSound, IsLine, NoLine
<1>3. /\ log' \in Seq(Range(log'))
      /\ Len(log) \in Nat /\ Len(log') = Len(log) + 1 /\ DOMAIN log = 1 .. Len(log)
      /\ DOMAIN log' = 1 .. Len(log) + 1
      /\ \A i \in 1 .. Len(log) : log'[i] = log[i]
      /\ log'[Len(log) + 1] = line
  BY <1>1, Appended DEF WorldInvariant
<1> HIDE DEF line
<1>4. LogSound'
  <2>1. \A i \in DOMAIN log' : LineSound(log'[i]) /\ log'[i].unix \in 0 .. clock'
    BY <1>1, <1>2, <1>3 DEF WorldInvariant, LogSound
  <2>2. ASSUME NEW i \in DOMAIN log', NEW j \in DOMAIN log', i < j, log'[i].rid = log'[j].rid, log'[i].rid \in Connections
        PROVE  log'[i].kind = "approval" /\ log'[i].unix <= log'[j].unix
    <3>1. j # Len(log) + 1
      BY <1>2, <1>3, <2>2, TrailAssumption
    <3>2. i \in DOMAIN log /\ j \in DOMAIN log /\ log'[i] = log[i] /\ log'[j] = log[j]
      BY <1>3, <2>2, <3>1
    <3> QED BY <2>2, <3>2 DEF WorldInvariant, LogSound
  <2>3. ASSUME NEW i \in DOMAIN log', NEW j \in DOMAIN log', i < j, log'[i].kind = "access", log'[j].kind = "access"
        PROVE  log'[i].unix <= log'[j].unix
    BY <1>1, <1>2, <1>3, <2>3 DEF WorldInvariant, LogSound, SentinelSound
  <2>4. ASSUME NEW i \in DOMAIN log', NEW j \in DOMAIN log', config.contain, log'[i].kind = "access"
        PROVE  marker /\ (i < j \/ log'[i].unix < log'[j].unix => log'[j].marked)
    <3>1. marker
      BY <1>1, <2>4
    <3>2. CASE j = Len(log) + 1
      BY <1>2, <1>3, <3>1, <3>2
    <3>3. CASE j # Len(log) + 1 /\ i # Len(log) + 1
      <4>1. i \in DOMAIN log /\ j \in DOMAIN log /\ log'[i] = log[i] /\ log'[j] = log[j]
        BY <1>3, <3>3
      <4> QED BY <2>4, <3>1, <4>1 DEF WorldInvariant, LogSound
    <3>4. CASE j # Len(log) + 1 /\ i = Len(log) + 1
      <4>1. j \in DOMAIN log /\ log'[j] = log[j] /\ log'[i].unix = sentinel.unix /\ ~(i < j)
        BY <1>2, <1>3, <3>4
      <4>2. log[j].unix > sentinel.unix => log[j].marked
        <5>1. log[j].unix \in Nat /\ sentinel.unix \in Nat /\ sentinel.unix # Never
          BY <1>1, <4>1 DEF WorldInvariant, LogSound, Never
        <5> QED BY <1>1, <2>4, <4>1, <5>1 DEF WorldInvariant, SentinelSound
      <4>3. log[j].unix \in Int /\ sentinel.unix \in Int
        BY <1>1, <4>1 DEF WorldInvariant, LogSound
      <4> QED BY <3>1, <4>1, <4>2, <4>3
    <3> QED BY <3>2, <3>3, <3>4
  <2> QED BY <1>1, <2>1, <2>2, <2>3, <2>4 DEF LogSound
<1>5. ASSUME NEW c \in Connections PROVE HandlerSound(c)'
  <2>1. HandlerSound(c) /\ conns' = conns /\ line.rid # c
    BY <1>2, TrailAssumption DEF WorldInvariant
  <2> HIDE DEF AppendAccess
  <2> QED BY <1>1, <1>2, <1>3, <2>1 DEF HandlerSound
<1>6. SentinelSound'
  BY <1>1 DEF SentinelSound
<1>7. Lines' <= config.lines
  <2>1. Lines' = Len(log') + Cardinality(Busy') + (IF sentinel' = NoLine THEN 0 ELSE 1)
    BY DEF Lines, Busy
  <2>2. Busy' = Busy
    BY DEF Busy
  <2>3. Lines' = Lines
    BY <1>1, <1>3, <2>1, <2>2, LinesAre, BusyFacts
  <2> QED BY <2>3 DEF WorldInvariant
<1> QED BY <1>1, <1>3, <1>4, <1>5, <1>6, <1>7 DEF WorldInvariant

LEMMA ComposeSound ==
    ASSUME WorldInvariant, NEW c \in Connections, Compose(c)
    PROVE  WorldInvariant'
<1>1. PICK line \in NextLines(c) :
            conns' = [conns EXCEPT ![c] = [@ EXCEPT !.to = line.resource, !.rid = line.rid, !.line = line]]
  BY DEF Compose
<1>2. /\ conns[c].line = NoLine /\ Lines < config.lines /\ stage = "running"
      /\ config' = config /\ stage' = stage /\ started' = started /\ clock' = clock /\ marker' = marker
      /\ sentinel' = sentinel /\ log' = log
  BY DEF Compose, Running
<1>3. /\ LineSound(line) /\ line.kind # "access" /\ line.unix = Never
      /\ line.rid \in {NoRequest, c}
      /\ conns[c].last \notin Decisions
      /\ conns[c].last \in ApprovalTypes => line.rid = c /\ line.resource = "ask"
  BY <1>2, NextLinesSound DEF WorldInvariant
<1>4. /\ DOMAIN conns' = Connections /\ \A d \in Connections \ {c} : conns'[d] = conns[d]
      /\ conns'[c] = [last |-> conns[c].last, to |-> line.resource, rid |-> line.rid, line |-> line]
  <2>1. conns[c] = [last |-> conns[c].last, to |-> conns[c].to, rid |-> conns[c].rid, line |-> conns[c].line]
    BY DEF WorldInvariant, HandlerSound
  <2>2. DOMAIN conns = Connections
    BY DEF WorldInvariant
  <2> QED BY <1>1, <2>1, <2>2
<1>5. line # NoLine /\ Never <= clock /\ clock \in Nat
  BY <1>3, ConfigFacts DEF LineSound, IsLine, NoLine, WorldInvariant, Never
<1>6. HandlerSound(c)'
  <2>1. HandlerSound(c)
    BY DEF WorldInvariant
  <2> QED BY <1>2, <1>3, <1>4, <1>5, <2>1 DEF HandlerSound
<1>7. \A d \in Connections : HandlerSound(d)'
  BY <1>2, <1>4, <1>6 DEF HandlerSound, WorldInvariant
<1>8. SentinelSound' /\ LogSound'
  BY <1>2 DEF WorldInvariant, SentinelSound, LogSound
<1>9. Lines' <= config.lines
  <2>1. Lines' = Len(log') + Cardinality(Busy') + (IF sentinel' = NoLine THEN 0 ELSE 1)
    BY DEF Lines, Busy
  <2>2. Busy' = Busy \cup {c} /\ c \notin Busy
    BY <1>2, <1>4, <1>5 DEF Busy
  <2>3. Lines' = Lines + 1 /\ Lines \in Nat
    <3>1. Len(log) \in Nat
      BY DEF WorldInvariant
    <3> QED BY <1>2, <2>1, <2>2, <3>1, LinesAre, BusyFacts
  <2> QED BY <1>2, <2>3, ConfigFacts DEF WorldInvariant
<1> QED BY <1>2, <1>4, <1>7, <1>8, <1>9 DEF WorldInvariant

LEMMA StampSound ==
    ASSUME WorldInvariant, NEW c \in Connections, Stamp(c)
    PROVE  WorldInvariant'
<1> DEFINE line == [conns[c].line EXCEPT !.unix = clock]
<1>1. /\ conns' = [conns EXCEPT ![c].line.unix = clock]
      /\ conns[c].line # NoLine /\ stage = "running"
      /\ config' = config /\ stage' = stage /\ started' = started /\ clock' = clock /\ marker' = marker
      /\ sentinel' = sentinel /\ log' = log
  BY DEF Stamp, Running
<1>2. HandlerSound(c) /\ IsLine(conns[c].line) /\ clock \in Nat
  BY <1>1, ConfigFacts DEF WorldInvariant, HandlerSound, LineSound
<1>3. LineSound(line) /\ line # NoLine /\ line.kind = conns[c].line.kind /\ line.unix = clock
      /\ line.rid = conns[c].line.rid /\ line.resource = conns[c].line.resource
  <2>1. conns[c].line = [kind |-> conns[c].line.kind, type |-> conns[c].line.type,
            resource |-> conns[c].line.resource, rid |-> conns[c].line.rid, source |-> conns[c].line.source,
            saw |-> conns[c].line.saw, unix |-> conns[c].line.unix, marked |-> conns[c].line.marked]
    BY <1>2 DEF IsLine
  <2>2. LineSound(conns[c].line)
    BY <1>1, <1>2 DEF HandlerSound
  <2> QED BY <1>2, <2>1, <2>2 DEF LineSound, IsLine, NoLine
<1>4. /\ DOMAIN conns' = Connections /\ \A d \in Connections \ {c} : conns'[d] = conns[d]
      /\ conns'[c] = [last |-> conns[c].last, to |-> conns[c].to, rid |-> conns[c].rid, line |-> line]
  BY <1>1, <1>2 DEF WorldInvariant, HandlerSound
<1> HIDE DEF line
<1>5. \A i \in DOMAIN log : log[i].unix \in 0 .. clock
  BY DEF WorldInvariant, LogSound
<1>6. HandlerSound(c)'
  BY <1>1, <1>2, <1>3, <1>4, <1>5 DEF HandlerSound
<1>7. \A d \in Connections : HandlerSound(d)'
  BY <1>1, <1>4, <1>6 DEF HandlerSound, WorldInvariant
<1>8. SentinelSound' /\ LogSound'
  BY <1>1 DEF WorldInvariant, SentinelSound, LogSound
<1>9. Lines' <= config.lines
  <2>1. Lines' = Len(log') + Cardinality(Busy') + (IF sentinel' = NoLine THEN 0 ELSE 1)
    BY DEF Lines, Busy
  <2>2. Busy' = Busy
    <3>1. conns'[c].line # NoLine /\ conns[c].line # NoLine
      BY <1>1, <1>3, <1>4
    <3>2. \A d \in Connections \ {c} : conns'[d].line = conns[d].line
      BY <1>4
    <3> QED BY <3>1, <3>2 DEF Busy
  <2>3. Lines' = Lines
    BY <1>1, <2>1, <2>2, LinesAre
  <2> QED BY <2>3 DEF WorldInvariant
<1> QED BY <1>1, <1>4, <1>7, <1>8, <1>9 DEF WorldInvariant

LEMMA AppendLineSound ==
    ASSUME WorldInvariant, NEW c \in Connections, AppendLine(c)
    PROVE  WorldInvariant'
<1> DEFINE made == conns[c].line
           line == [made EXCEPT !.marked = marker]
<1>1. /\ log' = Append(log, line)
      /\ conns' = [conns EXCEPT ![c] = [@ EXCEPT !.last = made.type, !.line = NoLine]]
      /\ made # NoLine /\ made.unix # Never /\ stage = "running"
      /\ config' = config /\ stage' = stage /\ started' = started /\ clock' = clock /\ marker' = marker
      /\ sentinel' = sentinel
  BY DEF AppendLine, Running
<1>2. /\ HandlerSound(c) /\ LineSound(made) /\ IsLine(made) /\ clock \in Nat /\ made.unix \in 0 .. clock
      /\ made.kind # "access" /\ made.rid = conns[c].rid /\ made.resource = conns[c].to
      /\ made.rid \in {NoRequest, c}
  <2>1. HandlerSound(c) /\ clock \in Nat
    BY ConfigFacts DEF WorldInvariant
  <2>2. LineSound(made) /\ made.unix <= clock /\ made.kind # "access"
    BY <1>1, <2>1 DEF HandlerSound
  <2> QED BY <1>1, <2>1, <2>2 DEF HandlerSound, LineSound, IsLine
<1>3. /\ LineSound(line) /\ line.unix = made.unix /\ line.marked = marker
      /\ line.kind = made.kind /\ line.type = made.type /\ line.rid = made.rid /\ line.resource = made.resource
  <2>1. made = [kind |-> made.kind, type |-> made.type, resource |-> made.resource, rid |-> made.rid,
            source |-> made.source, saw |-> made.saw, unix |-> made.unix, marked |-> made.marked]
    BY <1>2 DEF IsLine
  <2> QED BY <1>2, <2>1 DEF LineSound, IsLine
<1>4. /\ log' \in Seq(Range(log'))
      /\ Len(log) \in Nat /\ Len(log') = Len(log) + 1 /\ DOMAIN log = 1 .. Len(log)
      /\ DOMAIN log' = 1 .. Len(log) + 1
      /\ \A i \in 1 .. Len(log) : log'[i] = log[i]
      /\ log'[Len(log) + 1] = line
  BY <1>1, Appended DEF WorldInvariant
<1>5. /\ DOMAIN conns' = Connections /\ \A d \in Connections \ {c} : conns'[d] = conns[d]
      /\ conns'[c] = [last |-> made.type, to |-> conns[c].to, rid |-> conns[c].rid, line |-> NoLine]
  BY <1>1, <1>2 DEF WorldInvariant, HandlerSound
<1> HIDE DEF line, made
<1>6. HandlerSound(c)'
  <2>1. \/ made.kind = "approval" /\ made.type \in ApprovalTypes
        \/ made.kind = "network" /\ made.type \in Decisions
    <3>1. <<made.type, made.source>> \in Answers => made.type \in Outcomes
      BY AnswerTypes
    <3>2. made.kind \in {"approval", "network"}
      BY <1>2 DEF IsLine
    <3>3. made.kind = "approval" => made.type = "APPROVAL_REQUIRED" \/ <<made.type, made.source>> \in Answers
      BY <1>2 DEF LineSound
    <3>4. made.kind = "network" => made.type \in Decisions
      BY <1>2 DEF LineSound
    <3> QED BY <3>1, <3>2, <3>3, <3>4 DEF ApprovalTypes
  <2>2. made.type \in ApprovalTypes => conns[c].rid = c /\ conns[c].to = "ask"
    BY <1>2, <2>1, TrailAssumption DEF LineSound, Decisions, ApprovalTypes, Outcomes
  <2>3. \A i \in DOMAIN log' : log'[i].rid = c /\ log'[i].kind = "network" => made.type \in Decisions
    <3>1. SUFFICES ASSUME NEW i \in DOMAIN log', log'[i].rid = c, log'[i].kind = "network" PROVE made.type \in Decisions
      OBVIOUS
    <3>2. CASE i = Len(log) + 1
      BY <1>3, <1>4, <2>1, <3>1, <3>2
    <3>3. CASE i # Len(log) + 1
      <4>1. i \in DOMAIN log /\ log'[i] = log[i]
        BY <1>4, <3>3
      <4>2. conns[c].line = NoLine
        BY <1>2, <3>1, <4>1 DEF HandlerSound
      <4> QED BY <1>1, <4>2 DEF made
    <3> QED BY <3>2, <3>3
  <2>4. made.type # "none" /\ made.type \in {"none"} \cup ApprovalTypes \cup Decisions
    BY <2>1 DEF ApprovalTypes, Decisions, Outcomes
  <2> QED BY <1>2, <1>5, <2>2, <2>3, <2>4 DEF HandlerSound
<1>7. ASSUME NEW d \in Connections PROVE HandlerSound(d)'
  <2>1. CASE d = c
    BY <1>6, <2>1
  <2>2. CASE d # c
    <3>1. conns'[d] = conns[d] /\ line.rid # d /\ HandlerSound(d)
      BY <1>2, <1>3, <1>5, <2>2, TrailAssumption DEF WorldInvariant
    <3>2. \A i \in DOMAIN log' : log'[i].rid = d => i \in DOMAIN log /\ log'[i] = log[i]
      BY <1>4, <3>1
    <3>3. \A i \in DOMAIN log : i \in DOMAIN log' /\ log'[i] = log[i]
      BY <1>4
    <3> DEFINE h == conns[d]
    <3>4. /\ h = [last |-> h.last, to |-> h.to, rid |-> h.rid, line |-> h.line]
          /\ h.rid \in {NoRequest, d} /\ h.last \in {"none"} \cup ApprovalTypes \cup Decisions
          /\ h.line # NoLine =>
                /\ LineSound(h.line) /\ h.line.kind # "access" /\ h.line.unix <= clock
                /\ h.line.rid = h.rid /\ h.line.resource = h.to
          /\ h.last = "none" /\ h.line = NoLine => h.rid = NoRequest
          /\ h.last \in ApprovalTypes => h.rid = d /\ h.to = "ask"
          /\ h.last \in Decisions => h.line = NoLine
      BY <3>1 DEF HandlerSound
    <3>5. /\ h.last = "none" => \A i \in DOMAIN log : log[i].rid # d
          /\ \A i \in DOMAIN log : log[i].rid = d =>
                /\ log[i].kind = "network" => h.last \in Decisions
                /\ h.line # NoLine /\ h.line.unix # Never => log[i].unix <= h.line.unix
      BY <3>1 DEF HandlerSound
    <3>6. conns'[d] = h /\ clock' = clock
      BY <1>1, <3>1
    <3> HIDE DEF h
    <3>7. /\ h.last = "none" => \A i \in DOMAIN log' : log'[i].rid # d
          /\ \A i \in DOMAIN log' : log'[i].rid = d =>
                /\ log'[i].kind = "network" => h.last \in Decisions
                /\ h.line # NoLine /\ h.line.unix # Never => log'[i].unix <= h.line.unix
      BY <3>2, <3>5
    <3> QED BY <3>4, <3>6, <3>7 DEF HandlerSound
  <2> QED BY <2>1, <2>2
<1>8. SentinelSound'
  <2>1. SUFFICES ASSUME sentinel # NoLine, sentinel.unix # Never, NEW i \in DOMAIN log'
                 PROVE  /\ log'[i].kind = "access" => log'[i].unix <= sentinel.unix
                        /\ config.contain /\ log'[i].unix > sentinel.unix => log'[i].marked
    BY <1>1 DEF WorldInvariant, SentinelSound
  <2>2. CASE i = Len(log) + 1
    BY <1>2, <1>3, <1>4, <2>1, <2>2 DEF WorldInvariant, SentinelSound
  <2>3. CASE i # Len(log) + 1
    <3>1. i \in DOMAIN log /\ log'[i] = log[i]
      BY <1>4, <2>3
    <3> QED BY <2>1, <3>1 DEF WorldInvariant, SentinelSound
  <2> QED BY <2>2, <2>3
<1>9. LogSound'
  <2>1. \A i \in DOMAIN log' : LineSound(log'[i]) /\ log'[i].unix \in 0 .. clock'
    BY <1>1, <1>2, <1>3, <1>4 DEF WorldInvariant, LogSound
  <2>2. ASSUME NEW i \in DOMAIN log', NEW j \in DOMAIN log', i < j, log'[i].rid = log'[j].rid, log'[i].rid \in Connections
        PROVE  log'[i].kind = "approval" /\ log'[i].unix <= log'[j].unix
    <3>1. i \in DOMAIN log /\ log'[i] = log[i]
      BY <1>4, <2>2
    <3>2. CASE j = Len(log) + 1
      <4>1. log[i].rid = c
        BY <1>2, <1>3, <1>4, <2>2, <3>1, <3>2, TrailAssumption
      <4>2. log[i].unix <= made.unix
        BY <1>1, <1>2, <3>1, <4>1 DEF HandlerSound, made
      <4>3. log[i].kind # "network" /\ log[i].kind # "access"
        <5>1. log[i].kind # "access"
          BY <2>2, <3>1, TrailAssumption DEF WorldInvariant, LogSound, LineSound
        <5> QED BY <1>1, <1>2, <3>1, <4>1, <5>1 DEF HandlerSound, made
      <4>4. LineSound(log[i])
        BY <3>1 DEF WorldInvariant, LogSound
      <4> QED BY <1>3, <1>4, <3>1, <3>2, <4>2, <4>3, <4>4 DEF LineSound, IsLine
    <3>3. CASE j # Len(log) + 1
      <4>1. j \in DOMAIN log /\ log'[j] = log[j]
        BY <1>4, <3>3
      <4> QED BY <2>2, <3>1, <4>1 DEF WorldInvariant, LogSound
    <3> QED BY <3>2, <3>3
  <2>3. ASSUME NEW i \in DOMAIN log', log'[i].kind = "access"
        PROVE  i \in DOMAIN log /\ log'[i] = log[i]
    BY <1>2, <1>3, <1>4, <2>3
  <2>4. ASSUME NEW i \in DOMAIN log', NEW j \in DOMAIN log', i < j, log'[i].kind = "access", log'[j].kind = "access"
        PROVE  log'[i].unix <= log'[j].unix
    BY <2>3, <2>4 DEF WorldInvariant, LogSound
  <2>5. ASSUME NEW i \in DOMAIN log', NEW j \in DOMAIN log', config.contain, log'[i].kind = "access"
        PROVE  marker /\ (i < j \/ log'[i].unix < log'[j].unix => log'[j].marked)
    <3>1. i \in DOMAIN log /\ log'[i] = log[i] /\ marker
      BY <2>3, <2>5 DEF WorldInvariant, LogSound
    <3>2. CASE j = Len(log) + 1
      BY <1>3, <1>4, <3>1, <3>2
    <3>3. CASE j # Len(log) + 1
      <4>1. j \in DOMAIN log /\ log'[j] = log[j]
        BY <1>4, <3>3
      <4> QED BY <2>5, <3>1, <4>1 DEF WorldInvariant, LogSound
    <3> QED BY <3>2, <3>3
  <2> QED BY <1>1, <2>1, <2>2, <2>4, <2>5, Zenon DEF LogSound
<1>10. Lines' <= config.lines
  <2>1. Lines' = Len(log') + Cardinality(Busy') + (IF sentinel' = NoLine THEN 0 ELSE 1)
    BY DEF Lines, Busy
  <2>2. Busy' = Busy \ {c} /\ c \in Busy
    BY <1>1, <1>5 DEF Busy, made
  <2>3. Lines' = Lines
    BY <1>1, <1>4, <2>1, <2>2, LinesAre, BusyFacts
  <2> QED BY <2>3 DEF WorldInvariant
<1> QED BY <1>1, <1>4, <1>5, <1>7, <1>8, <1>9, <1>10 DEF WorldInvariant

LEMMA StoreSound ==
    ASSUME WorldInvariant, Store
    PROVE  WorldInvariant'
<1>1. /\ stage = "stopped" /\ stage' = "stored"
      /\ clock' = 0 /\ marker' = FALSE /\ sentinel' = NoLine /\ conns' = Unconnected /\ log' = <<>>
      /\ config' = config /\ started' = started
  BY DEF Store
<1>2. config.seconds \in Nat /\ config.lines \in Nat
  BY ConfigFacts DEF WorldInvariant
<1>3. DOMAIN conns' = Connections /\ \A c \in Connections : HandlerSound(c)'
  BY <1>1 DEF Unconnected, HandlerSound, ApprovalTypes, Decisions, Outcomes
<1>4. Lines' = 0
  <2>1. Lines' = Len(log') + Cardinality(Busy') + (IF sentinel' = NoLine THEN 0 ELSE 1)
    BY DEF Lines, Busy
  <2>2. Busy' = {}
    BY <1>1 DEF Unconnected, Busy
  <2>3. Cardinality(Busy') = 0
    BY <2>2, FS_EmptySet
  <2> QED BY <1>1, <2>1, <2>3
<1>5. Lines' <= config'.lines /\ log' \in Seq(Range(log')) /\ clock' \in 0 .. config'.seconds
  BY <1>1, <1>2, <1>4
<1>6. SentinelSound' /\ LogSound'
  BY <1>1 DEF SentinelSound, LogSound
<1>7. /\ config' \in Scenarios /\ started' \in BOOLEAN /\ marker' \in BOOLEAN
      /\ stage' \in {"starting", "running", "stopped", "stored", "reading"}
      /\ stage' # "starting" /\ stage' # "running" /\ log' = <<>> /\ ~marker'
  BY <1>1 DEF WorldInvariant
<1> QED BY <1>3, <1>5, <1>6, <1>7 DEF WorldInvariant

LEMMA WorldStep == WorldInvariant /\ [Next]_vars => WorldInvariant'
<1> SUFFICES ASSUME WorldInvariant, [Next]_vars PROVE WorldInvariant'
  OBVIOUS
<1>0. clock \in Nat /\ config.seconds \in Nat /\ clock <= config.seconds
  BY ConfigFacts DEF WorldInvariant
<1>1. ASSUME UNCHANGED <<config, worldVars>>, clock' \in clock .. config.seconds,
             <<stage, stage'>> \in {<<s, s>> : s \in {stage}} \cup {<<"running", "stopped">>, <<"stored", "reading">>},
             started' = started
      PROVE  WorldInvariant'
  BY <1>0, <1>1, WorldStands DEF WorldInvariant, worldVars
<1>2. CASE UNCHANGED vars
  BY <1>0, <1>1, <1>2 DEF vars, worldVars
<1>3. CASE Launch \/ LaunchFails
  <2>1. /\ UNCHANGED <<config, sentinel, conns, log, marker>> /\ clock' = clock /\ stage = "starting"
        /\ \/ stage' = "running" /\ started' = TRUE
           \/ stage' = "stopped" /\ started' = started
    BY <1>3 DEF Launch, LaunchFails, worldVars
  <2>2. clock' \in clock .. config.seconds
    BY <1>0, <2>1
  <2>3. Lines' = Lines /\ SentinelSound' /\ LogSound' /\ \A c \in Connections : HandlerSound(c)'
    BY <2>1, <2>2, WorldStands
  <2> QED BY <1>0, <2>1, <2>3 DEF WorldInvariant
<1>4. CASE Tick
  <2>1. UNCHANGED <<config, stage, started, sentinel, conns, log, marker>> /\ clock' \in clock .. config.seconds
    BY <1>0, <1>4 DEF Tick, Running
  <2> QED BY <1>0, <2>1, WorldStands DEF WorldInvariant
<1>5. CASE Stop
  BY <1>0, <1>1, <1>5 DEF Stop, worldVars
<1>6. CASE Read
  BY <1>0, <1>1, <1>6 DEF Read, worldVars
<1>7. CASE Replay \/ Done
  BY <1>0, <1>1, <1>2, <1>7 DEF Replay, Done, worldVars
<1> QED BY <1>2, <1>3, <1>4, <1>5, <1>6, <1>7, TouchSound, StampAccessSound, AppendAccessSound,
           ComposeSound, StampSound, AppendLineSound, StoreSound DEF Next

\* The writers of the log keep to the invariant, however they are interleaved.
THEOREM WorldInvariance == Spec => []WorldInvariant
BY WorldInit, WorldStep, PTL DEF Spec

-----------------------------------------------------------------------------
(* The import of the log: times. *)

LEMMA SecondsCount ==
    \A t \in Nat : \A a, b \in Nat : /\ a * t \in Nat
                                     /\ a <= b => a * t <= b * t
                                     /\ a < b => a * t + t <= b * t
<1> SUFFICES ASSUME NEW t \in Nat, NEW a \in Nat, NEW b \in Nat
             PROVE  a * t \in Nat /\ (a <= b => a * t <= b * t) /\ (a < b => a * t + t <= b * t)
  OBVIOUS
<1>1. a * t \in Nat /\ b * t \in Nat
  OBVIOUS
<1>2. ASSUME a <= b PROVE a * t <= b * t
  <2>1. b - a \in Nat /\ b * t = a * t + (b - a) * t /\ (b - a) * t \in Nat
    BY <1>2
  <2> QED BY <1>1, <2>1
<1>3. ASSUME a < b PROVE a * t + t <= b * t
  <2>1. b - a - 1 \in Nat /\ b * t = a * t + t + (b - a - 1) * t /\ (b - a - 1) * t \in Nat
    BY <1>3
  <2> QED BY <1>1, <2>1
<1> QED BY <1>1, <1>2, <1>3

LEMMA TimeFacts ==
    ASSUME WorldInvariant
    PROVE  /\ StartedAt \in Nat /\ AfterRun \in Nat /\ StartedAt < AfterRun
           /\ \A i \in DOMAIN log : EvidenceTime(i) \in Nat /\ StartedAt <= EvidenceTime(i) /\ EvidenceTime(i) < AfterRun
           /\ \A i, j \in DOMAIN log : i <= j /\ log[i].unix <= log[j].unix => EvidenceTime(i) <= EvidenceTime(j)
<1> DEFINE t == config.lines + 2
<1>1. config.lines \in Nat /\ config.seconds \in Nat /\ t \in Nat /\ t > 1
  BY ConfigFacts DEF WorldInvariant
<1>2. /\ StartedAt = t - 1 /\ AfterRun = (config.seconds + 1) * t
      /\ \A i \in DOMAIN log : DetectedAt(i) = log[i].unix * t + (i - 1)
  BY DEF StartedAt, AfterRun, TicksPerSecond, DetectedAt
<1>3. AfterRun = config.seconds * t + t /\ config.seconds * t \in Nat
  BY <1>1, <1>2, SecondsCount
<1>4. Len(log) <= config.lines /\ DOMAIN log = 1 .. Len(log) /\ Len(log) \in Nat
  BY <1>1, LinesAre, BusyFacts DEF WorldInvariant
<1>5. ASSUME NEW i \in DOMAIN log
      PROVE  /\ log[i].unix \in Nat /\ log[i].unix <= config.seconds /\ log[i].unix * t \in Nat
             /\ DetectedAt(i) \in Nat /\ DetectedAt(i) < AfterRun
  <2>1. log[i].unix \in Nat /\ log[i].unix <= config.seconds
    BY <1>1 DEF WorldInvariant, LogSound
  <2>2. log[i].unix * t \in Nat /\ log[i].unix * t <= config.seconds * t
    BY <1>1, <2>1, SecondsCount
  <2>3. i \in Nat /\ i >= 1 /\ i - 1 < t
    BY <1>1, <1>4
  <2> HIDE DEF t
  <2> QED BY <1>1, <1>2, <1>3, <2>1, <2>2, <2>3
<1>6. ASSUME NEW i \in DOMAIN log, NEW j \in DOMAIN log, i <= j, log[i].unix <= log[j].unix
      PROVE  DetectedAt(i) <= DetectedAt(j)
  <2>1. log[i].unix * t <= log[j].unix * t
    BY <1>1, <1>5, <1>6, SecondsCount
  <2>2. i \in Nat /\ j \in Nat /\ log[i].unix * t \in Nat /\ log[j].unix * t \in Nat
    BY <1>4, <1>5
  <2> HIDE DEF t
  <2> QED BY <1>2, <1>6, <2>1, <2>2
<1>7. StartedAt \in Nat /\ AfterRun \in Nat /\ StartedAt < AfterRun
  <2> HIDE DEF t
  <2> QED BY <1>1, <1>2, <1>3
<1> HIDE DEF t
<1> QED BY <1>5, <1>6, <1>7 DEF EvidenceTime

-----------------------------------------------------------------------------
(* The import of the log: what is stored. *)

\* A record with the fields of an event.
Shaped(e) ==
    e = [id |-> e.id, ts |-> e.ts, type |-> e.type, resource |-> e.resource, decision |-> e.decision,
         rid |-> e.rid, ref |-> e.ref, source |-> e.source, severity |-> e.severity, marked |-> e.marked]
WithId(e, n) ==
    [id |-> n, ts |-> e.ts, type |-> e.type, resource |-> e.resource, decision |-> e.decision,
     rid |-> e.rid, ref |-> e.ref, source |-> e.source, severity |-> e.severity, marked |-> e.marked]

LEMMA FromLineFields ==
    ASSUME NEW i, NEW type, NEW decision
    PROVE  LET e == FromLine(i, type, decision)
           IN /\ Shaped(e) /\ e.ts = EvidenceTime(i) /\ e.type = type /\ e.resource = log[i].resource
              /\ e.rid = log[i].rid /\ e.source = log[i].source /\ e.severity = "none" /\ e.marked = log[i].marked
BY DEF FromLine, Shaped

LEMMA SeverityAltered ==
    ASSUME NEW b, Shaped(b), NEW y
    PROVE  LET e == [b EXCEPT !.severity = y]
           IN /\ Shaped(e) /\ e.severity = y /\ e.ts = b.ts /\ e.type = b.type /\ e.resource = b.resource
              /\ e.rid = b.rid /\ e.source = b.source /\ e.marked = b.marked
BY DEF Shaped

LEMMA RefAltered ==
    ASSUME NEW b, Shaped(b), NEW y
    PROVE  LET e == [b EXCEPT !.ref = y]
           IN /\ Shaped(e) /\ e.severity = b.severity /\ e.ts = b.ts /\ e.type = b.type /\ e.resource = b.resource
              /\ e.rid = b.rid /\ e.source = b.source /\ e.marked = b.marked
BY DEF Shaped

LEMMA ResourceAltered ==
    ASSUME NEW b, Shaped(b), NEW y
    PROVE  LET e == [b EXCEPT !.resource = y]
           IN /\ Shaped(e) /\ e.severity = b.severity /\ e.ts = b.ts /\ e.type = b.type
              /\ e.rid = b.rid /\ e.source = b.source /\ e.marked = b.marked
BY DEF Shaped

LEMMA MarkedAltered ==
    ASSUME NEW b, Shaped(b), NEW y
    PROVE  LET e == [b EXCEPT !.marked = y]
           IN /\ Shaped(e) /\ e.severity = b.severity /\ e.ts = b.ts /\ e.type = b.type /\ e.rid = b.rid
BY DEF Shaped

LEMMA WithIdFields ==
    ASSUME NEW b, NEW n
    PROVE  LET e == WithId(b, n)
           IN /\ Shaped(e) /\ e.id = n /\ e.severity = b.severity /\ e.ts = b.ts /\ e.type = b.type /\ e.resource = b.resource
              /\ e.rid = b.rid /\ e.source = b.source /\ e.marked = b.marked
BY DEF Shaped, WithId

LEMMA PutAllFacts ==
    ASSUME NEW es, es \in Seq(Range(es)), NEW more, more \in Seq(Range(more)), \A j \in DOMAIN more : Shaped(more[j])
    PROVE  /\ PutAll(es, more) \in Seq(Range(PutAll(es, more)))
           /\ Len(es) \in Nat /\ Len(more) \in Nat /\ Len(PutAll(es, more)) = Len(es) + Len(more)
           /\ DOMAIN PutAll(es, more) = 1 .. Len(es) + Len(more)
           /\ \A p \in 1 .. Len(es) : PutAll(es, more)[p] = es[p]
           /\ \A p \in Len(es) + 1 .. Len(es) + Len(more) : PutAll(es, more)[p] = WithId(more[p - Len(es)], p)
<1> DEFINE new == [i \in DOMAIN more |-> [more[i] EXCEPT !.id = Len(es) + i]]
<1>1. DOMAIN more = 1 .. Len(more) /\ Len(more) \in Nat /\ Len(es) \in Nat
  OBVIOUS
<1>2. \A i \in DOMAIN more : new[i] = WithId(more[i], Len(es) + i)
  BY DEF Shaped, WithId
<1>3. new \in Seq(Range(new)) /\ Len(new) = Len(more)
  <2>1. new \in [1 .. Len(more) -> Range(new)]
    BY <1>1 DEF Range
  <2> HIDE DEF new
  <2> QED BY <1>1, <2>1
<1> HIDE DEF new
<1>4. PutAll(es, more) = es \o new
  BY DEF PutAll, new
<1>5. es \in Seq(Range(es) \cup Range(new)) /\ new \in Seq(Range(es) \cup Range(new))
  BY <1>3
<1>6. /\ es \o new \in Seq(Range(es) \cup Range(new)) /\ Len(es \o new) = Len(es) + Len(new)
      /\ \A p \in 1 .. Len(es) + Len(new) : (es \o new)[p] = IF p <= Len(es) THEN es[p] ELSE new[p - Len(es)]
  BY <1>5, ConcatProperties
<1>7. es \o new \in Seq(Range(es \o new))
  BY <1>6, SeqOfRange
<1>8. ASSUME NEW p \in Len(es) + 1 .. Len(es) + Len(more) PROVE (es \o new)[p] = WithId(more[p - Len(es)], p)
  <2>1. p - Len(es) \in DOMAIN more /\ ~(p <= Len(es)) /\ p \in 1 .. Len(es) + Len(new) /\ Len(es) + (p - Len(es)) = p
    BY <1>1, <1>3
  <2> QED BY <1>2, <1>6, <2>1
<1>9. \A p \in 1 .. Len(es) : (es \o new)[p] = es[p]
  BY <1>1, <1>3, <1>6
<1>10. DOMAIN (es \o new) = 1 .. Len(es) + Len(more)
  BY <1>3, <1>6
<1> QED BY <1>1, <1>3, <1>4, <1>6, <1>7, <1>8, <1>9, <1>10

StartupTypes ==
    {"SESSION_START", "UNTRUSTED_CONTENT_OBSERVED", "PROMPT_INJECTION_SUSPECTED", "POLICY_ALLOW", "POLICY_ASK",
     "POLICY_DENY", "RESOURCE_LIMIT_TRIGGERED", "DECOY_CREATED", "POLICY_SHADOW", "PROCESS_START"}
StartupEvent(e) ==
    Shaped(e) /\ e.ts \in 0 .. StartedAt /\ e.type \in StartupTypes /\ e.severity \in Range(Severities) \cup {"none"}

LEMMA StartupEvents ==
    ASSUME StartedAt \in Nat, NEW type \in StartupTypes, NEW ts \in {0, StartedAt}, NEW resource, NEW decision
    PROVE  StartupEvent(Event(type, ts, resource, decision))
<1> DEFINE e == Event(type, ts, resource, decision)
<1>1. Shaped(e) /\ e.ts = ts /\ e.type = type /\ e.severity = "none"
  BY DEF Event, Shaped
<1> HIDE DEF e
<1>2. StartupEvent(e)
  BY <1>1 DEF StartupEvent
<1> QED BY <1>2 DEF e

LEMMA StartupFacts ==
    ASSUME WorldInvariant
    PROVE  /\ Startup \in Seq(Range(Startup)) /\ Len(Startup) > 0
           /\ \A j \in DOMAIN Startup : StartupEvent(Startup[j])
<1>1. StartedAt \in Nat /\ config.prompt \in Range(Severities) \cup {"none"}
  BY TimeFacts, ConfigFacts DEF WorldInvariant
<1> DEFINE a1 == Event("SESSION_START", 0, "none", "none")
           a2 == Event("UNTRUSTED_CONTENT_OBSERVED", 0, "AGENTS.md", "none")
           a3 == [Event("PROMPT_INJECTION_SUSPECTED", 0, "AGENTS.md", "none") EXCEPT !.severity = config.prompt]
           a4 == Event("POLICY_ALLOW", 0, "workspace", "ALLOW")
           a5 == Event("POLICY_ASK", 0, "network", "ASK")
           a6 == Event("PROCESS_START", StartedAt, "none", "none")
           a7 == Event("POLICY_ALLOW", 0, "network", "ALLOW")
           a8 == Event("RESOURCE_LIMIT_TRIGGERED", 0, "workspace", "none")
           s2 == IF config.prompt = "none" THEN <<>> ELSE <<a3>>
           s3 == IF config.limited THEN <<a8>> ELSE <<>>
           absent == [i \in DOMAIN config.denied |-> Event("POLICY_DENY", 0, config.denied[i], "DENY")]
<1>2. StartupEvent(a1) /\ StartupEvent(a2) /\ StartupEvent(a4) /\ StartupEvent(a5) /\ StartupEvent(a6)
      /\ StartupEvent(a7) /\ StartupEvent(a8)
  BY <1>1, StartupEvents DEF StartupTypes
<1>3. StartupEvent(a3)
  <2> DEFINE b == Event("PROMPT_INJECTION_SUSPECTED", 0, "AGENTS.md", "none")
  <2>1. StartupEvent(b)
    BY <1>1, StartupEvents DEF StartupTypes
  <2> HIDE DEF b
  <2>2. StartupEvent([b EXCEPT !.severity = config.prompt])
    BY <1>1, <2>1, SeverityAltered DEF StartupEvent
  <2> QED BY <2>2 DEF b
<1>4. ASSUME NEW i \in DOMAIN OfDecoys PROVE StartupEvent(OfDecoys[i])
  <2>1. \E path : \/ OfDecoys[i] = Event("DECOY_CREATED", 0, path, "none")
                 \/ OfDecoys[i] = Event("POLICY_SHADOW", 0, path, "SHADOW")
    BY DEF OfDecoys
  <2> QED BY <1>1, <2>1, StartupEvents DEF StartupTypes
<1>5. OfDecoys \in Seq(Range(OfDecoys)) /\ Len(OfDecoys) \in Nat
  <2>1. Len(config.decoys) \in Nat
    BY ConfigFacts DEF WorldInvariant
  <2>2. 2 * Len(config.decoys) \in Nat /\ DOMAIN OfDecoys = 1 .. 2 * Len(config.decoys)
    BY <2>1 DEF OfDecoys
  <2>3. OfDecoys \in [1 .. 2 * Len(config.decoys) -> Range(OfDecoys)]
    BY <2>2 DEF Range, OfDecoys
  <2> QED BY <2>2, <2>3
<1>6. ASSUME NEW i \in DOMAIN absent PROVE StartupEvent(absent[i])
  BY <1>1, StartupEvents DEF StartupTypes
<1>7. absent \in Seq(Range(absent)) /\ Len(absent) \in Nat
  <2>1. Len(config.denied) \in Nat /\ DOMAIN absent = 1 .. Len(config.denied)
    BY ConfigFacts DEF WorldInvariant
  <2>2. absent \in [1 .. Len(config.denied) -> Range(absent)]
    BY <2>1 DEF Range
  <2> HIDE DEF absent
  <2> QED BY <2>1, <2>2
<1>8. Startup = <<a1, a2>> \o s2 \o s3 \o <<a4, a7, a5>> \o OfDecoys \o absent \o <<a6>>
  BY DEF Startup
<1> HIDE DEF a1, a2, a3, a4, a5, a6, a7, a8, absent
<1> DEFINE F == {a1, a2, a3, a4, a5, a6, a7, a8} \cup Range(OfDecoys) \cup Range(absent)
<1>9. \A e \in F : StartupEvent(e)
  BY <1>2, <1>3, <1>4, <1>6 DEF Range
<1>10. Startup \in Seq(F) /\ Len(Startup) > 0
  <2> DEFINE h == <<a1, a2>>
             u == <<a4, a7, a5>>
             v == <<a6>>
  <2>1. h \in Seq(F) /\ s2 \in Seq(F) /\ s3 \in Seq(F) /\ u \in Seq(F) /\ v \in Seq(F) /\ Len(h) = 2
    <3>1. {a1, a2, a3, a4, a5, a6, a7, a8} \subseteq F
      OBVIOUS
    <3> HIDE DEF F
    <3>2. a1 \in F /\ a2 \in F /\ a3 \in F /\ a4 \in F /\ a5 \in F /\ a6 \in F /\ a7 \in F /\ a8 \in F
      BY <3>1
    <3> QED BY <3>2
  <2>2. OfDecoys \in Seq(F) /\ absent \in Seq(F)
    <3>1. Range(OfDecoys) \subseteq F /\ Range(absent) \subseteq F
      OBVIOUS
    <3> HIDE DEF F
    <3> QED BY <1>5, <1>7, <3>1
  <2>3. Startup = h \o s2 \o s3 \o u \o OfDecoys \o absent \o v
    BY <1>8
  <2> HIDE DEF F, h, s2, s3, u, v
  <2>4. h \o s2 \in Seq(F) /\ Len(h \o s2) >= 2
    <3>1. h \o s2 \in Seq(F) /\ Len(h \o s2) = Len(h) + Len(s2)
      BY <2>1, ConcatProperties, Zenon
    <3>2. Len(s2) \in Nat
      BY <2>1
    <3> QED BY <2>1, <3>1, <3>2
  <2>5. h \o s2 \o s3 \in Seq(F) /\ Len(h \o s2 \o s3) >= 2
    BY <2>1, <2>4
  <2>6. h \o s2 \o s3 \o u \in Seq(F) /\ Len(h \o s2 \o s3 \o u) >= 2
    BY <2>1, <2>5
  <2>7. h \o s2 \o s3 \o u \o OfDecoys \in Seq(F) /\ Len(h \o s2 \o s3 \o u \o OfDecoys) >= 2
    BY <2>2, <2>6
  <2>8. h \o s2 \o s3 \o u \o OfDecoys \o absent \in Seq(F) /\ Len(h \o s2 \o s3 \o u \o OfDecoys \o absent) >= 2
    BY <2>2, <2>7
  <2> QED BY <2>1, <2>3, <2>8
<1>11. Startup \in Seq(Range(Startup))
  BY <1>10, SeqOfRange
<1>12. \A j \in DOMAIN Startup : Startup[j] \in F
  BY <1>10
<1> QED BY <1>9, <1>10, <1>11, <1>12

-----------------------------------------------------------------------------
(* The import of the log: one line after the other. *)

AccessTypes == {"DECOY_ACCESS", "SENSITIVE_RESOURCE_REQUESTED", "CONTAINMENT_ACTIVATED", "SECURITY_INCIDENT"}

\* What is stored of the i-th line.
FromLineSound(e, i) ==
    /\ i \in DOMAIN log /\ e.ts = EvidenceTime(i) /\ e.marked = log[i].marked
    /\ log[i].kind = "access" =>
        /\ i \in Accesses /\ e.rid = NoRequest /\ e.type \in AccessTypes
        /\ e.type = "CONTAINMENT_ACTIVATED" => config.contain /\ \A j \in Accesses : i <= j
    /\ log[i].kind # "access" =>
        /\ e.type \in {log[i].type, "NETWORK_REQUEST"}
        /\ e.resource = log[i].resource /\ e.rid = log[i].rid /\ e.source = log[i].source

\* Events of the first k lines; from says of which line each is, 0 of those before the run.
StoredAs(es, from, k) ==
    /\ es \in Seq(Range(es)) /\ Len(es) > 0 /\ DOMAIN from = DOMAIN es
    /\ \A p \in DOMAIN es :
        /\ Shaped(es[p]) /\ es[p].id = p /\ es[p].severity \in Range(Severities) \cup {"none"}
        /\ from[p] \in 0 .. k
        /\ from[p] = 0 => es[p].type \in StartupTypes /\ es[p].ts \in 0 .. StartedAt
        /\ from[p] # 0 => FromLineSound(es[p], from[p])
    /\ \A p, q \in DOMAIN es : p < q => from[p] <= from[q]

\* A decision without an approval comes right after its request.
Requested(es) ==
    \A p \in DOMAIN es : es[p].type = "NETWORK_DENY" /\ es[p].rid = NoRequest =>
        /\ p - 1 \in DOMAIN es /\ es[p - 1].type = "NETWORK_REQUEST"
        /\ es[p - 1].ts = es[p].ts /\ es[p - 1].resource = es[p].resource

\* The activation comes after the access that it is of, and before all others.
Activation(es, before) == \E q \in DOMAIN es : q < before /\ es[q].type = "CONTAINMENT_ACTIVATED"
Accessed(es, from) ==
    \A p \in DOMAIN es :
        /\ es[p].type = "CONTAINMENT_ACTIVATED" =>
            \E q \in DOMAIN es : q < p /\ es[q].type = "DECOY_ACCESS" /\ from[q] = from[p]
        /\ es[p].type = "DECOY_ACCESS" =>
            /\ \A q \in DOMAIN es : q < p /\ es[q].type = "DECOY_ACCESS" => from[q] # from[p]
            /\ config.contain /\ (\E j \in Accesses : j < from[p]) => Activation(es, p)
Activated(es, k) == config.contain /\ (\E j \in Accesses : j <= k) => Activation(es, Len(es) + 1)

ImportSound(done, from, k) ==
    /\ done = [events |-> done.events, ok |-> done.ok] /\ done.ok \in BOOLEAN
    /\ StoredAs(done.events, from, k) /\ Requested(done.events) /\ Accessed(done.events, from)
    /\ done.ok => Activated(done.events, k)

Extend(from, n, m, i) == [p \in 1 .. n + m |-> IF p <= n THEN from[p] ELSE i]

\* What was stored before still is what it was.
Continues(es, from, new, since) ==
    /\ Len(es) \in Nat /\ Len(new) \in Nat /\ Len(es) <= Len(new)
    /\ DOMAIN es = 1 .. Len(es) /\ DOMAIN new = 1 .. Len(new)
    /\ \A p \in DOMAIN es : new[p] = es[p] /\ since[p] = from[p]

\* What the next line adds.
Importable(es, from, k, more) ==
    /\ k \in Nat /\ k + 1 \in DOMAIN log /\ StoredAs(es, from, k) /\ more \in Seq(Range(more))
    /\ \A j \in DOMAIN more : /\ Shaped(more[j]) /\ FromLineSound(more[j], k + 1)
                              /\ more[j].severity \in Range(Severities) \cup {"none"}

LEMMA Extended ==
    ASSUME WorldInvariant, NEW es, NEW from, NEW k, NEW more, Importable(es, from, k, more)
    PROVE  LET n == Len(es)
               m == Len(more)
               new == PutAll(es, more)
               since == Extend(from, n, m, k + 1)
           IN /\ StoredAs(new, since, k + 1) /\ Continues(es, from, new, since)
              /\ n \in Nat \ {0} /\ m \in Nat /\ DOMAIN more = 1 .. m /\ Len(new) = n + m
              /\ \A p \in 1 .. n : from[p] <= k
              /\ \A p \in n + 1 .. n + m :
                    /\ since[p] = k + 1 /\ p - n \in 1 .. m
                    /\ new[p].type = more[p - n].type /\ new[p].ts = more[p - n].ts
                    /\ new[p].rid = more[p - n].rid /\ new[p].resource = more[p - n].resource
<1> DEFINE n == Len(es)
           m == Len(more)
           new == PutAll(es, more)
           since == Extend(from, n, m, k + 1)
<1>a. new = PutAll(es, more) /\ n = Len(es) /\ m = Len(more) /\ since = Extend(from, n, m, k + 1)
  OBVIOUS
<1> HIDE DEF new, n, m, since
<1> USE DEF Importable
<1>1. /\ new \in Seq(Range(new)) /\ n \in Nat /\ m \in Nat /\ Len(new) = n + m /\ DOMAIN new = 1 .. n + m
      /\ \A p \in 1 .. n : new[p] = es[p]
      /\ \A p \in n + 1 .. n + m : new[p] = WithId(more[p - n], p)
      /\ n > 0 /\ DOMAIN es = 1 .. n /\ DOMAIN more = 1 .. m
  <2>1. es \in Seq(Range(es)) /\ Len(es) > 0 /\ \A j \in DOMAIN more : Shaped(more[j])
    BY DEF StoredAs
  <2>2. /\ PutAll(es, more) \in Seq(Range(PutAll(es, more)))
        /\ Len(es) \in Nat /\ Len(more) \in Nat /\ Len(PutAll(es, more)) = Len(es) + Len(more)
        /\ DOMAIN PutAll(es, more) = 1 .. Len(es) + Len(more)
        /\ \A p \in 1 .. Len(es) : PutAll(es, more)[p] = es[p]
        /\ \A p \in Len(es) + 1 .. Len(es) + Len(more) : PutAll(es, more)[p] = WithId(more[p - Len(es)], p)
    BY <2>1, PutAllFacts
  <2>3. DOMAIN es = 1 .. Len(es) /\ DOMAIN more = 1 .. Len(more)
    BY <2>1
  <2> QED BY <1>a, <2>1, <2>2, <2>3
<1>2. DOMAIN since = 1 .. n + m /\ \A p \in 1 .. n + m : since[p] = IF p <= n THEN from[p] ELSE k + 1
  BY <1>a DEF Extend
<1>3. ASSUME NEW p \in 1 .. n
      PROVE  /\ p \in DOMAIN es /\ new[p] = es[p] /\ since[p] = from[p] /\ from[p] \in 0 .. k /\ p \in 1 .. n + m
  <2>1. p \in DOMAIN es /\ p \in 1 .. n + m /\ p <= n
    BY <1>1
  <2>2. from[p] \in 0 .. k
    BY <2>1 DEF StoredAs
  <2> QED BY <1>1, <1>2, <2>1, <2>2
<1>4. ASSUME NEW p \in n + 1 .. n + m
      PROVE  /\ since[p] = k + 1 /\ p - n \in 1 .. m /\ p \in 1 .. n + m
             /\ Shaped(new[p]) /\ new[p].id = p /\ new[p].severity = more[p - n].severity /\ new[p].ts = more[p - n].ts
             /\ new[p].type = more[p - n].type /\ new[p].resource = more[p - n].resource
             /\ new[p].rid = more[p - n].rid /\ new[p].source = more[p - n].source /\ new[p].marked = more[p - n].marked
  <2>1. new[p] = WithId(more[p - n], p) /\ since[p] = k + 1 /\ p - n \in 1 .. m /\ p \in 1 .. n + m
    BY <1>1, <1>2
  <2> DEFINE b == more[p - n]
             e == WithId(b, p)
  <2>2. /\ Shaped(e) /\ e.id = p /\ e.severity = b.severity /\ e.ts = b.ts /\ e.type = b.type /\ e.resource = b.resource
        /\ e.rid = b.rid /\ e.source = b.source /\ e.marked = b.marked
    BY DEF Shaped, WithId
  <2> QED BY <2>1, <2>2
<1>5. ASSUME NEW p \in 1 .. n + m
      PROVE  /\ Shaped(new[p]) /\ new[p].id = p /\ new[p].severity \in Range(Severities) \cup {"none"}
             /\ since[p] \in 0 .. k + 1
             /\ since[p] = 0 => new[p].type \in StartupTypes /\ new[p].ts \in 0 .. StartedAt
             /\ since[p] # 0 => FromLineSound(new[p], since[p])
  <2>1. CASE p <= n
    <3>1. p \in 1 .. n
      BY <1>1, <2>1
    <3> QED BY <1>3, <3>1 DEF StoredAs
  <2>2. CASE ~(p <= n)
    <3>1. p \in n + 1 .. n + m
      BY <1>1, <2>2
    <3>2. /\ Shaped(more[p - n]) /\ FromLineSound(more[p - n], k + 1)
          /\ more[p - n].severity \in Range(Severities) \cup {"none"}
      BY <1>1, <1>4, <3>1
    <3>3. FromLineSound(new[p], k + 1)
      BY <1>4, <3>1, <3>2 DEF FromLineSound
    <3> QED BY <1>4, <3>1, <3>2, <3>3
  <2> QED BY <2>1, <2>2
<1>6. ASSUME NEW p \in 1 .. n + m, NEW q \in 1 .. n + m, p < q PROVE since[p] <= since[q]
  <2>1. CASE q <= n
    <3>1. p \in 1 .. n /\ q \in 1 .. n
      BY <1>1, <1>6, <2>1
    <3>2. from[p] <= from[q]
      BY <1>3, <1>6, <3>1 DEF StoredAs
    <3> QED BY <1>3, <3>1, <3>2
  <2>2. CASE ~(q <= n)
    <3>1. q \in n + 1 .. n + m
      BY <1>1, <2>2
    <3>2. since[q] = k + 1
      BY <1>4, <3>1
    <3>3. since[p] \in 0 .. k + 1
      BY <1>5
    <3> QED BY <3>2, <3>3
  <2> QED BY <2>1, <2>2
<1>7. StoredAs(new, since, k + 1)
  BY <1>1, <1>2, <1>5, <1>6 DEF StoredAs
<1>8. Continues(es, from, new, since)
  BY <1>1, <1>3, <1>a DEF Continues
<1>9. \A p \in 1 .. n : from[p] <= k
  BY <1>3
<1> QED BY <1>1, <1>4, <1>7, <1>8, <1>9 DEF new, n, m, since

LEMMA LineFacts ==
    ASSUME WorldInvariant, NEW i \in DOMAIN log
    PROVE  /\ LineSound(log[i]) /\ log[i].unix \in Nat /\ i \in Nat \ {0}
           /\ log[i].kind \in {"access", "approval", "network"}
           /\ log[i].kind = "network" => log[i].type \in Decisions
           /\ log[i].kind = "approval" => log[i].type \in ApprovalTypes
<1>1. LineSound(log[i]) /\ log[i].unix \in 0 .. clock /\ clock \in Nat
  <2>1. clock \in Nat
    BY ConfigFacts DEF WorldInvariant
  <2> QED BY <2>1 DEF WorldInvariant, LogSound
<1>2. i \in Nat \ {0}
  BY DEF WorldInvariant
<1>3. log[i].kind = "approval" => log[i].type \in ApprovalTypes
  BY <1>1, AnswerTypes DEF LineSound, ApprovalTypes
<1> QED BY <1>1, <1>2, <1>3 DEF LineSound, IsLine

LEMMA AccessedBefore ==
    ASSUME NEW es, NEW from, NEW new, NEW since, Accessed(es, from), Continues(es, from, new, since)
    PROVE  /\ \A p \in DOMAIN es :
                /\ new[p].type = "CONTAINMENT_ACTIVATED" =>
                    \E q \in DOMAIN new : q < p /\ new[q].type = "DECOY_ACCESS" /\ since[q] = since[p]
                /\ new[p].type = "DECOY_ACCESS" =>
                    /\ \A q \in DOMAIN new : q < p /\ new[q].type = "DECOY_ACCESS" => since[q] # since[p]
                    /\ config.contain /\ (\E j \in Accesses : j < since[p]) => Activation(new, p)
           /\ \A b \in 1 .. Len(es) + 1, d \in Nat : Activation(es, b) /\ b <= d => Activation(new, d)
<1>1. \A p \in DOMAIN es : p \in DOMAIN new /\ p \in Nat /\ new[p] = es[p] /\ since[p] = from[p] /\ p \in 1 .. Len(es) + 1
  BY DEF Continues
<1>2. ASSUME NEW b \in 1 .. Len(es) + 1, NEW d \in Nat, Activation(es, b), b <= d PROVE Activation(new, d)
  <2>1. PICK q \in DOMAIN es : q < b /\ es[q].type = "CONTAINMENT_ACTIVATED"
    BY <1>2 DEF Activation
  <2>2. q \in DOMAIN es /\ q < d
    BY <1>1, <1>2, <2>1 DEF Continues
  <2> QED BY <1>1, <2>1, <2>2 DEF Activation
<1>3. ASSUME NEW p \in DOMAIN es, new[p].type = "CONTAINMENT_ACTIVATED"
      PROVE  \E q \in DOMAIN new : q < p /\ new[q].type = "DECOY_ACCESS" /\ since[q] = since[p]
  <2>1. PICK q \in DOMAIN es : q < p /\ es[q].type = "DECOY_ACCESS" /\ from[q] = from[p]
    BY <1>1, <1>3 DEF Accessed
  <2> QED BY <1>1, <2>1
<1>4. ASSUME NEW p \in DOMAIN es, new[p].type = "DECOY_ACCESS"
      PROVE  /\ \A q \in DOMAIN new : q < p /\ new[q].type = "DECOY_ACCESS" => since[q] # since[p]
             /\ config.contain /\ (\E j \in Accesses : j < since[p]) => Activation(new, p)
  <2>1. p \in DOMAIN es /\ es[p].type = "DECOY_ACCESS" /\ since[p] = from[p]
    BY <1>1, <1>4
  <2>2. ASSUME NEW q \in DOMAIN new, q < p, new[q].type = "DECOY_ACCESS" PROVE since[q] # since[p]
    <3>1. q \in DOMAIN es
      BY <1>1, <2>1, <2>2 DEF Continues
    <3> QED BY <1>1, <2>1, <2>2, <3>1 DEF Accessed
  <2>3. ASSUME config.contain, \E j \in Accesses : j < since[p] PROVE Activation(new, p)
    <3>1. Activation(es, p)
      BY <2>1, <2>3 DEF Accessed
    <3>2. p \in 1 .. Len(es) + 1 /\ p \in Nat /\ p <= p
      OBVIOUS
    <3> QED BY <1>2, <3>1, <3>2
  <2> QED BY <2>2, <2>3
<1> QED BY <1>2, <1>3, <1>4

\* A line that is of no access.
LEMMA OtherStored ==
    ASSUME WorldInvariant, NEW es, NEW from, NEW k, NEW more, Importable(es, from, k, more),
           Requested(es), Accessed(es, from), log[k + 1].kind # "access",
           \A j \in DOMAIN more : more[j].type = "NETWORK_DENY" /\ more[j].rid = NoRequest =>
                /\ j > 1 /\ more[j - 1].type = "NETWORK_REQUEST"
                /\ more[j - 1].ts = more[j].ts /\ more[j - 1].resource = more[j].resource
    PROVE  \E since : /\ StoredAs(PutAll(es, more), since, k + 1)
                      /\ Requested(PutAll(es, more)) /\ Accessed(PutAll(es, more), since)
                      /\ Activated(es, k) => Activated(PutAll(es, more), k + 1)
<1> DEFINE new == PutAll(es, more)
           n == Len(es)
           m == Len(more)
           since == Extend(from, n, m, k + 1)
<1>1. /\ StoredAs(new, since, k + 1) /\ Continues(es, from, new, since)
      /\ n \in Nat \ {0} /\ m \in Nat /\ DOMAIN more = 1 .. m /\ Len(new) = n + m
      /\ \A p \in 1 .. n : from[p] <= k
      /\ \A p \in n + 1 .. n + m :
            /\ since[p] = k + 1 /\ p - n \in 1 .. m
            /\ new[p].type = more[p - n].type /\ new[p].ts = more[p - n].ts
            /\ new[p].rid = more[p - n].rid /\ new[p].resource = more[p - n].resource
  BY Extended
<1> HIDE DEF new, n, m, since
<1>b. DOMAIN es = 1 .. n /\ DOMAIN new = 1 .. n + m /\ \A p \in 1 .. n : new[p] = es[p] /\ since[p] = from[p]
  BY <1>1 DEF Continues, n
<1>0. k \in Nat /\ k + 1 \in DOMAIN log /\ \A j \in DOMAIN more : FromLineSound(more[j], k + 1)
  BY DEF Importable
<1>2. \A j \in DOMAIN more : more[j].type \notin {"CONTAINMENT_ACTIVATED", "DECOY_ACCESS"}
  BY <1>0, LineFacts DEF FromLineSound, Decisions, ApprovalTypes, Outcomes
<1>3. Requested(new)
  <2> SUFFICES ASSUME NEW p \in DOMAIN new, new[p].type = "NETWORK_DENY", new[p].rid = NoRequest
               PROVE  /\ p - 1 \in DOMAIN new /\ new[p - 1].type = "NETWORK_REQUEST"
                      /\ new[p - 1].ts = new[p].ts /\ new[p - 1].resource = new[p].resource
    BY DEF Requested
  <2>1. CASE p <= n
    <3>1. p \in DOMAIN es /\ new[p] = es[p]
      BY <1>1, <1>b, <2>1
    <3>2. p - 1 \in DOMAIN es /\ es[p - 1].type = "NETWORK_REQUEST" /\ es[p - 1].ts = es[p].ts /\ es[p - 1].resource = es[p].resource
      BY <3>1 DEF Requested
    <3>3. p - 1 \in DOMAIN new /\ new[p - 1] = es[p - 1]
      BY <1>1, <1>b, <3>2
    <3> QED BY <3>1, <3>2, <3>3
  <2>2. CASE ~(p <= n)
    <3>1. p \in n + 1 .. n + m /\ p - n \in DOMAIN more
      BY <1>1, <1>b, <2>2
    <3>2. /\ p - n > 1 /\ more[p - n - 1].type = "NETWORK_REQUEST"
          /\ more[p - n - 1].ts = more[p - n].ts /\ more[p - n - 1].resource = more[p - n].resource
      BY <1>1, <3>1
    <3>3. p - 1 \in n + 1 .. n + m /\ p - 1 \in DOMAIN new /\ p - 1 - n = p - n - 1
      BY <1>1, <1>b, <3>1, <3>2
    <3> QED BY <1>1, <3>1, <3>2, <3>3
  <2> QED BY <2>1, <2>2
<1>4. /\ \A p \in DOMAIN es :
            /\ new[p].type = "CONTAINMENT_ACTIVATED" =>
                \E q \in DOMAIN new : q < p /\ new[q].type = "DECOY_ACCESS" /\ since[q] = since[p]
            /\ new[p].type = "DECOY_ACCESS" =>
                /\ \A q \in DOMAIN new : q < p /\ new[q].type = "DECOY_ACCESS" => since[q] # since[p]
                /\ config.contain /\ (\E j \in Accesses : j < since[p]) => Activation(new, p)
      /\ \A b \in 1 .. Len(es) + 1, d \in Nat : Activation(es, b) /\ b <= d => Activation(new, d)
  BY <1>1, AccessedBefore
<1>5. Accessed(new, since)
  <2> SUFFICES ASSUME NEW p \in DOMAIN new
               PROVE  /\ new[p].type = "CONTAINMENT_ACTIVATED" =>
                            \E q \in DOMAIN new : q < p /\ new[q].type = "DECOY_ACCESS" /\ since[q] = since[p]
                      /\ new[p].type = "DECOY_ACCESS" =>
                            /\ \A q \in DOMAIN new : q < p /\ new[q].type = "DECOY_ACCESS" => since[q] # since[p]
                            /\ config.contain /\ (\E j \in Accesses : j < since[p]) => Activation(new, p)
    BY DEF Accessed
  <2>1. CASE p <= n
    <3>1. p \in DOMAIN es
      BY <1>1, <1>b, <2>1
    <3> QED BY <1>4, <3>1
  <2>2. CASE ~(p <= n)
    <3>1. p \in n + 1 .. n + m /\ p - n \in DOMAIN more
      BY <1>1, <1>b, <2>2
    <3> QED BY <1>1, <1>2, <3>1
  <2> QED BY <2>1, <2>2
<1>6. ASSUME Activated(es, k) PROVE Activated(new, k + 1)
  <2> SUFFICES ASSUME config.contain, NEW j \in Accesses, j <= k + 1 PROVE Activation(new, n + m + 1)
    BY <1>1 DEF Activated
  <2>1. j # k + 1 /\ j \in Nat
    BY <1>0, LineFacts DEF Accesses
  <2>2. Activation(es, n + 1)
    BY <1>0, <1>6, <2>1 DEF Activated, n
  <2>3. n + 1 \in 1 .. Len(es) + 1 /\ n + m + 1 \in Nat /\ n + 1 <= n + m + 1
    BY <1>1 DEF n
  <2> QED BY <1>4, <2>2, <2>3
<1> QED BY <1>1, <1>3, <1>5, <1>6 DEF new

LEMMA PutIsPutAll ==
    ASSUME NEW es, es \in Seq(Range(es)), NEW e
    PROVE  Put(es, e) = PutAll(es, <<e>>)
<1> DEFINE x == [e EXCEPT !.id = Len(es) + 1]
<1>1. Put(es, e) = Append(es, x)
  BY DEF Put
<1>2. PutAll(es, <<e>>) = es \o [i \in {1} |-> [e EXCEPT !.id = Len(es) + i]]
  <2>1. DOMAIN <<e>> = {1} /\ <<e>>[1] = e
    OBVIOUS
  <2> QED BY <2>1 DEF PutAll
<1>3. [i \in {1} |-> [e EXCEPT !.id = Len(es) + i]] = <<x>>
  OBVIOUS
<1> HIDE DEF x
<1>4. Append(es, x) = es \o <<x>>
  <2>1. es \in Seq(Range(es) \cup {x}) /\ x \in Range(es) \cup {x}
    OBVIOUS
  <2> QED BY <2>1, AppendIsConcat
<1> QED BY <1>1, <1>2, <1>3, <1>4

Derived(e, i, type, decision, r) ==
    e \in {FromLine(i, type, decision), [FromLine(i, type, decision) EXCEPT !.ref = r]}

LEMMA OtherEvent ==
    ASSUME WorldInvariant, NEW e, NEW i, NEW type, NEW decision, NEW r, Derived(e, i, type, decision, r),
           i \in DOMAIN log, log[i].kind # "access", type \in {log[i].type, "NETWORK_REQUEST"}
    PROVE   /\ Shaped(e) /\ FromLineSound(e, i) /\ e.severity \in Range(Severities) \cup {"none"}
            /\ e.type = type /\ e.ts = EvidenceTime(i) /\ e.resource = log[i].resource /\ e.rid = log[i].rid
<1> DEFINE b == FromLine(i, type, decision)
<1>1. /\ Shaped(b) /\ b.ts = EvidenceTime(i) /\ b.type = type /\ b.resource = log[i].resource
      /\ b.rid = log[i].rid /\ b.source = log[i].source /\ b.severity = "none" /\ b.marked = log[i].marked
  BY DEF FromLine, Shaped
<1> HIDE DEF b
<1>2. /\ Shaped(e) /\ e.ts = EvidenceTime(i) /\ e.type = type /\ e.resource = log[i].resource
      /\ e.rid = log[i].rid /\ e.source = log[i].source /\ e.severity = "none" /\ e.marked = log[i].marked
  <2>0. e \in {b, [b EXCEPT !.ref = r]}
    BY DEF b, Derived
  <2>1. CASE e = b
    BY <1>1, <2>1
  <2>2. CASE e = [b EXCEPT !.ref = r]
    BY <1>1, <2>2 DEF Shaped
  <2> QED BY <2>0, <2>1, <2>2
<1> QED BY <1>2 DEF FromLineSound

LEMMA OtherImported ==
    ASSUME WorldInvariant, NEW es, NEW from, NEW k \in Nat, StoredAs(es, from, k), Requested(es), Accessed(es, from),
           k + 1 \in DOMAIN log, log[k + 1].kind # "access"
    PROVE  LET new == IF log[k + 1].kind = "approval" THEN ImportApproval(es, k + 1) ELSE ImportNetwork(es, k + 1)
           IN \E since : /\ StoredAs(new, since, k + 1) /\ Requested(new) /\ Accessed(new, since)
                         /\ Activated(es, k) => Activated(new, k + 1)
<1> DEFINE i == k + 1
<1>0. i \in DOMAIN log /\ log[i].kind # "access" /\ log[i].kind \in {"access", "approval", "network"}
      /\ (log[i].kind = "network" => log[i].type \in Decisions)
      /\ (log[i].kind = "approval" => log[i].type \in ApprovalTypes)
  BY LineFacts
<1>1. ASSUME NEW a, NEW b, NEW type \in {log[i].type}, NEW decision,
             a = FromLine(i, "NETWORK_REQUEST", "none"), b = FromLine(i, type, decision)
      PROVE  \E since : /\ StoredAs(PutAll(es, <<a, b>>), since, i)
                        /\ Requested(PutAll(es, <<a, b>>)) /\ Accessed(PutAll(es, <<a, b>>), since)
                        /\ Activated(es, k) => Activated(PutAll(es, <<a, b>>), i)
  <2> DEFINE more == <<a, b>>
  <2>1. more \in Seq(Range(more)) /\ DOMAIN more = {1, 2} /\ more[1] = a /\ more[2] = b
    <3>1. more \in Seq({a, b}) /\ DOMAIN more = {1, 2} /\ more[1] = a /\ more[2] = b
      OBVIOUS
    <3> QED BY <3>1, SeqOfRange
  <2> HIDE DEF more
  <2>2. /\ Shaped(a) /\ FromLineSound(a, i) /\ a.severity \in Range(Severities) \cup {"none"}
        /\ a.type = "NETWORK_REQUEST" /\ a.ts = EvidenceTime(i) /\ a.resource = log[i].resource
    <3>1. Derived(a, i, "NETWORK_REQUEST", "none", 0)
      BY <1>1 DEF Derived
    <3> QED BY <1>0, <3>1, OtherEvent
  <2>3. /\ Shaped(b) /\ FromLineSound(b, i) /\ b.severity \in Range(Severities) \cup {"none"}
        /\ b.ts = EvidenceTime(i) /\ b.resource = log[i].resource
    <3>1. type \in {log[i].type, "NETWORK_REQUEST"} /\ Derived(b, i, type, decision, 0)
      BY <1>1 DEF Derived
    <3> QED BY <1>0, <3>1, OtherEvent
  <2>4. Importable(es, from, k, more)
    BY <2>1, <2>2, <2>3 DEF Importable
  <2>5. \A j \in DOMAIN more : more[j].type = "NETWORK_DENY" /\ more[j].rid = NoRequest =>
                /\ j > 1 /\ more[j - 1].type = "NETWORK_REQUEST"
                /\ more[j - 1].ts = more[j].ts /\ more[j - 1].resource = more[j].resource
    BY <2>1, <2>2, <2>3
  <2> QED BY <1>0, <2>4, <2>5, OtherStored DEF more
<1>2. ASSUME NEW b, NEW type \in {log[i].type}, NEW decision, NEW r, log[i].rid # NoRequest \/ log[i].kind = "approval",
             b \in {FromLine(i, type, decision), [FromLine(i, type, decision) EXCEPT !.ref = r]}
      PROVE  \E since : /\ StoredAs(Put(es, b), since, i)
                        /\ Requested(Put(es, b)) /\ Accessed(Put(es, b), since)
                        /\ Activated(es, k) => Activated(Put(es, b), i)
  <2> DEFINE more == <<b>>
  <2>1. more \in Seq(Range(more)) /\ DOMAIN more = {1} /\ more[1] = b
    <3>1. more \in Seq({b}) /\ DOMAIN more = {1} /\ more[1] = b
      OBVIOUS
    <3> QED BY <3>1, SeqOfRange
  <2>a. Put(es, b) = PutAll(es, more)
    BY PutIsPutAll DEF StoredAs
  <2> HIDE DEF more
  <2>3. /\ Shaped(b) /\ FromLineSound(b, i) /\ b.severity \in Range(Severities) \cup {"none"}
        /\ b.type = log[i].type /\ b.rid = log[i].rid
    <3>1. type \in {log[i].type, "NETWORK_REQUEST"} /\ Derived(b, i, type, decision, r)
      BY <1>2 DEF Derived
    <3>2. /\ Shaped(b) /\ FromLineSound(b, i) /\ b.severity \in Range(Severities) \cup {"none"}
          /\ b.type = type /\ b.rid = log[i].rid
      BY <1>0, <1>2, <3>1, OtherEvent
    <3> QED BY <3>2
  <2>4. Importable(es, from, k, more)
    BY <2>1, <2>3 DEF Importable
  <2>5. \A j \in DOMAIN more : ~(more[j].type = "NETWORK_DENY" /\ more[j].rid = NoRequest)
    BY <1>0, <1>2, <2>1, <2>3 DEF ApprovalTypes, Outcomes
  <2> QED BY <1>0, <2>a, <2>4, <2>5, OtherStored
<1>3. CASE log[i].kind = "approval"
  <2>1. CASE log[i].type = "APPROVAL_REQUIRED"
    <3>1. ImportApproval(es, i) = PutAll(es, <<FromLine(i, "NETWORK_REQUEST", "none"), FromLine(i, log[i].type, "ASK")>>)
      BY <2>1 DEF ImportApproval
    <3> QED BY <1>1, <1>3, <3>1
  <2>2. CASE log[i].type # "APPROVAL_REQUIRED"
    <3>1. \E decision, r : ImportApproval(es, i) = Put(es, [FromLine(i, log[i].type, decision) EXCEPT !.ref = r])
      BY <2>2 DEF ImportApproval
    <3> QED BY <1>2, <1>3, <3>1
  <2> QED BY <2>1, <2>2
<1>4. CASE log[i].kind = "network"
  <2> DEFINE decision == IF log[i].type = "NETWORK_ALLOW" THEN "ALLOW" ELSE "DENY"
  <2>1. ImportNetwork(es, i) = IF log[i].rid = NoRequest
                               THEN PutAll(es, <<FromLine(i, "NETWORK_REQUEST", "none"), FromLine(i, log[i].type, decision)>>)
                               ELSE Put(es, FromLine(i, log[i].type, decision))
    BY DEF ImportNetwork
  <2> HIDE DEF decision
  <2>2. CASE log[i].rid = NoRequest
    BY <1>1, <1>4, <2>1, <2>2
  <2>3. CASE log[i].rid # NoRequest
    BY <1>2, <1>4, <2>1, <2>3
  <2> QED BY <2>2, <2>3
<1> QED BY <1>0, <1>3, <1>4

\* What an access is stored as.
MadeOf(more, a, b, c, d, with, without) ==
    /\ with \in BOOLEAN /\ without \in BOOLEAN
    /\ more = <<a, b>> \o (IF with THEN <<c>> ELSE <<>>) \o (IF without THEN <<>> ELSE <<d>>)

LEMMA AccessSequence ==
    ASSUME NEW more, NEW a, NEW b, NEW c, NEW d, NEW with, NEW without, MadeOf(more, a, b, c, d, with, without)
    PROVE  /\ more \in Seq(Range(more)) /\ Len(more) \in Nat /\ Len(more) >= 2 /\ DOMAIN more = 1 .. Len(more)
           /\ more[1] = a
           /\ \A j \in DOMAIN more : j # 1 => more[j] \in {b, d} \/ (with /\ more[j] = c)
           /\ with => \E j \in DOMAIN more : more[j] = c
<1> DEFINE S == {a, b, c, d}
           h == <<a, b>>
           s == IF with THEN <<c>> ELSE <<>>
           t == IF without THEN <<>> ELSE <<d>>
           l == IF with THEN 1 ELSE 0
<1>1. h \in Seq(S) /\ Len(h) = 2 /\ h[1] = a /\ h[2] = b /\ a \in S /\ b \in S
  OBVIOUS
<1>2. s \in Seq(S) /\ Len(s) = l /\ (with => s[1] = c)
  <2>1. <<c>> \in Seq(S) /\ Len(<<c>>) = 1 /\ <<c>>[1] = c /\ <<>> \in Seq(S) /\ Len(<<>>) = 0
    OBVIOUS
  <2>2. CASE with
    <3>1. s = <<c>> /\ l = 1
      BY <2>2
    <3> QED BY <2>1, <3>1
  <2>3. CASE ~with
    <3>1. s = <<>> /\ l = 0
      BY <2>3
    <3> QED BY <2>1, <2>3, <3>1
  <2> QED BY <2>2, <2>3
<1>3. t \in Seq(S) /\ Len(t) \in Nat /\ Len(t) <= 1 /\ (Len(t) = 0 \/ Len(t) = 1) /\ (Len(t) = 1 => t[1] = d)
  <2>1. <<d>> \in Seq(S) /\ Len(<<d>>) = 1 /\ <<d>>[1] = d /\ <<>> \in Seq(S) /\ Len(<<>>) = 0
    OBVIOUS
  <2>2. t = <<>> \/ t = <<d>>
    OBVIOUS
  <2> HIDE DEF t
  <2>3. CASE t = <<d>>
    BY <2>1, <2>3
  <2>4. CASE t = <<>>
    BY <2>1, <2>4
  <2> QED BY <2>2, <2>3, <2>4
<1>4. more = (h \o s) \o t
  BY DEF MadeOf
<1>5. with <=> l = 1
  BY DEF MadeOf
<1>5a. l \in Nat /\ l <= 1
  BY DEF MadeOf
<1> HIDE DEF S, h, s, t, l
<1>6. /\ h \o s \in Seq(S) /\ Len(h \o s) = 2 + l
      /\ \A j \in 1 .. 2 + l : (h \o s)[j] = IF j <= 2 THEN h[j] ELSE s[j - 2]
  <2>1. /\ h \o s \in Seq(S) /\ Len(h \o s) = Len(h) + Len(s)
        /\ \A j \in 1 .. Len(h) + Len(s) : (h \o s)[j] = IF j <= Len(h) THEN h[j] ELSE s[j - Len(h)]
    BY <1>1, <1>2, ConcatProperties, Zenon
  <2> QED BY <1>1, <1>2, <2>1
<1>7. /\ more \in Seq(S) /\ Len(more) = 2 + l + Len(t)
      /\ \A j \in 1 .. 2 + l + Len(t) : more[j] = IF j <= 2 + l THEN (h \o s)[j] ELSE t[j - (2 + l)]
  <2> DEFINE g == h \o s
  <2>0. g \in Seq(S) /\ Len(g) = 2 + l /\ more = g \o t
    BY <1>4, <1>6
  <2> HIDE DEF g
  <2>1. /\ g \o t \in Seq(S) /\ Len(g \o t) = Len(g) + Len(t)
        /\ \A j \in 1 .. Len(g) + Len(t) : (g \o t)[j] = IF j <= Len(g) THEN g[j] ELSE t[j - Len(g)]
    BY <1>3, <2>0, ConcatProperties, Zenon
  <2>2. /\ more \in Seq(S) /\ Len(more) = 2 + l + Len(t)
        /\ \A j \in 1 .. 2 + l + Len(t) : more[j] = IF j <= 2 + l THEN g[j] ELSE t[j - (2 + l)]
    BY <2>0, <2>1
  <2> QED BY <2>2 DEF g
<1>8. DOMAIN more = 1 .. Len(more) /\ more \in Seq(Range(more)) /\ Len(more) \in 2 .. 4
  <2>1. more \in Seq(S) /\ more \in Seq(Range(more))
    BY <1>7, SeqOfRange
  <2>2. Len(more) = 2 + l + Len(t) /\ l \in Nat /\ l <= 1 /\ Len(t) \in Nat /\ Len(t) <= 1
    BY <1>3, <1>5, <1>5a, <1>7
  <2>3. Len(more) \in 2 .. 4
    BY <2>2
  <2>4. DOMAIN more = 1 .. Len(more)
    BY <2>1
  <2> QED BY <2>1, <2>3, <2>4
<1>9. more[1] = a /\ more[2] = b
  <2>1. 1 \in 1 .. 2 + l /\ 2 \in 1 .. 2 + l /\ 1 \in 1 .. 2 + l + Len(t) /\ 2 \in 1 .. 2 + l + Len(t)
    BY <1>3, <1>5, <1>5a
  <2>2. 1 <= 2 + l /\ 2 <= 2 + l
    BY <1>5, <1>5a
  <2>3. (h \o s)[1] = h[1] /\ (h \o s)[2] = h[2]
    BY <1>6, <2>1
  <2> QED BY <1>1, <1>7, <2>1, <2>2, <2>3
<1>10. with => 3 \in DOMAIN more /\ more[3] = c
  <2> SUFFICES ASSUME with PROVE 3 \in DOMAIN more /\ more[3] = c
    OBVIOUS
  <2>1. l = 1 /\ s[1] = c /\ 3 \in 1 .. 2 + l /\ 3 \in 1 .. 2 + l + Len(t) /\ 3 - 2 = 1
    BY <1>2, <1>3, <1>5, <1>5a
  <2>2. (h \o s)[3] = s[1]
    BY <1>6, <2>1
  <2>3. 3 <= 2 + l /\ 3 \in DOMAIN more
    BY <1>7, <1>8, <2>1
  <2> QED BY <1>7, <2>1, <2>2, <2>3
<1>11. ASSUME NEW j \in DOMAIN more, j # 1 PROVE more[j] \in {b, d} \/ (with /\ more[j] = c)
  <2>1. j \in 2 .. 2 + l + Len(t)
    BY <1>7, <1>8, <1>11
  <2>2. CASE j = 2
    BY <1>9, <2>2
  <2>3. CASE j # 2 /\ j <= 2 + l
    <3>1. j = 3 /\ with
      BY <1>5, <1>5a, <2>1, <2>3
    <3> QED BY <1>10, <3>1
  <2>4. CASE ~(j <= 2 + l)
    <3>1. j - (2 + l) = 1 /\ Len(t) = 1
      <4>1. Len(t) \in Nat /\ Len(t) <= 1 /\ j \in Int /\ j <= 2 + l + Len(t) /\ j > 2 + l
        BY <1>3, <1>5a, <2>1, <2>4
      <4>2. Len(t) >= 1
        BY <1>5a, <4>1
      <4>3. Len(t) = 1
        BY <1>3, <4>2
      <4>4. j = 2 + l + 1
        BY <1>5a, <4>1, <4>3
      <4> QED BY <1>5a, <4>3, <4>4
    <3> QED BY <1>3, <1>5, <1>5a, <1>7, <2>1, <2>4, <3>1
  <2> QED BY <2>2, <2>3, <2>4
<1>12. Len(more) \in Nat /\ Len(more) >= 2
  BY <1>8
<1>13. with => \E j \in DOMAIN more : more[j] = c
  BY <1>10
<1> QED BY <1>8, <1>9, <1>11, <1>12, <1>13

LEMMA AccessImported ==
    ASSUME WorldInvariant, NEW es, NEW from, NEW k \in Nat, StoredAs(es, from, k), Requested(es), Accessed(es, from),
           Activated(es, k), k + 1 \in DOMAIN log, log[k + 1].kind = "access", FirstAccess(k + 1)
    PROVE  LET new == ImportAccess(es, k + 1)
           IN \E since : /\ StoredAs(new, since, k + 1) /\ Requested(new) /\ Accessed(new, since)
                         /\ Activated(new, k + 1)
<1> DEFINE i == k + 1
           a == FromLine(i, "DECOY_ACCESS", "SHADOW")
           b == [FromLine(i, "SENSITIVE_RESOURCE_REQUESTED", "SHADOW") EXCEPT !.ref = Len(es) + 1]
           c == [FromLine(i, "CONTAINMENT_ACTIVATED", "DENY") EXCEPT !.resource = "none"]
           d == [FromLine(i, "SECURITY_INCIDENT", "SHADOW") EXCEPT !.severity = config.severity]
           with == config.contain /\ \A j \in Accesses : i <= j
           without == config.severity = "none"
           more == <<a, b>> \o (IF with THEN <<c>> ELSE <<>>) \o (IF without THEN <<>> ELSE <<d>>)
           n == Len(es)
           m == Len(more)
           new == PutAll(es, more)
           since == Extend(from, n, m, k + 1)
<1>0. /\ i \in Accesses /\ i \in DOMAIN log /\ log[i].kind = "access" /\ log[i].rid = NoRequest
      /\ config.severity \in Range(Severities) \cup {"none"} /\ i \in Nat /\ k + 1 = i
      /\ config.contain \in BOOLEAN
  <2>1. config.severity \in {"none", "LOW", "MEDIUM", "HIGH"} /\ config.contain \in BOOLEAN
    BY ConfigFacts DEF WorldInvariant
  <2>2. {"LOW", "MEDIUM", "HIGH"} \subseteq Range(Severities)
    <3>1. DOMAIN Severities = 1 .. 4 /\ Severities[1] = "LOW" /\ Severities[2] = "MEDIUM" /\ Severities[3] = "HIGH"
      BY DEF Severities
    <3> QED BY <3>1 DEF Range
  <2> QED BY <2>1, <2>2, LineFacts DEF Accesses, LineSound
<1>1. new = ImportAccess(es, i)
  BY DEF ImportAccess
<1>2. /\ Shaped(a) /\ a.ts = EvidenceTime(i) /\ a.type = "DECOY_ACCESS" /\ a.rid = log[i].rid
      /\ a.severity = "none" /\ a.marked = log[i].marked
  BY DEF FromLine, Shaped
<1>3. /\ Shaped(b) /\ b.ts = EvidenceTime(i) /\ b.type = "SENSITIVE_RESOURCE_REQUESTED" /\ b.rid = log[i].rid
      /\ b.severity = "none" /\ b.marked = log[i].marked
  <2> DEFINE f == FromLine(i, "SENSITIVE_RESOURCE_REQUESTED", "SHADOW")
  <2>1. /\ Shaped(f) /\ f.ts = EvidenceTime(i) /\ f.type = "SENSITIVE_RESOURCE_REQUESTED" /\ f.rid = log[i].rid
        /\ f.severity = "none" /\ f.marked = log[i].marked
    BY DEF FromLine, Shaped
  <2> HIDE DEF f
  <2>2. b = [f EXCEPT !.ref = Len(es) + 1]
    BY DEF f
  <2> QED BY <2>1, <2>2 DEF Shaped
<1>4. /\ Shaped(c) /\ c.ts = EvidenceTime(i) /\ c.type = "CONTAINMENT_ACTIVATED" /\ c.rid = log[i].rid
      /\ c.severity = "none" /\ c.marked = log[i].marked
  <2> DEFINE f == FromLine(i, "CONTAINMENT_ACTIVATED", "DENY")
  <2>1. /\ Shaped(f) /\ f.ts = EvidenceTime(i) /\ f.type = "CONTAINMENT_ACTIVATED" /\ f.rid = log[i].rid
        /\ f.severity = "none" /\ f.marked = log[i].marked
    BY DEF FromLine, Shaped
  <2> HIDE DEF f
  <2>2. c = [f EXCEPT !.resource = "none"]
    BY DEF f
  <2> QED BY <2>1, <2>2 DEF Shaped
<1>5. /\ Shaped(d) /\ d.ts = EvidenceTime(i) /\ d.type = "SECURITY_INCIDENT" /\ d.rid = log[i].rid
      /\ d.severity = config.severity /\ d.marked = log[i].marked
  <2> DEFINE f == FromLine(i, "SECURITY_INCIDENT", "SHADOW")
  <2>1. /\ Shaped(f) /\ f.ts = EvidenceTime(i) /\ f.type = "SECURITY_INCIDENT" /\ f.rid = log[i].rid
        /\ f.severity = "none" /\ f.marked = log[i].marked
    BY DEF FromLine, Shaped
  <2> HIDE DEF f
  <2>2. d = [f EXCEPT !.severity = config.severity]
    BY DEF f
  <2> QED BY <2>1, <2>2 DEF Shaped
<1> HIDE DEF a, b, c, d
<1>6. /\ more \in Seq(Range(more)) /\ Len(more) \in Nat /\ Len(more) >= 2 /\ DOMAIN more = 1 .. Len(more)
      /\ more[1] = a
      /\ \A j \in DOMAIN more : j # 1 => more[j] \in {b, d} \/ (with /\ more[j] = c)
      /\ with => \E j \in DOMAIN more : more[j] = c
  <2>1. with \in BOOLEAN /\ without \in BOOLEAN
    BY <1>0
  <2>2. more = <<a, b>> \o (IF with THEN <<c>> ELSE <<>>) \o (IF without THEN <<>> ELSE <<d>>)
    OBVIOUS
  <2> HIDE DEF with, without, more
  <2>3. MadeOf(more, a, b, c, d, with, without)
    BY <2>1, <2>2 DEF MadeOf
  <2> QED BY <2>3, AccessSequence
<1> HIDE DEF more, without
<1>7. ASSUME NEW j \in DOMAIN more
      PROVE  /\ Shaped(more[j]) /\ FromLineSound(more[j], i) /\ more[j].severity \in Range(Severities) \cup {"none"}
             /\ more[j].type # "NETWORK_DENY"
             /\ j # 1 => more[j].type # "DECOY_ACCESS"
  <2>1. more[j] \in {a, b, d} \/ (with /\ more[j] = c)
    BY <1>6
  <2>2. CASE more[j] \in {a, b, d}
    BY <1>0, <1>2, <1>3, <1>4, <1>5, <1>6, <2>2 DEF FromLineSound, AccessTypes
  <2>3. CASE with /\ more[j] = c
    BY <1>0, <1>4, <2>3 DEF FromLineSound, AccessTypes
  <2> QED BY <2>1, <2>2, <2>3
<1> HIDE DEF with
<1>8. Importable(es, from, k, more)
  BY <1>0, <1>6, <1>7 DEF Importable
<1>9. /\ StoredAs(new, since, k + 1) /\ Continues(es, from, new, since)
      /\ n \in Nat \ {0} /\ m \in Nat /\ DOMAIN more = 1 .. m /\ Len(new) = n + m
      /\ \A p \in 1 .. n : from[p] <= k
      /\ \A p \in n + 1 .. n + m :
            /\ since[p] = k + 1 /\ p - n \in 1 .. m
            /\ new[p].type = more[p - n].type /\ new[p].ts = more[p - n].ts
            /\ new[p].rid = more[p - n].rid /\ new[p].resource = more[p - n].resource
  BY <1>8, Extended
<1> HIDE DEF n, m, new, since
<1>10. /\ DOMAIN es = 1 .. n /\ DOMAIN new = 1 .. n + m /\ (\A p \in 1 .. n : new[p] = es[p] /\ since[p] = from[p])
       /\ m >= 2
  BY <1>6, <1>9 DEF Continues, n, m
<1>11. /\ \A p \in DOMAIN es :
            /\ new[p].type = "CONTAINMENT_ACTIVATED" =>
                \E q \in DOMAIN new : q < p /\ new[q].type = "DECOY_ACCESS" /\ since[q] = since[p]
            /\ new[p].type = "DECOY_ACCESS" =>
                /\ \A q \in DOMAIN new : q < p /\ new[q].type = "DECOY_ACCESS" => since[q] # since[p]
                /\ config.contain /\ (\E j \in Accesses : j < since[p]) => Activation(new, p)
       /\ \A x \in 1 .. Len(es) + 1, y \in Nat : Activation(es, x) /\ x <= y => Activation(new, y)
  BY <1>9, AccessedBefore
<1>12. Requested(new)
  <2> SUFFICES ASSUME NEW p \in DOMAIN new, new[p].type = "NETWORK_DENY", new[p].rid = NoRequest
               PROVE  /\ p - 1 \in DOMAIN new /\ new[p - 1].type = "NETWORK_REQUEST"
                      /\ new[p - 1].ts = new[p].ts /\ new[p - 1].resource = new[p].resource
    BY DEF Requested
  <2>1. CASE p <= n
    <3>1. p \in DOMAIN es /\ new[p] = es[p]
      BY <1>9, <1>10, <2>1
    <3>2. p - 1 \in DOMAIN es /\ es[p - 1].type = "NETWORK_REQUEST" /\ es[p - 1].ts = es[p].ts /\ es[p - 1].resource = es[p].resource
      BY <3>1 DEF Requested
    <3>3. p - 1 \in DOMAIN new /\ new[p - 1] = es[p - 1]
      BY <1>9, <1>10, <3>2
    <3> QED BY <3>1, <3>2, <3>3
  <2>2. CASE ~(p <= n)
    <3>1. p \in n + 1 .. n + m /\ p - n \in DOMAIN more
      BY <1>9, <1>10, <2>2
    <3> QED BY <1>7, <1>9, <3>1
  <2> QED BY <2>1, <2>2
<1>13. n + 1 \in DOMAIN new /\ new[n + 1].type = "DECOY_ACCESS" /\ since[n + 1] = i
  <2>1. n + 1 \in n + 1 .. n + m /\ n + 1 - n = 1 /\ n + 1 \in 1 .. n + m
    BY <1>9, <1>10
  <2> QED BY <1>2, <1>6, <1>9, <1>10, <2>1
<1>14. ASSUME NEW p \in DOMAIN new
       PROVE  /\ new[p].type = "CONTAINMENT_ACTIVATED" =>
                   \E q \in DOMAIN new : q < p /\ new[q].type = "DECOY_ACCESS" /\ since[q] = since[p]
              /\ new[p].type = "DECOY_ACCESS" =>
                   /\ \A q \in DOMAIN new : q < p /\ new[q].type = "DECOY_ACCESS" => since[q] # since[p]
                   /\ config.contain /\ (\E j \in Accesses : j < since[p]) => Activation(new, p)
  <2>1. CASE p <= n
    <3>1. p \in DOMAIN es
      BY <1>9, <1>10, <2>1
    <3> QED BY <1>11, <3>1
  <2>2. CASE p = n + 1
    <3>1. new[p].type = "DECOY_ACCESS" /\ since[p] = k + 1
      BY <1>13, <2>2
    <3>2. ASSUME NEW q \in DOMAIN new, q < p PROVE since[q] # since[p]
      <4>1. q \in 1 .. n
        BY <1>9, <1>10, <2>2, <3>2
      <4>2. since[q] \in 0 .. k
        BY <1>10, <4>1 DEF StoredAs
      <4> QED BY <3>1, <4>2
    <3>3. ASSUME config.contain, NEW j \in Accesses, j < since[p] PROVE Activation(new, p)
      <4>1. j \in Nat /\ j <= k
        BY <3>1, <3>3, LineFacts DEF Accesses
      <4>2. Activation(es, Len(es) + 1)
        BY <3>3, <4>1 DEF Activated
      <4>3. Len(es) + 1 \in 1 .. Len(es) + 1 /\ p \in Nat /\ Len(es) + 1 <= p
        BY <1>9, <2>2 DEF n
      <4> QED BY <1>11, <4>2, <4>3
    <3> QED BY <3>1, <3>2, <3>3
  <2>3. CASE p > n + 1
    <3>1. p \in n + 1 .. n + m /\ p - n \in DOMAIN more /\ p - n # 1
      BY <1>9, <1>10, <2>3
    <3>2. new[p].type # "DECOY_ACCESS" /\ since[p] = i
      BY <1>7, <1>9, <3>1
    <3> QED BY <1>13, <2>3, <3>2
  <2> QED BY <1>9, <1>10, <2>1, <2>2, <2>3
<1>15. Activated(new, k + 1)
  <2> SUFFICES ASSUME config.contain PROVE Activation(new, n + m + 1)
    BY <1>9 DEF Activated
  <2>1. CASE \E j \in Accesses : j <= k
    <3>1. Activation(es, Len(es) + 1)
      BY <2>1 DEF Activated
    <3>2. Len(es) + 1 \in 1 .. Len(es) + 1 /\ n + m + 1 \in Nat /\ Len(es) + 1 <= n + m + 1
      BY <1>9 DEF n
    <3> QED BY <1>11, <3>1, <3>2
  <2>2. CASE ~\E j \in Accesses : j <= k
    <3>1. \A j \in Accesses : i <= j
      BY <2>2, LineFacts DEF Accesses
    <3>2. with
      BY <3>1 DEF with
    <3>3. PICK j \in DOMAIN more : more[j] = c
      BY <1>6, <3>2
    <3>4. n + j \in n + 1 .. n + m /\ n + j - n = j /\ n + j \in DOMAIN new /\ n + j < n + m + 1
      BY <1>9, <1>10, <3>3
    <3>5. new[n + j].type = "CONTAINMENT_ACTIVATED"
      BY <1>4, <1>9, <3>3, <3>4
    <3> QED BY <3>4, <3>5 DEF Activation
  <2> QED BY <2>1, <2>2
<1>16. Accessed(new, since)
  BY <1>14 DEF Accessed
<1> QED BY <1>1, <1>9, <1>12, <1>15, <1>16

LEMMA PassedOver ==
    ASSUME WorldInvariant, NEW es, NEW from, NEW k \in Nat, StoredAs(es, from, k)
    PROVE  /\ StoredAs(es, from, k + 1)
           /\ Activated(es, k) /\ k + 1 \notin Accesses => Activated(es, k + 1)
<1>1. ASSUME NEW p \in DOMAIN es PROVE from[p] \in 0 .. k + 1
  <2>1. from[p] \in 0 .. k
    BY DEF StoredAs
  <2> QED BY <2>1
<1>2. \A j \in Accesses : j \in Nat
  BY LineFacts DEF Accesses
<1>3. \A j \in Accesses : j <= k + 1 /\ j # k + 1 => j <= k
  BY <1>2
<1> QED BY <1>1, <1>3 DEF StoredAs, Activated

LEMMA ImportStep ==
    ASSUME WorldInvariant, NEW done, NEW from, NEW k \in Nat, k + 1 \in DOMAIN log, ImportSound(done, from, k)
    PROVE  \E since : ImportSound(ImportLine(done, k + 1), since, k + 1)
<1> DEFINE i == k + 1
           es == done.events
           result == ImportLine(done, i)
           taken == CASE log[i].kind = "access" -> ImportAccess(es, i)
                      [] log[i].kind = "approval" -> ImportApproval(es, i)
                      [] log[i].kind = "network" -> ImportNetwork(es, i)
<1>1. /\ done = [events |-> es, ok |-> done.ok] /\ done.ok \in BOOLEAN
      /\ StoredAs(es, from, k) /\ Requested(es) /\ Accessed(es, from)
      /\ done.ok => Activated(es, k)
  BY DEF ImportSound
<1>2. result = IF ~done.ok \/ (log[i].kind = "access" /\ ~FirstAccess(i)) THEN done
               ELSE IF Acceptable(es, i) THEN [done EXCEPT !.events = taken] ELSE [done EXCEPT !.ok = FALSE]
  BY DEF ImportLine
<1>3. StoredAs(es, from, i) /\ (Activated(es, k) /\ i \notin Accesses => Activated(es, i))
  BY <1>1, PassedOver
<1> HIDE DEF taken, result
<1>4. CASE ~done.ok \/ (log[i].kind = "access" /\ ~FirstAccess(i))
  <2>1. done.ok => i \notin Accesses
    BY <1>4 DEF Accesses
  <2>2. result = done
    BY <1>2, <1>4
  <2>3. ImportSound(done, from, i)
    BY <1>1, <1>3, <2>1 DEF ImportSound
  <2> QED BY <2>2, <2>3 DEF result
<1>5. CASE done.ok /\ ~(log[i].kind = "access" /\ ~FirstAccess(i)) /\ ~Acceptable(es, i)
  <2>1. result = [done EXCEPT !.ok = FALSE]
    BY <1>2, <1>5
  <2>2. result = [events |-> es, ok |-> FALSE]
    BY <1>1, <2>1
  <2>3. result.events = es /\ result.ok = FALSE /\ result = [events |-> result.events, ok |-> result.ok]
    BY <2>2
  <2>4. ImportSound(result, from, i)
    BY <1>1, <1>3, <2>3 DEF ImportSound
  <2> QED BY <2>4 DEF result
<1>6. CASE done.ok /\ ~(log[i].kind = "access" /\ ~FirstAccess(i)) /\ Acceptable(es, i)
  <2>1. result = [done EXCEPT !.events = taken]
    BY <1>2, <1>6
  <2>2. result = [events |-> taken, ok |-> TRUE]
    BY <1>1, <1>6, <2>1
  <2>3. result.events = taken /\ result.ok = TRUE /\ result = [events |-> result.events, ok |-> result.ok]
    BY <2>2
  <2>4. log[i].kind \in {"access", "approval", "network"}
    BY LineFacts
  <2>5. \E since : StoredAs(taken, since, i) /\ Requested(taken) /\ Accessed(taken, since) /\ Activated(taken, i)
    <3>1. CASE log[i].kind = "access"
      <4>1. taken = ImportAccess(es, i) /\ FirstAccess(i)
        BY <1>6, <3>1 DEF taken
      <4> QED BY <1>1, <1>6, <3>1, <4>1, AccessImported
    <3>2. CASE log[i].kind # "access"
      <4>1. taken = IF log[i].kind = "approval" THEN ImportApproval(es, i) ELSE ImportNetwork(es, i)
        BY <2>4, <3>2 DEF taken
      <4> QED BY <1>1, <1>6, <3>2, <4>1, OtherImported
    <3> QED BY <3>1, <3>2
  <2>6. PICK since : StoredAs(taken, since, i) /\ Requested(taken) /\ Accessed(taken, since) /\ Activated(taken, i)
    BY <2>5
  <2>7. ImportSound(result, since, i)
    BY <2>3, <2>6 DEF ImportSound
  <2> QED BY <2>7 DEF result
<1> QED BY <1>1, <1>4, <1>5, <1>6

LEMMA ImportStart ==
    ASSUME WorldInvariant
    PROVE  ImportSound([events |-> PutAll(<<>>, Startup), ok |-> Coherent], [p \in 1 .. Len(Startup) |-> 0], 0)
<1> DEFINE es == PutAll(<<>>, Startup)
           m == Len(Startup)
           from == [p \in 1 .. m |-> 0]
           done == [events |-> es, ok |-> Coherent]
<1>1. Startup \in Seq(Range(Startup)) /\ m > 0 /\ m \in Nat /\ DOMAIN Startup = 1 .. m
  BY StartupFacts
<1>2. \A j \in DOMAIN Startup : StartupEvent(Startup[j])
  BY StartupFacts
<1> DEFINE none == <<>>
<1>3. none \in Seq(Range(none)) /\ Len(none) = 0
  OBVIOUS
<1>4. \A j \in DOMAIN Startup : Shaped(Startup[j])
  BY <1>2 DEF StartupEvent
<1> HIDE DEF none, m
<1>5. /\ PutAll(none, Startup) \in Seq(Range(PutAll(none, Startup)))
      /\ DOMAIN PutAll(none, Startup) = 1 .. Len(none) + Len(Startup)
      /\ Len(PutAll(none, Startup)) = Len(none) + Len(Startup)
      /\ \A p \in Len(none) + 1 .. Len(none) + Len(Startup) : PutAll(none, Startup)[p] = WithId(Startup[p - Len(none)], p)
  BY <1>1, <1>3, <1>4, PutAllFacts
<1>6. es = PutAll(none, Startup)
  BY DEF none
<1> HIDE DEF es
<1>7. es \in Seq(Range(es)) /\ DOMAIN es = 1 .. m /\ Len(es) = m
  BY <1>1, <1>3, <1>5, <1>6 DEF m
<1>8. ASSUME NEW p \in 1 .. m
      PROVE  /\ Shaped(es[p]) /\ es[p].id = p /\ es[p].severity \in Range(Severities) \cup {"none"}
             /\ es[p].type \in StartupTypes /\ es[p].ts \in 0 .. StartedAt
  <2> DEFINE b == Startup[p]
             e == WithId(b, p)
  <2>1. p - Len(none) = p /\ p \in Len(none) + 1 .. Len(none) + Len(Startup)
    BY <1>1, <1>3 DEF m
  <2>2. es[p] = e
    BY <1>5, <1>6, <2>1
  <2>3. StartupEvent(b)
    BY <1>1, <1>2
  <2> HIDE DEF b
  <2>4. Shaped(e) /\ e.id = p /\ e.severity = b.severity /\ e.ts = b.ts /\ e.type = b.type
    BY DEF Shaped, WithId
  <2> HIDE DEF e
  <2> QED BY <2>2, <2>3, <2>4 DEF StartupEvent
<1>9. StoredAs(es, from, 0)
  <2>1. DOMAIN from = 1 .. m /\ \A p \in 1 .. m : from[p] = 0
    OBVIOUS
  <2> HIDE DEF from
  <2>2. \A p \in DOMAIN es : from[p] \in 0 .. 0
    BY <1>7, <2>1
  <2>3. \A p, q \in DOMAIN es : p < q => from[p] <= from[q]
    BY <1>7, <2>1
  <2> QED BY <1>1, <1>7, <1>8, <2>1, <2>2, <2>3 DEF StoredAs
<1>10. Requested(es) /\ Accessed(es, from)
  BY <1>7, <1>8 DEF Requested, Accessed, StartupTypes
<1>11. Activated(es, 0)
  <2>1. \A j \in Accesses : j \in Nat \ {0}
    BY LineFacts DEF Accesses
  <2> QED BY <2>1 DEF Activated
<1>12. Coherent \in BOOLEAN
  BY DEF Coherent
<1>13. done.events = es /\ done.ok = Coherent
  OBVIOUS
<1>14. ImportSound(done, from, 0)
  BY <1>9, <1>10, <1>11, <1>12, <1>13 DEF ImportSound
<1> QED BY <1>14 DEF es, m

LEMMA LeastOfNaturals ==
    ASSUME NEW T, T \subseteq Nat, T # {}
    PROVE  \E n \in T : \A m \in T : n <= m
<1>1. PICK n \in T : \A m \in T : ~(<<m, n>> \in OpToRel(<, Nat))
  BY NatLessThanWellFounded, WFMin
<1>2. ASSUME NEW m \in T PROVE n <= m
  <2>1. n \in Nat /\ m \in Nat
    OBVIOUS
  <2>2. m < n => <<m, n>> \in OpToRel(<, Nat)
    BY <2>1 DEF OpToRel
  <2>3. ~(m < n)
    BY <1>1, <2>2, Zenon
  <2> QED BY <2>1, <2>3
<1> QED BY <1>2

ImportStarts == [events |-> PutAll(<<>>, Startup), ok |-> Coherent]
IsImport(f, n) == f = [k \in 0 .. n |-> IF k = 0 THEN ImportStarts ELSE ImportLine(f[k - 1], k)]

LEMMA ImportExists ==
    ASSUME NEW n \in Nat
    PROVE  \E f : IsImport(f, n)
<1> DEFINE T == {m \in Nat : ~\E f : IsImport(f, m)}
<1> SUFFICES ASSUME T # {} PROVE FALSE
  OBVIOUS
<1>1. PICK m \in T : \A l \in T : m <= l
  <2>1. T \subseteq Nat
    OBVIOUS
  <2> HIDE DEF T
  <2> QED BY <2>1, LeastOfNaturals
<1>2. m \in Nat /\ ~\E f : IsImport(f, m)
  OBVIOUS
<1>3. CASE m = 0
  <2>1. [k \in 0 .. 0 |-> ImportStarts] = [k \in 0 .. 0 |-> IF k = 0 THEN ImportStarts
                                                   ELSE ImportLine([k_1 \in 0 .. 0 |-> ImportStarts][k - 1], k)]
    OBVIOUS
  <2>2. IsImport([k \in 0 .. 0 |-> ImportStarts], 0)
    BY <2>1 DEF IsImport
  <2> QED BY <1>2, <1>3, <2>2
<1>4. CASE m # 0
  <2>1. m - 1 \in Nat /\ m - 1 \notin T
    <3>1. m - 1 \in Nat /\ ~(m <= m - 1)
      BY <1>2, <1>4
    <3> HIDE DEF T
    <3> QED BY <1>1, <3>1
  <2>2. PICK f : IsImport(f, m - 1)
    BY <2>1
  <2> DEFINE g == [k \in 0 .. m |-> IF k = m THEN ImportLine(f[m - 1], m) ELSE f[k]]
  <2>3. \A k \in 0 .. m - 1 : f[k] = IF k = 0 THEN ImportStarts ELSE ImportLine(f[k - 1], k)
    BY <2>2, Zenon DEF IsImport
  <2>4. ASSUME NEW k \in 0 .. m PROVE g[k] = IF k = 0 THEN ImportStarts ELSE ImportLine(g[k - 1], k)
    <3>1. CASE k = m
      <4>1. k - 1 \in 0 .. m /\ k - 1 # m /\ k # 0
        BY <1>2, <1>4, <3>1
      <4>2. g[k - 1] = f[m - 1] /\ g[k] = ImportLine(f[m - 1], m)
        BY <3>1, <4>1
      <4> QED BY <3>1, <4>1, <4>2
    <3>2. CASE k # m
      <4>1. k \in 0 .. m - 1 /\ g[k] = f[k]
        BY <1>2, <3>2
      <4>2. CASE k = 0
        BY <2>3, <4>1, <4>2
      <4>3. CASE k # 0
        <5>1. k - 1 \in 0 .. m /\ k - 1 # m
          BY <1>2, <4>3
        <5>2. g[k - 1] = f[k - 1]
          BY <5>1
        <5> QED BY <2>3, <4>1, <4>3, <5>2
      <4> QED BY <4>2, <4>3
    <3> QED BY <3>1, <3>2
  <2>5. g = [k \in 0 .. m |-> g[k]]
    OBVIOUS
  <2> HIDE DEF g
  <2>6. IsImport(g, m)
    BY <2>4, <2>5 DEF IsImport
  <2> QED BY <1>2, <2>6
<1> QED BY <1>3, <1>4

LEMMA ImportedFacts ==
    ASSUME WorldInvariant
    PROVE  \A k \in 0 .. Len(log) : \E from : ImportSound(ImportedTo[k], from, k)
<1>1. Len(log) \in Nat /\ DOMAIN log = 1 .. Len(log)
  BY DEF WorldInvariant
<1>2. IsImport(ImportedTo, Len(log))
  <2> DEFINE Is(f) == f = [k \in 0 .. Len(log) |->
                             IF k = 0 THEN [events |-> PutAll(<<>>, Startup), ok |-> Coherent] ELSE ImportLine(f[k - 1], k)]
  <2>1. \E f : Is(f)
    <3>1. PICK f : IsImport(f, Len(log))
      BY <1>1, ImportExists
    <3>2. Is(f)
      BY <3>1 DEF IsImport, ImportStarts
    <3> QED BY <3>2
  <2>2. ImportedTo = CHOOSE f : Is(f)
    BY DEF ImportedTo
  <2> HIDE DEF Is
  <2>3. Is(ImportedTo)
    BY <2>1, <2>2
  <2> QED BY <2>3 DEF Is, IsImport, ImportStarts
<1>3. \A k \in 0 .. Len(log) : ImportedTo[k] = IF k = 0 THEN ImportStarts ELSE ImportLine(ImportedTo[k - 1], k)
  BY <1>2, Zenon DEF IsImport
<1> DEFINE T == {k \in 0 .. Len(log) : ~\E from : ImportSound(ImportedTo[k], from, k)}
<1> SUFFICES ASSUME T # {} PROVE FALSE
  OBVIOUS
<1>4. PICK m \in T : \A l \in T : m <= l
  <2>1. T \subseteq Nat
    BY <1>1
  <2> HIDE DEF T
  <2> QED BY <2>1, LeastOfNaturals
<1>5. m \in 0 .. Len(log) /\ ~\E from : ImportSound(ImportedTo[m], from, m)
  OBVIOUS
<1>6. CASE m = 0
  BY <1>1, <1>3, <1>5, <1>6, ImportStart DEF ImportStarts
<1>7. CASE m # 0
  <2>1. m - 1 \in Nat /\ m - 1 \in 0 .. Len(log) /\ m - 1 \notin T /\ (m - 1) + 1 = m /\ m \in DOMAIN log
    <3>1. m - 1 \in Nat /\ m - 1 \in 0 .. Len(log) /\ ~(m <= m - 1) /\ (m - 1) + 1 = m /\ m \in DOMAIN log
      BY <1>1, <1>5, <1>7
    <3> HIDE DEF T
    <3> QED BY <1>4, <3>1
  <2>2. PICK from : ImportSound(ImportedTo[m - 1], from, m - 1)
    BY <2>1
  <2>3. \E since : ImportSound(ImportLine(ImportedTo[m - 1], m), since, m)
    <3> DEFINE k == m - 1
               done == ImportedTo[k]
    <3>1. k \in Nat /\ k + 1 = m /\ k + 1 \in DOMAIN log /\ ImportSound(done, from, k)
      BY <2>1, <2>2
    <3> HIDE DEF k, done
    <3>2. \E since : ImportSound(ImportLine(done, k + 1), since, k + 1)
      BY <3>1, ImportStep
    <3> QED BY <3>1, <3>2 DEF k, done
  <2>4. ImportedTo[m] = ImportLine(ImportedTo[m - 1], m)
    BY <1>3, <1>5, <1>7
  <2> QED BY <1>5, <2>3, <2>4
<1> QED BY <1>6, <1>7

-----------------------------------------------------------------------------
(* What reaches the store. *)

\* The first n events that were imported, and what may follow them.
Kept(st, es, n) ==
    /\ st \in Seq(Range(st)) /\ Len(st) \in Nat /\ DOMAIN st = 1 .. Len(st)
    /\ n \in 1 .. Len(es) /\ n <= Len(st)
    /\ \A p \in 1 .. n : st[p] = es[p]
    /\ \A p \in n + 1 .. Len(st) :
        /\ Shaped(st[p]) /\ st[p].id = p /\ st[p].severity = "none" /\ st[p].ts \in Nat
        /\ \/ started /\ st[p].type = "PROCESS_EXIT"
           \/ marker /\ st[p].type = "CONTAINMENT_ACTIVATED" /\ st[p].ts = AfterRun + 1

LEMMA PutFacts ==
    ASSUME NEW es, es \in Seq(Range(es)), NEW e, Shaped(e)
    PROVE  /\ Put(es, e) \in Seq(Range(Put(es, e))) /\ Len(es) \in Nat /\ Len(Put(es, e)) = Len(es) + 1
           /\ DOMAIN es = 1 .. Len(es) /\ DOMAIN Put(es, e) = 1 .. Len(es) + 1
           /\ \A p \in 1 .. Len(es) : Put(es, e)[p] = es[p]
           /\ Put(es, e)[Len(es) + 1] = WithId(e, Len(es) + 1)
<1> DEFINE x == [e EXCEPT !.id = Len(es) + 1]
<1>1. Put(es, e) = Append(es, x)
  BY DEF Put
<1>2. x = WithId(e, Len(es) + 1)
  BY DEF Shaped, WithId
<1> HIDE DEF x
<1> QED BY <1>1, <1>2, Appended

LEMMA WithIdShaped ==
    ASSUME NEW b, NEW i
    PROVE  /\ Shaped(WithId(b, i)) /\ WithId(b, i).id = i /\ WithId(b, i).severity = b.severity
           /\ WithId(b, i).ts = b.ts /\ WithId(b, i).type = b.type
BY DEF Shaped, WithId

LEMMA StoredFacts ==
    ASSUME WorldInvariant, Store
    PROVE  \E es, from, n : /\ StoredAs(es, from, Len(log)) /\ Requested(es) /\ Accessed(es, from)
                            /\ Kept(stored', es, n)
<1> DEFINE done == ImportedTo[Len(log)]
           es == done.events
           exit == Event("PROCESS_EXIT", AfterRun, "none", "none")
           activation == [Event("CONTAINMENT_ACTIVATED", AfterRun + 1, "none", "DENY") EXCEPT !.marked = TRUE]
           all == Imported
<1>1. PICK from : ImportSound(done, from, Len(log))
  <2>1. Len(log) \in 0 .. Len(log)
    BY DEF WorldInvariant
  <2> QED BY <2>1, ImportedFacts
<1>2. StoredAs(es, from, Len(log)) /\ Requested(es) /\ Accessed(es, from)
  BY <1>1 DEF ImportSound
<1>3. es \in Seq(Range(es)) /\ Len(es) > 0 /\ Len(es) \in Nat /\ DOMAIN es = 1 .. Len(es)
  BY <1>2 DEF StoredAs
<1>4. all = es \/ (started /\ all = Put(es, exit))
  BY DEF Imported
<1>5. PICK k \in 1 .. Len(all), recovered \in BOOLEAN :
        stored' = IF recovered /\ marker THEN Put(SubSeq(all, 1, k), activation) ELSE SubSeq(all, 1, k)
  BY DEF Store
<1>6. Shaped(exit) /\ exit.type = "PROCESS_EXIT" /\ exit.severity = "none" /\ exit.ts = AfterRun
  BY DEF Event, Shaped
<1>7. Shaped(activation) /\ activation.type = "CONTAINMENT_ACTIVATED" /\ activation.severity = "none" /\ activation.ts = AfterRun + 1
  <2> DEFINE b == Event("CONTAINMENT_ACTIVATED", AfterRun + 1, "none", "DENY")
  <2>1. Shaped(b) /\ b.type = "CONTAINMENT_ACTIVATED" /\ b.severity = "none" /\ b.ts = AfterRun + 1
    BY DEF Event, Shaped
  <2> HIDE DEF b
  <2>2. activation = [b EXCEPT !.marked = TRUE]
    BY DEF b
  <2> HIDE DEF activation
  <2> QED BY <2>1, <2>2 DEF Shaped
<1>8. AfterRun \in Nat
  BY TimeFacts
<1> HIDE DEF done, exit, activation, all
<1>9. /\ all \in Seq(Range(all)) /\ Len(all) \in Nat /\ Len(es) <= Len(all) /\ DOMAIN all = 1 .. Len(all)
      /\ \A p \in 1 .. Len(es) : all[p] = es[p]
      /\ \A p \in Len(es) + 1 .. Len(all) :
            /\ Shaped(all[p]) /\ all[p].id = p /\ all[p].severity = "none" /\ all[p].ts \in Nat
            /\ started /\ all[p].type = "PROCESS_EXIT"
  <2>1. CASE all = es
    BY <1>3, <2>1
  <2>2. CASE started /\ all = Put(es, exit)
    <3>1. /\ all \in Seq(Range(all)) /\ Len(all) = Len(es) + 1
          /\ DOMAIN all = 1 .. Len(es) + 1
          /\ \A p \in 1 .. Len(es) : all[p] = es[p]
          /\ all[Len(es) + 1] = WithId(exit, Len(es) + 1)
      BY <1>3, <1>6, <2>2, PutFacts
    <3>2. /\ Shaped(all[Len(es) + 1]) /\ all[Len(es) + 1].id = Len(es) + 1 /\ all[Len(es) + 1].severity = "none"
          /\ all[Len(es) + 1].ts = AfterRun /\ all[Len(es) + 1].type = "PROCESS_EXIT"
      BY <1>6, <3>1, WithIdShaped
    <3>3. \A p \in Len(es) + 1 .. Len(all) : p = Len(es) + 1
      BY <1>3, <3>1
    <3> QED BY <1>3, <1>8, <2>2, <3>1, <3>2, <3>3
  <2> QED BY <1>4, <2>1, <2>2
<1> HIDE DEF es
<1> DEFINE part == SubSeq(all, 1, k)
           n == IF k <= Len(es) THEN k ELSE Len(es)
<1>10. /\ part \in Seq(Range(part)) /\ Len(part) = k /\ k \in Nat \ {0} /\ k <= Len(all) /\ DOMAIN part = 1 .. k
       /\ \A p \in 1 .. k : part[p] = all[p]
  <2>1. 1 \in 1 .. Len(all) + 1 /\ k \in 0 .. Len(all) /\ k \in Nat \ {0}
    BY <1>5, <1>9
  <2>2. /\ part \in Seq(Range(all)) /\ Len(part) = (IF 1 <= k THEN k - 1 + 1 ELSE 0)
        /\ \A p \in 1 .. k - 1 + 1 : part[p] = all[1 + p - 1]
    BY <1>9, <2>1, SubSeqProperties
  <2>3. part \in Seq(Range(part))
    BY <2>2, SeqOfRange
  <2>4. k - 1 + 1 = k /\ \A p \in 1 .. k : 1 + p - 1 = p
    BY <2>1
  <2> QED BY <2>1, <2>2, <2>3, <2>4
<1> HIDE DEF part
<1>11. n \in 1 .. Len(es) /\ n <= k /\ \A p \in n + 1 .. k : p \in Len(es) + 1 .. Len(all)
  BY <1>3, <1>9, <1>10
<1> HIDE DEF n
<1>12. Kept(part, es, n)
  <2>1. \A p \in 1 .. n : part[p] = es[p]
    BY <1>3, <1>9, <1>10, <1>11
  <2>2. \A p \in n + 1 .. k :
            /\ Shaped(part[p]) /\ part[p].id = p /\ part[p].severity = "none" /\ part[p].ts \in Nat
            /\ started /\ part[p].type = "PROCESS_EXIT"
    BY <1>3, <1>9, <1>10, <1>11
  <2> QED BY <1>10, <1>11, <2>1, <2>2 DEF Kept
<1>13. CASE ~(recovered /\ marker)
  <2>1. stored' = part
    BY <1>5, <1>13 DEF part
  <2> QED BY <1>2, <1>12, <2>1
<1>14. CASE recovered /\ marker
  <2> DEFINE st == Put(part, activation)
  <2>1. stored' = st
    BY <1>5, <1>14 DEF part
  <2>2. /\ st \in Seq(Range(st)) /\ Len(st) = k + 1
        /\ DOMAIN st = 1 .. k + 1
        /\ \A p \in 1 .. k : st[p] = part[p]
        /\ st[k + 1] = WithId(activation, k + 1)
    <3>1. part \in Seq(Range(part)) /\ Len(part) = k /\ Shaped(activation)
      BY <1>7, <1>10
    <3> HIDE DEF part, activation
    <3> QED BY <3>1, PutFacts
  <2> HIDE DEF st
  <2>3. /\ Shaped(st[k + 1]) /\ st[k + 1].id = k + 1 /\ st[k + 1].severity = "none"
        /\ st[k + 1].ts = AfterRun + 1 /\ st[k + 1].type = "CONTAINMENT_ACTIVATED"
    BY <1>7, <2>2, WithIdShaped
  <2>4. ASSUME NEW p \in n + 1 .. k + 1
        PROVE  /\ Shaped(st[p]) /\ st[p].id = p /\ st[p].severity = "none" /\ st[p].ts \in Nat
               /\ \/ started /\ st[p].type = "PROCESS_EXIT"
                  \/ marker /\ st[p].type = "CONTAINMENT_ACTIVATED" /\ st[p].ts = AfterRun + 1
    <3>1. CASE p = k + 1
      BY <1>8, <1>14, <2>3, <3>1
    <3>2. CASE p # k + 1
      <4>1. p \in n + 1 .. k /\ p \in 1 .. k
        BY <1>10, <1>11, <3>2
      <4> QED BY <1>10, <1>12, <2>2, <4>1 DEF Kept
    <3> QED BY <3>1, <3>2
  <2>5. \A p \in 1 .. n : st[p] = es[p]
    BY <1>10, <1>11, <1>12, <2>2 DEF Kept
  <2>6. n \in 1 .. Len(es) /\ n <= k + 1 /\ k + 1 \in Nat
    BY <1>3, <1>10, <1>11
  <2>7. Kept(st, es, n)
    BY <2>2, <2>4, <2>5, <2>6 DEF Kept
  <2> QED BY <1>2, <2>1, <2>7
<1> QED BY <1>13, <1>14

\* What lines the events of a kind are of.
Origin(e, p, i) ==
    /\ Shaped(e) /\ e.id = p /\ e.ts \in Nat /\ e.ts < AfterRun /\ e.severity \in Range(Severities) \cup {"none"}
    /\ e.type # "PROCESS_EXIT"
    /\ e.type \in {"DECOY_ACCESS", "NETWORK_REQUEST", "NETWORK_DENY", "CONTAINMENT_ACTIVATED"} \cup ApprovalTypes =>
        i \in DOMAIN log /\ e.ts = EvidenceTime(i) /\ e.marked = log[i].marked
    /\ e.type = "NETWORK_DENY" => log[i].kind = "network" /\ e.rid = log[i].rid /\ e.resource = log[i].resource
    /\ e.type \in ApprovalTypes =>
        /\ log[i].kind = "approval" /\ e.rid = log[i].rid /\ e.rid \in Connections /\ e.resource = "ask"
        /\ e.type = "APPROVAL_REQUIRED" \/ <<e.type, e.source>> \in Answers
    /\ e.type = "DECOY_ACCESS" => i \in Accesses
    /\ e.type = "CONTAINMENT_ACTIVATED" => i \in Accesses /\ config.contain /\ \A j \in Accesses : i <= j

LEMMA Origins ==
    ASSUME WorldInvariant, NEW es, NEW from, StoredAs(es, from, Len(log))
    PROVE  \A p \in DOMAIN es : Origin(es[p], p, from[p])
<1> SUFFICES ASSUME NEW p \in DOMAIN es PROVE Origin(es[p], p, from[p])
  OBVIOUS
<1> DEFINE i == from[p]
           e == es[p]
<1>1. /\ Shaped(e) /\ e.id = p /\ e.severity \in Range(Severities) \cup {"none"}
      /\ i = 0 => e.type \in StartupTypes /\ e.ts \in 0 .. StartedAt
      /\ i # 0 => FromLineSound(e, i)
  BY DEF StoredAs
<1> HIDE DEF e, i, Origin
<1>2. StartedAt \in Nat /\ AfterRun \in Nat /\ StartedAt < AfterRun
  BY TimeFacts
<1>3. CASE i = 0
  <2>1. e.type \notin {"DECOY_ACCESS", "NETWORK_REQUEST", "NETWORK_DENY", "CONTAINMENT_ACTIVATED", "PROCESS_EXIT"} \cup ApprovalTypes
    BY <1>1, <1>3 DEF StartupTypes, ApprovalTypes, Outcomes
  <2>2. e.ts \in Nat /\ e.ts < AfterRun
    BY <1>1, <1>2, <1>3
  <2> QED BY <1>1, <2>1, <2>2 DEF e, i, Origin
<1>4. CASE i # 0
  <2>1. FromLineSound(e, i) /\ i \in DOMAIN log
    BY <1>1, <1>4 DEF FromLineSound
  <2>2. /\ LineSound(log[i]) /\ log[i].kind \in {"access", "approval", "network"}
        /\ log[i].kind = "network" => log[i].type \in Decisions
        /\ log[i].kind = "approval" => log[i].type \in ApprovalTypes
    BY <2>1, LineFacts
  <2>3. e.ts = EvidenceTime(i) /\ e.marked = log[i].marked /\ e.ts \in Nat /\ e.ts < AfterRun
    BY <1>2, <2>1, TimeFacts DEF FromLineSound
  <2>4. CASE log[i].kind = "access"
    <3>1. /\ i \in Accesses /\ e.type \in AccessTypes
          /\ e.type = "CONTAINMENT_ACTIVATED" => config.contain /\ \A j \in Accesses : i <= j
      BY <2>1, <2>4 DEF FromLineSound
    <3>2. e.type \notin {"NETWORK_REQUEST", "NETWORK_DENY", "PROCESS_EXIT"} \cup ApprovalTypes
      BY <3>1 DEF AccessTypes, ApprovalTypes, Outcomes
    <3> QED BY <1>1, <2>1, <2>3, <3>1, <3>2 DEF e, i, Origin
  <2>5. CASE log[i].kind = "network"
    <3>1. /\ e.type \in {log[i].type, "NETWORK_REQUEST"}
          /\ e.resource = log[i].resource /\ e.rid = log[i].rid
      BY <2>1, <2>5 DEF FromLineSound
    <3>2. e.type \notin {"DECOY_ACCESS", "CONTAINMENT_ACTIVATED", "PROCESS_EXIT"} \cup ApprovalTypes
      BY <2>2, <2>5, <3>1 DEF Decisions, ApprovalTypes, Outcomes
    <3> QED BY <1>1, <2>1, <2>3, <2>5, <3>1, <3>2 DEF e, i, Origin
  <2>6. CASE log[i].kind = "approval"
    <3>1. /\ e.type \in {log[i].type, "NETWORK_REQUEST"}
          /\ e.resource = log[i].resource /\ e.rid = log[i].rid /\ e.source = log[i].source
          /\ log[i].type \in ApprovalTypes /\ log[i].rid \in Connections /\ log[i].resource = "ask"
          /\ log[i].type = "APPROVAL_REQUIRED" \/ <<log[i].type, log[i].source>> \in Answers
      BY <2>1, <2>2, <2>6 DEF FromLineSound, LineSound
    <3>2. /\ e.type \notin {"DECOY_ACCESS", "CONTAINMENT_ACTIVATED", "NETWORK_DENY", "PROCESS_EXIT"}
          /\ "NETWORK_REQUEST" \notin ApprovalTypes
      BY <3>1 DEF ApprovalTypes, Outcomes
    <3> QED BY <1>1, <2>1, <2>3, <2>6, <3>1, <3>2 DEF e, i, Origin
  <2> QED BY <2>2, <2>4, <2>5, <2>6
<1> QED BY <1>3, <1>4

LEMMA AnswersSaid ==
    ASSUME NEW a, a.type = "APPROVAL_REQUIRED" \/ <<a.type, a.source>> \in Answers
    PROVE  SaidOf(a)
<1>1. CASE a.type = "APPROVAL_REQUIRED"
  BY <1>1 DEF SaidOf
<1>2. CASE <<a.type, a.source>> \in Answers
  <2> DEFINE x == a.type
             y == a.source
  <2>1. \/ x = "APPROVAL_GRANTED" /\ y \in {"USER_DECISION", "SESSION_APPROVAL"}
        \/ x = "APPROVAL_DENIED" /\ y = "USER_DECISION"
        \/ x = "APPROVAL_EXPIRED" /\ y = "AUTOMATIC_FAIL_CLOSED"
        \/ x = "APPROVAL_UNAVAILABLE" /\ y = "AUTOMATIC_FAIL_CLOSED"
    <3>1. <<x, y>> \in Answers
      BY <1>2
    <3> HIDE DEF x, y
    <3> QED BY <3>1 DEF Answers
  <2> QED BY <2>1 DEF SaidOf
<1> QED BY <1>1, <1>2

LEMMA TrailKept ==
    ASSUME WorldInvariant, NEW es, NEW from, NEW n, NEW st, StoredAs(es, from, Len(log)), Requested(es), Accessed(es, from),
           Kept(st, es, n)
    PROVE  TrailSound(Range(st)) /\ \A p \in DOMAIN st : st[p].id = p
<1> DEFINE S == Range(st)
           ET(p) == EvidenceTime(from[p])
<1>1. /\ DOMAIN st = 1 .. Len(st) /\ Len(st) \in Nat /\ n \in Nat \ {0} /\ n <= Len(st)
      /\ \A p \in 1 .. n : p \in DOMAIN st /\ p \in DOMAIN es /\ st[p] = es[p]
      /\ \A p \in DOMAIN st : p \in 1 .. n \/ p \in n + 1 .. Len(st)
      /\ DOMAIN es = 1 .. Len(es) /\ Len(es) \in Nat
  BY DEF Kept, StoredAs
<1>2. AfterRun \in Nat
  BY TimeFacts
<1>a. \A p \in DOMAIN es : Origin(es[p], p, from[p])
  BY Origins
<1>3. ASSUME NEW p \in DOMAIN st
      PROVE  /\ Shaped(st[p]) /\ st[p].id = p /\ st[p].ts \in Nat /\ st[p].severity \in Range(Severities) \cup {"none"}
             /\ p \notin 1 .. n =>
                    \/ started /\ st[p].type = "PROCESS_EXIT"
                    \/ marker /\ st[p].type = "CONTAINMENT_ACTIVATED" /\ st[p].ts = AfterRun + 1
             /\ st[p].type = "PROCESS_EXIT" => p \notin 1 .. n
             /\ p \in 1 .. n => st[p].ts < AfterRun
  <2>1. CASE p \in 1 .. n
    <3>1. Origin(st[p], p, from[p])
      BY <1>1, <1>a, <2>1
    <3> QED BY <2>1, <3>1 DEF Origin
  <2>2. CASE p \in n + 1 .. Len(st)
    <3>1. p \notin 1 .. n
      BY <1>1, <2>2
    <3> QED BY <2>2, <3>1 DEF Kept
  <2> QED BY <1>1, <2>1, <2>2
<1>4. \A p \in DOMAIN st : p \in Nat
  BY <1>1
<1>5. /\ \A e \in S : e.id \in DOMAIN st /\ st[e.id] = e
      /\ \A p \in DOMAIN st : st[p] \in S
  BY <1>3 DEF Range
<1>6. IsFiniteSet(S) /\ S # {}
  <2>1. IsFiniteSet(DOMAIN st)
    BY <1>1, FS_Interval
  <2>2. st \in Surjection(DOMAIN st, S)
    <3>1. st \in Seq(Range(st))
      BY DEF Kept
    <3>2. st \in [DOMAIN st -> S]
      BY <3>1
    <3>3. \A e \in S : \E p \in DOMAIN st : st[p] = e
      BY DEF Range
    <3> QED BY <3>2, <3>3 DEF Surjection
  <2>3. IsFiniteSet(S)
    BY <2>1, <2>2, FS_Surjection
  <2>4. 1 \in DOMAIN st
    BY <1>1
  <2> QED BY <1>5, <2>2, <2>3, <2>4
<1> HIDE DEF S
<1>7. ASSUME NEW e \in S PROVE IsEvent(e)
  BY <1>3, <1>4, <1>5 DEF IsEvent, Shaped
<1>8. \A e, f \in S : e.id = f.id => e = f
  BY <1>5
\* The kinds of events, by where they are.
<1>9. ASSUME NEW e \in S, e.type \in {"DECOY_ACCESS", "NETWORK_REQUEST", "NETWORK_DENY"} \cup ApprovalTypes
      PROVE  /\ e.id \in 1 .. n /\ e.id \in DOMAIN es /\ es[e.id] = e
             /\ from[e.id] \in DOMAIN log /\ e.ts = ET(e.id) /\ e.marked = log[from[e.id]].marked
  <2>1. e.id \in DOMAIN st /\ st[e.id] = e
    BY <1>5
  <2>2. e.type \notin {"PROCESS_EXIT", "CONTAINMENT_ACTIVATED"}
    BY <1>9 DEF ApprovalTypes, Outcomes
  <2>3. e.id \in 1 .. n
    BY <1>3, <2>1, <2>2
  <2>4. e.id \in DOMAIN es /\ es[e.id] = e
    BY <1>1, <2>1, <2>3
  <2>5. Origin(e, e.id, from[e.id])
    BY <1>a, <2>4
  <2> QED BY <1>9, <2>3, <2>4, <2>5 DEF Origin
<1>10. ASSUME ~started, NEW e \in S PROVE e.type \notin {"PROCESS_EXIT", "DECOY_ACCESS", "NETWORK_REQUEST"}
  <2>1. DOMAIN log = {}
    <3>1. log = <<>>
      BY <1>10 DEF WorldInvariant
    <3> QED BY <3>1
  <2>2. e.type # "PROCESS_EXIT"
    BY <1>3, <1>5, <1>10
  <2> QED BY <1>9, <2>1, <2>2
<1>11. ASSUME NEW e \in Of(S, "NETWORK_DENY"), e.rid = NoRequest
       PROVE  \E q \in Of(S, "NETWORK_REQUEST") : q.id = e.id - 1 /\ q.ts = e.ts /\ q.resource = e.resource
  <2>1. e \in S /\ e.type = "NETWORK_DENY" /\ e.id \in 1 .. n /\ e.id \in DOMAIN es /\ es[e.id] = e
    BY <1>9 DEF Of
  <2> DEFINE p == e.id - 1
  <2>2. p \in DOMAIN es /\ es[p].type = "NETWORK_REQUEST" /\ es[p].ts = e.ts /\ es[p].resource = e.resource
    BY <1>11, <2>1 DEF Requested
  <2>3. p \in 1 .. n
    BY <1>1, <2>1, <2>2
  <2>4. st[p] \in S /\ st[p] = es[p] /\ st[p].id = p
    BY <1>1, <1>3, <1>5, <2>3
  <2> QED BY <2>2, <2>4 DEF Of
<1>12. ASSUME NEW a \in S, a.type \in ApprovalTypes PROVE a.rid \in Connections /\ a.resource = "ask" /\ SaidOf(a)
  <2>1. a.id \in DOMAIN es /\ es[a.id] = a
    BY <1>9, <1>12
  <2>2. a.rid \in Connections /\ a.resource = "ask" /\ (a.type = "APPROVAL_REQUIRED" \/ <<a.type, a.source>> \in Answers)
    <3>1. Origin(a, a.id, from[a.id])
      BY <1>a, <2>1
    <3> QED BY <1>12, <3>1 DEF Origin
  <2> QED BY <2>2, AnswersSaid
<1>13. ASSUME NEW e \in Of(S, "NETWORK_DENY")
       PROVE  /\ e \in S /\ e.type = "NETWORK_DENY" /\ e.id \in DOMAIN es /\ es[e.id] = e /\ from[e.id] \in DOMAIN log
              /\ e.ts = ET(e.id) /\ e.marked = log[from[e.id]].marked
              /\ log[from[e.id]].kind = "network" /\ e.rid = log[from[e.id]].rid /\ e.resource = log[from[e.id]].resource
  <2>1. e \in S /\ e.type = "NETWORK_DENY" /\ e.id \in DOMAIN es /\ es[e.id] = e
    BY <1>9 DEF Of
  <2>2. Origin(e, e.id, from[e.id])
    BY <1>a, <2>1
  <2> QED BY <1>9, <2>1, <2>2 DEF Origin
<1>14. ASSUME NEW e \in Of(S, "NETWORK_DENY"), e.rid # NoRequest PROVE e.resource = "ask"
  <2> DEFINE l == log[from[e.id]]
  <2>1. l.kind = "network" /\ e.rid = l.rid /\ e.resource = l.resource /\ from[e.id] \in DOMAIN log
    BY <1>13
  <2>2. LineSound(l)
    BY <2>1, LineFacts
  <2> HIDE DEF l
  <2> QED BY <1>14, <2>1, <2>2 DEF LineSound
<1>15. \A p, q \in DOMAIN es : p \in Nat /\ from[p] \in Nat /\ (p < q => from[p] <= from[q])
  BY <1>1 DEF StoredAs
<1>16. ASSUME NEW a \in S, NEW e \in Of(S, "NETWORK_DENY"), a.type \in ApprovalTypes, a.rid = e.rid
       PROVE  BeforeOrEqual(a, e)
  <2> DEFINE j == from[a.id]
             i == from[e.id]
  <2>1. a.id \in DOMAIN es /\ es[a.id] = a /\ j \in DOMAIN log /\ a.ts = ET(a.id)
    BY <1>9, <1>16
  <2>2. log[j].kind = "approval" /\ a.rid = log[j].rid /\ a.rid \in Connections
    <3>1. Origin(a, a.id, j)
      BY <1>a, <2>1
    <3> HIDE DEF j
    <3> QED BY <1>16, <3>1 DEF Origin
  <2>3. i \in DOMAIN log /\ e.id \in DOMAIN es /\ log[i].kind = "network" /\ e.rid = log[i].rid /\ e.ts = ET(e.id)
    BY <1>13
  <2>4. i \in Nat /\ j \in Nat /\ i # j
    BY <1>15, <2>1, <2>2, <2>3
  <2>5. ~(i < j)
    <3>1. ASSUME i < j PROVE FALSE
      <4>1. log[i].kind = "approval"
        BY <1>16, <2>1, <2>2, <2>3, <3>1 DEF WorldInvariant, LogSound
      <4> QED BY <2>3, <4>1
    <3> QED BY <3>1
  <2>6. j < i
    BY <2>4, <2>5
  <2>7. log[j].unix <= log[i].unix
    BY <1>16, <2>1, <2>2, <2>3, <2>6 DEF WorldInvariant, LogSound
  <2>8. EvidenceTime(j) <= EvidenceTime(i) /\ EvidenceTime(j) \in Nat /\ EvidenceTime(i) \in Nat
    BY <2>1, <2>3, <2>4, <2>6, <2>7, TimeFacts
  <2>9. ~(e.id < a.id) /\ e.id \in Nat /\ a.id \in Nat
    BY <1>15, <2>1, <2>3, <2>4, <2>6
  <2> QED BY <2>1, <2>3, <2>8, <2>9 DEF BeforeOrEqual
\* Activations.
<1>17. ASSUME NEW f \in Of(S, "CONTAINMENT_ACTIVATED")
       PROVE  /\ f \in S /\ f.type = "CONTAINMENT_ACTIVATED" /\ config.contain /\ f.ts \in Nat
              /\ \/ f.ts = AfterRun + 1
                 \/ /\ f.id \in 1 .. n /\ f.id \in DOMAIN es /\ es[f.id] = f /\ f.ts = ET(f.id)
                    /\ from[f.id] \in Accesses /\ \A j \in Accesses : from[f.id] <= j
  <2>1. f \in S /\ f.type = "CONTAINMENT_ACTIVATED" /\ f.id \in DOMAIN st /\ st[f.id] = f
    BY <1>5 DEF Of
  <2>2. CASE f.id \in 1 .. n
    <3>1. f.id \in DOMAIN es /\ es[f.id] = f
      BY <1>1, <2>1, <2>2
    <3>2. Origin(f, f.id, from[f.id])
      BY <1>a, <3>1
    <3> QED BY <2>1, <2>2, <3>1, <3>2 DEF Origin
  <2>3. CASE f.id \notin 1 .. n
    <3>1. marker /\ f.ts = AfterRun + 1 /\ f.ts \in Nat
      BY <1>3, <2>1, <2>3
    <3> QED BY <2>1, <3>1 DEF WorldInvariant
  <2> QED BY <2>2, <2>3
<1>18. ASSUME NEW f \in Of(S, "CONTAINMENT_ACTIVATED"), NEW e \in Of(S, "NETWORK_DENY"), BeforeOrEqual(f, e)
       PROVE  e.marked
  <2> DEFINE i0 == from[f.id]
             i == from[e.id]
  <2>1. e \in S /\ e.type = "NETWORK_DENY" /\ i \in DOMAIN log /\ e.id \in DOMAIN es /\ log[i].kind = "network"
        /\ e.ts = ET(e.id) /\ e.marked = log[i].marked
    BY <1>13
  <2>2. e.ts \in Nat /\ e.ts < AfterRun /\ f.ts <= e.ts
    <3>1. EvidenceTime(i) \in Nat /\ EvidenceTime(i) < AfterRun
      BY <2>1, TimeFacts
    <3> QED BY <1>17, <1>18, <2>1, <3>1 DEF BeforeOrEqual
  <2>3. /\ f.type = "CONTAINMENT_ACTIVATED" /\ config.contain /\ f.id \in DOMAIN es /\ es[f.id] = f /\ f.ts = ET(f.id)
        /\ i0 \in Accesses
    BY <1>2, <1>17, <2>2
  <2>4. i0 \in DOMAIN log /\ log[i0].kind = "access"
    BY <2>3 DEF Accesses
  <2>5. i0 \in Nat /\ i \in Nat /\ i0 # i /\ log[i].unix \in Nat /\ log[i0].unix \in Nat
    BY <1>15, <2>1, <2>3, <2>4, LineFacts
  <2>6. ASSUME i0 < i \/ log[i0].unix < log[i].unix PROVE log[i].marked
    BY <2>1, <2>3, <2>4, <2>6 DEF WorldInvariant, LogSound
  <2>7. CASE i < i0 /\ log[i].unix <= log[i0].unix
    <3>1. EvidenceTime(i) <= EvidenceTime(i0) /\ EvidenceTime(i) \in Nat /\ EvidenceTime(i0) \in Nat
      BY <2>1, <2>4, <2>5, <2>7, TimeFacts
    <3>2. f.id <= e.id
      BY <1>18, <2>1, <2>3, <3>1 DEF BeforeOrEqual
    <3>3. f.id < e.id
      <4>1. f.id # e.id /\ f.id \in Nat /\ e.id \in Nat
        BY <1>13, <1>15, <2>1, <2>3
      <4> QED BY <3>2, <4>1
    <3>4. i0 <= i
      BY <1>15, <2>1, <2>3, <3>3
    <3> QED BY <2>5, <2>7, <3>4
  <2> QED BY <2>1, <2>5, <2>6, <2>7
<1>19. ASSUME Of(S, "CONTAINMENT_ACTIVATED") # {}, Of(S, "DECOY_ACCESS") # {}
       PROVE  \E first \in Of(S, "DECOY_ACCESS") :
                /\ \A f \in Of(S, "CONTAINMENT_ACTIVATED") : BeforeOrEqual(first, f)
                /\ \A d \in Of(S, "DECOY_ACCESS") \ {first} :
                    \E f \in Of(S, "CONTAINMENT_ACTIVATED") : BeforeOrEqual(f, d)
  <2> DEFINE A == {p \in 1 .. n : es[p].type = "DECOY_ACCESS"}
  <2>1. ASSUME NEW d \in Of(S, "DECOY_ACCESS")
        PROVE  /\ d.id \in A /\ d.id \in DOMAIN es /\ es[d.id] = d /\ d.ts = ET(d.id) /\ d.ts \in Nat /\ d.ts < AfterRun
               /\ from[d.id] \in Accesses /\ d \in S /\ d.type = "DECOY_ACCESS"
    <3>1. d \in S /\ d.type = "DECOY_ACCESS" /\ d.id \in 1 .. n /\ d.id \in DOMAIN es /\ es[d.id] = d /\ d.ts = ET(d.id)
      BY <1>9 DEF Of
    <3>2. Origin(d, d.id, from[d.id])
      BY <1>a, <3>1
    <3> QED BY <3>1, <3>2 DEF Origin
  <2>2. \E p0 \in A : \A p \in A : p0 <= p
    <3>1. A \subseteq Nat /\ A # {}
      BY <1>19, <2>1
    <3> HIDE DEF A
    <3> QED BY <3>1, LeastOfNaturals
  <2>3. PICK p0 \in A : \A p \in A : p0 <= p
    BY <2>2
  <2>4. p0 \in 1 .. n /\ p0 \in Nat /\ p0 \in DOMAIN es /\ p0 \in DOMAIN st /\ es[p0].type = "DECOY_ACCESS" /\ st[p0] = es[p0]
        /\ st[p0] \in S /\ st[p0].id = p0
    <3>1. p0 \in 1 .. n /\ es[p0].type = "DECOY_ACCESS"
      OBVIOUS
    <3> QED BY <1>1, <1>3, <1>5, <3>1
  <2> DEFINE first == st[p0]
  <2>5. first \in Of(S, "DECOY_ACCESS") /\ first.id = p0
    BY <2>4 DEF Of
  <2>6. /\ first.ts = EvidenceTime(from[p0]) /\ first.ts \in Nat /\ first.ts < AfterRun
        /\ from[p0] \in Accesses
    BY <2>1, <2>4, <2>5
  <2>7. \A j \in Accesses : j \in Nat /\ j \in DOMAIN log /\ log[j].kind = "access"
    BY LineFacts DEF Accesses
  \* No activation comes before an access.
  <2>8. ASSUME NEW q \in DOMAIN es, es[q].type = "CONTAINMENT_ACTIVATED", q <= n PROVE p0 < q
    <3>1. PICK r \in DOMAIN es : r < q /\ es[r].type = "DECOY_ACCESS"
      BY <2>8 DEF Accessed
    <3>2. r \in 1 .. n /\ q \in Nat
      BY <1>1, <2>8, <3>1
    <3>3. r \in A
      BY <3>1, <3>2
    <3>4. p0 <= r
      BY <2>3, <3>3
    <3> QED BY <2>4, <3>1, <3>2, <3>4
  <2>9. ASSUME NEW f \in Of(S, "CONTAINMENT_ACTIVATED") PROVE config.contain
    BY <1>17
  <2>10. \A j \in Accesses : from[p0] <= j
    <3> SUFFICES ASSUME NEW j \in Accesses, j < from[p0] PROVE FALSE
      BY <2>6, <2>7
    <3>1. config.contain
      BY <1>19, <2>9
    <3>2. Activation(es, p0)
      BY <2>4, <3>1 DEF Accessed
    <3>3. PICK q \in DOMAIN es : q < p0 /\ es[q].type = "CONTAINMENT_ACTIVATED"
      BY <3>2 DEF Activation
    <3>4. q <= n /\ q \in Nat
      BY <1>1, <2>4, <3>3
    <3> QED BY <2>4, <2>8, <3>3, <3>4
  <2>11. ASSUME NEW f \in Of(S, "CONTAINMENT_ACTIVATED") PROVE BeforeOrEqual(first, f)
    <3>1. CASE f.ts = AfterRun + 1
      BY <1>2, <2>6, <3>1 DEF BeforeOrEqual
    <3>2. CASE /\ f.id \in 1 .. n /\ f.id \in DOMAIN es /\ es[f.id] = f /\ f.ts = ET(f.id)
               /\ from[f.id] \in Accesses /\ \A j \in Accesses : from[f.id] <= j
      <4>1. from[f.id] = from[p0]
        <5>1. from[f.id] <= from[p0] /\ from[p0] <= from[f.id] /\ from[f.id] \in Nat /\ from[p0] \in Nat
          BY <2>6, <2>7, <2>10, <3>2
        <5> QED BY <5>1
      <4>2. f.type = "CONTAINMENT_ACTIVATED" /\ f.id <= n /\ f.id \in Nat
        BY <1>1, <1>17, <3>2
      <4>3. p0 < f.id
        BY <2>8, <3>2, <4>2
      <4>4. f.ts = first.ts
        BY <2>6, <3>2, <4>1
      <4> QED BY <2>4, <2>5, <4>2, <4>3, <4>4 DEF BeforeOrEqual
    <3> QED BY <1>17, <3>1, <3>2
  <2>12. ASSUME NEW d \in Of(S, "DECOY_ACCESS") \ {first}
         PROVE  \E f \in Of(S, "CONTAINMENT_ACTIVATED") : BeforeOrEqual(f, d)
    <3>1. /\ d.id \in A /\ d.id \in DOMAIN es /\ es[d.id] = d /\ d.ts = EvidenceTime(from[d.id])
          /\ from[d.id] \in Accesses /\ d \in S /\ d.type = "DECOY_ACCESS"
      BY <2>1
    <3>2. d.id # p0 /\ d.id \in Nat /\ d.id <= n
      BY <2>4, <3>1
    <3>3. p0 < d.id
      BY <2>3, <2>4, <3>1, <3>2
    <3>4. from[p0] # from[d.id]
      BY <2>4, <3>1, <3>3 DEF Accessed
    <3>5. from[p0] < from[d.id]
      BY <2>6, <2>7, <2>10, <3>1, <3>4
    <3>6. Activation(es, d.id)
      BY <1>19, <2>6, <2>9, <3>1, <3>5 DEF Accessed
    <3>7. PICK q \in DOMAIN es : q < d.id /\ es[q].type = "CONTAINMENT_ACTIVATED"
      BY <3>6 DEF Activation
    <3>8. q \in 1 .. n /\ q \in Nat
      BY <1>1, <3>2, <3>7
    <3>9. st[q] = es[q] /\ st[q] \in S /\ st[q].id = q
      BY <1>1, <1>3, <1>5, <3>8
    <3>10. Origin(es[q], q, from[q])
      BY <1>a
    <3>11. from[q] \in Accesses /\ es[q].ts = EvidenceTime(from[q]) /\ \A j \in Accesses : from[q] <= j
      BY <3>7, <3>10 DEF Origin
    <3>12. from[q] < from[d.id]
      BY <2>6, <2>7, <3>1, <3>5, <3>11
    <3>13. log[from[q]].unix <= log[from[d.id]].unix
      BY <2>7, <3>1, <3>11, <3>12 DEF WorldInvariant, LogSound
    <3>14. EvidenceTime(from[q]) <= EvidenceTime(from[d.id]) /\ EvidenceTime(from[q]) \in Nat /\ EvidenceTime(from[d.id]) \in Nat
      <4>1. from[q] \in DOMAIN log /\ from[d.id] \in DOMAIN log /\ from[q] <= from[d.id]
        BY <2>7, <3>1, <3>11, <3>12
      <4> QED BY <3>13, <4>1, TimeFacts
    <3>15. BeforeOrEqual(st[q], d)
      BY <3>1, <3>2, <3>7, <3>8, <3>9, <3>11, <3>14 DEF BeforeOrEqual
    <3>16. st[q] \in Of(S, "CONTAINMENT_ACTIVATED")
      BY <3>7, <3>9 DEF Of
    <3> QED BY <3>15, <3>16
  <2> QED BY <2>5, <2>11, <2>12
<1>20. TrailSound(S)
  <2> HIDE DEF ET
  <2> QED BY <1>6, <1>7, <1>8, <1>10, <1>11, <1>12, <1>14, <1>16, <1>18, <1>19 DEF TrailSound
<1> QED BY <1>3, <1>20 DEF S

LEMMA StoredStays ==
    ASSUME StoredInvariant, UNCHANGED <<stored, started>>, stage' \in {"stored", "reading"} => stage \in {"stored", "reading"}
    PROVE  StoredInvariant'
<1>1. ASSUME stage' \in {"stored", "reading"} PROVE TrailSound(Range(stored))'
  <2>1. TrailSound(Range(stored))
    BY <1>1 DEF StoredInvariant
  <2> QED BY <2>1 DEF TrailSound
<1> QED BY <1>1 DEF StoredInvariant

LEMMA StoreKept ==
    ASSUME WorldInvariant, Store
    PROVE  StoredInvariant'
<1>1. PICK es, from, n : /\ StoredAs(es, from, Len(log)) /\ Requested(es) /\ Accessed(es, from)
                         /\ Kept(stored', es, n)
  BY StoredFacts
<1> DEFINE st == stored'
<1>2. Kept(st, es, n)
  BY <1>1
<1> HIDE DEF st
<1>3. TrailSound(Range(st)) /\ \A p \in DOMAIN st : st[p].id = p
  BY <1>1, <1>2, TrailKept
<1>4. started' = started
  BY DEF Store
<1>5. TrailSound(Range(stored))'
  BY <1>3, <1>4 DEF TrailSound, st
<1> QED BY <1>3, <1>5 DEF StoredInvariant, st

\* Whatever reaches the store is a sound trail, wherever the run, Ghost or the store broke off:
\* Run, collectObservations and Recover of session/manager.go.
THEOREM StoredInvariance == Spec => [](WorldInvariant /\ StoredInvariant)
<1>1. Init => StoredInvariant
  BY DEF Init, StoredInvariant
<1>2. ASSUME WorldInvariant, StoredInvariant, [Next]_vars PROVE StoredInvariant'
  <2> USE DEF Running
  <2>1. CASE Launch \/ LaunchFails \/ Tick \/ StampAccess \/ AppendAccess \/ Stop
    <3>1. stored' = stored /\ stage' \notin {"stored", "reading"}
      BY <2>1 DEF Launch, LaunchFails, Tick, StampAccess, AppendAccess, Stop
    <3> QED BY <1>2, <3>1 DEF StoredInvariant
  <2>2. CASE Store
    BY <1>2, <2>2, StoreKept
  <2>3. CASE Read \/ Replay
    BY <1>2, <2>3, StoredStays DEF Read, Replay
  <2>4. CASE Done \/ UNCHANGED vars
    BY <1>2, <2>4, StoredStays DEF Done, vars
  <2>5. ASSUME NEW d \in Range(config.decoys), Touch(d) PROVE StoredInvariant'
    BY <1>2, <2>5, StoredStays DEF Touch
  <2>6. ASSUME NEW c \in Connections, Compose(c) \/ Stamp(c) \/ AppendLine(c) PROVE StoredInvariant'
    BY <1>2, <2>6, StoredStays DEF Compose, Stamp, AppendLine
  <2> QED BY <1>2, <2>1, <2>2, <2>3, <2>4, <2>5, <2>6 DEF Next
<1> QED BY <1>1, <1>2, WorldInvariance, PTL DEF Spec

-----------------------------------------------------------------------------
(* The order of the events. *)

Dated(S) == IsFiniteSet(S) /\ \A e \in S : e.ts \in Nat /\ e.id \in Nat /\ \A f \in S : e.id = f.id => e = f

LEMMA OrderFacts ==
    ASSUME NEW S, Dated(S)
    PROVE  /\ \A e \in S : BeforeOrEqual(e, e)
           /\ \A e, f \in S : BeforeOrEqual(e, f) \/ BeforeOrEqual(f, e)
           /\ \A e, f \in S : BeforeOrEqual(e, f) /\ BeforeOrEqual(f, e) => e = f
           /\ \A e, f, g \in S : BeforeOrEqual(e, f) /\ BeforeOrEqual(f, g) => BeforeOrEqual(e, g)
BY DEF Dated, BeforeOrEqual

LEMMA OrderedFacts ==
    ASSUME NEW S, Dated(S)
    PROVE  LET s == Ordered(S)
           IN /\ s \in Seq(S) /\ Range(s) = S /\ Len(s) = Cardinality(S)
              /\ \A i, j \in DOMAIN s : BeforeOrEqual(s[i], s[j]) <=> i <= j
<1> DEFINE Down(e) == {f \in S : BeforeOrEqual(f, e)}
           n == Cardinality(S)
           rank == [e \in S |-> Cardinality(Down(e))]
           s == Ordered(S)
<1>1. IsFiniteSet(S) /\ n \in Nat
  BY FS_CardinalityType DEF Dated
<1>2. /\ \A e \in S : BeforeOrEqual(e, e)
      /\ \A e, f \in S : BeforeOrEqual(e, f) \/ BeforeOrEqual(f, e)
      /\ \A e, f \in S : BeforeOrEqual(e, f) /\ BeforeOrEqual(f, e) => e = f
      /\ \A e, f, g \in S : BeforeOrEqual(e, f) /\ BeforeOrEqual(f, g) => BeforeOrEqual(e, g)
  BY OrderFacts, Zenon
<1>3. \A e \in S : IsFiniteSet(Down(e)) /\ Cardinality(Down(e)) \in Nat /\ Cardinality(Down(e)) <= n
  <2> SUFFICES ASSUME NEW e \in S
               PROVE  IsFiniteSet(Down(e)) /\ Cardinality(Down(e)) \in Nat /\ Cardinality(Down(e)) <= n
    OBVIOUS
  <2>1. Down(e) \in SUBSET S
    OBVIOUS
  <2> QED BY <1>1, <2>1, FS_Subset, FS_CardinalityType
<1>4. \A e \in S : Cardinality(Down(e)) > 0
  <2> SUFFICES ASSUME NEW e \in S PROVE Cardinality(Down(e)) > 0
    OBVIOUS
  <2>1. e \in Down(e)
    BY <1>2
  <2>2. Cardinality(Down(e)) # 0
    BY <1>3, <2>1, FS_EmptySet
  <2> QED BY <1>3, <2>2
<1>5. \A e, f \in S : BeforeOrEqual(e, f) /\ e # f => Cardinality(Down(e)) < Cardinality(Down(f))
  <2> SUFFICES ASSUME NEW e \in S, NEW f \in S, BeforeOrEqual(e, f), e # f
               PROVE  Cardinality(Down(e)) < Cardinality(Down(f))
    OBVIOUS
  <2>1. Down(e) \in SUBSET Down(f)
    BY <1>2
  <2>2. f \in Down(f) /\ f \notin Down(e)
    BY <1>2
  <2>3. Cardinality(Down(e)) <= Cardinality(Down(f)) /\ Cardinality(Down(e)) # Cardinality(Down(f))
    BY <1>3, <2>1, <2>2, FS_Subset
  <2> QED BY <1>3, <2>3
<1>6. rank \in Injection(S, 1 .. n)
  <2>1. rank \in [S -> 1 .. n]
    BY <1>1, <1>3, <1>4
  <2>2. ASSUME NEW e \in S, NEW f \in S, rank[e] = rank[f] PROVE e = f
    <3>1. Cardinality(Down(e)) = Cardinality(Down(f))
      BY <2>2
    <3>2. /\ Cardinality(Down(e)) \in Nat /\ Cardinality(Down(f)) \in Nat
          /\ BeforeOrEqual(e, f) \/ BeforeOrEqual(f, e)
      BY <1>2, <1>3
    <3>3. /\ BeforeOrEqual(e, f) /\ e # f => Cardinality(Down(e)) < Cardinality(Down(f))
          /\ BeforeOrEqual(f, e) /\ f # e => Cardinality(Down(f)) < Cardinality(Down(e))
      BY <1>5
    <3> HIDE DEF Down
    <3> QED BY <3>1, <3>2, <3>3
  <2> QED BY <2>1, <2>2 DEF Injection, IsInjective
<1>7. rank \in Surjection(S, 1 .. n)
  <2>1. IsFiniteSet(1 .. n) /\ Cardinality(1 .. n) = n
    BY <1>1, FS_Interval
  <2> HIDE DEF rank, n
  <2> QED BY <1>6, <2>1, FS_Injection DEF n
<1>8. s = [i \in 1 .. n |-> CHOOSE e \in S : rank[e] = i]
  BY DEF Ordered
<1>9. \A i \in 1 .. n : s[i] \in S /\ rank[s[i]] = i
  <2>1. \A i \in 1 .. n : \E e \in S : rank[e] = i
    BY <1>7 DEF Surjection
  <2> HIDE DEF rank, s
  <2> QED BY <1>8, <2>1
<1>10. \A e \in S : rank[e] \in 1 .. n /\ s[rank[e]] = e
  <2>1. \A e \in S : rank[e] \in 1 .. n
    BY <1>6 DEF Injection
  <2>2. \A e, f \in S : rank[e] = rank[f] => e = f
    BY <1>6 DEF Injection, IsInjective
  <2> HIDE DEF rank, s, n
  <2> QED BY <1>9, <2>1, <2>2
<1>11. \A e, f \in S : BeforeOrEqual(e, f) <=> rank[e] <= rank[f]
  <2>1. \A e \in S : rank[e] = Cardinality(Down(e)) /\ rank[e] \in Nat
    BY <1>3
  <2> HIDE DEF rank, Down
  <2> QED BY <1>2, <1>5, <2>1
<1> HIDE DEF rank, s, n, Down
<1>12. s \in Seq(S) /\ Len(s) = n /\ DOMAIN s = 1 .. n
  <2>1. s \in [1 .. n -> S]
    BY <1>8, <1>9
  <2> QED BY <1>1, <2>1
<1>13. Range(s) = S
  BY <1>9, <1>10, <1>12 DEF Range
<1>14. \A i, j \in DOMAIN s : BeforeOrEqual(s[i], s[j]) <=> i <= j
  BY <1>9, <1>11, <1>12
<1> QED BY <1>12, <1>13, <1>14 DEF s, n

LEMMA NextOfFacts ==
    ASSUME NEW s, s \in Seq(Range(s)), NEW i \in 1 .. Len(s) + 1
    PROVE  /\ NextOf(s, i) \in i .. Len(s) + 1
           /\ NextOf(s, i) \in DOMAIN s => s[NextOf(s, i)].type \in Consumed
           /\ \A k \in i .. NextOf(s, i) - 1 : s[k].type \notin Consumed
<1> DEFINE P(j) == /\ j \in DOMAIN s => s[j].type \in Consumed
                   /\ \A k \in i .. j - 1 : s[k].type \notin Consumed
           T == {j \in i .. Len(s) + 1 : j \in DOMAIN s => s[j].type \in Consumed}
<1>1. Len(s) \in Nat /\ DOMAIN s = 1 .. Len(s)
  OBVIOUS
<1>2. T \subseteq Nat /\ Len(s) + 1 \in T
  BY <1>1
<1>3. \E j \in T : \A m \in T : j <= m
  <2> HIDE DEF T
  <2> QED BY <1>2, LeastOfNaturals
<1>4. PICK j \in T : \A m \in T : j <= m
  BY <1>3
<1>5. j \in i .. Len(s) + 1 /\ P(j)
  <2>1. ASSUME NEW k \in i .. j - 1, s[k].type \in Consumed PROVE FALSE
    <3>1. k \in i .. Len(s) + 1 /\ ~(j <= k)
      BY <1>1, <1>4
    <3>2. k \in T
      BY <2>1, <3>1
    <3> QED BY <1>4, <3>1, <3>2
  <2> QED BY <1>4, <2>1
<1>6. NextOf(s, i) = CHOOSE j_1 \in i .. Len(s) + 1 : P(j_1)
  BY DEF NextOf
<1>7. NextOf(s, i) \in i .. Len(s) + 1 /\ P(NextOf(s, i))
  <2> HIDE DEF P
  <2> QED BY <1>5, <1>6
<1> QED BY <1>7

-----------------------------------------------------------------------------
(* The graph. *)

NamedOnce(S) == \A e, f \in S : e.id = f.id => e = f

\* What an event is evidence of, of the nodes that are not the command.
LEMMA EvidenceOf ==
    ASSUME NEW s, NamedOnce(Range(s)), NEW e \in Range(s), NEW n, n[1] # "PROCESS"
    PROVE  <<e.id, n>> \in Build(s).evidence <=> n \in NodesOf(e, Range(s))
<1> DEFINE events == Range(s)
           scope == Scope(events)
           ofScope == UNION {{<<t.start.id, Process>>, <<t.proof.id, Process>>} : t \in scope}
           pairs == UNION {{<<f.id, m>> : m \in NodesOf(f, events)} : f \in events}
<1>1. Build(s).evidence = ofScope \cup pairs
  BY DEF Build
<1>2. <<e.id, n>> \notin ofScope
  BY DEF Process
<1>3. <<e.id, n>> \in pairs <=> n \in NodesOf(e, events)
  <2>1. ASSUME n \in NodesOf(e, events) PROVE <<e.id, n>> \in pairs
    BY <2>1
  <2>2. ASSUME <<e.id, n>> \in pairs PROVE n \in NodesOf(e, events)
    <3>1. PICK f \in events : \E m \in NodesOf(f, events) : <<e.id, n>> = <<f.id, m>>
      BY <2>2
    <3>2. PICK m \in NodesOf(f, events) : <<e.id, n>> = <<f.id, m>>
      BY <3>1
    <3>3. f = e /\ m = n
      BY <3>2 DEF NamedOnce
    <3> QED BY <3>3
  <2> QED BY <2>1, <2>2
<1> QED BY <1>1, <1>2, <1>3

LEMMA NodesForKind ==
    ASSUME NEW g, NEW id, NEW kind, NEW n \in NodesFor(g, id, kind)
    PROVE  n[1] = kind
BY DEF NodesFor

LEMMA NodesForFacts ==
    ASSUME NEW s, NamedOnce(Range(s)), NEW e \in Range(s)
    PROVE  /\ e.type = "DECOY_ACCESS" => NodesFor(Build(s), e.id, "DECOY") = {DecoyNode(e.resource)}
           /\ e.type \in {"NETWORK_REQUEST", "NETWORK_DENY"} =>
                NodesFor(Build(s), e.id, "NETWORK_DESTINATION") = {Network(e.resource)}
<1> DEFINE g == Build(s)
           direct(kind) == {n \in {pair[2] : pair \in {p \in g.evidence : p[1] = e.id}} : n[1] = kind}
<1>1. ASSUME NEW kind, kind # "PROCESS", NEW n0, n0[1] = kind,
             \A n : n[1] = kind => (n \in NodesOf(e, Range(s)) <=> n = n0)
      PROVE  NodesFor(g, e.id, kind) = {n0}
  <2>1. \A n : n[1] = kind => (<<e.id, n>> \in g.evidence <=> n = n0)
    BY <1>1, EvidenceOf
  <2>2. ASSUME NEW p \in g.evidence PROVE p = <<p[1], p[2]>>
    <3> DEFINE events == Range(s)
               scope == Scope(events)
               ofScope == UNION {{<<t.start.id, Process>>, <<t.proof.id, Process>>} : t \in scope}
               pairs == UNION {{<<f.id, m>> : m \in NodesOf(f, events)} : f \in events}
    <3>1. g.evidence = ofScope \cup pairs
      BY DEF Build
    <3>2. CASE p \in ofScope
      BY <3>2
    <3>3. CASE p \in pairs
      BY <3>3
    <3> HIDE DEF ofScope, pairs, g
    <3> QED BY <2>2, <3>1, <3>2, <3>3
  <2> HIDE DEF g
  <2>3. direct(kind) = {n0}
    <3>1. n0 \in direct(kind)
      <4>1. <<e.id, n0>> \in {p \in g.evidence : p[1] = e.id}
        BY <1>1, <2>1
      <4> QED BY <1>1, <4>1
    <3>2. ASSUME NEW n \in direct(kind) PROVE n = n0
      <4>1. PICK p \in g.evidence : p[1] = e.id /\ n = p[2] /\ n[1] = kind
        OBVIOUS
      <4>2. <<e.id, n>> \in g.evidence
        BY <2>2, <4>1
      <4> QED BY <2>1, <4>1, <4>2
    <3> HIDE DEF direct
    <3> QED BY <3>1, <3>2
  <2> QED BY <2>3 DEF NodesFor
<1> HIDE DEF g
<1>2. ASSUME e.type = "DECOY_ACCESS" PROVE NodesFor(g, e.id, "DECOY") = {DecoyNode(e.resource)}
  <2>1. NodesOf(e, Range(s)) = {DecoyNode(e.resource)}
    BY <1>2 DEF NodesOf, Policies, NetworkDecisions, Outcomes, Signals
  <2>2. DecoyNode(e.resource)[1] = "DECOY"
    BY DEF DecoyNode
  <2> QED BY <1>1, <2>1, <2>2
<1>3. ASSUME e.type = "NETWORK_REQUEST" PROVE NodesFor(g, e.id, "NETWORK_DESTINATION") = {Network(e.resource)}
  <2>1. NodesOf(e, Range(s)) = {Network(e.resource)}
    BY <1>3 DEF NodesOf, Policies, NetworkDecisions, Outcomes, Signals
  <2>2. Network(e.resource)[1] = "NETWORK_DESTINATION"
    BY DEF Network
  <2> QED BY <1>1, <2>1, <2>2
<1>4. ASSUME e.type = "NETWORK_DENY" PROVE NodesFor(g, e.id, "NETWORK_DESTINATION") = {Network(e.resource)}
  <2>1. NodesOf(e, Range(s)) = {Network(e.resource), Decision(e)}
    BY <1>4 DEF NodesOf, Policies, NetworkDecisions, Outcomes, Signals
  <2>2. Network(e.resource)[1] = "NETWORK_DESTINATION" /\ Decision(e)[1] # "NETWORK_DESTINATION"
    BY DEF Network, Decision
  <2> QED BY <1>1, <2>1, <2>2
<1> QED BY <1>2, <1>3, <1>4 DEF g

LEMMA NodeKinds ==
    ASSUME NEW e, NEW events
    PROVE  Anchor(e, events)[1] # "PROCESS" /\ \A n \in NodesOf(e, events) : n[1] # "PROCESS"
<1> USE DEF Session, DecoyNode, Resource, Network, Decision, Outcome, Recorded, Signal, None
<1>1. Anchor(e, events)[1] # "PROCESS"
  BY DEF Anchor
<1>2. \A n \in NodesOf(e, events) : n[1] # "PROCESS"
  BY DEF NodesOf
<1> QED BY <1>1, <1>2

LEMMA EdgeKinds ==
    ASSUME NEW e, NEW events
    PROVE  \A edge \in EdgesOf(e, events, {}) : edge.from[1] # "PROCESS" /\ edge.to[1] # "PROCESS"
<1> SUFFICES ASSUME NEW edge \in EdgesOf(e, events, {})
             PROVE  edge.from[1] # "PROCESS" /\ edge.to[1] # "PROCESS"
  OBVIOUS
<1> USE DEF Session, DecoyNode, Resource, Network, Decision, Outcome, Recorded, Signal, None, Edge
<1> USE DEF Policies, NetworkDecisions, Outcomes, Signals
<1>1. CASE e.type \in Policies
  <2>1. PICK n \in NodesOf(e, events) : edge = Edge(EdgeForDecision(e.decision), n, Decision(e), {e.id})
    BY <1>1 DEF EdgesOf
  <2> QED BY <2>1, NodeKinds
<1>2. CASE e.type \in {"DECOY_ACCESS", "NETWORK_REQUEST"}
  BY <1>2 DEF EdgesOf
<1>3. CASE e.type \in NetworkDecisions
  BY <1>3 DEF EdgesOf
<1>4. CASE e.type \in Outcomes
  BY <1>4 DEF EdgesOf
<1>5. CASE e.type \in {"CONTAINMENT_ACTIVATED", "SECURITY_INCIDENT", "RESOURCE_LIMIT_TRIGGERED"}
  BY <1>5 DEF EdgesOf
<1>6. CASE e.type \in Signals \ {"RESOURCE_LIMIT_TRIGGERED"}
  BY <1>6 DEF EdgesOf
<1> QED BY <1>1, <1>2, <1>3, <1>4, <1>5, <1>6 DEF EdgesOf

\* Nothing but what a running command does draws the command.
LEMMA ScopeNeedsProof ==
    ASSUME NEW s, \A e \in Range(s) : e.type \notin {"PROCESS_EXIT", "DECOY_ACCESS", "NETWORK_REQUEST"}, NEW evidence
    PROVE  Process \notin RelevantNodes(Build(s), evidence)
<1> DEFINE events == Range(s)
           g == Build(s)
<1>1. Scope(events) = {}
  <2>1. \A e \in events : ProcessProofs(e, events) = {}
    BY DEF ProcessProofs
  <2> QED BY <2>1 DEF Scope
<1>2. ASSUME NEW p \in g.evidence PROVE p[2][1] # "PROCESS"
  <2>1. p \in UNION {{<<e.id, n>> : n \in NodesOf(e, events)} : e \in events}
    BY <1>1, <1>2 DEF Build
  <2>2. PICK e \in events : \E n \in NodesOf(e, events) : p = <<e.id, n>>
    BY <2>1
  <2> QED BY <2>2, NodeKinds
<1>3. ASSUME NEW edge \in g.edges PROVE edge.from[1] # "PROCESS" /\ edge.to[1] # "PROCESS"
  <2>1. \/ edge \in UNION {EdgesOf(e, events, {}) : e \in events}
        \/ edge \in TemporalEdges(s, events)
    <3> DEFINE scope == Scope(events)
               A == UNION {EdgesOf(e, events, scope) : e \in events}
               B == {Edge("STARTED", Session, Process, {t.start.id, t.proof.id}) : t \in scope}
    <3>1. g.edges = A \cup B \cup TemporalEdges(s, events)
      BY DEF Build
    <3>2. scope = {}
      BY <1>1
    <3>3. B = {} /\ A = UNION {EdgesOf(e, events, {}) : e \in events}
      BY <3>2
    <3> HIDE DEF A, B, g
    <3> QED BY <1>3, <3>1, <3>3
  <2>2. CASE edge \in UNION {EdgesOf(e, events, {}) : e \in events}
    BY <2>2, EdgeKinds
  <2>3. CASE edge \in TemporalEdges(s, events)
    <3>1. \E a, b : edge.from = Anchor(a, events) /\ edge.to = Anchor(b, events)
      BY <2>3 DEF TemporalEdges, Edge
    <3> QED BY <3>1, NodeKinds
  <2> QED BY <2>1, <2>2, <2>3
<1> HIDE DEF g
<1> QED BY <1>2, <1>3 DEF RelevantNodes, RelevantEdges, Process, g

-----------------------------------------------------------------------------
(* Incidents. *)

LEMMA RankFacts ==
    /\ Rank("LOW") = 1 /\ Rank("MEDIUM") = 2 /\ Rank("HIGH") = 3 /\ Rank("CRITICAL") = 4
    /\ Range(Severities) = {"LOW", "MEDIUM", "HIGH", "CRITICAL"}
    /\ \A s \in Range(Severities) : Rank(s) \in 1 .. 4
<1>1. DOMAIN Severities = 1 .. 4 /\ Severities[1] = "LOW" /\ Severities[2] = "MEDIUM" /\ Severities[3] = "HIGH"
      /\ Severities[4] = "CRITICAL"
  BY DEF Severities
<1>2. \A i \in DOMAIN Severities : i = 1 \/ i = 2 \/ i = 3 \/ i = 4
  BY <1>1
<1>3. Range(Severities) = {"LOW", "MEDIUM", "HIGH", "CRITICAL"}
  BY <1>1, <1>2 DEF Range
<1>4. Rank("LOW") = 1 /\ Rank("MEDIUM") = 2 /\ Rank("HIGH") = 3 /\ Rank("CRITICAL") = 4
  BY <1>1, <1>2 DEF Rank
<1> QED BY <1>3, <1>4

Words(all, step, about) == {s \in all : s.step = step /\ s.about = about}
Said(timeline, statements) ==
    LET all == timeline \cup statements
    IN {[s EXCEPT !.cited = UNION {t.cited : t \in Words(all, s.step, s.about)}] : s \in all}

Sayable(T, st) == \A s \in T \cup st : IsStatement(s)

\* U says what T and st say, and each thing once.
SaidOnce(all, U) ==
    /\ \A u \in U : /\ IsStatement(u) /\ u.cited = UNION {t.cited : t \in Words(all, u.step, u.about)}
                     /\ \E s \in all : u.step = s.step /\ u.about = s.about
    /\ \A s \in all : \E u \in U : u.step = s.step /\ u.about = s.about
    /\ Distinct(U)

LEMMA SaidFacts ==
    ASSUME NEW T, NEW st, Sayable(T, st)
    PROVE  SaidOnce(T \cup st, Said(T, st))
<1> DEFINE all == T \cup st
           U == Said(T, st)
           c(s) == UNION {t.cited : t \in Words(all, s.step, s.about)}
           new(s) == [s EXCEPT !.cited = c(s)]
<1>1. U = {new(s) : s \in all}
  BY DEF Said
<1>2. ASSUME NEW s \in all
      PROVE  IsStatement(new(s)) /\ new(s).step = s.step /\ new(s).about = s.about /\ new(s).cited = c(s)
             /\ new(s) = [step |-> s.step, about |-> s.about, cited |-> c(s)]
  <2> DEFINE d == c(s)
  <2> HIDE DEF c, d
  <2>1. s = [step |-> s.step, about |-> s.about, cited |-> s.cited]
    BY DEF IsStatement, Sayable
  <2>2. [s EXCEPT !.cited = d] = [step |-> s.step, about |-> s.about, cited |-> d]
    BY <2>1
  <2> QED BY <2>2 DEF IsStatement, d
<1> HIDE DEF U, new
<1>3. ASSUME NEW u \in U
      PROVE  /\ IsStatement(u) /\ u.cited = UNION {t.cited : t \in Words(all, u.step, u.about)}
             /\ \E s \in all : u.step = s.step /\ u.about = s.about
  <2>1. PICK s \in all : u = new(s)
    BY <1>1
  <2>2. IsStatement(u) /\ u.step = s.step /\ u.about = s.about /\ u.cited = c(s)
    BY <1>2, <2>1
  <2>3. Words(all, s.step, s.about) = Words(all, u.step, u.about)
    BY <2>2
  <2>4. u.cited = UNION {t.cited : t \in Words(all, u.step, u.about)}
    BY <2>2, <2>3
  <2> QED BY <2>2, <2>4
<1>4. \A s \in all : \E u \in U : u.step = s.step /\ u.about = s.about
  BY <1>1, <1>2
<1>5. Distinct(U)
  <2> SUFFICES ASSUME NEW u \in U, NEW v \in U, u.step = v.step, u.about = v.about PROVE u = v
    BY DEF Distinct
  <2>1. u.cited = v.cited
    BY <1>3
  <2> QED BY <1>3, <2>1 DEF IsStatement
<1> QED BY <1>3, <1>4, <1>5 DEF U, SaidOnce

\* What is not said again stays as it was.
LEMMA SaidKeeps ==
    ASSUME NEW T, NEW st, Sayable(T, st), Distinct(T), NEW steps, \A s \in st : s.step \notin steps
    PROVE  {s \in Said(T, st) : s.step \in steps} = {s \in T : s.step \in steps}
<1> DEFINE U == Said(T, st)
<1>0. SaidOnce(T \cup st, U)
  BY SaidFacts
<1> HIDE DEF U
<1>1. /\ \A u \in U : /\ IsStatement(u) /\ u.cited = UNION {t.cited : t \in Words(T \cup st, u.step, u.about)}
                      /\ \E s \in T \cup st : u.step = s.step /\ u.about = s.about
      /\ \A s \in T \cup st : \E u \in U : u.step = s.step /\ u.about = s.about
  BY <1>0 DEF SaidOnce
<1>2. ASSUME NEW s \in T, NEW u \in U, s.step \in steps, u.step = s.step, u.about = s.about PROVE u = s
  <2>1. Words(T \cup st, u.step, u.about) = {s}
    BY <1>2 DEF Words, Distinct
  <2>2. u.cited = UNION {t.cited : t \in {s}}
    BY <1>1, <2>1
  <2>3. u.cited = s.cited
    BY <2>2
  <2> QED BY <1>1, <1>2, <2>3 DEF IsStatement, Sayable
<1>3. ASSUME NEW u \in U, u.step \in steps PROVE u \in T
  <2>1. PICK s \in T \cup st : u.step = s.step /\ u.about = s.about
    BY <1>1
  <2>2. s \in T
    BY <1>3, <2>1
  <2> QED BY <1>2, <1>3, <2>1, <2>2
<1>4. ASSUME NEW s \in T, s.step \in steps PROVE s \in U
  BY <1>1, <1>2, <1>4
<1> QED BY <1>3, <1>4 DEF U

LEMMA AddFields ==
    ASSUME NEW i, IncidentRecord(i), NEW statements
    PROVE  LET j == AddStatements(i, statements)
           IN /\ j = [type |-> j.type, severity |-> j.severity, backing |-> j.backing, recorded |-> j.recorded,
                      activated |-> j.activated, action |-> j.action, timeline |-> j.timeline, evidence |-> j.evidence]
              /\ j.type = i.type /\ j.severity = i.severity /\ j.backing = i.backing /\ j.recorded = i.recorded
              /\ j.activated = i.activated /\ j.action = i.action
              /\ j.timeline = Said(i.timeline, statements)
              /\ j.evidence = i.evidence \cup UNION {s.cited : s \in statements}
<1> DEFINE a == Said(i.timeline, statements)
           b == UNION {s.cited : s \in statements}
<1>1. AddStatements(i, statements) = [i EXCEPT !.timeline = a, !.evidence = @ \cup b]
  BY DEF AddStatements, Said, Words
<1> HIDE DEF a, b
<1>2. AddStatements(i, statements) =
        [type |-> i.type, severity |-> i.severity, backing |-> i.backing, recorded |-> i.recorded,
         activated |-> i.activated, action |-> i.action, timeline |-> a, evidence |-> i.evidence \cup b]
  BY <1>1 DEF IncidentRecord
<1> QED BY <1>2 DEF a, b

\* What a timeline tells of denials and approvals.
Telling == {"NETWORK_DENIED"} \cup ApprovalTypes
Told(i) == {s \in i.timeline : s.step \in Telling}
HasLater(i) == \E s \in i.timeline : s.step = "LATER_SECURITY_ACTIVITY"

\* An incident that has learnt of something else.
Grows(i, j) ==
    /\ j.action = i.action /\ j.activated = i.activated /\ i.evidence \subseteq j.evidence
    /\ Told(j) = Told(i)

Citing(st) == \A s \in st : IsStatement(s) /\ s.cited \subseteq Ids

Added(i, st, j) ==
    /\ IncidentRecord(j)
    /\ j.type = i.type /\ j.severity = i.severity /\ j.backing = i.backing /\ j.recorded = i.recorded
    /\ j.activated = i.activated /\ j.action = i.action
    /\ j.evidence = i.evidence \cup UNION {s.cited : s \in st}
    /\ SaidOnce(i.timeline \cup st, j.timeline)
    /\ \A steps : (\A s \in st : s.step \notin steps) =>
        {s \in j.timeline : s.step \in steps} = {s \in i.timeline : s.step \in steps}

LEMMA AddSound ==
    ASSUME NEW i, IncidentRecord(i), NEW st, Citing(st)
    PROVE  Added(i, st, AddStatements(i, st))
<1> DEFINE j == AddStatements(i, st)
<1>1. /\ j = [type |-> j.type, severity |-> j.severity, backing |-> j.backing, recorded |-> j.recorded,
              activated |-> j.activated, action |-> j.action, timeline |-> j.timeline, evidence |-> j.evidence]
      /\ j.type = i.type /\ j.severity = i.severity /\ j.backing = i.backing /\ j.recorded = i.recorded
      /\ j.activated = i.activated /\ j.action = i.action
      /\ j.timeline = Said(i.timeline, st)
      /\ j.evidence = i.evidence \cup UNION {s.cited : s \in st}
  BY AddFields
<1> HIDE DEF j
<1>2. Sayable(i.timeline, st)
  BY DEF Sayable, IncidentRecord, Citing
<1>3. SaidOnce(i.timeline \cup st, j.timeline)
  BY <1>1, <1>2, SaidFacts
<1>4. ASSUME NEW u \in j.timeline PROVE IsStatement(u) /\ u.cited \subseteq j.evidence
  <2>1. IsStatement(u) /\ u.cited = UNION {t.cited : t \in Words(i.timeline \cup st, u.step, u.about)}
    BY <1>3 DEF SaidOnce
  <2>2. ASSUME NEW t \in i.timeline \cup st PROVE t.cited \subseteq j.evidence
    <3>1. CASE t \in i.timeline
      <4>1. t.cited \subseteq i.evidence
        BY <3>1 DEF IncidentRecord
      <4> QED BY <1>1, <4>1
    <3>2. CASE t \in st
      BY <1>1, <3>2
    <3> QED BY <3>1, <3>2
  <2> QED BY <2>1, <2>2 DEF Words
<1>5. j.evidence \subseteq Ids
  <2>1. i.evidence \subseteq Ids
    BY DEF IncidentRecord
  <2>2. UNION {s.cited : s \in st} \subseteq Ids
    BY DEF Citing
  <2> QED BY <1>1, <2>1, <2>2
<1>6. IncidentRecord(j)
  <2>1. Distinct(j.timeline)
    BY <1>3 DEF SaidOnce
  <2> QED BY <1>1, <1>4, <1>5, <2>1 DEF IncidentRecord
<1>7. ASSUME NEW steps, \A s \in st : s.step \notin steps
      PROVE  {s \in j.timeline : s.step \in steps} = {s \in i.timeline : s.step \in steps}
  <2>1. Distinct(i.timeline)
    BY DEF IncidentRecord
  <2> QED BY <1>1, <1>2, <1>7, <2>1, SaidKeeps
<1>8. Added(i, st, j)
  BY <1>1, <1>3, <1>6, <1>7 DEF Added
<1> QED BY <1>8 DEF j

\* One more statement, neither of a denial nor of an approval.
Learns(i, step, cited, j) ==
    /\ IncidentRecord(j) /\ Grows(i, j)
    /\ j.type = i.type /\ j.severity = i.severity /\ j.backing = i.backing /\ j.recorded = i.recorded
    /\ j.evidence = i.evidence \cup cited
    /\ step # "LATER_SECURITY_ACTIVITY" => (HasLater(j) <=> HasLater(i))

Addable(i, step, cited) == IncidentRecord(i) /\ step \notin Telling /\ cited \subseteq Ids

LEMMA StatementFields ==
    ASSUME NEW step, NEW about, NEW cited
    PROVE  LET s == Statement(step, about, cited)
           IN IsStatement(s) /\ s.step = step /\ s.about = about /\ s.cited = cited
BY DEF Statement, IsStatement

LEMMA LearnSound ==
    ASSUME NEW i, NEW step, NEW about, NEW cited, Addable(i, step, cited)
    PROVE  Learns(i, step, cited, AddStatement(i, Statement(step, about, cited)))
<1> DEFINE s == Statement(step, about, cited)
           j == AddStatements(i, {s})
<1>1. IsStatement(s) /\ s.step = step /\ s.cited = cited
  BY StatementFields
<1> HIDE DEF s
<1>2. Citing({s}) /\ IncidentRecord(i)
  BY <1>1 DEF Citing, Addable
<1>3. Added(i, {s}, j)
  BY <1>2, AddSound
<1> HIDE DEF j
<1>4. Told(j) = Told(i)
  <2>1. \A t \in {s} : t.step \notin Telling
    BY <1>1 DEF Addable
  <2> QED BY <1>3, <2>1 DEF Added, Told
<1>5. j.evidence = i.evidence \cup cited
  <2>1. UNION {t.cited : t \in {s}} = cited
    BY <1>1
  <2> QED BY <1>3, <2>1 DEF Added
<1>6. step # "LATER_SECURITY_ACTIVITY" => (HasLater(j) <=> HasLater(i))
  <2> SUFFICES ASSUME step # "LATER_SECURITY_ACTIVITY" PROVE HasLater(j) <=> HasLater(i)
    OBVIOUS
  <2>1. \A t \in {s} : t.step \notin {"LATER_SECURITY_ACTIVITY"}
    BY <1>1
  <2>2. {t \in j.timeline : t.step \in {"LATER_SECURITY_ACTIVITY"}} = {t \in i.timeline : t.step \in {"LATER_SECURITY_ACTIVITY"}}
    BY <1>3, <2>1 DEF Added
  <2> QED BY <2>2 DEF HasLater
<1>7. Learns(i, step, cited, j)
  BY <1>3, <1>4, <1>5, <1>6 DEF Learns, Added, Grows
<1> QED BY <1>7 DEF j, s, AddStatement

\* A severity raised, perhaps.
RaisedTo(i, severity, cited, j) ==
    /\ IncidentRecord(j) /\ Grows(i, j)
    /\ j.type = i.type /\ j.evidence = i.evidence /\ j.recorded = i.recorded /\ j.timeline = i.timeline
    /\ j.backing \in {i.backing, cited} /\ j.severity \in {i.severity, severity}
    /\ Rank(i.severity) <= Rank(j.severity) /\ Rank(severity) <= Rank(j.severity)

Raisable(i, severity, cited) ==
    IncidentRecord(i) /\ severity \in Range(Severities) /\ cited # {} /\ cited \subseteq Ids

LEMMA RaiseSound ==
    ASSUME NEW i, NEW severity, NEW cited, Raisable(i, severity, cited)
    PROVE  RaisedTo(i, severity, cited, Raise(i, severity, cited))
<1> DEFINE j == Raise(i, severity, cited)
<1>0. Rank(i.severity) \in 1 .. 4 /\ Rank(severity) \in 1 .. 4
  BY RankFacts DEF Raisable, IncidentRecord
<1>1. CASE Rank(i.severity) < Rank(severity)
  <2>1. j = [i EXCEPT !.severity = severity, !.backing = cited]
    BY <1>1 DEF Raise
  <2>2. j = [type |-> i.type, severity |-> severity, backing |-> cited, recorded |-> i.recorded,
             activated |-> i.activated, action |-> i.action, timeline |-> i.timeline, evidence |-> i.evidence]
    BY <2>1 DEF Raisable, IncidentRecord
  <2> HIDE DEF j
  <2>3. IncidentRecord(j)
    BY <2>2 DEF IncidentRecord, Raisable
  <2>4. RaisedTo(i, severity, cited, j)
    BY <1>0, <1>1, <2>2, <2>3 DEF RaisedTo, Grows, Told
  <2> QED BY <2>4 DEF j
<1>2. CASE ~(Rank(i.severity) < Rank(severity))
  <2>1. j = i
    BY <1>2 DEF Raise
  <2> HIDE DEF j
  <2>2. RaisedTo(i, severity, cited, j)
    BY <1>0, <1>2, <2>1 DEF RaisedTo, Grows, Told, Raisable
  <2> QED BY <2>2 DEF j
<1> QED BY <1>1, <1>2

Openable(severity, cited) == severity \in Range(Severities) /\ cited # {} /\ cited \subseteq Ids

Opened(type, severity, cited, i) ==
    /\ IncidentRecord(i) /\ i.type = type /\ i.severity = severity /\ i.backing = cited /\ i.action = {}
    /\ i.evidence = {} /\ i.timeline = {} /\ i.recorded = FALSE
    /\ Told(i) = {} /\ ~HasLater(i)

LEMMA OpenSound ==
    ASSUME NEW type, NEW severity, NEW cited, Openable(severity, cited)
    PROVE  Opened(type, severity, cited, Incident(type, severity, cited))
BY DEF Incident, IncidentRecord, Distinct, Told, HasLater, Openable, Opened

\* What has been read so far are the names of events.
Context ==
    untrusted \subseteq Ids /\ processStart \in Ids \cup {0} /\ prompts \in Seq(Ids) /\ {shadows[n] : n \in DOMAIN shadows} \subseteq Events

\* The same incident, with more evidence.
Exposes(i, j) ==
    /\ IncidentRecord(j) /\ Grows(i, j) /\ j.type = i.type /\ j.severity = i.severity /\ j.backing = i.backing
    /\ j.recorded = i.recorded /\ (HasLater(j) <=> HasLater(i))

LEMMA ExposeSound ==
    ASSUME NEW i, IncidentRecord(i), NEW e \in Events, Context
    PROVE  Exposes(i, Exposed(i, e))
<1> DEFINE before == ExposureBefore(e)
           cited == before \cup {e.id}
           s == Statement("UNTRUSTED_CONTENT_EXPOSURE", None, cited)
           j == Exposed(i, e)
<1>1. cited \subseteq Ids
  BY DEF ExposureBefore, Context, Ids
<1>2. CASE Cardinality(before) < 2
  BY <1>2 DEF Exposed, Exposes, Grows
<1>3. CASE ~(Cardinality(before) < 2)
  <2>1. Exposed(i, e) = AddStatement(i, s)
    BY <1>3 DEF Exposed
  <2>2. Addable(i, "UNTRUSTED_CONTENT_EXPOSURE", cited)
    BY <1>1 DEF Addable, Telling, ApprovalTypes, Outcomes
  <2> HIDE DEF cited
  <2>3. Learns(i, "UNTRUSTED_CONTENT_EXPOSURE", cited, AddStatement(i, s))
    BY <2>2, LearnSound
  <2> HIDE DEF s
  <2> QED BY <2>1, <2>3 DEF Learns, Exposes
<1> QED BY <1>2, <1>3

\* An incident that is all that it should be.
IncidentSound(i) == IncidentRecord(i) /\ IncidentBacked(i) /\ IncidentRated(i)

LEMMA EnrichSound ==
    ASSUME NEW i, IncidentSound(i), NEW e \in Events, NEW about, Context
    PROVE  IncidentSound(Enriched(i, e, about)) /\ Grows(i, Enriched(i, e, about))
<1> DEFINE cited == Range(prompts) \cup {e.id}
           k == AddStatement(i, Statement("LATER_SECURITY_ACTIVITY", about, cited))
           j == Raise(k, "HIGH", cited)
<1>1. cited \subseteq Ids /\ cited # {}
  BY DEF Context, Ids, Range
<1> HIDE DEF cited
<1>2. Learns(i, "LATER_SECURITY_ACTIVITY", cited, k)
  <2>1. Addable(i, "LATER_SECURITY_ACTIVITY", cited)
    BY <1>1 DEF Addable, Telling, ApprovalTypes, Outcomes, IncidentSound
  <2> QED BY <2>1, LearnSound
<1> HIDE DEF k
<1>3. RaisedTo(k, "HIGH", cited, j)
  <2>1. Raisable(k, "HIGH", cited)
    BY <1>1, <1>2, RankFacts DEF Raisable, Learns
  <2> QED BY <2>1, RaiseSound
<1> HIDE DEF j
<1>4. IncidentBacked(j)
  BY <1>2, <1>3 DEF IncidentBacked, IncidentSound, Learns, RaisedTo, Grows
<1>5. IncidentRated(j)
  BY <1>3, RankFacts DEF IncidentRated, RaisedTo
<1>6. IncidentSound(j) /\ Grows(i, j)
  <2>1. Grows(i, j)
    BY <1>2, <1>3 DEF Grows, Learns, RaisedTo
  <2> QED BY <1>3, <1>4, <1>5, <2>1 DEF IncidentSound, RaisedTo
<1>7. Enriched(i, e, about) = i \/ Enriched(i, e, about) = j
  BY DEF Enriched, j, k, cited
<1>8. Grows(i, i)
  BY DEF Grows
<1> QED BY <1>6, <1>7, <1>8

LEMMA SoundWhenExposed ==
    ASSUME NEW i, NEW j, IncidentSound(i), Exposes(i, j)
    PROVE  IncidentSound(j)
BY DEF IncidentSound, Exposes, Grows, IncidentBacked, IncidentRated, HasLater

\* All incidents, after the one of the prompts has learnt of e.
EnrichedAs(all, new) ==
    /\ IncidentsSound(new) /\ DOMAIN new = DOMAIN all
    /\ \A key \in DOMAIN all : Grows(all[key], new[key]) /\ (key # OfPrompts => new[key] = all[key])

LEMMA PromptSound ==
    ASSUME NEW all, IncidentsSound(all), NEW e \in Events, NEW about, Context
    PROVE  EnrichedAs(all, Prompted(all, e, about))
<1> DEFINE new == Prompted(all, e, about)
           i == all[OfPrompts]
           x == IF e.type = "DECOY_ACCESS" THEN Exposed(i, e) ELSE i
<1>1. CASE OfPrompts \notin DOMAIN all
  BY <1>1 DEF Prompted, EnrichedAs, Grows
<1>2. CASE OfPrompts \in DOMAIN all
  <2>1. new = [all EXCEPT ![OfPrompts] = Enriched(x, e, about)]
    BY <1>2 DEF Prompted
  <2>2. IncidentSound(i)
    BY <1>2 DEF IncidentSound, IncidentsSound
  <2>3. IncidentSound(x) /\ Grows(i, x)
    <3>1. Exposes(i, Exposed(i, e))
      BY <2>2, ExposeSound DEF IncidentSound
    <3>2. IncidentSound(Exposed(i, e)) /\ Grows(i, Exposed(i, e))
      BY <2>2, <3>1, SoundWhenExposed DEF Exposes
    <3>3. Grows(i, i)
      BY DEF Grows
    <3> QED BY <2>2, <3>2, <3>3
  <2> HIDE DEF x
  <2> DEFINE y == Enriched(x, e, about)
  <2>4. IncidentSound(y) /\ Grows(x, y)
    BY <2>3, EnrichSound
  <2> HIDE DEF y
  <2>5. Grows(i, y)
    BY <2>3, <2>4 DEF Grows
  <2>6. DOMAIN new = DOMAIN all /\ new[OfPrompts] = y /\ \A key \in DOMAIN all : key # OfPrompts => new[key] = all[key]
    BY <1>2, <2>1 DEF y
  <2> HIDE DEF new
  <2>7. IncidentsSound(new)
    BY <2>4, <2>6 DEF IncidentsSound, IncidentSound, OfPrompts
  <2>8. \A key \in DOMAIN all : Grows(all[key], new[key])
    BY <2>5, <2>6 DEF Grows
  <2> QED BY <2>6, <2>7, <2>8 DEF EnrichedAs, new
<1> QED BY <1>1, <1>2

-----------------------------------------------------------------------------
(* The consumers that tell of nothing but their own kind. *)

GrowAll(before, after) ==
    /\ DOMAIN before \subseteq DOMAIN after
    /\ \A key \in DOMAIN before : Grows(before[key], after[key])
    /\ \A key \in DOMAIN after \ DOMAIN before :
        after[key].action = {} /\ Told(after[key]) = {} /\ key[1] \in {"DECOY", "prompts"}

Ready == Context /\ IncidentsSound(incidents) /\ ordered[next] \in Events /\ IsEvent(ordered[next])

LEMMA UpdatedIs ==
    ASSUME NEW map, NEW key, NEW value
    PROVE  /\ DOMAIN Updated(map, key, value) = DOMAIN map \cup {key} /\ Updated(map, key, value)[key] = value
           /\ \A k \in DOMAIN map : k # key => Updated(map, key, value)[k] = map[k]
BY DEF Updated

\* A sound incident, new or in the place of one that it has grown out of.
Entering(all, key, i) ==
    /\ IncidentsSound(all) /\ IncidentSound(i)
    /\ key # OfPrompts => ~HasLater(i)
    /\ key[1] \in {"DECOY", "prompts"}
    /\ IF key \in DOMAIN all THEN Grows(all[key], i) ELSE i.action = {} /\ Told(i) = {}

LEMMA EnterSound ==
    ASSUME NEW all, NEW key, NEW i, Entering(all, key, i)
    PROVE  IncidentsSound(Updated(all, key, i)) /\ GrowAll(all, Updated(all, key, i))
<1> DEFINE new == Updated(all, key, i)
<1>1. DOMAIN new = DOMAIN all \cup {key} /\ new[key] = i /\ \A k \in DOMAIN all : k # key => new[k] = all[k]
  BY DEF Updated
<1> HIDE DEF new
<1>2. IncidentsSound(new)
  BY <1>1 DEF Entering, IncidentsSound, IncidentSound, HasLater
<1>3. \A k \in DOMAIN all : Grows(all[k], new[k])
  BY <1>1 DEF Entering, Grows
<1>4. \A k \in DOMAIN new \ DOMAIN all : new[k].action = {} /\ Told(new[k]) = {} /\ k[1] \in {"DECOY", "prompts"}
  BY <1>1 DEF Entering
<1> QED BY <1>1, <1>2, <1>3, <1>4 DEF GrowAll, new

LEMMA AccessSound ==
    ASSUME Ready, ConsumeDecoyAccessed
    PROVE  /\ IncidentsSound(incidents') /\ GrowAll(incidents, incidents')
           /\ \E n \in NodesFor(graph, ordered[next].id, "DECOY") : n[1] = "DECOY" /\ latest' = n /\ n \in DOMAIN incidents'
<1> DEFINE e == ordered[next]
<1>0. e.id \in Ids /\ {e.id} \subseteq Ids /\ e \in Events
  BY DEF Ready, Ids
<1>1. PICK n \in NodesFor(graph, e.id, "DECOY") :
        LET opened == IF n \in DOMAIN shadows
                      THEN AddStatement(Incident("DECOY_ACCESS", "HIGH", {e.id}),
                                        Statement("SHADOW_EXPOSED", n, {shadows[n].id}))
                      ELSE Incident("DECOY_ACCESS", "HIGH", {e.id})
            known == IF OfDecoy(n) \in DOMAIN incidents THEN incidents[OfDecoy(n)] ELSE opened
            scope == IF NodesFor(graph, e.id, "PROCESS") = {} THEN None ELSE Process
            accessed == Exposed(AddStatement(known, Statement("DECOY_ACCESSED", scope, {e.id})), e)
        IN /\ incidents' = Prompted(With(OfDecoy(n), accessed), e, n)
           /\ latest' = OfDecoy(n)
  BY DEF ConsumeDecoyAccessed
<1> DEFINE blank == Incident("DECOY_ACCESS", "HIGH", {e.id})
           opened == IF n \in DOMAIN shadows THEN AddStatement(blank, Statement("SHADOW_EXPOSED", n, {shadows[n].id}))
                     ELSE blank
           known == IF n \in DOMAIN incidents THEN incidents[n] ELSE opened
           scope == IF NodesFor(graph, e.id, "PROCESS") = {} THEN None ELSE Process
           said == AddStatement(known, Statement("DECOY_ACCESSED", scope, {e.id}))
           accessed == Exposed(said, e)
           all == Updated(incidents, n, accessed)
<1>2. incidents' = Prompted(all, e, n) /\ latest' = n
  BY <1>1 DEF With, OfDecoy
<1>3. n[1] = "DECOY" /\ n # OfPrompts
  BY NodesForKind DEF OfPrompts
<1> HIDE DEF e
<1>4. /\ IncidentRecord(blank) /\ blank.type = "DECOY_ACCESS" /\ blank.backing = {e.id} /\ blank.action = {}
      /\ Told(blank) = {} /\ ~HasLater(blank)
  <2>1. Openable("HIGH", {e.id})
    BY <1>0, RankFacts DEF Openable
  <2>2. Opened("DECOY_ACCESS", "HIGH", {e.id}, blank)
    BY <2>1, OpenSound
  <2> HIDE DEF blank
  <2> QED BY <2>2 DEF Opened
<1> HIDE DEF blank
<1>5. /\ IncidentRecord(opened) /\ opened.type = "DECOY_ACCESS" /\ opened.backing = {e.id} /\ opened.action = {}
      /\ Told(opened) = {} /\ ~HasLater(opened)
  <2>1. CASE n \in DOMAIN shadows
    <3> DEFINE cited == {shadows[n].id}
               j == AddStatement(blank, Statement("SHADOW_EXPOSED", n, cited))
    <3>1. Addable(blank, "SHADOW_EXPOSED", cited)
      BY <1>4, <2>1 DEF Addable, Telling, ApprovalTypes, Outcomes, Ready, Context, Ids
    <3> HIDE DEF cited
    <3>2. Learns(blank, "SHADOW_EXPOSED", cited, j)
      BY <3>1, LearnSound
    <3>3. opened = j
      BY <2>1 DEF cited
    <3> HIDE DEF j, opened
    <3> QED BY <1>4, <3>2, <3>3 DEF Learns, Grows
  <2>2. CASE n \notin DOMAIN shadows
    BY <1>4, <2>2
  <2> QED BY <2>1, <2>2
<1> HIDE DEF opened
<1>6. /\ IncidentRecord(known) /\ ~HasLater(known)
      /\ known.backing \subseteq known.evidence \cup {e.id} /\ known.action \subseteq known.evidence
      /\ known.type = "DECOY_ACCESS_WITH_NETWORK_ACTIVITY" => Rank(known.severity) >= 3
      /\ IF n \in DOMAIN incidents THEN known = incidents[n] ELSE known.action = {} /\ Told(known) = {}
  <2>1. CASE n \in DOMAIN incidents
    BY <1>3, <2>1 DEF Ready, IncidentsSound, IncidentBacked, IncidentRated, HasLater
  <2>2. CASE n \notin DOMAIN incidents
    BY <1>5, <2>2
  <2> QED BY <2>1, <2>2
<1> HIDE DEF known, scope
<1>7. Learns(known, "DECOY_ACCESSED", {e.id}, said)
  <2>1. Addable(known, "DECOY_ACCESSED", {e.id})
    BY <1>0, <1>6 DEF Addable, Telling, ApprovalTypes, Outcomes
  <2> QED BY <2>1, LearnSound
<1> HIDE DEF said
<1>8. IncidentSound(said) /\ ~HasLater(said) /\ Grows(known, said)
  BY <1>6, <1>7 DEF Learns, IncidentSound, IncidentBacked, IncidentRated, HasLater, Grows
<1>9. Exposes(said, accessed)
  BY <1>0, <1>8, ExposeSound DEF IncidentSound, Ready
<1> HIDE DEF accessed
<1>10. IncidentSound(accessed) /\ ~HasLater(accessed) /\ Grows(known, accessed)
  <2>1. IncidentSound(accessed)
    BY <1>8, <1>9, SoundWhenExposed
  <2> QED BY <1>8, <1>9, <2>1 DEF Exposes, Grows
<1>11. Entering(incidents, n, accessed)
  BY <1>3, <1>6, <1>10 DEF Entering, Ready, Grows
<1>12. IncidentsSound(all) /\ GrowAll(incidents, all) /\ DOMAIN all = DOMAIN incidents \cup {n}
  BY <1>11, EnterSound, UpdatedIs
<1> HIDE DEF all
<1>13. EnrichedAs(all, Prompted(all, e, n))
  BY <1>0, <1>12, PromptSound DEF Ready
<1>14. IncidentsSound(incidents') /\ GrowAll(incidents, incidents') /\ n \in DOMAIN incidents'
  BY <1>2, <1>12, <1>13 DEF EnrichedAs, GrowAll, Grows
<1> QED BY <1>2, <1>3, <1>14 DEF e

Replacing(all, key, i) ==
    /\ IncidentsSound(all) /\ key \in DOMAIN all /\ IncidentSound(i) /\ Grows(all[key], i)
    /\ key # OfPrompts => ~HasLater(i)

LEMMA ReplaceSound ==
    ASSUME NEW all, NEW key, NEW i, Replacing(all, key, i)
    PROVE  IncidentsSound([all EXCEPT ![key] = i]) /\ GrowAll(all, [all EXCEPT ![key] = i])
<1> DEFINE new == [all EXCEPT ![key] = i]
<1>1. DOMAIN new = DOMAIN all /\ new[key] = i /\ \A k \in DOMAIN all : k # key => new[k] = all[k]
  BY DEF Replacing
<1> HIDE DEF new
<1>2. IncidentsSound(new)
  BY <1>1 DEF Replacing, IncidentsSound, IncidentSound, HasLater
<1>3. \A k \in DOMAIN all : Grows(all[k], new[k])
  BY <1>1 DEF Replacing, Grows
<1> QED BY <1>1, <1>2, <1>3 DEF GrowAll, new

LEMMA PromptsSound ==
    ASSUME Ready, ConsumePrompt
    PROVE  IncidentsSound(incidents') /\ GrowAll(incidents, incidents') /\ prompts' \in Seq(Ids)
<1> DEFINE e == ordered[next]
           severity == IF e.severity = "none" THEN "LOW" ELSE e.severity
           known == IF OfPrompts \in DOMAIN incidents THEN Raise(incidents[OfPrompts], severity, {e.id})
                    ELSE Incident("SUSPICIOUS_INSTRUCTIONS", severity, {e.id})
           seen == {id \in untrusted : EventOf(id).resource = e.resource /\ BeforeOrEqual(EventOf(id), e)}
<1>0. e.id \in Ids /\ {e.id} \subseteq Ids /\ {e.id} # {} /\ e \in Events /\ severity \in Range(Severities)
  BY RankFacts DEF Ready, Ids, IsEvent
<1>1. PICK source \in NodesFor(graph, e.id, "RESOURCE") :
        incidents' = With(OfPrompts,
            AddStatement(IF seen = {} THEN known
                         ELSE AddStatement(known, Statement("UNTRUSTED_CONTENT_OBSERVED", source, {CHOOSE id \in seen : TRUE})),
                         Statement("SUSPICIOUS_INSTRUCTIONS_OBSERVED", source, {e.id})))
  BY DEF ConsumePrompt
<1> DEFINE first == {CHOOSE id \in seen : TRUE}
           observed == IF seen = {} THEN known
                       ELSE AddStatement(known, Statement("UNTRUSTED_CONTENT_OBSERVED", source, first))
           said == AddStatement(observed, Statement("SUSPICIOUS_INSTRUCTIONS_OBSERVED", source, {e.id}))
<1>2. incidents' = Updated(incidents, OfPrompts, said)
  BY <1>1 DEF With
<1>3. prompts' \in Seq(Ids)
  <2>1. prompts' = Append(prompts, e.id) /\ prompts \in Seq(Ids)
    BY DEF ConsumePrompt, Ready, Context
  <2> HIDE DEF e
  <2> QED BY <1>0, <2>1
<1>4. seen # {} => first \subseteq Ids
  BY DEF Ready, Context
<1> HIDE DEF e, severity, seen, first
<1>5. /\ IncidentRecord(known) /\ known.backing \subseteq known.evidence \cup {e.id} /\ known.action \subseteq known.evidence
      /\ IncidentRated(known)
      /\ IF OfPrompts \in DOMAIN incidents THEN Grows(incidents[OfPrompts], known) ELSE known.action = {} /\ Told(known) = {}
  <2>1. CASE OfPrompts \in DOMAIN incidents
    <3> DEFINE i == incidents[OfPrompts]
               j == Raise(i, severity, {e.id})
    <3>1. IncidentRecord(i) /\ IncidentBacked(i) /\ IncidentRated(i)
      BY <2>1 DEF Ready, IncidentsSound
    <3>2. Raisable(i, severity, {e.id})
      BY <1>0, <3>1 DEF Raisable
    <3>3. RaisedTo(i, severity, {e.id}, j)
      BY <3>2, RaiseSound
    <3>4. known = j
      BY <2>1
    <3> HIDE DEF j, known
    <3>5. Rank(i.severity) \in Nat /\ Rank(j.severity) \in Nat
      BY <3>1, <3>3, RankFacts DEF IncidentRecord, RaisedTo
    <3>6. IncidentRated(j)
      BY <3>1, <3>3, <3>5 DEF IncidentRated, RaisedTo
    <3>7. j.backing \subseteq j.evidence \cup {e.id} /\ j.action \subseteq j.evidence
      BY <3>1, <3>3 DEF IncidentBacked, RaisedTo, Grows
    <3> QED BY <2>1, <3>3, <3>4, <3>6, <3>7 DEF RaisedTo
  <2>2. CASE OfPrompts \notin DOMAIN incidents
    <3> DEFINE j == Incident("SUSPICIOUS_INSTRUCTIONS", severity, {e.id})
    <3>1. Openable(severity, {e.id})
      BY <1>0 DEF Openable
    <3>2. Opened("SUSPICIOUS_INSTRUCTIONS", severity, {e.id}, j)
      BY <3>1, OpenSound
    <3>3. known = j
      BY <2>2
    <3> HIDE DEF j, known
    <3> QED BY <2>2, <3>2, <3>3 DEF Opened, IncidentRated, HasLater
  <2> QED BY <2>1, <2>2
<1> HIDE DEF known
<1>6. /\ IncidentRecord(observed) /\ observed.backing \subseteq observed.evidence \cup {e.id}
      /\ observed.action \subseteq observed.evidence /\ IncidentRated(observed) /\ Grows(known, observed)
  <2>1. CASE seen = {}
    BY <1>5, <2>1 DEF Grows
  <2>2. CASE seen # {}
    <3> DEFINE j == AddStatement(known, Statement("UNTRUSTED_CONTENT_OBSERVED", source, first))
    <3>1. Addable(known, "UNTRUSTED_CONTENT_OBSERVED", first)
      BY <1>4, <1>5, <2>2 DEF Addable, Telling, ApprovalTypes, Outcomes
    <3>2. Learns(known, "UNTRUSTED_CONTENT_OBSERVED", first, j)
      BY <3>1, LearnSound
    <3>3. observed = j
      BY <2>2
    <3> HIDE DEF j, observed
    <3> QED BY <1>5, <3>2, <3>3 DEF Learns, Grows, IncidentRated, HasLater
  <2> QED BY <2>1, <2>2
<1> HIDE DEF observed
<1>7. Learns(observed, "SUSPICIOUS_INSTRUCTIONS_OBSERVED", {e.id}, said)
  <2>1. Addable(observed, "SUSPICIOUS_INSTRUCTIONS_OBSERVED", {e.id})
    BY <1>0, <1>6 DEF Addable, Telling, ApprovalTypes, Outcomes
  <2> QED BY <2>1, LearnSound
<1> HIDE DEF said
<1>8. IncidentSound(said) /\ Grows(known, said)
  BY <1>6, <1>7 DEF Learns, Grows, IncidentSound, IncidentBacked, IncidentRated, HasLater
<1>9. Entering(incidents, OfPrompts, said)
  <2>1. OfPrompts[1] = "prompts"
    BY DEF OfPrompts
  <2> QED BY <1>5, <1>8, <2>1 DEF Entering, Ready, Grows
<1> QED BY <1>2, <1>3, <1>9, EnterSound

LEMMA SensitiveSound ==
    ASSUME Ready, ConsumeSensitive
    PROVE  IncidentsSound(incidents') /\ GrowAll(incidents, incidents') /\ DOMAIN incidents' = DOMAIN incidents
<1> DEFINE e == ordered[next]
           key == DecoyNode(e.resource)
           sources == {s \in SensitiveSource(e, Range(ordered)) : DecoyNode(s.resource) \in DOMAIN incidents}
           said == AddStatement(incidents[key], Statement("SENSITIVE_RESOURCE_REQUESTED", None, {e.ref, e.id}))
<1>1. incidents' = IF sources = {} THEN incidents ELSE [incidents EXCEPT ![key] = said]
  BY DEF ConsumeSensitive
<1>2. CASE sources = {}
  BY <1>1, <1>2 DEF GrowAll, Grows, Ready
<1>3. CASE sources # {}
  <2>1. key \in DOMAIN incidents /\ {e.ref, e.id} \subseteq Ids
    BY <1>3 DEF SensitiveSource, Ids, Events, Ready
  <2> DEFINE cited == {e.ref, e.id}
  <2>2. key # OfPrompts
    BY DEF DecoyNode, OfPrompts
  <2>3. IncidentSound(incidents[key]) /\ ~HasLater(incidents[key])
    BY <2>1, <2>2 DEF Ready, IncidentsSound, IncidentSound, HasLater
  <2> HIDE DEF cited
  <2>4. Addable(incidents[key], "SENSITIVE_RESOURCE_REQUESTED", cited)
    BY <2>1, <2>3 DEF Addable, Telling, ApprovalTypes, Outcomes, IncidentSound, cited
  <2>5. Learns(incidents[key], "SENSITIVE_RESOURCE_REQUESTED", cited, said)
    BY <2>4, LearnSound DEF cited
  <2>6. incidents' = [incidents EXCEPT ![key] = said]
    BY <1>1, <1>3
  <2> HIDE DEF said, key
  <2>7. Replacing(incidents, key, said)
    BY <2>1, <2>3, <2>5 DEF Replacing, Ready, Learns, IncidentSound, IncidentBacked, IncidentRated, HasLater, Grows
  <2> QED BY <2>6, <2>7, ReplaceSound
<1> QED BY <1>2, <1>3

LEMMA RecordedSound ==
    ASSUME Ready, ConsumeRecorded
    PROVE  IncidentsSound(incidents') /\ GrowAll(incidents, incidents') /\ DOMAIN incidents' = DOMAIN incidents
<1> DEFINE e == ordered[next]
<1>0. e.id \in Ids /\ e.severity \in Range(Severities) \cup {"none"}
  BY DEF Ready, Ids, IsEvent
<1>1. PICK n \in NodesFor(graph, e.id, "DECOY") :
        LET incident == [incidents[OfDecoy(n)] EXCEPT !.evidence = @ \cup {e.id}]
            controls == ~incident.recorded \/ Rank(e.severity) > Rank(incident.severity)
            rated == IF e.severity # "none" /\ controls
                     THEN [incident EXCEPT !.severity = e.severity, !.backing = {e.id}, !.recorded = TRUE]
                     ELSE incident
        IN incidents' =
            CASE OfDecoy(n) \notin DOMAIN incidents -> incidents
              [] OfDecoy(n) \in DOMAIN incidents /\ rated.type = "DECOY_ACCESS_WITH_NETWORK_ACTIVITY" ->
                    [incidents EXCEPT ![OfDecoy(n)] = Raise(rated, "HIGH", rated.action \cup {e.id})]
              [] OTHER -> [incidents EXCEPT ![OfDecoy(n)] = rated]
  BY DEF ConsumeRecorded
<1> DEFINE i == incidents[n]
           incident == [i EXCEPT !.evidence = @ \cup {e.id}]
           controls == ~incident.recorded \/ Rank(e.severity) > Rank(incident.severity)
           rated == IF e.severity # "none" /\ controls
                    THEN [incident EXCEPT !.severity = e.severity, !.backing = {e.id}, !.recorded = TRUE]
                    ELSE incident
           cited == rated.action \cup {e.id}
           raised == Raise(rated, "HIGH", cited)
<1>2. /\ n \notin DOMAIN incidents => incidents' = incidents
      /\ n \in DOMAIN incidents /\ rated.type = "DECOY_ACCESS_WITH_NETWORK_ACTIVITY" =>
            incidents' = [incidents EXCEPT ![n] = raised]
      /\ n \in DOMAIN incidents /\ rated.type # "DECOY_ACCESS_WITH_NETWORK_ACTIVITY" =>
            incidents' = [incidents EXCEPT ![n] = rated]
  BY <1>1 DEF OfDecoy
<1>3. n # OfPrompts
  BY NodesForKind DEF OfPrompts
<1>4. CASE n \notin DOMAIN incidents
  BY <1>2, <1>4 DEF GrowAll, Grows, Ready
<1>5. CASE n \in DOMAIN incidents
  <2> HIDE DEF e
  <2>1. IncidentSound(i) /\ ~HasLater(i)
    BY <1>3, <1>5 DEF Ready, IncidentsSound, IncidentSound, HasLater
  <2> HIDE DEF i
  <2>2. incident = [type |-> i.type, severity |-> i.severity, backing |-> i.backing, recorded |-> i.recorded,
                    activated |-> i.activated, action |-> i.action, timeline |-> i.timeline,
                    evidence |-> i.evidence \cup {e.id}]
    <3>1. IncidentRecord(i)
      BY <2>1 DEF IncidentSound
    <3> QED BY <3>1 DEF IncidentRecord
  <2> HIDE DEF incident
  <2>3. IncidentRecord(incident) /\ IncidentBacked(incident) /\ ~HasLater(incident) /\ Grows(i, incident)
    BY <1>0, <2>1, <2>2 DEF IncidentSound, IncidentRecord, IncidentBacked, HasLater, Grows, Told
  <2>4. /\ IncidentRecord(rated) /\ IncidentBacked(rated) /\ ~HasLater(rated) /\ Grows(i, rated)
        /\ rated.type = i.type /\ e.id \in rated.evidence
    <3>1. CASE e.severity # "none" /\ controls
      <4>1. rated = [type |-> i.type, severity |-> e.severity, backing |-> {e.id}, recorded |-> TRUE,
                     activated |-> i.activated, action |-> i.action, timeline |-> i.timeline,
                     evidence |-> i.evidence \cup {e.id}]
        BY <2>2, <3>1
      <4> HIDE DEF rated
      <4> QED BY <1>0, <2>1, <3>1, <4>1 DEF IncidentSound, IncidentRecord, IncidentBacked, HasLater, Grows, Told
    <3>2. CASE ~(e.severity # "none" /\ controls)
      <4>1. rated = incident
        BY <3>2
      <4> HIDE DEF rated
      <4> QED BY <2>2, <2>3, <4>1
    <3> QED BY <3>1, <3>2
  <2> HIDE DEF rated, controls
  <2>5. CASE rated.type = "DECOY_ACCESS_WITH_NETWORK_ACTIVITY"
    <3>1. Raisable(rated, "HIGH", cited)
      BY <1>0, <2>4, RankFacts DEF Raisable, IncidentRecord
    <3> HIDE DEF cited
    <3>2. RaisedTo(rated, "HIGH", cited, raised)
      BY <3>1, RaiseSound
    <3> HIDE DEF raised
    <3>3. IncidentSound(raised) /\ ~HasLater(raised)
      BY <2>4, <3>2, RankFacts DEF IncidentSound, RaisedTo, IncidentBacked, IncidentRated, HasLater, Grows, cited
    <3>4. Replacing(incidents, n, raised)
      BY <1>5, <2>4, <3>2, <3>3 DEF Replacing, Ready, RaisedTo, Grows, i
    <3>5. incidents' = [incidents EXCEPT ![n] = raised]
      BY <1>2, <1>5, <2>5
    <3> QED BY <3>4, <3>5, ReplaceSound
  <2>6. CASE rated.type # "DECOY_ACCESS_WITH_NETWORK_ACTIVITY"
    <3>1. IncidentSound(rated)
      BY <2>4, <2>6 DEF IncidentSound, IncidentRated, HasLater
    <3>2. Replacing(incidents, n, rated)
      BY <1>5, <2>4, <3>1 DEF Replacing, Ready, i
    <3>3. incidents' = [incidents EXCEPT ![n] = rated]
      BY <1>2, <1>5, <2>6
    <3> QED BY <3>2, <3>3, ReplaceSound
  <2> QED BY <2>5, <2>6
<1> QED BY <1>4, <1>5

-----------------------------------------------------------------------------
(* Containment and denials. *)

\* An activation is more evidence of an incident, and its action.
AppliedTo(i, id, j) ==
    /\ IncidentSound(j) /\ j.action = i.action \cup {id} /\ j.activated = i.activated
    /\ i.evidence \subseteq j.evidence /\ Told(j) = Told(i) /\ (HasLater(j) <=> HasLater(i))

Applicable(i, e) ==
    /\ IncidentRecord(i) /\ i.backing \subseteq i.evidence \cup {e.id} /\ i.action \subseteq i.evidence /\ IncidentRated(i)
    /\ e.id \in Ids

LEMMA ApplySound ==
    ASSUME NEW i, NEW e, Applicable(i, e)
    PROVE  AppliedTo(i, e.id, Applied(i, e))
<1> DEFINE k == [i EXCEPT !.action = @ \cup {e.id}]
           j == AddStatement(k, Statement("CONTAINMENT_ACTIVATED", None, {e.id}))
<1>1. k = [type |-> i.type, severity |-> i.severity, backing |-> i.backing, recorded |-> i.recorded,
           activated |-> i.activated, action |-> i.action \cup {e.id}, timeline |-> i.timeline, evidence |-> i.evidence]
  BY DEF Applicable, IncidentRecord
<1> HIDE DEF k
<1>2. IncidentRecord(k)
  BY <1>1 DEF Applicable, IncidentRecord
<1>3. Addable(k, "CONTAINMENT_ACTIVATED", {e.id})
  BY <1>2 DEF Applicable, Addable, Telling, ApprovalTypes, Outcomes
<1>4. Learns(k, "CONTAINMENT_ACTIVATED", {e.id}, j)
  BY <1>3, LearnSound
<1> HIDE DEF j
<1>5. AppliedTo(i, e.id, j)
  BY <1>1, <1>4 DEF AppliedTo, Learns, Grows, Told, HasLater, IncidentSound, IncidentBacked, IncidentRated, Applicable
<1> QED BY <1>5 DEF Applied, j, k

\* U says of any steps what there is to say.
LEMMA SaidTotal ==
    ASSUME NEW all, NEW U, SaidOnce(all, U), NEW steps
    PROVE  UNION {u.cited : u \in {v \in U : v.step \in steps}} = UNION {s.cited : s \in {t \in all : t.step \in steps}}
<1>1. ASSUME NEW u \in U, u.step \in steps, NEW id \in u.cited
      PROVE  \E s \in all : s.step \in steps /\ id \in s.cited
  <2>1. u.cited = UNION {t.cited : t \in Words(all, u.step, u.about)}
    BY DEF SaidOnce
  <2>2. PICK t \in Words(all, u.step, u.about) : id \in t.cited
    BY <1>1, <2>1
  <2> QED BY <1>1, <2>2 DEF Words
<1>2. ASSUME NEW s \in all, s.step \in steps, NEW id \in s.cited
      PROVE  \E u \in U : u.step \in steps /\ id \in u.cited
  <2>1. PICK u \in U : u.step = s.step /\ u.about = s.about
    BY DEF SaidOnce
  <2>2. u.cited = UNION {t.cited : t \in Words(all, u.step, u.about)} /\ s \in Words(all, u.step, u.about)
    BY <2>1 DEF SaidOnce, Words
  <2> QED BY <1>2, <2>1, <2>2
<1>3. ASSUME NEW id, id \in UNION {u.cited : u \in {v \in U : v.step \in steps}}
      PROVE  id \in UNION {s.cited : s \in {t \in all : t.step \in steps}}
  <2>1. PICK u \in U : u.step \in steps /\ id \in u.cited
    BY <1>3
  <2> QED BY <1>1, <2>1
<1>4. ASSUME NEW id, id \in UNION {s.cited : s \in {t \in all : t.step \in steps}}
      PROVE  id \in UNION {u.cited : u \in {v \in U : v.step \in steps}}
  <2>1. PICK s \in all : s.step \in steps /\ id \in s.cited
    BY <1>4
  <2>2. PICK u \in U : u.step \in steps /\ id \in u.cited
    BY <1>2, <2>1
  <2> QED BY <2>2
<1> QED BY <1>3, <1>4

\* What a timeline cites of approvals.
ToldOfApprovals(i) == UNION {s.cited : s \in {t \in i.timeline : t.step \in ApprovalTypes}}

\* What a timeline tells of denials.
DeniedOf(i) == {s \in i.timeline : s.step = "NETWORK_DENIED"}
Denied(key) == DeniedOf(incidents[key])

\* A denial is told once, with all that was ever told of its destination.
Denies(i, e, n, cited, j) ==
    /\ IncidentRecord(j)
    /\ j.type = i.type /\ j.severity = i.severity /\ j.backing = i.backing /\ j.recorded = i.recorded
    /\ j.activated = i.activated /\ j.action = i.action
    /\ i.evidence \cup cited \subseteq j.evidence /\ (HasLater(j) <=> HasLater(i))
    /\ \E d \in DeniedOf(j) :
        /\ d.about = n /\ d.cited = cited \cup UNION {s.cited : s \in {t \in DeniedOf(i) : t.about = n}}
        /\ \A s \in DeniedOf(j) : s = d \/ (s \in DeniedOf(i) /\ s.about # n)
    /\ \A s \in DeniedOf(i) : s.about # n => s \in DeniedOf(j)
    /\ ToldOfApprovals(j) = ToldOfApprovals(i) \cup {a.id : a \in {b \in ApprovalsFor(e) : SaidOf(b)}}

Deniable(i, n, cited) ==
    /\ IncidentRecord(i) /\ cited \subseteq Ids
    /\ \A a \in approvals : a \in Events /\ a.type \in ApprovalTypes

LEMMA DenySound ==
    ASSUME NEW i, NEW e, NEW n, NEW cited, Deniable(i, n, cited)
    PROVE  Denies(i, e, n, cited, AddStatement(WithApprovals(i, e), Statement("NETWORK_DENIED", n, cited)))
<1> DEFINE A == {b \in ApprovalsFor(e) : SaidOf(b)}
           st == {Statement(a.type, a.source, {a.id}) : a \in A}
           w == AddStatements(i, st)
           s0 == Statement("NETWORK_DENIED", n, cited)
           j == AddStatements(w, {s0})
<1>1. /\ \A a \in A : a \in Events /\ a.type \in ApprovalTypes /\ a.id \in Ids
      /\ \A a \in A : LET s == Statement(a.type, a.source, {a.id}) IN IsStatement(s) /\ s.step = a.type /\ s.cited = {a.id}
  BY StatementFields DEF ApprovalsFor, Deniable, Ids
<1> HIDE DEF A
<1>2. Citing(st) /\ \A s \in st : s.step \in ApprovalTypes
  BY <1>1 DEF Citing
<1>3. UNION {s.cited : s \in {t \in st : t.step \in ApprovalTypes}} = {a.id : a \in A}
  <2>1. \A s \in st : \E a \in A : s.cited = {a.id}
    BY <1>1
  <2>2. \A a \in A : \E s \in st : s.cited = {a.id}
    BY <1>1
  <2> HIDE DEF st
  <2>3. {t \in st : t.step \in ApprovalTypes} = st
    BY <1>2
  <2>4. ASSUME NEW x, x \in UNION {s.cited : s \in st} PROVE x \in {a.id : a \in A}
    <3>1. PICK s \in st : x \in s.cited
      BY <2>4
    <3>2. PICK a \in A : s.cited = {a.id}
      BY <2>1, <3>1
    <3> QED BY <3>1, <3>2
  <2>5. ASSUME NEW a \in A PROVE a.id \in UNION {s.cited : s \in st}
    <3>1. PICK s \in st : s.cited = {a.id}
      BY <2>2
    <3> QED BY <3>1
  <2> QED BY <2>3, <2>4, <2>5
<1> HIDE DEF st
<1>4. Added(i, st, w)
  BY <1>2, AddSound DEF Deniable
<1> HIDE DEF w
<1>5. IsStatement(s0) /\ s0.step = "NETWORK_DENIED" /\ s0.about = n /\ s0.cited = cited
  BY StatementFields
<1> HIDE DEF s0
<1>6. Added(w, {s0}, j)
  <2>1. Citing({s0}) /\ IncidentRecord(w)
    BY <1>4, <1>5 DEF Citing, Added, Deniable
  <2> QED BY <2>1, AddSound
<1> HIDE DEF j
<1>7. DeniedOf(w) = DeniedOf(i) /\ "NETWORK_DENIED" \notin ApprovalTypes /\ "LATER_SECURITY_ACTIVITY" \notin ApprovalTypes
  <2>1. "NETWORK_DENIED" \notin ApprovalTypes /\ "LATER_SECURITY_ACTIVITY" \notin ApprovalTypes
    BY DEF ApprovalTypes, Outcomes
  <2>2. \A s \in st : s.step \notin {"NETWORK_DENIED"}
    BY <1>2, <2>1
  <2>3. {s \in w.timeline : s.step \in {"NETWORK_DENIED"}} = {s \in i.timeline : s.step \in {"NETWORK_DENIED"}}
    BY <1>4, <2>2 DEF Added
  <2> QED BY <2>1, <2>3 DEF DeniedOf
<1>8. HasLater(j) <=> HasLater(i)
  <2> DEFINE X == {"LATER_SECURITY_ACTIVITY"}
  <2>1. \A s \in st : s.step \notin X
    BY <1>2, <1>7
  <2>2. \A s \in {s0} : s.step \notin X
    BY <1>5
  <2>3. {s \in w.timeline : s.step \in X} = {s \in i.timeline : s.step \in X}
    BY <1>4, <2>1 DEF Added
  <2>4. {s \in j.timeline : s.step \in X} = {s \in w.timeline : s.step \in X}
    BY <1>6, <2>2 DEF Added
  <2> QED BY <2>3, <2>4 DEF HasLater
<1>9. ToldOfApprovals(j) = ToldOfApprovals(i) \cup {a.id : a \in A}
  <2>1. \A s \in {s0} : s.step \notin ApprovalTypes
    BY <1>5, <1>7
  <2>2. {s \in j.timeline : s.step \in ApprovalTypes} = {s \in w.timeline : s.step \in ApprovalTypes}
    BY <1>6, <2>1 DEF Added
  <2>3. SaidOnce(i.timeline \cup st, w.timeline)
    BY <1>4 DEF Added
  <2>4. UNION {s.cited : s \in {t \in w.timeline : t.step \in ApprovalTypes}}
          = UNION {s.cited : s \in {t \in i.timeline \cup st : t.step \in ApprovalTypes}}
    BY <2>3, SaidTotal
  <2>5. UNION {s.cited : s \in {t \in i.timeline \cup st : t.step \in ApprovalTypes}}
          = ToldOfApprovals(i) \cup UNION {s.cited : s \in {t \in st : t.step \in ApprovalTypes}}
    BY DEF ToldOfApprovals
  <2> QED BY <1>3, <2>2, <2>4, <2>5 DEF ToldOfApprovals
<1> DEFINE all == w.timeline \cup {s0}
<1>10. /\ \A u \in j.timeline : /\ IsStatement(u) /\ u.cited = UNION {t.cited : t \in Words(all, u.step, u.about)}
                                /\ \E s \in all : u.step = s.step /\ u.about = s.about
       /\ \A s \in all : \E u \in j.timeline : u.step = s.step /\ u.about = s.about
       /\ Distinct(j.timeline)
       /\ Distinct(w.timeline) /\ \A s \in w.timeline : IsStatement(s)
  BY <1>4, <1>6 DEF Added, SaidOnce, IncidentRecord
<1>11. PICK d \in j.timeline : d.step = "NETWORK_DENIED" /\ d.about = n
  BY <1>5, <1>10
<1>12. d \in DeniedOf(j)
  BY <1>11 DEF DeniedOf
<1>13. d.cited = cited \cup UNION {s.cited : s \in {t \in DeniedOf(i) : t.about = n}}
  <2>1. Words(all, "NETWORK_DENIED", n) = {s0} \cup {t \in DeniedOf(w) : t.about = n}
    BY <1>5 DEF Words, DeniedOf
  <2>2. d.cited = UNION {t.cited : t \in Words(all, "NETWORK_DENIED", n)}
    <3>1. d.cited = UNION {t.cited : t \in Words(all, d.step, d.about)}
      BY <1>10, <1>11
    <3> QED BY <1>11, <3>1
  <2> DEFINE V == {u \in DeniedOf(w) : u.about = n}
  <2> HIDE DEF V, all
  <2>3. d.cited = s0.cited \cup UNION {t.cited : t \in V}
    <3>1. Words(all, "NETWORK_DENIED", n) = {s0} \cup V
      BY <2>1 DEF V
    <3>2. UNION {t.cited : t \in {s0} \cup V} = s0.cited \cup UNION {t.cited : t \in V}
      OBVIOUS
    <3> QED BY <2>2, <3>1, <3>2
  <2> USE DEF V
  <2> QED BY <1>5, <1>7, <2>3
<1>14. ASSUME NEW s \in w.timeline, NEW u \in j.timeline, s.step = "NETWORK_DENIED", s.about # n, u.step = s.step, u.about = s.about
       PROVE  u = s
  <2>1. Words(all, u.step, u.about) = {s}
    BY <1>5, <1>10, <1>14 DEF Words, Distinct
  <2>2. u.cited = UNION {t.cited : t \in {s}}
    BY <1>10, <2>1
  <2>3. u.cited = s.cited
    BY <2>2
  <2> QED BY <1>10, <1>14, <2>3 DEF IsStatement
<1>15. ASSUME NEW u \in DeniedOf(j) PROVE u = d \/ (u \in DeniedOf(i) /\ u.about # n)
  <2>1. u \in j.timeline /\ u.step = "NETWORK_DENIED"
    BY DEF DeniedOf
  <2>2. CASE u.about = n
    BY <1>10, <1>11, <2>1, <2>2 DEF Distinct
  <2>3. CASE u.about # n
    <3>1. PICK s \in all : u.step = s.step /\ u.about = s.about
      BY <1>10, <2>1
    <3>2. s \in w.timeline
      BY <1>5, <2>3, <3>1
    <3>3. u = s
      BY <1>14, <2>1, <2>3, <3>1, <3>2
    <3>4. u \in DeniedOf(w)
      BY <2>1, <3>2, <3>3 DEF DeniedOf
    <3> QED BY <1>7, <2>3, <3>4
  <2> QED BY <2>2, <2>3
<1>16. ASSUME NEW s \in DeniedOf(i), s.about # n PROVE s \in DeniedOf(j)
  <2>1. s \in w.timeline /\ s.step = "NETWORK_DENIED"
    BY <1>7 DEF DeniedOf
  <2>2. PICK u \in j.timeline : u.step = s.step /\ u.about = s.about
    BY <1>10, <2>1
  <2>3. u = s
    BY <1>14, <1>16, <2>1, <2>2
  <2> QED BY <2>1, <2>2, <2>3 DEF DeniedOf
<1>17. i.evidence \cup cited \subseteq j.evidence
  <2>1. UNION {s.cited : s \in {s0}} = cited
    BY <1>5
  <2> QED BY <1>4, <1>6, <2>1 DEF Added
<1>18. Denies(i, e, n, cited, j)
  <2>1. /\ IncidentRecord(j)
        /\ j.type = i.type /\ j.severity = i.severity /\ j.backing = i.backing /\ j.recorded = i.recorded
        /\ j.activated = i.activated /\ j.action = i.action
    BY <1>4, <1>6 DEF Added
  <2> QED BY <1>8, <1>9, <1>11, <1>12, <1>13, <1>15, <1>16, <1>17, <2>1 DEF Denies, A
<1> QED BY <1>18 DEF j, s0, w, st, A, AddStatement, WithApprovals

-----------------------------------------------------------------------------
(* The replay, from one event to the next. *)

\* Somebody reads a trail, and has read a part of it.
Reading == stage = "reading" /\ StoredInvariant /\ ReplayInvariant

LEMMA ReadingFacts ==
    ASSUME Reading
    PROVE  /\ TrailSound(Events) /\ Dated(Events) /\ NamedOnce(Events)
           /\ ordered \in Seq(Events) /\ ordered \in Seq(Range(ordered))
           /\ Len(ordered) \in Nat /\ DOMAIN ordered = 1 .. Len(ordered)
           /\ \A i, j \in DOMAIN ordered : BeforeOrEqual(ordered[i], ordered[j]) <=> i <= j
           /\ \A e \in Events : IsEvent(e) /\ e.id \in Ids
           /\ graph = Build(ordered) /\ next \in 1 .. Len(ordered) + 1 /\ Context
<1> DEFINE S == Range(stored)
<1>1. TrailSound(S) /\ ordered = Ordered(S) /\ graph = Build(ordered) /\ next \in 1 .. Len(ordered) + 1
  BY DEF Reading, StoredInvariant, ReplayInvariant
<1>2. Dated(S)
  BY <1>1 DEF TrailSound, IsEvent, Dated
<1> HIDE DEF S
<1>3. /\ ordered \in Seq(S) /\ Range(ordered) = S
      /\ \A i, j \in DOMAIN ordered : BeforeOrEqual(ordered[i], ordered[j]) <=> i <= j
  BY <1>1, <1>2, OrderedFacts
<1>4. Events = S
  BY <1>3 DEF Events
<1>5. Dated(Events) /\ TrailSound(Events)
  BY <1>1, <1>2, <1>4
<1>6. NamedOnce(Events) /\ \A e \in Events : IsEvent(e) /\ e.id \in Ids
  BY <1>5 DEF TrailSound, NamedOnce, Ids
<1>7. ordered \in Seq(Events) /\ Len(ordered) \in Nat /\ DOMAIN ordered = 1 .. Len(ordered)
  BY <1>3, <1>4
<1>8. Context
  BY DEF Reading, ReplayInvariant, Context
<1> QED BY <1>1, <1>3, <1>4, <1>5, <1>6, <1>7, <1>8

LEMMA UpTo ==
    \A a, b \in Nat : 1 <= a /\ a < b =>
        /\ 1 .. a - 1 \subseteq 1 .. b - 1 /\ a \in 1 .. b - 1
        /\ b - 1 = a \/ b - 1 \in a + 1 .. b - 1
        /\ \A i \in 1 .. b - 1 : i \in 1 .. a - 1 \/ i = a \/ i \in a + 1 .. b - 1
OBVIOUS

\* ordered[next] comes after what is past and before what is not.
LEMMA TakenFacts ==
    ASSUME Reading, NEW types, Taking(types), UNCHANGED contextVars
    PROVE  /\ ordered[next] \in Events /\ IsEvent(ordered[next]) /\ ordered[next].type \in types
           /\ ordered[next] \notin Past /\ Past \subseteq Events /\ Events' = Events /\ Ids' = Ids
           /\ next' \in 1 .. Len(ordered) + 1 /\ (next' \in DOMAIN ordered => ordered[next'].type \in Consumed)
           /\ next' > next /\ (ordered[next' - 1].type \in Consumed => next' - 1 = next)
           /\ \A p \in Past : BeforeOrEqual(p, ordered[next])
           /\ \A f \in Events : BeforeOrEqual(f, ordered[next]) => f \in Past \/ f = ordered[next]
           /\ \A type \in Consumed : Of(Past', type) = Of(Past, type) \cup {f \in {ordered[next]} : f.type = type}
           /\ Past \subseteq Past' /\ ordered[next] \in Past'
<1>1. /\ ordered' = ordered /\ next \in DOMAIN ordered /\ ordered[next].type \in types
      /\ next' = NextOf(ordered, next + 1)
  BY DEF contextVars, Taking
<1>2. /\ ordered \in Seq(Range(ordered)) /\ Len(ordered) \in Nat /\ DOMAIN ordered = 1 .. Len(ordered)
      /\ \A i, j \in DOMAIN ordered : BeforeOrEqual(ordered[i], ordered[j]) <=> i <= j
      /\ \A e \in Events : IsEvent(e)
      /\ next \in 1 .. Len(ordered) + 1
  BY ReadingFacts
<1>3. next \in 1 .. Len(ordered) /\ next \in Nat
  BY <1>1, <1>2
<1>4. next + 1 \in 1 .. Len(ordered) + 1
  BY <1>2, <1>3
<1>5. /\ next' \in next + 1 .. Len(ordered) + 1 /\ (next' \in DOMAIN ordered => ordered[next'].type \in Consumed)
      /\ \A k \in next + 1 .. next' - 1 : ordered[k].type \notin Consumed
  BY <1>1, <1>2, <1>4, NextOfFacts
<1>6. next' \in Nat /\ next' > next /\ next' \in 1 .. Len(ordered) + 1
  BY <1>2, <1>3, <1>5
<1>16. next \in Nat /\ next' \in Nat /\ next' > next /\ next >= 1
  BY <1>2, <1>3, <1>6
<1>17. /\ 1 .. next - 1 \subseteq 1 .. next' - 1 /\ next \in 1 .. next' - 1
       /\ next' - 1 = next \/ next' - 1 \in next + 1 .. next' - 1
       /\ \A i \in 1 .. next' - 1 : i \in 1 .. next - 1 \/ i = next \/ i \in next + 1 .. next' - 1
  BY <1>16, UpTo
<1>7. \A i \in DOMAIN ordered : ordered[i] \in Events
  BY <1>2 DEF Events, Range
<1>8. Past \subseteq Events /\ \A p \in Past : BeforeOrEqual(p, ordered[next])
  BY <1>2, <1>3, <1>7 DEF Past
<1>9. ordered[next] \notin Past
  <2>1. SUFFICES ASSUME NEW i \in 1 .. next - 1, ordered[i] = ordered[next] PROVE FALSE
    BY DEF Past
  <2>2. i \in DOMAIN ordered /\ ~(next <= i)
    BY <1>2, <1>3
  <2>3. BeforeOrEqual(ordered[next], ordered[next])
    BY <1>1, <1>2, <1>3
  <2> QED BY <1>1, <1>2, <2>1, <2>2, <2>3
<1>10. ASSUME NEW f \in Events, BeforeOrEqual(f, ordered[next]) PROVE f \in Past \/ f = ordered[next]
  <2>1. PICK i \in DOMAIN ordered : f = ordered[i]
    BY DEF Events, Range
  <2>2. i <= next
    BY <1>1, <1>2, <1>10, <2>1
  <2>3. i \in 1 .. next - 1 \/ i = next
    BY <1>2, <1>3, <2>2
  <2> QED BY <2>1, <2>3 DEF Past
<1>11. Past' = {ordered[i] : i \in 1 .. next' - 1}
  BY <1>1 DEF Past
<1>12. ASSUME NEW type \in Consumed
       PROVE  Of(Past', type) = Of(Past, type) \cup {f \in {ordered[next]} : f.type = type}
  <2>1. ASSUME NEW f \in Of(Past', type) PROVE f \in Of(Past, type) \cup {g \in {ordered[next]} : g.type = type}
    <3>1. PICK i \in 1 .. next' - 1 : f = ordered[i] /\ f.type = type
      BY <1>11 DEF Of
    <3>2. i \in 1 .. next - 1 \/ i = next \/ i \in next + 1 .. next' - 1
      BY <1>17
    <3>3. i \notin next + 1 .. next' - 1
      BY <1>5, <3>1
    <3> QED BY <3>1, <3>2, <3>3 DEF Of, Past
  <2>2. 1 .. next - 1 \subseteq 1 .. next' - 1 /\ next \in 1 .. next' - 1
    BY <1>17
  <2>3. Past \subseteq Past' /\ ordered[next] \in Past'
    BY <1>11, <2>2 DEF Past
  <2> QED BY <2>1, <2>3 DEF Of
<1>13. Past \subseteq Past' /\ ordered[next] \in Past'
  <2>1. 1 .. next - 1 \subseteq 1 .. next' - 1 /\ next \in 1 .. next' - 1
    BY <1>17
  <2> QED BY <1>11, <2>1 DEF Past
<1>14. ordered[next' - 1].type \in Consumed => next' - 1 = next
  <2>1. next' - 1 = next \/ next' - 1 \in next + 1 .. next' - 1
    BY <1>17
  <2> QED BY <1>5, <2>1
<1>15. Events' = Events /\ Ids' = Ids
  BY <1>1 DEF Events, Ids
<1> QED BY <1>1, <1>2, <1>5, <1>6, <1>7, <1>8, <1>9, <1>10, <1>12, <1>13, <1>14, <1>15

(* Activations. *)

\* The first activation is the action of an incident, and dates it.
Activates(i, e, j) ==
    /\ IncidentSound(j) /\ j.action = i.action \cup {e.id} /\ j.activated = e.ts
    /\ i.evidence \subseteq j.evidence /\ Told(j) = Told(i) /\ (HasLater(j) <=> HasLater(i))

LEMMA ActivateSound ==
    ASSUME NEW i, NEW e, Applicable(i, e)
    PROVE  Activates(i, e, [Applied(i, e) EXCEPT !.activated = e.ts])
<1> DEFINE j == Applied(i, e)
           k == [j EXCEPT !.activated = e.ts]
<1>1. AppliedTo(i, e.id, j)
  BY ApplySound
<1> HIDE DEF j
<1>2. IncidentRecord(j) /\ IncidentBacked(j) /\ IncidentRated(j)
  BY <1>1 DEF AppliedTo, IncidentSound
<1>3. k = [type |-> j.type, severity |-> j.severity, backing |-> j.backing, recorded |-> j.recorded,
           activated |-> e.ts, action |-> j.action, timeline |-> j.timeline, evidence |-> j.evidence]
  BY <1>2 DEF IncidentRecord
<1>4. /\ k = [type |-> k.type, severity |-> k.severity, backing |-> k.backing, recorded |-> k.recorded,
              activated |-> k.activated, action |-> k.action, timeline |-> k.timeline, evidence |-> k.evidence]
      /\ k.type = j.type /\ k.severity = j.severity /\ k.backing = j.backing /\ k.action = j.action
      /\ k.timeline = j.timeline /\ k.evidence = j.evidence /\ k.activated = e.ts
  BY <1>3
<1> HIDE DEF k
<1>5. IncidentSound(k) /\ Told(k) = Told(j) /\ (HasLater(k) <=> HasLater(j))
  BY <1>2, <1>4 DEF IncidentSound, IncidentRecord, IncidentBacked, IncidentRated, Told, HasLater
<1>6. Activates(i, e, k)
  BY <1>1, <1>4, <1>5 DEF Activates, AppliedTo
<1> QED BY <1>6 DEF k, j

\* One incident in the place of key, all others as they were.
Placed(all, key, i, new) ==
    /\ DOMAIN new = DOMAIN all \cup {key} /\ new[key] = i
    /\ \A k \in DOMAIN all : k # key => new[k] = all[k]

LEMMA PutSound ==
    ASSUME NEW all, NEW key, NEW i, NEW new, Placed(all, key, i, new), IncidentsSound(all), IncidentSound(i),
           key # OfPrompts => ~HasLater(i), key[1] \in {"DECOY", "prompts", "containment", "denial"}
    PROVE  IncidentsSound(new)
BY DEF Placed, IncidentsSound, IncidentSound, HasLater

\* The incident that the first activation belongs to.
OwnerOf(e) == IF latest = NoIncident THEN OfContainment(e) ELSE latest

LEMMA FirstSound ==
    ASSUME Reading, ConsumeContainmentFirst
    PROVE  LET e == ordered[next]
           IN /\ IncidentsSound(incidents') /\ contained' = OwnerOf(e)
              /\ Placed(incidents, OwnerOf(e), incidents'[OwnerOf(e)], incidents')
              /\ IF latest = NoIncident
                 THEN incidents'[OwnerOf(e)].action = {e.id} /\ Told(incidents'[OwnerOf(e)]) = {}
                 ELSE /\ latest \in DOMAIN incidents /\ incidents'[latest].action = incidents[latest].action \cup {e.id}
                      /\ incidents[latest].evidence \subseteq incidents'[latest].evidence
                      /\ Told(incidents'[latest]) = Told(incidents[latest])
              /\ incidents'[OwnerOf(e)].activated = e.ts
<1> DEFINE e == ordered[next]
           i == IF latest = NoIncident THEN Incident("CONTAINMENT_ACTIVATED", "MEDIUM", {e.id}) ELSE incidents[latest]
           j == [Applied(i, e) EXCEPT !.activated = e.ts]
           key == OwnerOf(e)
<1>1. incidents' = Updated(incidents, key, j) /\ contained' = key
  BY DEF ConsumeContainmentFirst, With, OwnerOf
<1>2. e.id \in Ids /\ IncidentsSound(incidents)
  <2>1. e \in Events
    BY TakenFacts DEF ConsumeContainmentFirst
  <2> QED BY <2>1, ReadingFacts DEF Reading, ReplayInvariant
<1>3. latest # NoIncident => latest \in DOMAIN incidents /\ latest[1] = "DECOY" /\ latest # OfPrompts
  <2>1. latest \in {NoIncident} \cup DOMAIN incidents /\ latest[1] \in {"none", "DECOY"}
    BY DEF Reading, ReplayInvariant
  <2>2. latest # NoIncident => latest[1] # "none"
    BY <1>2, <2>1 DEF IncidentsSound
  <2> QED BY <2>1, <2>2 DEF OfPrompts
<1>4. Applicable(i, e) /\ ~HasLater(i) /\ (latest = NoIncident => i.action = {} /\ Told(i) = {})
  <2>1. CASE latest = NoIncident
    <3>1. Openable("MEDIUM", {e.id})
      BY <1>2, RankFacts DEF Openable
    <3>2. Opened("CONTAINMENT_ACTIVATED", "MEDIUM", {e.id}, i)
      BY <2>1, <3>1, OpenSound
    <3> HIDE DEF i
    <3>3. IncidentRated(i)
      BY <3>2 DEF Opened, IncidentRated, HasLater
    <3> QED BY <1>2, <3>2, <3>3 DEF Opened, Applicable
  <2>2. CASE latest # NoIncident
    <3>1. i = incidents[latest]
      BY <2>2
    <3>2. IncidentRecord(i) /\ IncidentBacked(i) /\ IncidentRated(i) /\ ~HasLater(i)
      BY <1>2, <1>3, <2>2, <3>1 DEF IncidentsSound, HasLater
    <3> QED BY <1>2, <2>2, <3>2 DEF Applicable, IncidentBacked
  <2> QED BY <2>1, <2>2
<1>5. Activates(i, e, j)
  <2> HIDE DEF i, e
  <2> QED BY <1>4, ActivateSound
<1>6. /\ IncidentSound(j) /\ j.action = i.action \cup {e.id} /\ j.activated = e.ts
      /\ i.evidence \subseteq j.evidence /\ Told(j) = Told(i) /\ ~HasLater(j)
  BY <1>4, <1>5 DEF Activates
<1>7. Placed(incidents, key, j, incidents')
  <2> HIDE DEF j, key
  <2> QED BY <1>1 DEF Placed, Updated
<1>8. key[1] \in {"DECOY", "containment"}
  BY <1>3 DEF OwnerOf, OfContainment
<1>9. IncidentsSound(incidents')
  <2> HIDE DEF j, key
  <2> QED BY <1>2, <1>6, <1>7, <1>8, PutSound DEF OfPrompts
<1>10. incidents'[key] = j
  BY <1>7 DEF Placed
<1>11. (latest = NoIncident => i.action = {} /\ Told(i) = {}) /\ (latest # NoIncident => key = latest /\ i = incidents[latest])
  BY <1>4 DEF OwnerOf
<1> HIDE DEF i, j, key
<1>12. /\ Placed(incidents, key, incidents'[key], incidents')
       /\ IF latest = NoIncident THEN incidents'[key].action = {e.id} /\ Told(incidents'[key]) = {}
          ELSE /\ latest \in DOMAIN incidents /\ incidents'[latest].action = incidents[latest].action \cup {e.id}
               /\ incidents[latest].evidence \subseteq incidents'[latest].evidence
               /\ Told(incidents'[latest]) = Told(incidents[latest])
       /\ incidents'[key].activated = e.ts
  BY <1>3, <1>6, <1>7, <1>10, <1>11
<1> QED BY <1>1, <1>9, <1>12 DEF key

LEMMA OwnerFacts ==
    ASSUME Reading, contained # NoIncident
    PROVE  contained \in DOMAIN incidents /\ contained[1] \in {"DECOY", "containment"} /\ contained # OfPrompts
<1>1. contained \in DOMAIN incidents /\ contained[1] \in {"none", "DECOY", "containment"} /\ IncidentsSound(incidents)
  BY DEF Reading, ReplayInvariant
<1>2. contained[1] # "none"
  BY <1>1 DEF IncidentsSound
<1> QED BY <1>1, <1>2 DEF OfPrompts

LEMMA AgainSound ==
    ASSUME Reading, ConsumeContainmentAgain
    PROVE  LET e == ordered[next]
           IN /\ IncidentsSound(incidents') /\ contained \in DOMAIN incidents
              /\ Placed(incidents, contained, incidents'[contained], incidents')
              /\ AppliedTo(incidents[contained], e.id, incidents'[contained])
<1> DEFINE e == ordered[next]
           i == incidents[contained]
           j == Applied(i, e)
<1>1. incidents' = [incidents EXCEPT ![contained] = j] /\ contained # NoIncident
  BY DEF ConsumeContainmentAgain
<1>2. e.id \in Ids /\ IncidentsSound(incidents)
  <2>1. e \in Events
    BY TakenFacts DEF ConsumeContainmentAgain
  <2> QED BY <2>1, ReadingFacts DEF Reading, ReplayInvariant
<1>3. contained \in DOMAIN incidents /\ contained[1] \in {"DECOY", "containment"} /\ contained # OfPrompts
  BY <1>1, OwnerFacts
<1>4. IncidentRecord(i) /\ IncidentBacked(i) /\ IncidentRated(i) /\ ~HasLater(i)
  BY <1>2, <1>3 DEF IncidentsSound, HasLater
<1> HIDE DEF i, e
<1>5. AppliedTo(i, e.id, j)
  BY <1>2, <1>4, ApplySound DEF Applicable, IncidentBacked
<1>6. IncidentSound(j) /\ ~HasLater(j)
  BY <1>4, <1>5 DEF AppliedTo
<1> HIDE DEF j
<1>7. Placed(incidents, contained, j, incidents')
  BY <1>1, <1>3 DEF Placed
<1>8. IncidentsSound(incidents')
  BY <1>2, <1>3, <1>6, <1>7, PutSound
<1>9. incidents'[contained] = j
  BY <1>7 DEF Placed
<1> QED BY <1>3, <1>5, <1>7, <1>8, <1>9 DEF i, e

(* Denials. *)

\* What a denial of e, to n, makes of an incident.
Tells(i, e, n, cited, j) ==
    /\ j.action = i.action /\ j.activated = i.activated /\ i.evidence \cup cited \subseteq j.evidence
    /\ Distinct(j.timeline) /\ \A s \in j.timeline : IsStatement(s)
    /\ \E d \in DeniedOf(j) :
        /\ d.about = n /\ d.cited = cited \cup UNION {s.cited : s \in {t \in DeniedOf(i) : t.about = n}}
        /\ \A s \in DeniedOf(j) : s = d \/ (s \in DeniedOf(i) /\ s.about # n)
    /\ \A s \in DeniedOf(i) : s.about # n => s \in DeniedOf(j)
    /\ ToldOfApprovals(j) = ToldOfApprovals(i) \cup {a.id : a \in {b \in ApprovalsFor(e) : SaidOf(b)}}

\* A denial that joins an incident makes it one with network activity, which is at least HIGH.
JoinedOf(i, cited) ==
    IF i.type = "DECOY_ACCESS"
    THEN Raise([i EXCEPT !.type = "DECOY_ACCESS_WITH_NETWORK_ACTIVITY"], "HIGH", cited)
    ELSE i

Joins(i, cited, j) ==
    /\ IncidentSound(j) /\ j.action = i.action /\ j.activated = i.activated /\ j.evidence = i.evidence
    /\ j.timeline = i.timeline

Joinable(i, cited) ==
    /\ IncidentRecord(i) /\ IncidentBacked(i) /\ IncidentRated(i)
    /\ cited # {} /\ cited \subseteq Ids /\ cited \subseteq i.evidence

LEMMA JoinSound ==
    ASSUME NEW i, NEW cited, Joinable(i, cited)
    PROVE  Joins(i, cited, JoinedOf(i, cited))
<1>1. CASE i.type # "DECOY_ACCESS"
  BY <1>1 DEF JoinedOf, Joinable, Joins, IncidentSound
<1>2. CASE i.type = "DECOY_ACCESS"
  <2> DEFINE k == [i EXCEPT !.type = "DECOY_ACCESS_WITH_NETWORK_ACTIVITY"]
             j == Raise(k, "HIGH", cited)
  <2>1. k = [type |-> "DECOY_ACCESS_WITH_NETWORK_ACTIVITY", severity |-> i.severity, backing |-> i.backing,
             recorded |-> i.recorded, activated |-> i.activated, action |-> i.action, timeline |-> i.timeline,
             evidence |-> i.evidence]
    BY DEF Joinable, IncidentRecord
  <2>2. /\ k = [type |-> k.type, severity |-> k.severity, backing |-> k.backing, recorded |-> k.recorded,
                activated |-> k.activated, action |-> k.action, timeline |-> k.timeline, evidence |-> k.evidence]
        /\ k.severity = i.severity /\ k.backing = i.backing /\ k.action = i.action /\ k.activated = i.activated
        /\ k.timeline = i.timeline /\ k.evidence = i.evidence
    BY <2>1
  <2> HIDE DEF k
  <2>3. IncidentRecord(k)
    BY <2>2 DEF Joinable, IncidentRecord
  <2>4. RaisedTo(k, "HIGH", cited, j)
    <3>1. Raisable(k, "HIGH", cited)
      BY <2>3, RankFacts DEF Raisable, Joinable
    <3> QED BY <3>1, RaiseSound
  <2> HIDE DEF j
  <2>5. IncidentBacked(j)
    BY <2>2, <2>4 DEF RaisedTo, Grows, IncidentBacked, Joinable
  <2>6. IncidentRated(j)
    <3>1. Rank(j.severity) \in 1 .. 4 /\ 3 <= Rank(j.severity)
      BY <2>4, RankFacts DEF RaisedTo, IncidentRecord
    <3> QED BY <3>1 DEF IncidentRated
  <2>7. Joins(i, cited, j)
    BY <2>2, <2>4, <2>5, <2>6 DEF Joins, RaisedTo, Grows, IncidentSound
  <2> QED BY <1>2, <2>7 DEF j, k, JoinedOf
<1> QED BY <1>1, <1>2

\* A denial of an incident with what was ever told of it.
Retold(i, e, n, cited, j, k) ==
    /\ Denies(i, e, n, cited, j)
    /\ k.timeline = j.timeline /\ k.evidence = j.evidence /\ k.action = j.action /\ k.activated = j.activated

LEMMA DenyTells ==
    ASSUME NEW i, NEW e, NEW n, NEW cited, NEW j, NEW k, Retold(i, e, n, cited, j, k)
    PROVE  Tells(i, e, n, cited, k)
<1>1. DeniedOf(k) = DeniedOf(j) /\ ToldOfApprovals(k) = ToldOfApprovals(j)
  BY DEF DeniedOf, ToldOfApprovals, Retold
<1> QED BY <1>1 DEF Retold, Denies, Tells, IncidentRecord

\* The event that is being read is a denial.
LEMMA DenyFacts ==
    ASSUME Reading, Taking({"NETWORK_DENY"}), UNCHANGED contextVars
    PROVE  LET e == ordered[next]
           IN /\ e \in Events /\ e.type = "NETWORK_DENY" /\ e.id \in Ids
              /\ NodesFor(graph, e.id, "NETWORK_DESTINATION") = {Network(e.resource)}
              /\ \A n : PairedWith(n, e) \subseteq Ids
              /\ EnrichedAs(incidents, Prompted(incidents, e, Network(e.resource)))
              /\ \A a \in approvals : a \in Events /\ a.type \in ApprovalTypes
<1> DEFINE e == ordered[next]
<1>1. e \in Events /\ e.type = "NETWORK_DENY"
  BY TakenFacts
<1>2. e.id \in Ids /\ NamedOnce(Range(ordered)) /\ graph = Build(ordered) /\ Context /\ e \in Range(ordered)
  BY <1>1, ReadingFacts DEF Events
<1>3. NodesFor(graph, e.id, "NETWORK_DESTINATION") = {Network(e.resource)}
  BY <1>1, <1>2, NodesForFacts
<1>4. \A n \in DOMAIN pending : pending[n].id \in Ids
  BY ReadingFacts DEF Reading, ReplayInvariant
<1>5. \A n : PairedWith(n, e) \subseteq Ids
  BY <1>4 DEF PairedWith
<1>6. EnrichedAs(incidents, Prompted(incidents, e, Network(e.resource)))
  BY <1>1, <1>2, PromptSound DEF Reading, ReplayInvariant
<1>7. \A a \in approvals : a \in Events /\ a.type \in ApprovalTypes
  BY DEF Reading, ReplayInvariant
<1> QED BY <1>1, <1>2, <1>3, <1>5, <1>6, <1>7

LEMMA DenyJoined ==
    ASSUME Reading, ConsumeDenyContained
    PROVE  LET e == ordered[next]
               n == Network(e.resource)
           IN /\ IncidentsSound(incidents') /\ DOMAIN incidents' = DOMAIN incidents /\ contained \in DOMAIN incidents
              /\ \A k \in DOMAIN incidents : k # contained => Grows(incidents[k], incidents'[k])
              /\ Tells(incidents[contained], e, n, incidents[contained].action \cup PairedWith(n, e) \cup {e.id},
                       incidents'[contained])
              /\ pending' = Unpaired(n, e)
<1> DEFINE e == ordered[next]
           n == Network(e.resource)
           all == Prompted(incidents, e, n)
           i == all[contained]
           cited == i.action \cup PairedWith(n, e) \cup {e.id}
           joined == AddStatement(WithApprovals(i, e), Statement("NETWORK_DENIED", n, cited))
           j == JoinedOf(joined, cited)
<1>0. Taking({"NETWORK_DENY"}) /\ UNCHANGED contextVars
  BY DEF ConsumeDenyContained
<1>1. /\ e \in Events /\ e.type = "NETWORK_DENY" /\ e.id \in Ids
      /\ NodesFor(graph, e.id, "NETWORK_DESTINATION") = {n} /\ PairedWith(n, e) \subseteq Ids
      /\ EnrichedAs(incidents, all) /\ \A a \in approvals : a \in Events /\ a.type \in ApprovalTypes
  BY <1>0, DenyFacts
<1>2. contained \in DOMAIN incidents /\ contained[1] \in {"DECOY", "containment"} /\ contained # OfPrompts
  <2>1. contained # NoIncident
    BY DEF ConsumeDenyContained, AfterContainment
  <2> QED BY <2>1, OwnerFacts
<1>3. incidents' = [all EXCEPT ![contained] = j] /\ pending' = Unpaired(n, e)
  BY <1>1 DEF ConsumeDenyContained, JoinedOf
<1> HIDE DEF all, n, e
<1>4. /\ IncidentsSound(all) /\ DOMAIN all = DOMAIN incidents /\ i = incidents[contained]
      /\ \A k \in DOMAIN incidents : k # contained => Grows(incidents[k], all[k])
  BY <1>1, <1>2 DEF EnrichedAs
<1>5. IncidentRecord(i) /\ IncidentBacked(i) /\ IncidentRated(i) /\ ~HasLater(i)
  BY <1>2, <1>4 DEF IncidentsSound, HasLater
<1> HIDE DEF i
<1>6. cited \subseteq Ids /\ cited # {}
  BY <1>1, <1>5 DEF IncidentRecord
<1> HIDE DEF cited
<1>7. Denies(i, e, n, cited, joined)
  <2>1. Deniable(i, n, cited)
    BY <1>1, <1>5, <1>6 DEF Deniable
  <2> QED BY <2>1, DenySound
<1> HIDE DEF joined
<1>8. /\ IncidentRecord(joined) /\ joined.type = i.type /\ joined.severity = i.severity /\ joined.backing = i.backing
      /\ joined.action = i.action /\ i.evidence \cup cited \subseteq joined.evidence /\ ~HasLater(joined)
  BY <1>5, <1>7 DEF Denies
<1>9. Joinable(joined, cited)
  BY <1>5, <1>6, <1>8 DEF Joinable, IncidentBacked, IncidentRated, HasLater
<1>10. Joins(joined, cited, j)
  BY <1>9, JoinSound
<1> HIDE DEF j
<1>11. Tells(i, e, n, cited, j)
  <2>1. Retold(i, e, n, cited, joined, j)
    BY <1>7, <1>10 DEF Joins, Retold
  <2> QED BY <2>1, DenyTells
<1>12. IncidentSound(j) /\ ~HasLater(j)
  BY <1>8, <1>10 DEF Joins, HasLater
<1>13. Placed(all, contained, j, incidents')
  BY <1>2, <1>3, <1>4 DEF Placed
<1>14. IncidentsSound(incidents')
  BY <1>2, <1>4, <1>12, <1>13, PutSound
<1>15. /\ DOMAIN incidents' = DOMAIN incidents /\ incidents'[contained] = j
       /\ \A k \in DOMAIN incidents : k # contained => Grows(incidents[k], incidents'[k])
  BY <1>2, <1>4, <1>13 DEF Placed
<1>16. Tells(incidents[contained], e, n, incidents[contained].action \cup PairedWith(n, e) \cup {e.id}, incidents'[contained])
  BY <1>4, <1>11, <1>15 DEF cited
<1> QED BY <1>2, <1>3, <1>14, <1>15, <1>16 DEF n, e

LEMMA DenyAlone ==
    ASSUME Reading, ConsumeDeny
    PROVE  LET e == ordered[next]
               n == Network(e.resource)
               fresh == Incident("NETWORK_POLICY_VIOLATION", "MEDIUM", {e.id})
           IN /\ IncidentsSound(incidents') /\ DOMAIN incidents' = DOMAIN incidents \cup {OfDenial(e)}
              /\ \A k \in DOMAIN incidents : k # OfDenial(e) => Grows(incidents[k], incidents'[k])
              /\ fresh.action = {} /\ fresh.timeline = {}
              /\ Tells(fresh, e, n, PairedWith(n, e) \cup {e.id}, incidents'[OfDenial(e)])
              /\ pending' = Unpaired(n, e)
<1> DEFINE e == ordered[next]
           n == Network(e.resource)
           all == Prompted(incidents, e, n)
           i == Incident("NETWORK_POLICY_VIOLATION", "MEDIUM", {e.id})
           cited == PairedWith(n, e) \cup {e.id}
           j == AddStatement(WithApprovals(i, e), Statement("NETWORK_DENIED", n, cited))
           key == OfDenial(e)
<1>0. Taking({"NETWORK_DENY"}) /\ UNCHANGED contextVars
  BY DEF ConsumeDeny
<1>1. /\ e \in Events /\ e.type = "NETWORK_DENY" /\ e.id \in Ids
      /\ NodesFor(graph, e.id, "NETWORK_DESTINATION") = {n} /\ PairedWith(n, e) \subseteq Ids
      /\ EnrichedAs(incidents, all) /\ \A a \in approvals : a \in Events /\ a.type \in ApprovalTypes
  BY <1>0, DenyFacts
<1>2. incidents' = Updated(all, key, j) /\ pending' = Unpaired(n, e)
  BY <1>1 DEF ConsumeDeny
<1> HIDE DEF all, n, e
<1>3. /\ IncidentsSound(all) /\ DOMAIN all = DOMAIN incidents
      /\ \A k \in DOMAIN incidents : Grows(incidents[k], all[k])
  BY <1>1 DEF EnrichedAs
<1>4. Opened("NETWORK_POLICY_VIOLATION", "MEDIUM", {e.id}, i)
  <2>1. Openable("MEDIUM", {e.id})
    BY <1>1, RankFacts DEF Openable
  <2> QED BY <2>1, OpenSound
<1> HIDE DEF i
<1>5. cited \subseteq Ids /\ e.id \in cited
  BY <1>1
<1> HIDE DEF cited
<1>6. Denies(i, e, n, cited, j)
  <2>1. Deniable(i, n, cited)
    BY <1>1, <1>4, <1>5 DEF Deniable, Opened
  <2> QED BY <2>1, DenySound
<1> HIDE DEF j
<1>7. IncidentSound(j) /\ ~HasLater(j)
  <2>1. /\ IncidentRecord(j) /\ j.type = i.type /\ j.severity = i.severity /\ j.backing = i.backing
        /\ j.action = i.action /\ i.evidence \cup cited \subseteq j.evidence /\ ~HasLater(j)
    BY <1>4, <1>6 DEF Denies, Opened
  <2>2. j.type = "NETWORK_POLICY_VIOLATION" /\ j.backing = {e.id} /\ j.action = {}
    BY <1>4, <2>1 DEF Opened
  <2> QED BY <1>5, <2>1, <2>2 DEF IncidentSound, IncidentBacked, IncidentRated, HasLater
<1>8. Tells(i, e, n, cited, j)
  <2>1. Retold(i, e, n, cited, j, j)
    BY <1>6 DEF Retold
  <2> QED BY <2>1, DenyTells
<1>9. key # OfPrompts /\ key[1] = "denial"
  BY DEF OfDenial, OfPrompts
<1> HIDE DEF key
<1>10. Placed(all, key, j, incidents')
  BY <1>2 DEF Placed, Updated
<1>11. IncidentsSound(incidents')
  BY <1>3, <1>7, <1>9, <1>10, PutSound
<1>12. /\ DOMAIN incidents' = DOMAIN incidents \cup {key} /\ incidents'[key] = j
       /\ \A k \in DOMAIN incidents : k # key => Grows(incidents[k], incidents'[k])
  BY <1>3, <1>10 DEF Placed
<1>13. i.action = {} /\ i.timeline = {}
  BY <1>4 DEF Opened
<1> QED BY <1>2, <1>8, <1>11, <1>12, <1>13 DEF n, e, i, cited, key

(* The replay keeps its state in order. *)

\* What is left of an event that tells of neither containment nor denials.
Quiet == contained' = contained /\ GrowAll(incidents, incidents')

QuietConsume ==
    \/ ConsumeStart \/ ConsumeUntrusted \/ ConsumeShadow \/ ConsumeDecoyAccessed \/ ConsumePrompt
    \/ ConsumeSensitive \/ ConsumeRecorded \/ ConsumeRequest \/ ConsumeApproval

LEMMA GrowsItself ==
    IncidentsSound(incidents) => GrowAll(incidents, incidents)
BY DEF GrowAll, Grows

LEMMA ReadyFacts ==
    ASSUME Reading, NEW types, Taking(types), UNCHANGED contextVars
    PROVE  Ready
BY ReadingFacts, TakenFacts DEF Ready, Reading, ReplayInvariant

\* What the taking of an event makes of the names of events.
Names ==
    /\ untrusted' \subseteq Ids /\ processStart' \in Ids \cup {0} /\ prompts' \in Seq(Ids)
    /\ \A n \in DOMAIN shadows' : shadows'[n] \in Events
    /\ \A n \in DOMAIN pending' : pending'[n] \in Events
    /\ \A a \in approvals' : a \in Events /\ a.type \in ApprovalTypes

LEMMA NamesStand ==
    ASSUME Reading, UNCHANGED <<untrusted, processStart, prompts, shadows, pending, approvals>>
    PROVE  Names
BY DEF Names, Reading, ReplayInvariant

Owners ==
    /\ latest' \in {NoIncident} \cup DOMAIN incidents' /\ contained' \in {NoIncident} \cup DOMAIN incidents'
    /\ latest'[1] \in {"none", "DECOY"} /\ contained'[1] \in {"none", "DECOY", "containment"}

LEMMA OwnersStand ==
    ASSUME Reading, UNCHANGED <<latest, contained>>, DOMAIN incidents \subseteq DOMAIN incidents'
    PROVE  Owners
BY DEF Owners, Reading, ReplayInvariant

LEMMA ReplayKept ==
    ASSUME Reading, NEW types, Taking(types), UNCHANGED contextVars, UNCHANGED <<stage, stored>>,
           Names, Owners, IncidentsSound(incidents')
    PROVE  ReplayInvariant'
<1>1. Events' = Events /\ Ids' = Ids
  BY TakenFacts
<1>2. IncidentsSound(incidents)'
  BY <1>1 DEF IncidentsSound, IncidentRecord, IncidentBacked, IncidentRated
<1>3. /\ ordered' = Ordered(Range(stored)) /\ graph' = Build(ordered') /\ stored' = stored /\ stage' = "reading"
      /\ ordered' = ordered
  BY DEF contextVars, Reading, ReplayInvariant
<1>4. next' \in 1 .. Len(ordered') + 1 /\ (next' \in DOMAIN ordered' => ordered'[next'].type \in Consumed)
  BY <1>3, TakenFacts
<1> QED BY <1>1, <1>2, <1>3, <1>4 DEF ReplayInvariant, Names, Owners

LEMMA QuietSound ==
    ASSUME Reading, QuietConsume
    PROVE  \E types : /\ Taking(types) /\ UNCHANGED contextVars /\ types \subseteq Consumed
                      /\ types \cap {"CONTAINMENT_ACTIVATED", "NETWORK_DENY"} = {}
                      /\ Quiet /\ Names /\ Owners /\ IncidentsSound(incidents')
<1>0. /\ IncidentsSound(incidents) /\ GrowAll(incidents, incidents) /\ Context
      /\ latest \in {NoIncident} \cup DOMAIN incidents
      /\ \A n \in DOMAIN shadows : shadows[n] \in Events
      /\ \A n \in DOMAIN pending : pending[n] \in Events
      /\ \A a \in approvals : a \in Events /\ a.type \in ApprovalTypes
  BY GrowsItself, ReadingFacts DEF Reading, ReplayInvariant
<1>1. CASE ConsumeStart \/ ConsumeUntrusted \/ ConsumeShadow \/ ConsumeRequest \/ ConsumeApproval
  <2>1. PICK types : /\ Taking(types) /\ UNCHANGED <<contextVars, incidents, latest, contained, prompts>>
                     /\ types \in {{"PROCESS_START"}, {"UNTRUSTED_CONTENT_OBSERVED"}, {"POLICY_SHADOW"},
                                   {"NETWORK_REQUEST"}, {"APPROVAL_REQUIRED"} \cup Outcomes}
    BY <1>1 DEF ConsumeStart, ConsumeUntrusted, ConsumeShadow, ConsumeRequest, ConsumeApproval
  <2>2. types \subseteq Consumed /\ types \cap {"CONTAINMENT_ACTIVATED", "NETWORK_DENY"} = {}
    BY <2>1 DEF Consumed, Outcomes
  <2>3. UNCHANGED contextVars /\ ordered[next] \in Events /\ ordered[next].id \in Ids
    <3>1. UNCHANGED contextVars
      BY <2>1
    <3> QED BY <2>1, <3>1, TakenFacts, ReadingFacts
  <2>4. Owners /\ Quiet /\ IncidentsSound(incidents')
    <3>1. incidents' = incidents /\ UNCHANGED <<latest, contained>>
      BY <2>1
    <3> QED BY <1>0, <3>1, OwnersStand DEF Quiet
  <2>5. Names
    <3>1. CASE ConsumeStart
      BY <1>0, <2>3, <3>1 DEF ConsumeStart, Names, Context
    <3>2. CASE ConsumeUntrusted
      BY <1>0, <2>3, <3>2 DEF ConsumeUntrusted, Names, Context
    <3>3. CASE ConsumeShadow
      <4>1. PICK n : shadows' = IF n \in DOMAIN shadows THEN shadows ELSE Updated(shadows, n, ordered[next])
        BY <3>3 DEF ConsumeShadow
      <4>2. \A m \in DOMAIN shadows' : shadows'[m] \in Events
        BY <1>0, <2>3, <4>1 DEF Updated
      <4> QED BY <1>0, <3>3, <4>2 DEF ConsumeShadow, Names, Context
    <3>4. CASE ConsumeRequest
      <4>1. PICK n : pending' = Updated(pending, n, ordered[next])
        BY <3>4 DEF ConsumeRequest
      <4>2. \A m \in DOMAIN pending' : pending'[m] \in Events
        BY <1>0, <2>3, <4>1 DEF Updated
      <4> QED BY <1>0, <3>4, <4>2 DEF ConsumeRequest, Names, Context
    <3>5. CASE ConsumeApproval
      <4>1. Taking(ApprovalTypes) /\ approvals' = approvals \cup {ordered[next]}
        BY <3>5 DEF ConsumeApproval, ApprovalTypes
      <4>2. ordered[next].type \in ApprovalTypes
        BY <4>1 DEF Taking
      <4> QED BY <1>0, <2>3, <3>5, <4>1, <4>2 DEF ConsumeApproval, Names, Context
    <3> QED BY <1>1, <3>1, <3>2, <3>3, <3>4, <3>5
  <2> QED BY <2>1, <2>2, <2>3, <2>4, <2>5
<1>2. CASE ConsumeDecoyAccessed
  <2>1. Taking({"DECOY_ACCESS"}) /\ UNCHANGED contextVars /\ contained' = contained
        /\ UNCHANGED <<shadows, pending, prompts, untrusted, processStart, approvals>>
    BY <1>2 DEF ConsumeDecoyAccessed
  <2>2. Ready
    BY <2>1, ReadyFacts
  <2>3. /\ IncidentsSound(incidents') /\ GrowAll(incidents, incidents')
        /\ \E n \in NodesFor(graph, ordered[next].id, "DECOY") : n[1] = "DECOY" /\ latest' = n /\ n \in DOMAIN incidents'
    BY <1>2, <2>2, AccessSound
  <2>4. Owners
    BY <2>1, <2>3 DEF Owners, Reading, ReplayInvariant, GrowAll
  <2> QED BY <2>1, <2>3, <2>4, NamesStand DEF Quiet, Consumed
<1>3. CASE ConsumePrompt
  <2>1. Taking({"PROMPT_INJECTION_SUSPECTED"}) /\ UNCHANGED contextVars /\ UNCHANGED <<latest, contained>>
        /\ UNCHANGED <<shadows, pending, untrusted, processStart, approvals>>
    BY <1>3 DEF ConsumePrompt
  <2>2. Ready
    BY <2>1, ReadyFacts
  <2>3. IncidentsSound(incidents') /\ GrowAll(incidents, incidents') /\ prompts' \in Seq(Ids)
    BY <1>3, <2>2, PromptsSound
  <2>4. Names
    BY <1>0, <2>1, <2>3 DEF Names, Context
  <2>5. Owners
    BY <2>1, <2>3, OwnersStand DEF GrowAll
  <2> QED BY <2>1, <2>3, <2>4, <2>5 DEF Quiet, Consumed
<1>4. CASE ConsumeSensitive
  <2>1. Taking({"SENSITIVE_RESOURCE_REQUESTED"}) /\ UNCHANGED contextVars /\ UNCHANGED <<latest, contained>>
        /\ UNCHANGED <<untrusted, processStart, prompts, shadows, pending, approvals>>
    BY <1>4 DEF ConsumeSensitive
  <2>2. Ready
    BY <2>1, ReadyFacts
  <2>3. IncidentsSound(incidents') /\ GrowAll(incidents, incidents')
    BY <1>4, <2>2, SensitiveSound
  <2>4. Owners
    BY <2>1, <2>3, OwnersStand DEF GrowAll
  <2> QED BY <2>1, <2>3, <2>4, NamesStand DEF Quiet, Consumed
<1>5. CASE ConsumeRecorded
  <2>1. Taking({"SECURITY_INCIDENT"}) /\ UNCHANGED contextVars /\ UNCHANGED <<latest, contained>>
        /\ UNCHANGED <<untrusted, processStart, prompts, shadows, pending, approvals>>
    BY <1>5 DEF ConsumeRecorded
  <2>2. Ready
    BY <2>1, ReadyFacts
  <2>3. IncidentsSound(incidents') /\ GrowAll(incidents, incidents')
    BY <1>5, <2>2, RecordedSound
  <2>4. Owners
    BY <2>1, <2>3, OwnersStand DEF GrowAll
  <2> QED BY <2>1, <2>3, <2>4, NamesStand DEF Quiet, Consumed
<1> QED BY <1>1, <1>2, <1>3, <1>4, <1>5 DEF QuietConsume

LEMMA UnpairedFacts ==
    ASSUME NEW n, NEW e
    PROVE  DOMAIN Unpaired(n, e) \subseteq DOMAIN pending /\ \A m \in DOMAIN Unpaired(n, e) : Unpaired(n, e)[m] = pending[m]
BY DEF Unpaired

LEMMA LoudSound ==
    ASSUME Reading, ConsumeContainmentFirst \/ ConsumeContainmentAgain \/ ConsumeDenyContained \/ ConsumeDeny
    PROVE  \E types : /\ Taking(types) /\ UNCHANGED contextVars
                      /\ Names /\ Owners /\ IncidentsSound(incidents')
<1>1. CASE ConsumeContainmentFirst
  <2>1. Taking({"CONTAINMENT_ACTIVATED"}) /\ UNCHANGED contextVars /\ latest' = latest
        /\ UNCHANGED <<untrusted, processStart, prompts, shadows, pending, approvals>>
    BY <1>1 DEF ConsumeContainmentFirst
  <2>2. /\ IncidentsSound(incidents') /\ contained' = OwnerOf(ordered[next])
        /\ DOMAIN incidents' = DOMAIN incidents \cup {OwnerOf(ordered[next])}
    BY <1>1, FirstSound DEF Placed
  <2>3. Owners
    BY <2>1, <2>2 DEF Owners, Reading, ReplayInvariant, OwnerOf, OfContainment
  <2> QED BY <2>1, <2>2, <2>3, NamesStand
<1>2. CASE ConsumeContainmentAgain
  <2>1. Taking({"CONTAINMENT_ACTIVATED"}) /\ UNCHANGED contextVars /\ UNCHANGED <<latest, contained>>
        /\ UNCHANGED <<untrusted, processStart, prompts, shadows, pending, approvals>>
    BY <1>2 DEF ConsumeContainmentAgain
  <2>2. IncidentsSound(incidents') /\ DOMAIN incidents \subseteq DOMAIN incidents'
    BY <1>2, AgainSound DEF Placed
  <2> QED BY <2>1, <2>2, OwnersStand, NamesStand
<1>3. CASE ConsumeDenyContained \/ ConsumeDeny
  <2>1. Taking({"NETWORK_DENY"}) /\ UNCHANGED contextVars /\ UNCHANGED <<latest, contained>>
        /\ UNCHANGED <<untrusted, processStart, prompts, shadows, approvals>>
    BY <1>3 DEF ConsumeDenyContained, ConsumeDeny
  <2>2. IncidentsSound(incidents') /\ DOMAIN incidents \subseteq DOMAIN incidents'
        /\ pending' = Unpaired(Network(ordered[next].resource), ordered[next])
    BY <1>3, DenyJoined, DenyAlone
  <2>3. \A n \in DOMAIN pending' : pending'[n] \in Events
    BY <2>2, UnpairedFacts DEF Reading, ReplayInvariant
  <2>4. Names
    BY <2>1, <2>3 DEF Names, Reading, ReplayInvariant
  <2>5. Owners
    BY <2>1, <2>2, OwnersStand
  <2> QED BY <2>1, <2>2, <2>4, <2>5
<1> QED BY <1>1, <1>2, <1>3

LEMMA BeginSound ==
    ASSUME StoredInvariant, ReplayInvariant, Read
    PROVE  ReplayInvariant' /\ incidents' = <<>> /\ contained' = NoIncident /\ latest' = NoIncident /\ approvals' = {}
           /\ pending' = <<>> /\ (\A i \in 1 .. next' - 1 : ordered'[i].type \notin Consumed)
           /\ next' \in 1 .. Len(ordered') + 1 /\ stage' = "reading"
<1> DEFINE S == Range(stored)
<1>1. /\ ReplayInit /\ TrailSound(S) /\ stage' = "reading" /\ stored' = stored
      /\ ordered' = Ordered(S) /\ graph' = Build(ordered') /\ next' = NextOf(ordered', 1)
      /\ UNCHANGED <<incidents, shadows, pending, latest, contained, prompts, untrusted, processStart, approvals>>
  BY DEF Read, Begin, ReplayInvariant, StoredInvariant
<1>2. Dated(S)
  BY <1>1 DEF TrailSound, IsEvent, Dated
<1> HIDE DEF S
<1>3. ordered' \in Seq(S) /\ Range(ordered') = S
  BY <1>1, <1>2, OrderedFacts
<1> DEFINE o == ordered'
<1>4. o \in Seq(Range(o)) /\ 1 \in 1 .. Len(o) + 1
  BY <1>3
<1> HIDE DEF o
<1>5. /\ NextOf(o, 1) \in 1 .. Len(o) + 1 /\ (NextOf(o, 1) \in DOMAIN o => o[NextOf(o, 1)].type \in Consumed)
      /\ \A k \in 1 .. NextOf(o, 1) - 1 : o[k].type \notin Consumed
  BY <1>4, NextOfFacts
<1> USE DEF o
<1>6. /\ incidents' = <<>> /\ contained' = NoIncident /\ latest' = NoIncident /\ approvals' = {} /\ pending' = <<>>
      /\ shadows' = <<>> /\ untrusted' = {} /\ processStart' = 0 /\ prompts' = <<>>
  BY <1>1 DEF ReplayInit
<1>7. /\ DOMAIN incidents' = {} /\ DOMAIN shadows' = {} /\ DOMAIN pending' = {} /\ prompts' \in Seq(Ids')
      /\ NoIncident[1] = "none"
  BY <1>6 DEF NoIncident
<1>8. IncidentsSound(incidents)'
  BY <1>7 DEF IncidentsSound
<1>9. /\ untrusted' \subseteq Ids' /\ processStart' \in Ids' \cup {0}
      /\ latest' \in {NoIncident} \cup DOMAIN incidents' /\ contained' \in {NoIncident} \cup DOMAIN incidents'
      /\ latest'[1] \in {"none", "DECOY"} /\ contained'[1] \in {"none", "DECOY", "containment"}
      /\ \A a \in approvals' : a \in Events' /\ a.type \in ApprovalTypes
  BY <1>6, <1>7
<1>10. ReplayInvariant'
  BY <1>1, <1>5, <1>7, <1>8, <1>9 DEF ReplayInvariant, S
<1> QED BY <1>1, <1>5, <1>6, <1>10

LEMMA ReplayStands ==
    ASSUME ReplayInvariant, UNCHANGED replayVars, UNCHANGED stored, stage' = "reading" <=> stage = "reading"
    PROVE  ReplayInvariant'
<1>1. ASSUME stage # "reading" PROVE ReplayInvariant'
  BY <1>1 DEF ReplayInvariant, ReplayInit, replayVars
<1>2. ASSUME stage = "reading" PROVE ReplayInvariant'
  <2>1. Ids' = Ids /\ Events' = Events
    BY DEF Ids, Events, replayVars
  <2>2. IncidentsSound(incidents)'
    BY <1>2, <2>1 DEF ReplayInvariant, IncidentsSound, IncidentRecord, IncidentBacked, IncidentRated, replayVars
  <2> QED BY <1>2, <2>1, <2>2 DEF ReplayInvariant, replayVars
<1> QED BY <1>1, <1>2

\* The steps that leave the replay alone.
LEMMA OtherSteps ==
    ASSUME [Next]_vars, ~Read, ~Replay
    PROVE  /\ UNCHANGED replayVars /\ (stage' = "reading" <=> stage = "reading") /\ (Store \/ UNCHANGED stored)
           /\ (Store => stage # "reading")
<1> USE DEF Running
<1>1. CASE Launch \/ LaunchFails \/ Tick \/ StampAccess \/ AppendAccess \/ Stop \/ Store
  BY <1>1 DEF Launch, LaunchFails, Tick, StampAccess, AppendAccess, Stop, Store
<1>2. CASE Done \/ UNCHANGED vars
  BY <1>2 DEF Done, vars, Store
<1>3. ASSUME NEW d \in Range(config.decoys), Touch(d)
      PROVE  UNCHANGED replayVars /\ (stage' = "reading" <=> stage = "reading") /\ UNCHANGED stored /\ ~Store
  BY <1>3 DEF Touch, Store
<1>4. ASSUME NEW c \in Connections, Compose(c) \/ Stamp(c) \/ AppendLine(c)
      PROVE  UNCHANGED replayVars /\ (stage' = "reading" <=> stage = "reading") /\ UNCHANGED stored /\ ~Store
  BY <1>4 DEF Compose, Stamp, AppendLine, Store
<1> QED BY <1>1, <1>2, <1>3, <1>4 DEF Next

LEMMA ReplaySteps ==
    ASSUME Reading, Replay
    PROVE  \/ QuietConsume /\ UNCHANGED <<stage, stored, started>>
           \/ /\ ConsumeContainmentFirst \/ ConsumeContainmentAgain \/ ConsumeDenyContained \/ ConsumeDeny
              /\ UNCHANGED <<stage, stored, started>>
BY DEF Replay, ReplayStep, QuietConsume

LEMMA ReplayInvariantStep ==
    ASSUME StoredInvariant, ReplayInvariant, [Next]_vars
    PROVE  ReplayInvariant'
<1>1. CASE Read
  BY <1>1, BeginSound
<1>2. CASE Replay
  <2>1. Reading
    BY <1>2 DEF Reading, Replay
  <2>2. UNCHANGED <<stage, stored>>
    BY <1>2 DEF Replay
  <2>3. \E types : Taking(types) /\ UNCHANGED contextVars /\ Names /\ Owners /\ IncidentsSound(incidents')
    BY <1>2, <2>1, ReplaySteps, QuietSound, LoudSound
  <2> QED BY <2>1, <2>2, <2>3, ReplayKept
<1>3. CASE ~Read /\ ~Replay
  <2>1. /\ UNCHANGED replayVars /\ (stage' = "reading" <=> stage = "reading") /\ (Store \/ UNCHANGED stored)
        /\ (Store => stage # "reading")
    BY <1>3, OtherSteps
  <2>2. CASE UNCHANGED stored
    BY <2>1, <2>2, ReplayStands
  <2>3. CASE Store
    BY <2>1, <2>3 DEF ReplayInvariant, ReplayInit, replayVars
  <2> QED BY <2>1, <2>2, <2>3
<1> QED BY <1>1, <1>2, <1>3

\* Whatever was stored, the replay of reconstruct.go opens and extends sound incidents only.
THEOREM ReplayInvariance == Spec => [](StoredInvariant /\ ReplayInvariant)
<1>1. Init => ReplayInvariant
  BY DEF Init, ReplayInvariant
<1>2. StoredInvariant /\ ReplayInvariant /\ [Next]_vars => ReplayInvariant'
  BY ReplayInvariantStep
<1> QED BY <1>1, <1>2, StoredInvariance, PTL DEF Spec

\* TrailTypeOK.
THEOREM TrailHasItsTypes == Spec => []TrailTypeOK
<1>1. WorldInvariant /\ StoredInvariant /\ ReplayInvariant => TrailTypeOK
  <2> SUFFICES ASSUME WorldInvariant, StoredInvariant, ReplayInvariant PROVE TrailTypeOK
    OBVIOUS
  <2>1. next \in 1 .. Len(ordered) + 1
    <3>1. CASE stage = "reading"
      BY <3>1 DEF ReplayInvariant
    <3>2. CASE stage # "reading"
      BY <3>2 DEF ReplayInvariant, ReplayInit
    <3> QED BY <3>1, <3>2
  <2>2. ASSUME NEW key \in DOMAIN incidents
        PROVE  /\ incidents[key].severity \in Range(Severities)
               /\ \A id \in incidents[key].evidence : \E e \in Events : e.id = id
    <3>1. stage = "reading"
      BY DEF ReplayInvariant, ReplayInit
    <3>2. IncidentRecord(incidents[key])
      BY <3>1 DEF ReplayInvariant, IncidentsSound
    <3> QED BY <3>2 DEF IncidentRecord, Ids
  <2> QED BY <2>1, <2>2 DEF WorldInvariant, StoredInvariant, TrailTypeOK
<1> QED BY <1>1, WorldInvariance, ReplayInvariance, PTL

\* ClaimsBacked: the severity of an incident has its evidence (addStatement, raise and
\* enrichPromptIncident of reconstruct.go), and a scope has its proof (processScope of builder.go).
THEOREM ReportClaimsNoMore == Spec => []ClaimsBacked
<1>1. ReplayInvariant => SeverityBacked
  <2> SUFFICES ASSUME ReplayInvariant, NEW key \in DOMAIN incidents
               PROVE  LET i == incidents[key]
                      IN /\ i.backing # {} /\ i.backing \subseteq i.evidence
                         /\ (i.type = "DECOY_ACCESS_WITH_NETWORK_ACTIVITY"
                                \/ Statements(key, {"LATER_SECURITY_ACTIVITY"}) # {}) => Rank(i.severity) >= Rank("HIGH")
    BY DEF SeverityBacked
  <2>1. stage = "reading"
    BY DEF ReplayInvariant, ReplayInit
  <2>2. IncidentRecord(incidents[key]) /\ IncidentBacked(incidents[key]) /\ IncidentRated(incidents[key])
    BY <2>1 DEF ReplayInvariant, IncidentsSound
  <2>3. Rank("HIGH") = 3
    BY RankFacts
  <2> QED BY <2>2, <2>3 DEF IncidentRecord, IncidentBacked, IncidentRated, Statements
<1>2. StoredInvariant /\ ReplayInvariant => NoScopeWithoutRun
  <2> SUFFICES ASSUME StoredInvariant, ReplayInvariant, stage = "reading", ~started
               PROVE  Process \notin RelevantNodes(graph, {e.id : e \in Events})
    BY DEF NoScopeWithoutRun
  <2>1. TrailSound(Events) /\ graph = Build(ordered)
    BY ReadingFacts DEF Reading
  <2>2. \A e \in Range(ordered) : e.type \notin {"PROCESS_EXIT", "DECOY_ACCESS", "NETWORK_REQUEST"}
    BY <2>1 DEF TrailSound, Events
  <2> QED BY <2>1, <2>2, ScopeNeedsProof
<1>3. StoredInvariant /\ ReplayInvariant => ClaimsBacked
  BY <1>1, <1>2 DEF ClaimsBacked
<1> QED BY <1>3, ReplayInvariance, PTL

-----------------------------------------------------------------------------
(* Containment. *)

Activations == Of(Past, "CONTAINMENT_ACTIVATED")
AllAccesses == Of(Events, "DECOY_ACCESS")
AllActivations == Of(Events, "CONTAINMENT_ACTIVATED")

\* All activations so far are the action of one incident, ...
Acting ==
    /\ contained = NoIncident <=> Activations = {}
    /\ \A key \in DOMAIN incidents : incidents[key].action = IF key = contained THEN {f.id : f \in Activations} ELSE {}

\* ... which is as old as the first of them, ...
Dating ==
    contained # NoIncident =>
        \E f \in Activations : incidents[contained].activated = f.ts /\ \A g \in Activations : BeforeOrEqual(f, g)

\* ... and which is, or will be, that of the decoy accessed first.
Owning ==
    /\ latest # NoIncident => Of(Past, "DECOY_ACCESS") # {}
    /\ contained # NoIncident /\ AllAccesses # {} => contained = DecoyNode(Earliest(AllAccesses).resource)
    /\ contained = NoIncident /\ Of(Past, "DECOY_ACCESS") # {} /\ AllActivations # {} =>
        latest = DecoyNode(Earliest(AllAccesses).resource)

\* A violation of network policy comes before containment; what comes after it belongs to it.
Violating ==
    /\ \A key \in DOMAIN incidents : key[1] = "denial" =>
        \E e \in Of(Past, "NETWORK_DENY") : key = OfDenial(e) /\ \A f \in Activations : ~BeforeOrEqual(f, e)
    /\ \A key \in DOMAIN incidents : key[1] = "containment" => key = contained
    /\ \A e \in Of(Past, "NETWORK_DENY"), f \in Activations :
        BeforeOrEqual(f, e) => e.id \in incidents[contained].evidence

ContainmentInvariant == stage = "reading" => Acting /\ Dating /\ Owning /\ Violating

LEMMA FirstAccessFacts ==
    ASSUME Reading, AllActivations # {}, AllAccesses # {}
    PROVE  /\ Earliest(AllAccesses) \in AllAccesses
           /\ \A f \in AllActivations : BeforeOrEqual(Earliest(AllAccesses), f)
           /\ \A d \in AllAccesses : d # Earliest(AllAccesses) => \E f \in AllActivations : BeforeOrEqual(f, d)
<1>1. TrailSound(Events) /\ Dated(Events)
  BY ReadingFacts
<1>2. PICK first \in AllAccesses :
        /\ \A f \in AllActivations : BeforeOrEqual(first, f)
        /\ \A d \in AllAccesses \ {first} : \E f \in AllActivations : BeforeOrEqual(f, d)
  BY <1>1 DEF TrailSound, AllAccesses, AllActivations
<1>3. AllAccesses \subseteq Events /\ AllActivations \subseteq Events
  BY DEF AllAccesses, AllActivations, Of
<1>4. \A d \in AllAccesses : BeforeOrEqual(first, d)
  <2>1. SUFFICES ASSUME NEW d \in AllAccesses PROVE BeforeOrEqual(first, d)
    OBVIOUS
  <2>2. CASE d = first
    BY <1>1, <1>3, <2>2, OrderFacts
  <2>3. CASE d # first
    <3>1. PICK f \in AllActivations : BeforeOrEqual(f, d)
      BY <1>2, <2>3
    <3>2. BeforeOrEqual(first, f)
      BY <1>2
    <3> QED BY <1>1, <1>3, <3>1, <3>2, OrderFacts
  <2> QED BY <2>2, <2>3
<1>5. Earliest(AllAccesses) \in AllAccesses /\ \A d \in AllAccesses : BeforeOrEqual(Earliest(AllAccesses), d)
  BY <1>4 DEF Earliest
<1>6. Earliest(AllAccesses) = first
  BY <1>1, <1>3, <1>4, <1>5, OrderFacts
<1> QED BY <1>2, <1>6

\* What was read so far, of the types that matter here.
LEMMA PastFacts ==
    ASSUME Reading, NEW types, Taking(types), UNCHANGED contextVars
    PROVE  LET e == ordered[next]
           IN /\ Activations' = IF e.type = "CONTAINMENT_ACTIVATED" THEN Activations \cup {e} ELSE Activations
              /\ Of(Past, "NETWORK_DENY")' =
                    IF e.type = "NETWORK_DENY" THEN Of(Past, "NETWORK_DENY") \cup {e} ELSE Of(Past, "NETWORK_DENY")
              /\ Of(Past, "DECOY_ACCESS")' =
                    IF e.type = "DECOY_ACCESS" THEN Of(Past, "DECOY_ACCESS") \cup {e} ELSE Of(Past, "DECOY_ACCESS")
              /\ Of(Past, "NETWORK_REQUEST")' =
                    IF e.type = "NETWORK_REQUEST" THEN Of(Past, "NETWORK_REQUEST") \cup {e} ELSE Of(Past, "NETWORK_REQUEST")
              /\ AllAccesses' = AllAccesses /\ AllActivations' = AllActivations
              /\ Activations \subseteq AllActivations
<1> DEFINE e == ordered[next]
<1>1. /\ \A type \in Consumed : Of(Past', type) = Of(Past, type) \cup {f \in {e} : f.type = type}
      /\ Events' = Events /\ Past \subseteq Events
  BY TakenFacts
<1>2. \A type : Of(Past, type)' = Of(Past', type)
  BY DEF Of
<1>3. {"CONTAINMENT_ACTIVATED", "NETWORK_DENY", "DECOY_ACCESS", "NETWORK_REQUEST"} \subseteq Consumed
  BY DEF Consumed
<1> HIDE DEF e
<1>4. \A type : {f \in {e} : f.type = type} = IF e.type = type THEN {e} ELSE {}
  OBVIOUS
<1>5. \A type \in Consumed : Of(Past, type)' = IF e.type = type THEN Of(Past, type) \cup {e} ELSE Of(Past, type)
  BY <1>1, <1>2, <1>4
<1>6. AllAccesses' = AllAccesses /\ AllActivations' = AllActivations /\ Activations \subseteq AllActivations
  BY <1>1 DEF AllAccesses, AllActivations, Activations, Of
<1>7. Activations' = Of(Past, "CONTAINMENT_ACTIVATED")'
  BY DEF Activations
<1> QED BY <1>3, <1>5, <1>6, <1>7 DEF e, Activations

\* The latest decoy is that of the access that is being read.
LEMMA LatestFacts ==
    ASSUME Reading, QuietConsume
    PROVE  IF ordered[next].type = "DECOY_ACCESS" THEN latest' = DecoyNode(ordered[next].resource) ELSE latest' = latest
<1> DEFINE e == ordered[next]
<1>1. CASE ConsumeDecoyAccessed
  <2>1. Taking({"DECOY_ACCESS"}) /\ UNCHANGED contextVars
    BY <1>1 DEF ConsumeDecoyAccessed
  <2>2. Ready /\ e \in Events /\ e.type = "DECOY_ACCESS"
    BY <2>1, ReadyFacts, TakenFacts
  <2>3. NamedOnce(Range(ordered)) /\ graph = Build(ordered) /\ e \in Range(ordered)
    BY <2>2, ReadingFacts DEF Events
  <2>4. NodesFor(graph, e.id, "DECOY") = {DecoyNode(e.resource)}
    BY <2>2, <2>3, NodesForFacts
  <2>5. latest' \in NodesFor(graph, e.id, "DECOY")
    BY <1>1, <2>2, AccessSound
  <2> QED BY <2>2, <2>4, <2>5
<1>2. CASE \/ ConsumeStart \/ ConsumeUntrusted \/ ConsumeShadow \/ ConsumePrompt
           \/ ConsumeSensitive \/ ConsumeRecorded \/ ConsumeRequest \/ ConsumeApproval
  BY <1>2, Zenon DEF ConsumeStart, ConsumeUntrusted, ConsumeShadow, ConsumePrompt, ConsumeSensitive, ConsumeRecorded,
              ConsumeRequest, ConsumeApproval, Taking, Outcomes
<1> QED BY <1>1, <1>2 DEF QuietConsume

LEMMA ContainmentQuiet ==
    ASSUME Reading, ContainmentInvariant, QuietConsume
    PROVE  Acting' /\ Dating' /\ Owning' /\ Violating'
<1> DEFINE e == ordered[next]
<1>0. Acting /\ Dating /\ Owning /\ Violating /\ IncidentsSound(incidents)
  BY DEF ContainmentInvariant, Reading, ReplayInvariant
<1>1. PICK types : /\ Taking(types) /\ UNCHANGED contextVars
                   /\ types \cap {"CONTAINMENT_ACTIVATED", "NETWORK_DENY"} = {} /\ Quiet
  BY QuietSound
<1>2. e.type \in types /\ e \in Events /\ Events' = Events
  BY <1>1, TakenFacts
<1>3. e.type \notin {"CONTAINMENT_ACTIVATED", "NETWORK_DENY"}
  BY <1>1, <1>2
<1>4. /\ Activations' = Activations /\ Of(Past, "NETWORK_DENY")' = Of(Past, "NETWORK_DENY")
      /\ Of(Past, "DECOY_ACCESS")' =
            IF e.type = "DECOY_ACCESS" THEN Of(Past, "DECOY_ACCESS") \cup {e} ELSE Of(Past, "DECOY_ACCESS")
      /\ AllAccesses' = AllAccesses /\ AllActivations' = AllActivations /\ Activations \subseteq AllActivations
  BY <1>1, <1>3, PastFacts
<1>5. /\ contained' = contained /\ DOMAIN incidents \subseteq DOMAIN incidents'
      /\ \A key \in DOMAIN incidents : /\ incidents'[key].action = incidents[key].action
                                       /\ incidents'[key].activated = incidents[key].activated
                                       /\ incidents[key].evidence \subseteq incidents'[key].evidence
      /\ \A key \in DOMAIN incidents' \ DOMAIN incidents :
            incidents'[key].action = {} /\ key[1] \in {"DECOY", "prompts"}
  BY <1>1 DEF Quiet, GrowAll, Grows
<1>6. contained # NoIncident => contained \in DOMAIN incidents
  BY OwnerFacts
<1>7. Acting'
  <2>1. \A key \in DOMAIN incidents' : incidents'[key].action = IF key = contained THEN {f.id : f \in Activations} ELSE {}
    <3>1. SUFFICES ASSUME NEW key \in DOMAIN incidents'
                   PROVE  incidents'[key].action = IF key = contained THEN {f.id : f \in Activations} ELSE {}
      OBVIOUS
    <3>2. CASE key \in DOMAIN incidents
      BY <1>0, <1>5, <3>2 DEF Acting
    <3>3. CASE key \notin DOMAIN incidents
      <4>1. key # contained
        BY <1>5, <1>6, <3>3 DEF NoIncident
      <4> QED BY <1>5, <3>3, <4>1
    <3> QED BY <3>2, <3>3
  <2>2. contained' = NoIncident <=> Activations' = {}
    BY <1>0, <1>4, <1>5 DEF Acting
  <2> QED BY <1>4, <1>5, <2>1, <2>2 DEF Acting
<1>8. Dating'
  BY <1>0, <1>4, <1>5, <1>6 DEF Dating
<1>9. Owning'
  <2>1. IF e.type = "DECOY_ACCESS" THEN latest' = DecoyNode(e.resource) ELSE latest' = latest
    BY LatestFacts
  <2>2. latest' # NoIncident => Of(Past, "DECOY_ACCESS")' # {}
    BY <1>0, <1>4, <2>1 DEF Owning
  <2>3. ASSUME contained = NoIncident, Of(Past, "DECOY_ACCESS")' # {}, AllActivations # {}
        PROVE  latest' = DecoyNode(Earliest(AllAccesses).resource)
    <3>1. CASE e.type # "DECOY_ACCESS"
      BY <1>0, <1>4, <2>1, <2>3, <3>1 DEF Owning
    <3>2. CASE e.type = "DECOY_ACCESS"
      <4>1. e \in AllAccesses
        BY <1>2, <3>2 DEF AllAccesses, Of
      <4>2. Activations = {}
        BY <1>0, <2>3 DEF Acting
      <4>3. ASSUME e # Earliest(AllAccesses) PROVE FALSE
        <5>1. PICK f \in AllActivations : BeforeOrEqual(f, e)
          BY <2>3, <4>1, <4>3, FirstAccessFacts
        <5>2. f \in Events /\ f.type = "CONTAINMENT_ACTIVATED"
          BY DEF AllActivations, Of
        <5>3. f \in Past \/ f = e
          BY <1>1, <5>1, <5>2, TakenFacts
        <5>4. f \in Activations
          BY <1>3, <5>2, <5>3 DEF Activations, Of
        <5> QED BY <4>2, <5>4
      <4> QED BY <2>1, <3>2, <4>3
    <3> QED BY <3>1, <3>2
  <2> HIDE DEF e
  <2> QED BY <1>0, <1>4, <1>5, <2>2, <2>3 DEF Owning
<1>10. Violating'
  <2>1. ASSUME NEW key \in DOMAIN incidents', key[1] = "denial"
        PROVE  \E d \in Of(Past, "NETWORK_DENY") : key = OfDenial(d) /\ \A f \in Activations : ~BeforeOrEqual(f, d)
    <3>1. key \in DOMAIN incidents
      BY <1>5, <2>1
    <3> QED BY <1>0, <2>1, <3>1 DEF Violating
  <2>2. ASSUME NEW key \in DOMAIN incidents', key[1] = "containment" PROVE key = contained
    <3>1. key \in DOMAIN incidents
      BY <1>5, <2>2
    <3> QED BY <1>0, <2>2, <3>1 DEF Violating
  <2>3. ASSUME NEW d \in Of(Past, "NETWORK_DENY"), NEW f \in Activations, BeforeOrEqual(f, d)
        PROVE  d.id \in incidents'[contained].evidence
    <3>1. contained \in DOMAIN incidents
      BY <1>0, <1>6 DEF Acting
    <3> QED BY <1>0, <1>5, <2>3, <3>1 DEF Violating
  <2> QED BY <1>4, <1>5, <2>1, <2>2, <2>3 DEF Violating
<1> QED BY <1>7, <1>8, <1>9, <1>10

\* Nothing that was read before is after the event that is being read.
LEMMA NotAfter ==
    ASSUME Reading, NEW types, Taking(types), UNCHANGED contextVars
    PROVE  \A p \in Past : ~BeforeOrEqual(ordered[next], p)
<1>1. ordered[next] \in Events /\ ordered[next] \notin Past /\ Past \subseteq Events
      /\ \A p \in Past : BeforeOrEqual(p, ordered[next])
  BY TakenFacts
<1>2. \A e, f \in Events : BeforeOrEqual(e, f) /\ BeforeOrEqual(f, e) => e = f
  BY ReadingFacts, OrderFacts
<1> QED BY <1>1, <1>2

LEMMA ContainmentFirst ==
    ASSUME Reading, ContainmentInvariant, ConsumeContainmentFirst
    PROVE  Acting' /\ Dating' /\ Owning' /\ Violating'
<1> DEFINE e == ordered[next]
           key == OwnerOf(e)
<1>0. Acting /\ Dating /\ Owning /\ Violating /\ IncidentsSound(incidents)
  BY DEF ContainmentInvariant, Reading, ReplayInvariant
<1>1. Taking({"CONTAINMENT_ACTIVATED"}) /\ UNCHANGED contextVars /\ contained = NoIncident /\ latest' = latest
  BY DEF ConsumeContainmentFirst
<1>2. e.type = "CONTAINMENT_ACTIVATED" /\ e \in Events /\ Events' = Events
  BY <1>1, TakenFacts
<1>3. /\ Activations' = Activations \cup {e} /\ Of(Past, "NETWORK_DENY")' = Of(Past, "NETWORK_DENY")
      /\ Of(Past, "DECOY_ACCESS")' = Of(Past, "DECOY_ACCESS")
      /\ AllAccesses' = AllAccesses /\ AllActivations' = AllActivations /\ Activations \subseteq AllActivations
  BY <1>1, <1>2, PastFacts
<1>4. /\ contained' = key /\ Placed(incidents, key, incidents'[key], incidents')
      /\ incidents'[key].activated = e.ts
      /\ latest = NoIncident => incidents'[key].action = {e.id}
      /\ latest # NoIncident =>
            latest \in DOMAIN incidents /\ incidents'[latest].action = incidents[latest].action \cup {e.id}
  BY FirstSound
<1>5. Activations = {} /\ Activations' = {e}
  BY <1>0, <1>1, <1>3 DEF Acting
<1>6. \A k \in DOMAIN incidents : incidents[k].action = {} /\ k # NoIncident
  BY <1>0, <1>1, <1>5 DEF Acting, IncidentsSound, NoIncident
<1>7. key # NoIncident /\ (latest # NoIncident => key = latest) /\ (latest = NoIncident => key = OfContainment(e))
  BY DEF OwnerOf, OfContainment, NoIncident
<1>8. incidents'[key].action = {e.id}
  BY <1>4, <1>6, <1>7
<1>9. \A p \in Past : ~BeforeOrEqual(e, p)
  BY <1>1, NotAfter
<1>10. BeforeOrEqual(e, e)
  BY <1>2, ReadingFacts, OrderFacts
<1> HIDE DEF key, e
<1>11. DOMAIN incidents' = DOMAIN incidents \cup {key} /\ \A k \in DOMAIN incidents : k # key => incidents'[k] = incidents[k]
  BY <1>4 DEF Placed
<1>12. Acting'
  <2>1. {f.id : f \in Activations'} = {e.id}
    BY <1>5
  <2>2. \A k \in DOMAIN incidents' : incidents'[k].action = IF k = key THEN {e.id} ELSE {}
    BY <1>6, <1>8, <1>11
  <2> QED BY <1>4, <1>5, <1>7, <2>1, <2>2 DEF Acting
<1>13. Dating'
  BY <1>4, <1>5, <1>10 DEF Dating
<1>14. Owning'
  <2>1. ASSUME AllAccesses # {} PROVE key = DecoyNode(Earliest(AllAccesses).resource)
    <3>1. e \in AllActivations
      BY <1>2 DEF AllActivations, Of
    <3>2. Earliest(AllAccesses) \in AllAccesses /\ BeforeOrEqual(Earliest(AllAccesses), e)
      BY <2>1, <3>1, FirstAccessFacts
    <3>3. Earliest(AllAccesses) \in Events /\ Earliest(AllAccesses).type = "DECOY_ACCESS"
      BY <3>2 DEF AllAccesses, Of
    <3>4. Earliest(AllAccesses) \in Past
      BY <1>1, <1>2, <3>2, <3>3, TakenFacts DEF e
    <3>5. Of(Past, "DECOY_ACCESS") # {}
      BY <3>3, <3>4 DEF Of
    <3>6. latest = DecoyNode(Earliest(AllAccesses).resource)
      BY <1>0, <1>1, <3>1, <3>5 DEF Owning
    <3>7. latest # NoIncident
      BY <3>6 DEF DecoyNode, NoIncident
    <3> QED BY <1>7, <3>6, <3>7
  <2> QED BY <1>0, <1>1, <1>3, <1>4, <1>7, <2>1 DEF Owning
<1>15. Violating'
  <2>1. key[1] # "denial"
    BY <1>7 DEF OfContainment, Reading, ReplayInvariant
  <2>2. ASSUME NEW k \in DOMAIN incidents', k[1] = "denial"
        PROVE  \E d \in Of(Past, "NETWORK_DENY") : k = OfDenial(d) /\ \A f \in {e} : ~BeforeOrEqual(f, d)
    <3>1. k \in DOMAIN incidents
      BY <1>11, <2>1, <2>2
    <3>2. PICK d \in Of(Past, "NETWORK_DENY") : k = OfDenial(d)
      BY <1>0, <2>2, <3>1 DEF Violating
    <3> QED BY <1>9, <3>2 DEF Of
  <2>3. ASSUME NEW k \in DOMAIN incidents', k[1] = "containment" PROVE k = key
    BY <1>0, <1>1, <1>6, <1>11, <2>3 DEF Violating
  <2>4. \A d \in Of(Past, "NETWORK_DENY") : ~BeforeOrEqual(e, d)
    BY <1>9 DEF Of
  <2> QED BY <1>3, <1>4, <1>5, <2>2, <2>3, <2>4 DEF Violating
<1> QED BY <1>12, <1>13, <1>14, <1>15

LEMMA ContainmentAgain ==
    ASSUME Reading, ContainmentInvariant, ConsumeContainmentAgain
    PROVE  Acting' /\ Dating' /\ Owning' /\ Violating'
<1> DEFINE e == ordered[next]
<1>0. Acting /\ Dating /\ Owning /\ Violating
  BY DEF ContainmentInvariant, Reading
<1>1. /\ Taking({"CONTAINMENT_ACTIVATED"}) /\ UNCHANGED contextVars /\ contained # NoIncident
      /\ latest' = latest /\ contained' = contained
  BY DEF ConsumeContainmentAgain
<1>2. e.type = "CONTAINMENT_ACTIVATED" /\ e \in Events /\ \A p \in Past : BeforeOrEqual(p, e)
  BY <1>1, TakenFacts
<1>3. /\ Activations' = Activations \cup {e} /\ Of(Past, "NETWORK_DENY")' = Of(Past, "NETWORK_DENY")
      /\ Of(Past, "DECOY_ACCESS")' = Of(Past, "DECOY_ACCESS")
      /\ AllAccesses' = AllAccesses /\ AllActivations' = AllActivations /\ Activations \subseteq AllActivations
  BY <1>1, <1>2, PastFacts
<1>4. /\ contained \in DOMAIN incidents
      /\ Placed(incidents, contained, incidents'[contained], incidents')
      /\ AppliedTo(incidents[contained], e.id, incidents'[contained])
  BY AgainSound
<1>5. \A p \in Past : ~BeforeOrEqual(e, p)
  BY <1>1, NotAfter
<1> HIDE DEF e
<1>6. /\ DOMAIN incidents' = DOMAIN incidents
      /\ \A k \in DOMAIN incidents : k # contained => incidents'[k] = incidents[k]
      /\ incidents'[contained].action = incidents[contained].action \cup {e.id}
      /\ incidents'[contained].activated = incidents[contained].activated
      /\ incidents[contained].evidence \subseteq incidents'[contained].evidence
  BY <1>4 DEF Placed, AppliedTo
<1>7. Acting'
  <2>1. {f.id : f \in Activations'} = {f.id : f \in Activations} \cup {e.id}
    BY <1>3
  <2>2. \A k \in DOMAIN incidents' : incidents'[k].action = IF k = contained THEN {f.id : f \in Activations'} ELSE {}
    BY <1>0, <1>6, <2>1 DEF Acting
  <2> QED BY <1>1, <1>3, <2>2 DEF Acting
<1>8. Dating'
  <2>1. PICK f \in Activations : incidents[contained].activated = f.ts /\ \A g \in Activations : BeforeOrEqual(f, g)
    BY <1>0, <1>1 DEF Dating
  <2>2. BeforeOrEqual(f, e)
    BY <1>2 DEF Activations, Of
  <2> QED BY <1>1, <1>3, <1>6, <2>1, <2>2 DEF Dating
<1>9. Owning'
  BY <1>0, <1>1, <1>3 DEF Owning
<1>10. Violating'
  <2>1. \A d \in Of(Past, "NETWORK_DENY") : ~BeforeOrEqual(e, d)
    BY <1>5 DEF Of
  <2>2. \A d \in Of(Past, "NETWORK_DENY"), f \in Activations \cup {e} :
            BeforeOrEqual(f, d) => d.id \in incidents'[contained].evidence
    BY <1>0, <1>6, <2>1 DEF Violating
  <2>3. \A key \in DOMAIN incidents : key[1] = "denial" =>
            \E d \in Of(Past, "NETWORK_DENY") : key = OfDenial(d) /\ \A f \in Activations \cup {e} : ~BeforeOrEqual(f, d)
    BY <1>0, <2>1 DEF Violating
  <2>4. \A key \in DOMAIN incidents : key[1] = "containment" => key = contained
    BY <1>0 DEF Violating
  <2> QED BY <1>1, <1>3, <1>6, <2>2, <2>3, <2>4 DEF Violating
<1> QED BY <1>7, <1>8, <1>9, <1>10

LEMMA ContainmentDeny ==
    ASSUME Reading, ContainmentInvariant, ConsumeDenyContained \/ ConsumeDeny
    PROVE  Acting' /\ Dating' /\ Owning' /\ Violating'
<1> DEFINE e == ordered[next]
           key == OfDenial(e)
<1>0. Acting /\ Dating /\ Owning /\ Violating
  BY DEF ContainmentInvariant, Reading
<1>1. Taking({"NETWORK_DENY"}) /\ UNCHANGED contextVars /\ latest' = latest /\ contained' = contained
  BY DEF ConsumeDenyContained, ConsumeDeny
<1>2. e.type = "NETWORK_DENY" /\ e \in Events /\ e \notin Past
  BY <1>1, TakenFacts
<1>3. /\ Activations' = Activations /\ Of(Past, "NETWORK_DENY")' = Of(Past, "NETWORK_DENY") \cup {e}
      /\ Of(Past, "DECOY_ACCESS")' = Of(Past, "DECOY_ACCESS")
      /\ AllAccesses' = AllAccesses /\ AllActivations' = AllActivations
  BY <1>1, <1>2, PastFacts
<1>4. key \notin DOMAIN incidents
  <2>1. SUFFICES ASSUME key \in DOMAIN incidents PROVE FALSE
    OBVIOUS
  <2>2. PICK d \in Of(Past, "NETWORK_DENY") : key = OfDenial(d)
    BY <1>0, <2>1 DEF Violating, OfDenial
  <2>3. d \in Past /\ d.id = e.id
    BY <2>2 DEF Of, OfDenial
  <2>4. d \in Events
    BY <1>1, <2>3, TakenFacts
  <2>5. d = e
    BY <1>2, <2>3, <2>4, ReadingFacts DEF NamedOnce
  <2> QED BY <1>2, <2>3, <2>5
<1>5. contained # NoIncident => contained \in DOMAIN incidents
  BY OwnerFacts
<1>6. /\ DOMAIN incidents \subseteq DOMAIN incidents'
      /\ DOMAIN incidents' = DOMAIN incidents \/ (DOMAIN incidents' = DOMAIN incidents \cup {key} /\ ~AfterContainment(e))
      /\ \A k \in DOMAIN incidents : /\ incidents'[k].action = incidents[k].action
                                     /\ incidents'[k].activated = incidents[k].activated
                                     /\ incidents[k].evidence \subseteq incidents'[k].evidence
      /\ key \in DOMAIN incidents' => incidents'[key].action = {}
      /\ AfterContainment(e) => e.id \in incidents'[contained].evidence
  <2>1. CASE ConsumeDenyContained
    <3>1. /\ DOMAIN incidents' = DOMAIN incidents
          /\ \A k \in DOMAIN incidents : k # contained => Grows(incidents[k], incidents'[k])
          /\ Tells(incidents[contained], e, Network(e.resource),
                   incidents[contained].action \cup PairedWith(Network(e.resource), e) \cup {e.id}, incidents'[contained])
      BY <2>1, DenyJoined
    <3> HIDE DEF e
    <3>2. \A k \in DOMAIN incidents : /\ incidents'[k].action = incidents[k].action
                                      /\ incidents'[k].activated = incidents[k].activated
                                      /\ incidents[k].evidence \subseteq incidents'[k].evidence
      BY <3>1 DEF Grows, Tells
    <3>3. e.id \in incidents'[contained].evidence
      BY <3>1 DEF Tells
    <3> QED BY <1>4, <3>1, <3>2, <3>3
  <2>2. CASE ConsumeDeny
    <3>1. /\ DOMAIN incidents' = DOMAIN incidents \cup {key}
          /\ \A k \in DOMAIN incidents : k # key => Grows(incidents[k], incidents'[k])
          /\ Incident("NETWORK_POLICY_VIOLATION", "MEDIUM", {e.id}).action = {}
          /\ Tells(Incident("NETWORK_POLICY_VIOLATION", "MEDIUM", {e.id}), e, Network(e.resource),
                   PairedWith(Network(e.resource), e) \cup {e.id}, incidents'[key])
          /\ ~AfterContainment(e)
      BY <2>2, DenyAlone DEF ConsumeDeny
    <3> HIDE DEF e, key
    <3>2. \A k \in DOMAIN incidents : Grows(incidents[k], incidents'[k])
      BY <1>4, <3>1
    <3>3. incidents'[key].action = {}
      BY <3>1 DEF Tells
    <3> QED BY <3>1, <3>2, <3>3 DEF Grows
  <2> QED BY <2>1, <2>2
<1>7. key[1] = "denial" /\ key # NoIncident
  BY DEF OfDenial, NoIncident
<1>8. ~AfterContainment(e) => \A f \in Activations : ~BeforeOrEqual(f, e)
  <2>1. SUFFICES ASSUME ~AfterContainment(e), NEW f \in Activations, BeforeOrEqual(f, e) PROVE FALSE
    OBVIOUS
  <2>2. contained # NoIncident
    BY <1>0 DEF Acting
  <2>3. PICK g \in Activations : incidents[contained].activated = g.ts /\ BeforeOrEqual(g, f)
    BY <1>0, <2>2 DEF Dating
  <2>4. f \in Events /\ g \in Events
    BY <1>1, TakenFacts DEF Activations, Of
  <2>5. f.ts \in Nat /\ g.ts \in Nat /\ e.ts \in Nat
    BY <1>2, <2>4, ReadingFacts DEF IsEvent
  <2>6. g.ts <= e.ts
    BY <2>1, <2>3, <2>5 DEF BeforeOrEqual
  <2>7. ~(e.ts >= g.ts)
    BY <2>1, <2>2, <2>3 DEF AfterContainment
  <2> QED BY <2>5, <2>6, <2>7
<1> HIDE DEF e
<1>9. Acting'
  <2>1. \A k \in DOMAIN incidents' : incidents'[k].action = IF k = contained THEN {f.id : f \in Activations} ELSE {}
    <3>1. key # contained
      BY <1>4, <1>5, <1>7
    <3>2. \A k \in DOMAIN incidents : incidents[k].action = IF k = contained THEN {f.id : f \in Activations} ELSE {}
      BY <1>0 DEF Acting
    <3> HIDE DEF key
    <3>3. SUFFICES ASSUME NEW k \in DOMAIN incidents'
                   PROVE  incidents'[k].action = IF k = contained THEN {f.id : f \in Activations} ELSE {}
      OBVIOUS
    <3>4. CASE k \in DOMAIN incidents
      BY <1>6, <3>2, <3>4
    <3>5. CASE k \notin DOMAIN incidents
      BY <1>6, <3>1, <3>5
    <3> QED BY <3>4, <3>5
  <2>2. {f.id : f \in Activations'} = {f.id : f \in Activations}
    BY <1>3
  <2> QED BY <1>0, <1>1, <1>3, <2>1, <2>2 DEF Acting
<1>10. Dating'
  BY <1>0, <1>1, <1>3, <1>5, <1>6 DEF Dating
<1>11. Owning'
  BY <1>0, <1>1, <1>3 DEF Owning
<1>12. Violating'
  <2>1. ASSUME NEW k \in DOMAIN incidents', k[1] = "denial"
        PROVE  \E d \in Of(Past, "NETWORK_DENY") \cup {e} : k = OfDenial(d) /\ \A f \in Activations : ~BeforeOrEqual(f, d)
    <3>1. CASE k \in DOMAIN incidents
      BY <1>0, <2>1, <3>1 DEF Violating
    <3>2. CASE k \notin DOMAIN incidents
      BY <1>6, <1>8, <3>2
    <3> QED BY <3>1, <3>2
  <2>2. ASSUME NEW k \in DOMAIN incidents', k[1] = "containment" PROVE k = contained
    BY <1>0, <1>6, <1>7, <2>2 DEF Violating
  <2>3. ASSUME NEW d \in Of(Past, "NETWORK_DENY") \cup {e}, NEW f \in Activations, BeforeOrEqual(f, d)
        PROVE  d.id \in incidents'[contained].evidence
    <3>1. CASE d = e
      BY <1>6, <1>8, <2>3, <3>1
    <3>2. CASE d # e
      <4>1. contained \in DOMAIN incidents
        BY <1>0, <1>5 DEF Acting
      <4>2. d.id \in incidents[contained].evidence
        BY <1>0, <2>3, <3>2 DEF Violating
      <4> QED BY <1>6, <4>1, <4>2
    <3> QED BY <3>1, <3>2
  <2> QED BY <1>1, <1>3, <2>1, <2>2, <2>3 DEF Violating
<1> QED BY <1>9, <1>10, <1>11, <1>12

\* A step of the session, as the replay sees it: the trail is opened, an event is read, or
\* nothing is.
LEMMA ReplayCases ==
    ASSUME StoredInvariant, ReplayInvariant, [Next]_vars, stage' = "reading"
    PROVE  \/ Read
           \/ Reading /\ QuietConsume
           \/ Reading /\ (ConsumeContainmentFirst \/ ConsumeContainmentAgain \/ ConsumeDenyContained \/ ConsumeDeny)
           \/ Reading /\ UNCHANGED replayVars
<1>1. CASE Read
  BY <1>1
<1>2. CASE Replay
  <2>1. Reading
    BY <1>2 DEF Reading, Replay
  <2> QED BY <1>2, <2>1, ReplaySteps
<1>3. CASE ~Read /\ ~Replay
  BY <1>3, OtherSteps DEF Reading
<1> QED BY <1>1, <1>2, <1>3

LEMMA ContainmentStep ==
    ASSUME StoredInvariant, ReplayInvariant, ContainmentInvariant, [Next]_vars
    PROVE  ContainmentInvariant'
<1> SUFFICES ASSUME stage' = "reading" PROVE Acting' /\ Dating' /\ Owning' /\ Violating'
  BY DEF ContainmentInvariant
<1>1. CASE Read
  <2>1. /\ incidents' = <<>> /\ contained' = NoIncident /\ latest' = NoIncident
        /\ \A i \in 1 .. next' - 1 : ordered'[i].type \notin Consumed
    BY <1>1, BeginSound
  <2>2. {"CONTAINMENT_ACTIVATED", "NETWORK_DENY", "DECOY_ACCESS"} \subseteq Consumed
    BY DEF Consumed
  <2>3. Activations' = {} /\ Of(Past, "NETWORK_DENY")' = {} /\ Of(Past, "DECOY_ACCESS")' = {}
    BY <2>1, <2>2 DEF Activations, Of, Past
  <2>4. DOMAIN incidents' = {}
    BY <2>1
  <2>5. Acting' /\ Dating'
    BY <2>1, <2>3, <2>4 DEF Acting, Dating
  <2>6. Owning' /\ Violating'
    BY <2>1, <2>3, <2>4 DEF Owning, Violating
  <2> QED BY <2>5, <2>6
<1>2. CASE Reading /\ UNCHANGED replayVars
  <2>1. Acting /\ Dating /\ Owning /\ Violating
    BY <1>2 DEF Reading, ContainmentInvariant
  <2>2. Past' = Past /\ Events' = Events
    BY <1>2 DEF Past, Events, replayVars
  <2>3. /\ Activations' = Activations /\ Of(Past, "NETWORK_DENY")' = Of(Past, "NETWORK_DENY")
        /\ Of(Past, "DECOY_ACCESS")' = Of(Past, "DECOY_ACCESS")
        /\ AllAccesses' = AllAccesses /\ AllActivations' = AllActivations
    BY <2>2 DEF Activations, Of, AllAccesses, AllActivations
  <2>4. UNCHANGED <<incidents, contained, latest>>
    BY <1>2 DEF replayVars
  <2>5. Acting' /\ Dating'
    BY <2>1, <2>3, <2>4 DEF Acting, Dating
  <2>6. Owning' /\ Violating'
    BY <2>1, <2>3, <2>4 DEF Owning, Violating
  <2> QED BY <2>5, <2>6
<1> QED BY <1>1, <1>2, ReplayCases, ContainmentQuiet, ContainmentFirst, ContainmentAgain, ContainmentDeny

\* The replay keeps one incident for containment: consumeContainment and consumeDeny of reconstruct.go.
THEOREM ContainmentInvariance == Spec => [](ReplayInvariant /\ ContainmentInvariant)
<1>1. Init => ContainmentInvariant
  BY DEF Init, ContainmentInvariant
<1>2. StoredInvariant /\ ReplayInvariant /\ ContainmentInvariant /\ [Next]_vars => ContainmentInvariant'
  BY ContainmentStep
<1> QED BY <1>1, <1>2, ReplayInvariance, PTL DEF Spec

LEMMA ReplayedFacts ==
    ASSUME StoredInvariant, ReplayInvariant, Replayed
    PROVE  Reading /\ Past = Events
<1>1. Reading
  BY DEF Replayed, Reading, ReplayInvariant, ReplayInit
<1>2. DOMAIN ordered = 1 .. Len(ordered) /\ Len(ordered) \in Nat /\ next - 1 = Len(ordered)
  BY <1>1, ReadingFacts DEF Replayed
<1> QED BY <1>1, <1>2 DEF Past, Events, Range

LEMMA OneOwner ==
    ASSUME StoredInvariant, ReplayInvariant, ContainmentInvariant
    PROVE  ActivationsHaveOneOwner
<1> SUFFICES ASSUME Replayed PROVE ActivationsHaveOneOwner
  BY DEF ActivationsHaveOneOwner
<1> DEFINE activations == OfType("CONTAINMENT_ACTIVATED")
           acting == {key \in DOMAIN incidents : incidents[key].action # {}}
<1>1. Reading /\ Past = Events
  BY ReplayedFacts
<1>2. Acting /\ Dating /\ Owning /\ Violating
  BY <1>1 DEF Reading, ContainmentInvariant
<1>3. /\ Activations = activations /\ AllAccesses = OfType("DECOY_ACCESS")
      /\ Of(Past, "NETWORK_DENY") = OfType("NETWORK_DENY")
  BY <1>1 DEF Activations, AllAccesses, Of, OfType
<1> HIDE DEF activations
<1>4. CASE activations = {}
  <2>1. acting = {}
    BY <1>2, <1>3, <1>4 DEF Acting
  <2> QED BY <1>4, <2>1 DEF ActivationsHaveOneOwner, activations
<1>5. CASE activations # {}
  <2>1. contained # NoIncident /\ contained \in DOMAIN incidents
    BY <1>1, <1>2, <1>3, <1>5, OwnerFacts DEF Acting
  <2>2. incidents[contained].action = {e.id : e \in activations} /\ acting = {contained}
    <3>1. \A key \in DOMAIN incidents : incidents[key].action = IF key = contained THEN {e.id : e \in activations} ELSE {}
      BY <1>2, <1>3 DEF Acting
    <3>2. {e.id : e \in activations} # {}
      BY <1>5
    <3> QED BY <2>1, <3>1, <3>2
  <2>3. OfType("DECOY_ACCESS") # {} => contained = DecoyNode(Earliest(OfType("DECOY_ACCESS")).resource)
    BY <1>2, <1>3, <2>1 DEF Owning
  <2>4. Earliest(activations) \in activations
    <3>1. \E f \in activations : \A g \in activations : BeforeOrEqual(f, g)
      BY <1>2, <1>3, <2>1 DEF Dating
    <3> QED BY <3>1 DEF Earliest
  <2>5. ASSUME NEW e \in OfType("NETWORK_DENY"), BeforeOrEqual(Earliest(activations), e)
        PROVE  e.id \in incidents[contained].evidence /\ OfDenial(e) \notin DOMAIN incidents
    <3>1. e.id \in incidents[contained].evidence
      BY <1>2, <1>3, <2>4, <2>5 DEF Violating
    <3>2. ASSUME OfDenial(e) \in DOMAIN incidents PROVE FALSE
      <4>1. PICK d \in OfType("NETWORK_DENY") : OfDenial(e) = OfDenial(d) /\ \A f \in activations : ~BeforeOrEqual(f, d)
        <5>1. OfDenial(e)[1] = "denial"
          BY DEF OfDenial
        <5> QED BY <1>2, <1>3, <3>2, <5>1 DEF Violating
      <4>2. d.id = e.id /\ d \in Events /\ e \in Events
        BY <4>1 DEF OfDenial, OfType
      <4>3. d = e
        BY <1>1, <4>2, ReadingFacts DEF NamedOnce
      <4> QED BY <2>4, <2>5, <4>1, <4>3
    <3> QED BY <3>1, <3>2
  <2> HIDE DEF acting
  <2>6. \E key \in acting :
            /\ acting = {key}
            /\ incidents[key].action = {e.id : e \in activations}
            /\ OfType("DECOY_ACCESS") # {} => key = DecoyNode(Earliest(OfType("DECOY_ACCESS")).resource)
            /\ \A e \in OfType("NETWORK_DENY") :
                BeforeOrEqual(Earliest(activations), e) =>
                    /\ e.id \in incidents[key].evidence
                    /\ OfDenial(e) \notin DOMAIN incidents
    <3>1. contained \in acting
      BY <2>2
    <3> QED BY <2>2, <2>3, <2>5, <3>1
  <2> QED BY <1>5, <2>6 DEF ActivationsHaveOneOwner, activations, acting
<1> QED BY <1>4, <1>5

-----------------------------------------------------------------------------
(* Denials. *)

\* A request that awaits its denial has not been told of, and the last event, if it is a
\* request, awaits its denial.
Awaiting ==
    /\ \A n \in DOMAIN pending :
        /\ pending[n] \in Of(Past, "NETWORK_REQUEST") /\ n = Network(pending[n].resource)
        /\ \A key \in DOMAIN incidents : \A s \in Denied(key) : pending[n].id \notin s.cited
    /\ next > 1 /\ ordered[next - 1].type = "NETWORK_REQUEST" =>
        /\ Network(ordered[next - 1].resource) \in DOMAIN pending
        /\ pending[Network(ordered[next - 1].resource)] = ordered[next - 1]

Exchange == {"NETWORK_DENY", "NETWORK_REQUEST"}

\* Of two statements about denials, none speaks of what the other does.
Separate(k, s, l, t) ==
    \A x \in Events : x.type \in Exchange /\ x.id \in s.cited /\ x.id \in t.cited => k = l /\ s = t

\* What a statement about denials cites: each denial with its request, no more requests than
\* denials, all of one destination.
Matching(s) ==
    /\ \A x \in Events : x.type \in Exchange /\ x.id \in s.cited => x \in Past /\ s.about = Network(x.resource)
    /\ \A x \in Cited(s.cited, "NETWORK_DENY") : x.rid = NoRequest => x.id - 1 \in s.cited
    /\ Cardinality(Cited(s.cited, "NETWORK_REQUEST")) <= Cardinality(Cited(s.cited, "NETWORK_DENY"))
    /\ \A q \in Cited(s.cited, "NETWORK_REQUEST") : \E x \in Cited(s.cited, "NETWORK_DENY") : BeforeOrEqual(q, x)

AllMarked(s) == \A x \in Cited(s.cited, "NETWORK_DENY") : x.marked

Accounting ==
    /\ \A key \in DOMAIN incidents : Denied(key) # {} => key = contained \/ key[1] = "denial"
    /\ \A e \in Of(Past, "NETWORK_DENY") : \E key \in DOMAIN incidents : \E s \in Denied(key) : e.id \in s.cited
    /\ \A k, l \in DOMAIN incidents : \A s \in Denied(k), t \in Denied(l) : Separate(k, s, l, t)
    /\ \A key \in DOMAIN incidents : \A s \in Denied(key) : Matching(s) /\ (key = contained => AllMarked(s))

DenialInvariant == stage = "reading" => Awaiting /\ Accounting

LEMMA ToldParts ==
    ASSUME NEW i, NEW j, Told(j) = Told(i)
    PROVE  DeniedOf(j) = DeniedOf(i) /\ ToldOfApprovals(j) = ToldOfApprovals(i)
<1>1. /\ \A k : DeniedOf(k) = {s \in Told(k) : s.step = "NETWORK_DENIED"}
      /\ \A k : {t \in k.timeline : t.step \in ApprovalTypes} = {t \in Told(k) : t.step \in ApprovalTypes}
  BY DEF DeniedOf, Told, Telling
<1>2. {t \in j.timeline : t.step \in ApprovalTypes} = {t \in i.timeline : t.step \in ApprovalTypes}
  BY <1>1
<1> QED BY <1>1, <1>2 DEF ToldOfApprovals

LEMMA ToldNothing ==
    ASSUME NEW i, Told(i) = {}
    PROVE  DeniedOf(i) = {} /\ ToldOfApprovals(i) = {}
BY DEF DeniedOf, Told, Telling, ToldOfApprovals

\* What is told of denials and approvals stays, and nothing about them is added.
Silent ==
    /\ DOMAIN incidents \subseteq DOMAIN incidents'
    /\ \A k \in DOMAIN incidents : /\ DeniedOf(incidents'[k]) = DeniedOf(incidents[k])
                                   /\ ToldOfApprovals(incidents'[k]) = ToldOfApprovals(incidents[k])
    /\ \A k \in DOMAIN incidents' \ DOMAIN incidents : DeniedOf(incidents'[k]) = {} /\ ToldOfApprovals(incidents'[k]) = {}
    /\ contained' # contained => contained = NoIncident /\ DeniedOf(incidents'[contained']) = {}

LEMMA SilentSteps ==
    ASSUME Reading, ContainmentInvariant, DenialInvariant,
           QuietConsume \/ ConsumeContainmentFirst \/ ConsumeContainmentAgain
    PROVE  /\ Silent
           /\ \E types : /\ Taking(types) /\ UNCHANGED contextVars
                         /\ "NETWORK_DENY" \notin types
<1>1. CASE QuietConsume
  <2>1. PICK types : /\ Taking(types) /\ UNCHANGED contextVars /\ types \cap {"CONTAINMENT_ACTIVATED", "NETWORK_DENY"} = {}
                     /\ Quiet
    BY <1>1, QuietSound
  <2>2. /\ contained' = contained /\ DOMAIN incidents \subseteq DOMAIN incidents'
        /\ \A k \in DOMAIN incidents : Told(incidents'[k]) = Told(incidents[k])
        /\ \A k \in DOMAIN incidents' \ DOMAIN incidents : Told(incidents'[k]) = {}
    BY <2>1 DEF Quiet, GrowAll, Grows
  <2>3. \A k \in DOMAIN incidents : /\ DeniedOf(incidents'[k]) = DeniedOf(incidents[k])
                                    /\ ToldOfApprovals(incidents'[k]) = ToldOfApprovals(incidents[k])
    BY <2>2, ToldParts
  <2>4. \A k \in DOMAIN incidents' \ DOMAIN incidents : DeniedOf(incidents'[k]) = {} /\ ToldOfApprovals(incidents'[k]) = {}
    BY <2>2, ToldNothing
  <2> QED BY <2>1, <2>2, <2>3, <2>4 DEF Silent
<1>2. CASE ConsumeContainmentFirst
  <2> DEFINE key == OwnerOf(ordered[next])
  <2>1. Taking({"CONTAINMENT_ACTIVATED"}) /\ UNCHANGED contextVars /\ contained = NoIncident
    BY <1>2 DEF ConsumeContainmentFirst
  <2>2. /\ contained' = key /\ Placed(incidents, key, incidents'[key], incidents') /\ IncidentsSound(incidents)
        /\ latest = NoIncident => Told(incidents'[key]) = {}
        /\ latest # NoIncident => latest \in DOMAIN incidents /\ Told(incidents'[latest]) = Told(incidents[latest])
    BY <1>2, FirstSound DEF Reading, ReplayInvariant
  <2>3. /\ latest # NoIncident => key = latest
        /\ latest = NoIncident => key[1] = "containment" /\ key # contained
    BY <2>1 DEF OwnerOf, OfContainment, NoIncident
  <2>4. latest # NoIncident => DeniedOf(incidents[latest]) = {}
    <3>1. latest[1] \in {"none", "DECOY"} /\ Accounting
      BY DEF Reading, ReplayInvariant, DenialInvariant
    <3>2. latest # NoIncident => latest # contained /\ latest[1] # "denial"
      BY <2>1, <3>1
    <3> QED BY <2>2, <3>1, <3>2 DEF Accounting, Denied
  <2>5. latest = NoIncident => key \notin DOMAIN incidents
    BY <2>3 DEF ContainmentInvariant, Violating, Reading
  <2> HIDE DEF key
  <2>6. /\ DOMAIN incidents' = DOMAIN incidents \cup {key}
        /\ \A k \in DOMAIN incidents : k # key => incidents'[k] = incidents[k]
    BY <2>2 DEF Placed
  <2>7. CASE latest = NoIncident
    <3>1. DeniedOf(incidents'[key]) = {} /\ ToldOfApprovals(incidents'[key]) = {}
      BY <2>2, <2>7, ToldNothing
    <3>2. Silent
      BY <2>1, <2>2, <2>5, <2>6, <2>7, <3>1 DEF Silent
    <3> QED BY <2>1, <3>2
  <2>8. CASE latest # NoIncident
    <3>1. /\ DeniedOf(incidents'[latest]) = DeniedOf(incidents[latest])
          /\ ToldOfApprovals(incidents'[latest]) = ToldOfApprovals(incidents[latest])
      BY <2>2, <2>8, ToldParts
    <3>2. Silent
      BY <2>1, <2>2, <2>3, <2>4, <2>6, <2>8, <3>1 DEF Silent
    <3> QED BY <2>1, <3>2
  <2> QED BY <2>7, <2>8
<1>3. CASE ConsumeContainmentAgain
  <2>1. Taking({"CONTAINMENT_ACTIVATED"}) /\ UNCHANGED contextVars /\ contained' = contained
    BY <1>3 DEF ConsumeContainmentAgain
  <2>2. /\ contained \in DOMAIN incidents /\ DOMAIN incidents' = DOMAIN incidents \cup {contained}
        /\ \A k \in DOMAIN incidents : k # contained => incidents'[k] = incidents[k]
        /\ Told(incidents'[contained]) = Told(incidents[contained])
    BY <1>3, AgainSound DEF Placed, AppliedTo
  <2>3. /\ DeniedOf(incidents'[contained]) = DeniedOf(incidents[contained])
        /\ ToldOfApprovals(incidents'[contained]) = ToldOfApprovals(incidents[contained])
    BY <2>2, ToldParts
  <2>4. Silent
    BY <2>1, <2>2, <2>3 DEF Silent
  <2> QED BY <2>1, <2>4
<1> QED BY <1>1, <1>2, <1>3

LEMMA CitedStands ==
    ASSUME Events' = Events
    PROVE  \A cited, type : Cited(cited, type)' = Cited(cited, type)
BY DEF Cited, OfType

LEMMA MatchingStands ==
    ASSUME Events' = Events, Past \subseteq Past', NEW s, Matching(s)
    PROVE  Matching(s)' /\ (AllMarked(s)' <=> AllMarked(s))
<1>1. \A cited, type : Cited(cited, type)' = Cited(cited, type)
  BY CitedStands
<1> QED BY <1>1 DEF Matching, AllMarked

\* Only a request changes what awaits a denial, if nothing is told of denials.
LEMMA AwaitingSilent ==
    ASSUME Reading, Awaiting, Silent, QuietConsume \/ ConsumeContainmentFirst \/ ConsumeContainmentAgain, Accounting
    PROVE  Awaiting'
<1> DEFINE e == ordered[next]
           m == Network(e.resource)
<1>1. PICK types : Taking(types) /\ UNCHANGED contextVars
  BY QuietSound DEF ConsumeContainmentFirst, ConsumeContainmentAgain
<1>2. /\ e \in Events /\ e \notin Past /\ Past \subseteq Events /\ Events' = Events /\ ordered' = ordered
      /\ next' > next /\ (ordered[next' - 1].type \in Consumed => next' - 1 = next)
  BY <1>1, TakenFacts DEF contextVars
<1>3. Of(Past, "NETWORK_REQUEST")' =
        IF e.type = "NETWORK_REQUEST" THEN Of(Past, "NETWORK_REQUEST") \cup {e} ELSE Of(Past, "NETWORK_REQUEST")
  BY <1>1, PastFacts
<1>4. IF e.type = "NETWORK_REQUEST" THEN pending' = Updated(pending, m, e) ELSE pending' = pending
  <2>1. CASE ConsumeRequest
    <3>1. Taking({"NETWORK_REQUEST"}) /\ UNCHANGED contextVars
      BY <2>1 DEF ConsumeRequest
    <3>2. e.type = "NETWORK_REQUEST"
      BY <3>1, TakenFacts
    <3>3. NamedOnce(Range(ordered)) /\ graph = Build(ordered) /\ e \in Range(ordered)
      BY <1>2, ReadingFacts DEF Events
    <3>4. NodesFor(graph, e.id, "NETWORK_DESTINATION") = {m}
      BY <3>2, <3>3, NodesForFacts
    <3> QED BY <2>1, <3>2, <3>4 DEF ConsumeRequest
  <2>2. CASE \/ ConsumeStart \/ ConsumeUntrusted \/ ConsumeShadow \/ ConsumeDecoyAccessed \/ ConsumePrompt
             \/ ConsumeSensitive \/ ConsumeRecorded \/ ConsumeApproval \/ ConsumeContainmentFirst \/ ConsumeContainmentAgain
    BY <2>2, Zenon DEF ConsumeStart, ConsumeUntrusted, ConsumeShadow, ConsumeDecoyAccessed, ConsumePrompt, ConsumeSensitive,
                ConsumeRecorded, ConsumeApproval, ConsumeContainmentFirst, ConsumeContainmentAgain, Taking, Outcomes
  <2> QED BY <2>1, <2>2 DEF QuietConsume
<1>5. "NETWORK_REQUEST" \in Consumed
  BY DEF Consumed
<1>6. \A k \in DOMAIN incidents' : DeniedOf(incidents'[k]) = {} \/
        (k \in DOMAIN incidents /\ DeniedOf(incidents'[k]) = DeniedOf(incidents[k]))
  BY DEF Silent
<1> HIDE DEF e, m
<1>7. /\ DOMAIN pending' \subseteq DOMAIN pending \cup {m}
      /\ \A n \in DOMAIN pending' : \/ n \in DOMAIN pending /\ pending'[n] = pending[n]
                                    \/ n = m /\ pending'[n] = e /\ e.type = "NETWORK_REQUEST"
      /\ e.type = "NETWORK_REQUEST" => m \in DOMAIN pending' /\ pending'[m] = e
  BY <1>4 DEF Updated
<1>8. ASSUME NEW n \in DOMAIN pending'
      PROVE  /\ pending'[n] \in Of(Past, "NETWORK_REQUEST")' /\ n = Network(pending'[n].resource)
             /\ \A key \in DOMAIN incidents' : \A s \in DeniedOf(incidents'[key]) : pending'[n].id \notin s.cited
  <2>1. CASE n \in DOMAIN pending /\ pending'[n] = pending[n]
    BY <1>3, <1>6, <2>1 DEF Awaiting, Denied
  <2>2. CASE n = m /\ pending'[n] = e /\ e.type = "NETWORK_REQUEST"
    <3>1. \A key \in DOMAIN incidents : \A s \in DeniedOf(incidents[key]) : e.id \notin s.cited
      BY <1>2, <2>2 DEF Accounting, Matching, Denied, Exchange
    <3> QED BY <1>3, <1>6, <2>2, <3>1 DEF m
  <2> QED BY <1>7, <2>1, <2>2
<1>9. ordered'[next' - 1].type = "NETWORK_REQUEST" =>
        /\ Network(ordered'[next' - 1].resource) \in DOMAIN pending'
        /\ pending'[Network(ordered'[next' - 1].resource)] = ordered'[next' - 1]
  <2>1. SUFFICES ASSUME ordered[next' - 1].type = "NETWORK_REQUEST"
                 PROVE  /\ Network(ordered[next' - 1].resource) \in DOMAIN pending'
                        /\ pending'[Network(ordered[next' - 1].resource)] = ordered[next' - 1]
    BY <1>2
  <2>2. ordered[next' - 1] = e
    BY <1>2, <1>5, <2>1 DEF e
  <2>3. e.type = "NETWORK_REQUEST"
    BY <2>1, <2>2
  <2> QED BY <1>7, <2>2, <2>3 DEF m
<1> QED BY <1>8, <1>9 DEF Awaiting, Denied

LEMMA AccountingSilent ==
    ASSUME Reading, Accounting, Silent,
           NEW types, Taking(types), UNCHANGED contextVars, "NETWORK_DENY" \notin types
    PROVE  Accounting'
<1>1. /\ Events' = Events /\ Past \subseteq Past'
      /\ Of(Past, "NETWORK_DENY")' = Of(Past, "NETWORK_DENY")
  BY TakenFacts, PastFacts
<1>2. /\ DOMAIN incidents \subseteq DOMAIN incidents'
      /\ \A k \in DOMAIN incidents' : \A s \in DeniedOf(incidents'[k]) : k \in DOMAIN incidents /\ s \in DeniedOf(incidents[k])
      /\ \A k \in DOMAIN incidents : DeniedOf(incidents'[k]) = DeniedOf(incidents[k])
      /\ \A k \in DOMAIN incidents' : DeniedOf(incidents'[k]) # {} =>
            contained' = contained \/ (contained = NoIncident /\ k # contained')
  BY DEF Silent
<1>3. \A k \in DOMAIN incidents : k # NoIncident
  BY DEF Reading, ReplayInvariant, IncidentsSound, NoIncident
<1>4. \A k \in DOMAIN incidents' : DeniedOf(incidents'[k]) # {} => k = contained' \/ k[1] = "denial"
  BY <1>2, <1>3 DEF Accounting, Denied
<1>5. \A e \in Of(Past, "NETWORK_DENY")' : \E k \in DOMAIN incidents' : \E s \in DeniedOf(incidents'[k]) : e.id \in s.cited
  BY <1>1, <1>2 DEF Accounting, Denied
<1>6. \A k, l \in DOMAIN incidents' : \A s \in DeniedOf(incidents'[k]), t \in DeniedOf(incidents'[l]) : Separate(k, s, l, t)'
  BY <1>1, <1>2 DEF Accounting, Denied, Separate
<1>7. ASSUME NEW k \in DOMAIN incidents', NEW s \in DeniedOf(incidents'[k])
      PROVE  Matching(s)' /\ (k = contained' => AllMarked(s)')
  <2>1. k \in DOMAIN incidents /\ s \in DeniedOf(incidents[k]) /\ Matching(s) /\ (k = contained => AllMarked(s))
    BY <1>2 DEF Accounting, Denied
  <2>2. Matching(s)' /\ (AllMarked(s)' <=> AllMarked(s))
    BY <1>1, <2>1, MatchingStands
  <2>3. k = contained' => k = contained
    BY <1>2, <2>1
  <2> QED BY <2>1, <2>2, <2>3
<1> QED BY <1>4, <1>5, <1>6, <1>7 DEF Accounting, Denied

\* A denial that needed no approval is paired with its request, the event right before it.
LEMMA PairedRequest ==
    ASSUME Reading, Awaiting, Taking({"NETWORK_DENY"}), UNCHANGED contextVars, ordered[next].rid = NoRequest
    PROVE  PairedWith(Network(ordered[next].resource), ordered[next]) = {ordered[next].id - 1}
<1> DEFINE e == ordered[next]
<1>1. e \in Events /\ e.type = "NETWORK_DENY" /\ Past \subseteq Events
  BY TakenFacts
<1>2. PICK q \in Events : q.type = "NETWORK_REQUEST" /\ q.id = e.id - 1 /\ q.ts = e.ts /\ q.resource = e.resource
  <2>1. TrailSound(Events) /\ e \in Of(Events, "NETWORK_DENY")
    BY <1>1, ReadingFacts DEF Of
  <2> QED BY <2>1 DEF TrailSound, Of
<1>3. \A x \in Events : x.id \in Nat /\ x.ts \in Nat
  BY ReadingFacts DEF IsEvent
<1>4. BeforeOrEqual(q, e)
  BY <1>1, <1>2, <1>3 DEF BeforeOrEqual
<1>5. /\ DOMAIN ordered = 1 .. Len(ordered) /\ Len(ordered) \in Nat /\ next \in 1 .. Len(ordered) + 1
      /\ \A i, j \in DOMAIN ordered : BeforeOrEqual(ordered[i], ordered[j]) <=> i <= j
      /\ next \in DOMAIN ordered
  BY ReadingFacts DEF Taking
<1>6. PICK i \in DOMAIN ordered : q = ordered[i]
  BY DEF Events, Range
<1>7. i <= next /\ i # next
  BY <1>1, <1>2, <1>4, <1>5, <1>6
<1>8. i = next - 1
  <2>1. SUFFICES ASSUME i # next - 1 PROVE FALSE
    OBVIOUS
  <2>2. next - 1 \in DOMAIN ordered /\ i <= next - 1 /\ next - 1 <= next /\ ~(next <= next - 1) /\ ~(next - 1 <= i)
    BY <1>5, <1>6, <1>7, <2>1
  <2> DEFINE f == ordered[next - 1]
  <2>3. BeforeOrEqual(q, f) /\ BeforeOrEqual(f, e) /\ ~BeforeOrEqual(e, f) /\ ~BeforeOrEqual(f, q)
    BY <1>5, <1>6, <2>2
  <2>4. f \in Events
    BY <2>2 DEF Events, Range
  <2> HIDE DEF f, e
  <2> QED BY <1>1, <1>2, <1>3, <2>3, <2>4 DEF BeforeOrEqual
<1>9. next > 1 /\ ordered[next - 1] = q
  BY <1>5, <1>6, <1>8
<1>10. Network(q.resource) \in DOMAIN pending /\ pending[Network(q.resource)] = q
  BY <1>2, <1>9 DEF Awaiting
<1> QED BY <1>2, <1>4, <1>10 DEF PairedWith

\* What an incident tells of denials and approvals, before and after a denial was added to it.
Retelling(key, i, cited) ==
    LET e == ordered[next]
        n == Network(e.resource)
    IN /\ DOMAIN incidents' = DOMAIN incidents \cup {key}
       /\ \A k \in DOMAIN incidents : k # key =>
            /\ DeniedOf(incidents'[k]) = DeniedOf(incidents[k])
            /\ ToldOfApprovals(incidents'[k]) = ToldOfApprovals(incidents[k])
       /\ Tells(i, e, n, cited, incidents'[key])
       /\ PairedWith(n, e) \cup {e.id} \subseteq cited
       /\ cited \subseteq PairedWith(n, e) \cup {e.id} \cup {f.id : f \in Activations}
       /\ \A s, t \in DeniedOf(i) : s.about = t.about => s = t
       /\ IF key \in DOMAIN incidents
          THEN /\ key = contained /\ e.marked
               /\ DeniedOf(i) = DeniedOf(incidents[key]) /\ ToldOfApprovals(i) = ToldOfApprovals(incidents[key])
          ELSE key[1] = "denial" /\ key # contained /\ DeniedOf(i) = {} /\ ToldOfApprovals(i) = {}

LEMMA RetellingFacts ==
    ASSUME Reading, ContainmentInvariant, ConsumeDenyContained \/ ConsumeDeny
    PROVE  \E key, i, cited : Retelling(key, i, cited)
<1> DEFINE e == ordered[next]
           n == Network(e.resource)
<1>1. CASE ConsumeDenyContained
  <2> DEFINE i == incidents[contained]
             cited == i.action \cup PairedWith(n, e) \cup {e.id}
  <2>1. /\ DOMAIN incidents' = DOMAIN incidents /\ contained \in DOMAIN incidents
        /\ \A k \in DOMAIN incidents : k # contained => Grows(incidents[k], incidents'[k])
        /\ Tells(i, e, n, cited, incidents'[contained])
    BY <1>1, DenyJoined
  <2>2. Acting /\ Dating /\ IncidentRecord(i)
    BY <2>1 DEF ContainmentInvariant, Reading, ReplayInvariant, IncidentsSound
  <2>3. i.action = {f.id : f \in Activations}
    BY <2>1, <2>2 DEF Acting
  <2>4. e.marked
    <3>1. Taking({"NETWORK_DENY"}) /\ UNCHANGED contextVars /\ contained # NoIncident
      BY <1>1 DEF ConsumeDenyContained, AfterContainment
    <3>2. PICK f \in Activations : TRUE
      BY <2>2, <3>1 DEF Dating
    <3>3. f \in Past /\ f.type = "CONTAINMENT_ACTIVATED"
      BY DEF Activations, Of
    <3>4. BeforeOrEqual(f, e) /\ f \in Events /\ e \in Events /\ e.type = "NETWORK_DENY"
      BY <3>1, <3>3, TakenFacts
    <3>5. TrailSound(Events)
      BY ReadingFacts
    <3> HIDE DEF e
    <3>6. f \in Of(Events, "CONTAINMENT_ACTIVATED") /\ e \in Of(Events, "NETWORK_DENY")
      BY <3>3, <3>4 DEF Of
    <3> QED BY <3>4, <3>5, <3>6 DEF TrailSound
  <2>5. \A s, t \in DeniedOf(i) : s.about = t.about => s = t
    BY <2>2 DEF IncidentRecord, Distinct, DeniedOf
  <2>6. \A k \in DOMAIN incidents : k # contained =>
            /\ DeniedOf(incidents'[k]) = DeniedOf(incidents[k])
            /\ ToldOfApprovals(incidents'[k]) = ToldOfApprovals(incidents[k])
    <3>1. \A k \in DOMAIN incidents : k # contained => Told(incidents'[k]) = Told(incidents[k])
      BY <2>1 DEF Grows
    <3> QED BY <3>1, ToldParts
  <2>7. /\ PairedWith(n, e) \cup {e.id} \subseteq cited
        /\ cited \subseteq PairedWith(n, e) \cup {e.id} \cup {f.id : f \in Activations}
    BY <2>3
  <2> HIDE DEF cited
  <2>8. Retelling(contained, i, cited)
    BY <2>1, <2>4, <2>5, <2>6, <2>7 DEF Retelling
  <2> QED BY <2>8
<1>2. CASE ConsumeDeny
  <2> DEFINE i == Incident("NETWORK_POLICY_VIOLATION", "MEDIUM", {e.id})
             cited == PairedWith(n, e) \cup {e.id}
             key == OfDenial(e)
  <2>1. /\ DOMAIN incidents' = DOMAIN incidents \cup {key}
        /\ \A k \in DOMAIN incidents : k # key => Grows(incidents[k], incidents'[k])
        /\ i.timeline = {} /\ Tells(i, e, n, cited, incidents'[key])
    BY <1>2, DenyAlone
  <2> HIDE DEF i
  <2>2. DeniedOf(i) = {} /\ ToldOfApprovals(i) = {}
    BY <2>1 DEF DeniedOf, ToldOfApprovals
  <2>3. key[1] = "denial" /\ key # contained
    <3>1. contained[1] # "denial"
      BY DEF Reading, ReplayInvariant
    <3> QED BY <3>1 DEF OfDenial
  <2>4. key \notin DOMAIN incidents
    <3>1. Taking({"NETWORK_DENY"}) /\ UNCHANGED contextVars
      BY <1>2 DEF ConsumeDeny
    <3>2. SUFFICES ASSUME key \in DOMAIN incidents PROVE FALSE
      OBVIOUS
    <3>3. PICK d \in Of(Past, "NETWORK_DENY") : key = OfDenial(d)
      BY <2>3, <3>2 DEF ContainmentInvariant, Violating, Reading
    <3>4. d \in Past /\ d.id = e.id
      BY <3>3 DEF Of, OfDenial
    <3>5. d \in Events /\ e \in Events /\ e \notin Past
      BY <3>1, <3>4, TakenFacts
    <3>6. d = e
      BY <3>4, <3>5, ReadingFacts DEF NamedOnce
    <3> QED BY <3>4, <3>5, <3>6
  <2>5. \A k \in DOMAIN incidents : k # key =>
            /\ DeniedOf(incidents'[k]) = DeniedOf(incidents[k])
            /\ ToldOfApprovals(incidents'[k]) = ToldOfApprovals(incidents[k])
    <3> HIDE DEF key
    <3>1. \A k \in DOMAIN incidents : k # key => Told(incidents'[k]) = Told(incidents[k])
      BY <2>1 DEF Grows
    <3> QED BY <3>1, ToldParts
  <2>6. /\ PairedWith(n, e) \cup {e.id} \subseteq cited
        /\ cited \subseteq PairedWith(n, e) \cup {e.id} \cup {f.id : f \in Activations}
    OBVIOUS
  <2> HIDE DEF cited, key
  <2>7. Retelling(key, i, cited)
    BY <2>1, <2>2, <2>3, <2>4, <2>5, <2>6 DEF Retelling
  <2> QED BY <2>7
<1> QED BY <1>1, <1>2

\* What was told of the destination of this denial.
Before(key) ==
    IF key \in DOMAIN incidents THEN {s \in Denied(key) : s.about = Network(ordered[next].resource)} ELSE {}

\* d is what is told now; all else is told as before.
NowTold(key, d) ==
    LET e == ordered[next]
        n == Network(e.resource)
    IN /\ DOMAIN incidents' = DOMAIN incidents \cup {key} /\ d \in DeniedOf(incidents'[key]) /\ d.about = n
       /\ \A k \in DOMAIN incidents' : \A s \in DeniedOf(incidents'[k]) :
            \/ k = key /\ s = d
            \/ k \in DOMAIN incidents /\ s \in Denied(k) /\ s \notin (IF k = key THEN Before(key) ELSE {})
       /\ \A k \in DOMAIN incidents : \A s \in Denied(k) :
            s \in DeniedOf(incidents'[k]) \/ (k = key /\ s \in Before(key))
       /\ \A o, p \in Before(key) : o = p
       /\ \A o \in Before(key) : o.cited \subseteq d.cited
       /\ PairedWith(n, e) \cup {e.id} \subseteq d.cited
       /\ \A x \in Events : x.type \in Exchange /\ x.id \in d.cited =>
            x = e \/ x.id \in PairedWith(n, e) \/ \E o \in Before(key) : x.id \in o.cited
       /\ IF key \in DOMAIN incidents THEN key = contained /\ e.marked ELSE key[1] = "denial" /\ key # contained

LEMMA NowToldFacts ==
    ASSUME Reading, Taking({"NETWORK_DENY"}), UNCHANGED contextVars, NEW key, NEW i, NEW cited, Retelling(key, i, cited)
    PROVE  \E d : NowTold(key, d)
<1> DEFINE e == ordered[next]
           n == Network(e.resource)
<1>1. e \in Events /\ Past \subseteq Events
  BY TakenFacts
<1>2. \A x, y \in Events : x.id = y.id => x = y
  BY ReadingFacts DEF NamedOnce
<1>3. /\ DOMAIN incidents' = DOMAIN incidents \cup {key}
      /\ \A k \in DOMAIN incidents : k # key => DeniedOf(incidents'[k]) = DeniedOf(incidents[k])
      /\ Tells(i, e, n, cited, incidents'[key])
      /\ PairedWith(n, e) \cup {e.id} \subseteq cited
      /\ cited \subseteq PairedWith(n, e) \cup {e.id} \cup {f.id : f \in Activations}
      /\ \A s, t \in DeniedOf(i) : s.about = t.about => s = t
      /\ IF key \in DOMAIN incidents THEN key = contained /\ e.marked /\ DeniedOf(i) = DeniedOf(incidents[key])
         ELSE key[1] = "denial" /\ key # contained /\ DeniedOf(i) = {}
  BY DEF Retelling
<1>4. Before(key) = {t \in DeniedOf(i) : t.about = n}
  BY <1>3 DEF Before, Denied
<1> HIDE DEF e, n
<1>5. PICK d \in DeniedOf(incidents'[key]) :
        /\ d.about = n /\ d.cited = cited \cup UNION {s.cited : s \in Before(key)}
        /\ \A s \in DeniedOf(incidents'[key]) : s = d \/ (s \in DeniedOf(i) /\ s.about # n)
  BY <1>3, <1>4 DEF Tells
<1>6. \A s \in DeniedOf(i) : s.about # n => s \in DeniedOf(incidents'[key])
  BY <1>3 DEF Tells
<1>7. ASSUME NEW k \in DOMAIN incidents', NEW s \in DeniedOf(incidents'[k])
      PROVE  \/ k = key /\ s = d
             \/ k \in DOMAIN incidents /\ s \in Denied(k) /\ s \notin (IF k = key THEN Before(key) ELSE {})
  <2>1. CASE k = key
    BY <1>3, <1>4, <1>5, <2>1 DEF Denied
  <2>2. CASE k # key
    BY <1>3, <2>2 DEF Denied
  <2> QED BY <2>1, <2>2
<1>8. ASSUME NEW k \in DOMAIN incidents, NEW s \in Denied(k)
      PROVE  s \in DeniedOf(incidents'[k]) \/ (k = key /\ s \in Before(key))
  <2>1. CASE k = key
    BY <1>3, <1>4, <1>6, <2>1 DEF Denied
  <2>2. CASE k # key
    BY <1>3, <2>2 DEF Denied
  <2> QED BY <2>1, <2>2
<1>9. (\A o, p \in Before(key) : o = p) /\ \A o \in Before(key) : o.cited \subseteq d.cited
  BY <1>3, <1>4, <1>5
<1>10. ASSUME NEW x \in Events, x.type \in Exchange, x.id \in d.cited
       PROVE  x = e \/ x.id \in PairedWith(n, e) \/ \E o \in Before(key) : x.id \in o.cited
  <2>1. x.id \notin {f.id : f \in Activations}
    BY <1>1, <1>2, <1>10 DEF Activations, Of, Exchange
  <2>2. x.id \in cited \/ \E o \in Before(key) : x.id \in o.cited
    BY <1>5, <1>10
  <2>3. x.id = e.id => x = e
    BY <1>1, <1>2
  <2> QED BY <1>3, <2>1, <2>2, <2>3
<1>11. NowTold(key, d)
  BY <1>3, <1>5, <1>7, <1>8, <1>9, <1>10 DEF NowTold, e, n
<1> QED BY <1>11

\* The request that a denial is paired with.
LEMMA PairedFacts ==
    ASSUME Reading, Awaiting, Taking({"NETWORK_DENY"}), UNCHANGED contextVars
    PROVE  LET e == ordered[next]
               n == Network(e.resource)
           IN \A x \in Events : x.id \in PairedWith(n, e) =>
                /\ n \in DOMAIN pending /\ x = pending[n] /\ x.type = "NETWORK_REQUEST" /\ x \in Past
                /\ n = Network(x.resource) /\ BeforeOrEqual(x, e) /\ PairedWith(n, e) = {x.id}
<1> DEFINE e == ordered[next]
           n == Network(e.resource)
<1> SUFFICES ASSUME NEW x \in Events, x.id \in PairedWith(n, e)
             PROVE  /\ n \in DOMAIN pending /\ x = pending[n] /\ x.type = "NETWORK_REQUEST" /\ x \in Past
                    /\ n = Network(x.resource) /\ BeforeOrEqual(x, e) /\ PairedWith(n, e) = {x.id}
  OBVIOUS
<1>1. n \in DOMAIN pending /\ BeforeOrEqual(pending[n], e) /\ x.id = pending[n].id /\ PairedWith(n, e) = {pending[n].id}
  BY DEF PairedWith
<1>2. pending[n] \in Past /\ pending[n].type = "NETWORK_REQUEST" /\ n = Network(pending[n].resource)
  BY <1>1 DEF Awaiting, Of
<1>3. pending[n] \in Events
  BY <1>2, TakenFacts
<1>4. x = pending[n]
  BY <1>1, <1>3, ReadingFacts DEF NamedOnce
<1> QED BY <1>1, <1>2, <1>4

LEMMA AddCount ==
    ASSUME NEW A, NEW B, NEW P, IsFiniteSet(A), IsFiniteSet(B), Cardinality(A) <= Cardinality(B), NEW e, e \notin B,
           P = {} \/ \E p : P = {p}
    PROVE  Cardinality(A \cup P) <= Cardinality(B \cup {e})
<1>1. Cardinality(B \cup {e}) = Cardinality(B) + 1 /\ Cardinality(A) \in Nat /\ Cardinality(B) \in Nat
  BY FS_AddElement, FS_CardinalityType
<1>2. CASE P = {}
  <2>1. A \cup P = A
    BY <1>2
  <2> QED BY <1>1, <2>1
<1>3. ASSUME NEW p, P = {p} PROVE Cardinality(A \cup P) <= Cardinality(B \cup {e})
  <2>1. CASE p \in A
    <3>1. A \cup P = A
      BY <1>3, <2>1
    <3> QED BY <1>1, <3>1
  <2>2. CASE p \notin A
    <3>1. Cardinality(A \cup {p}) = Cardinality(A) + 1
      BY <2>2, FS_AddElement
    <3> QED BY <1>1, <1>3, <3>1
  <2> QED BY <2>1, <2>2
<1> QED BY <1>2, <1>3


\* The evidence of what is told now: that of what was told before, the denial and its request.
LEMMA NowCites ==
    ASSUME Reading, Awaiting, Accounting, Taking({"NETWORK_DENY"}), UNCHANGED contextVars,
           NEW key, NEW d, NowTold(key, d)
    PROVE  LET e == ordered[next]
               n == Network(e.resource)
               old == UNION {o.cited : o \in Before(key)}
           IN /\ Cited(d.cited, "NETWORK_REQUEST") = Cited(old, "NETWORK_REQUEST") \cup Cited(PairedWith(n, e), "NETWORK_REQUEST")
              /\ Cited(d.cited, "NETWORK_DENY") = Cited(old, "NETWORK_DENY") \cup {e}
              /\ \A o \in Before(key) : Matching(o) /\ old = o.cited /\ o.about = n
<1> DEFINE e == ordered[next]
           n == Network(e.resource)
           old == UNION {o.cited : o \in Before(key)}
<1>1. e \in Events /\ e.type = "NETWORK_DENY"
  BY TakenFacts
<1>2. \A x \in Events : x.id \in PairedWith(n, e) => x.type = "NETWORK_REQUEST"
  BY PairedFacts
<1>3. /\ \A o, p \in Before(key) : o = p
      /\ \A o \in Before(key) : o.cited \subseteq d.cited
      /\ PairedWith(n, e) \cup {e.id} \subseteq d.cited
      /\ \A x \in Events : x.type \in Exchange /\ x.id \in d.cited =>
            x = e \/ x.id \in PairedWith(n, e) \/ \E o \in Before(key) : x.id \in o.cited
  BY DEF NowTold
<1>4. \A o \in Before(key) : Matching(o) /\ o.about = n
  BY DEF Before, Accounting
<1> HIDE DEF e, n
<1>5. \A o \in Before(key) : old = o.cited
  BY <1>3
<1>6. Cited(d.cited, "NETWORK_REQUEST") = Cited(old, "NETWORK_REQUEST") \cup Cited(PairedWith(n, e), "NETWORK_REQUEST")
  BY <1>1, <1>3 DEF Cited, OfType, Exchange
<1>7. Cited(d.cited, "NETWORK_DENY") = Cited(old, "NETWORK_DENY") \cup {e}
  BY <1>1, <1>2, <1>3 DEF Cited, OfType, Exchange
<1> QED BY <1>4, <1>5, <1>6, <1>7 DEF e, n

LEMMA NowMatching ==
    ASSUME Reading, Awaiting, Accounting, Taking({"NETWORK_DENY"}), UNCHANGED contextVars,
           NEW key, NEW d, NowTold(key, d)
    PROVE  Matching(d)' /\ (key = contained => AllMarked(d)')
<1> DEFINE e == ordered[next]
           n == Network(e.resource)
           old == UNION {o.cited : o \in Before(key)}
           A == Cited(old, "NETWORK_REQUEST")
           B == Cited(old, "NETWORK_DENY")
           P == Cited(PairedWith(n, e), "NETWORK_REQUEST")
<1>1. /\ Cited(d.cited, "NETWORK_REQUEST") = A \cup P /\ Cited(d.cited, "NETWORK_DENY") = B \cup {e}
      /\ \A o \in Before(key) : Matching(o) /\ old = o.cited /\ o.about = n
  BY NowCites
<1>2. /\ e \in Events /\ e.type = "NETWORK_DENY" /\ e \notin Past /\ Past \subseteq Past' /\ e \in Past'
      /\ Events' = Events /\ Past \subseteq Events
  BY TakenFacts
<1>3. \A x \in Events : x.id \in PairedWith(n, e) =>
        /\ n \in DOMAIN pending /\ x = pending[n] /\ x \in Past /\ n = Network(x.resource) /\ BeforeOrEqual(x, e)
  BY PairedFacts
<1>4. /\ d.about = n /\ PairedWith(n, e) \cup {e.id} \subseteq d.cited
      /\ \A o \in Before(key) : o.cited \subseteq d.cited
      /\ \A x \in Events : x.type \in Exchange /\ x.id \in d.cited =>
            x = e \/ x.id \in PairedWith(n, e) \/ \E o \in Before(key) : x.id \in o.cited
      /\ IF key \in DOMAIN incidents THEN key = contained /\ e.marked ELSE key[1] = "denial" /\ key # contained
  BY DEF NowTold
<1>5. e.rid = NoRequest => PairedWith(n, e) = {e.id - 1}
  BY PairedRequest
<1>6. \A cited, type : Cited(cited, type)' = Cited(cited, type)
  BY <1>2, CitedStands
<1>7. n = Network(e.resource)
  OBVIOUS
<1> HIDE DEF e, n
<1>8. \A x \in Events : x.type \in Exchange /\ x.id \in d.cited => x \in Past' /\ d.about = Network(x.resource)
  BY <1>1, <1>2, <1>3, <1>4, <1>7 DEF Matching
<1>9. (Before(key) = {} => A = {} /\ B = {}) /\ (Before(key) # {} => \E o \in Before(key) : Matching(o) /\ old = o.cited)
  BY <1>1 DEF Cited
<1>10. /\ \A x \in B : x.rid = NoRequest => x.id - 1 \in old
       /\ Cardinality(A) <= Cardinality(B)
       /\ \A q \in A : \E x \in B : BeforeOrEqual(q, x)
       /\ B \subseteq Past
  <2>1. CASE Before(key) = {}
    <3>1. A = {} /\ B = {}
      BY <1>9, <2>1
    <3>2. Cardinality({}) = 0
      BY FS_EmptySet
    <3> HIDE DEF A, B
    <3> QED BY <3>1, <3>2
  <2>2. CASE Before(key) # {}
    <3>1. PICK o \in Before(key) : Matching(o) /\ old = o.cited
      BY <1>9, <2>2
    <3>2. B \subseteq Past
      BY <3>1 DEF Matching, Cited, OfType, Exchange
    <3> QED BY <3>1, <3>2 DEF Matching
  <2> QED BY <2>1, <2>2
<1>11. old \subseteq d.cited
  BY <1>4
<1>12. IsFiniteSet(A) /\ IsFiniteSet(B)
  <2>1. IsFiniteSet(Events)
    BY ReadingFacts DEF TrailSound
  <2>2. A \in SUBSET Events /\ B \in SUBSET Events
    BY DEF Cited, OfType
  <2> QED BY <2>1, <2>2, FS_Subset
<1>13. P = {} \/ \E p : P = {p}
  <2>1. \A x \in P : x = pending[n]
    BY <1>3 DEF Cited, OfType
  <2> QED BY <2>1
<1>14. Cardinality(A \cup P) <= Cardinality(B \cup {e})
  <2>1. e \notin B
    BY <1>2, <1>10
  <2> HIDE DEF A, B, P
  <2> QED BY <1>10, <1>12, <1>13, <2>1, AddCount
<1>15. \A x \in B \cup {e} : x.rid = NoRequest => x.id - 1 \in d.cited
  BY <1>4, <1>5, <1>10, <1>11
<1>16. \A q \in A \cup P : \E x \in B \cup {e} : BeforeOrEqual(q, x)
  BY <1>3, <1>10 DEF Cited, OfType
<1> HIDE DEF A, B, P, old
<1>17. Matching(d)'
  BY <1>1, <1>2, <1>6, <1>8, <1>14, <1>15, <1>16 DEF Matching
<1>18. ASSUME key = contained PROVE AllMarked(d)'
  <2>1. e.marked
    BY <1>4, <1>18
  <2>2. \A x \in B : x.marked
    <3>1. ASSUME NEW x \in B PROVE x.marked
      <4>1. PICK o \in Before(key) : x \in Cited(o.cited, "NETWORK_DENY")
        BY <3>1 DEF B, old, Cited
      <4>2. AllMarked(o)
        BY <1>18, <4>1 DEF Before, Accounting
      <4> QED BY <4>1, <4>2 DEF AllMarked
    <3> QED BY <3>1
  <2> QED BY <1>1, <1>6, <2>1, <2>2 DEF AllMarked
<1> QED BY <1>17, <1>18


LEMMA AccountingDeny ==
    ASSUME Reading, Awaiting, Accounting, Taking({"NETWORK_DENY"}), UNCHANGED contextVars, contained' = contained,
           NEW key, NEW d, NowTold(key, d)
    PROVE  Accounting'
<1> DEFINE e == ordered[next]
           n == Network(e.resource)
           before(k) == IF k = key THEN Before(key) ELSE {}
<1>1. /\ e \in Events /\ e.type = "NETWORK_DENY" /\ e \notin Past /\ Past \subseteq Past' /\ Events' = Events
      /\ Of(Past, "NETWORK_DENY")' = Of(Past, "NETWORK_DENY") \cup {e}
  BY TakenFacts, PastFacts
<1>2. \A x \in Events : x.id \in PairedWith(n, e) => n \in DOMAIN pending /\ x = pending[n]
  BY PairedFacts
<1>3. /\ DOMAIN incidents' = DOMAIN incidents \cup {key} /\ d \in DeniedOf(incidents'[key]) /\ d.about = n
      /\ \A k \in DOMAIN incidents' : \A s \in DeniedOf(incidents'[k]) :
            (k = key /\ s = d) \/ (k \in DOMAIN incidents /\ s \in Denied(k) /\ s \notin before(k))
      /\ \A k \in DOMAIN incidents : \A s \in Denied(k) : s \in DeniedOf(incidents'[k]) \/ (k = key /\ s \in Before(key))
      /\ \A o \in Before(key) : o.cited \subseteq d.cited
      /\ PairedWith(n, e) \cup {e.id} \subseteq d.cited
      /\ \A x \in Events : x.type \in Exchange /\ x.id \in d.cited =>
            x = e \/ x.id \in PairedWith(n, e) \/ \E o \in Before(key) : x.id \in o.cited
      /\ IF key \in DOMAIN incidents THEN key = contained /\ e.marked ELSE key[1] = "denial" /\ key # contained
  BY DEF NowTold
<1>4. \A o \in Before(key) : key \in DOMAIN incidents /\ o \in Denied(key)
  BY DEF Before
<1>5. Matching(d)' /\ (key = contained => AllMarked(d)')
  BY NowMatching
<1> HIDE DEF e, n
<1>6. \A k \in DOMAIN incidents' : DeniedOf(incidents'[k]) # {} => k = contained' \/ k[1] = "denial"
  <2>1. SUFFICES ASSUME NEW k \in DOMAIN incidents', NEW s \in DeniedOf(incidents'[k]) PROVE k = contained \/ k[1] = "denial"
    OBVIOUS
  <2>2. CASE k \in DOMAIN incidents /\ s \in Denied(k)
    BY <2>2 DEF Accounting
  <2>3. CASE k = key
    BY <1>3, <2>3
  <2> QED BY <1>3, <2>1, <2>2, <2>3
<1>7. ASSUME NEW f \in Of(Past, "NETWORK_DENY") \cup {e}
      PROVE  \E k \in DOMAIN incidents' : \E s \in DeniedOf(incidents'[k]) : f.id \in s.cited
  <2>1. CASE f = e
    BY <1>3, <2>1
  <2>2. CASE f \in Of(Past, "NETWORK_DENY")
    <3>1. PICK k \in DOMAIN incidents : \E s \in Denied(k) : f.id \in s.cited
      BY <2>2 DEF Accounting
    <3>2. PICK s \in Denied(k) : f.id \in s.cited
      BY <3>1
    <3>3. CASE s \in DeniedOf(incidents'[k])
      BY <1>3, <3>2, <3>3
    <3>4. CASE k = key /\ s \in Before(key)
      BY <1>3, <3>2, <3>4
    <3> QED BY <1>3, <3>3, <3>4
  <2> QED BY <2>1, <2>2
\* What is told now is told nowhere else.
<1>8. ASSUME NEW l \in DOMAIN incidents, NEW t \in Denied(l), t \notin before(l),
             NEW x \in Events, x.type \in Exchange, x.id \in d.cited, x.id \in t.cited
      PROVE  FALSE
  <2>1. x \in Past
    BY <1>8 DEF Accounting, Matching
  <2>2. CASE x = e
    BY <1>1, <2>1, <2>2
  <2>3. CASE x.id \in PairedWith(n, e)
    <3>1. n \in DOMAIN pending /\ x = pending[n]
      BY <1>2, <2>3
    <3> QED BY <1>8, <3>1 DEF Awaiting
  <2>4. ASSUME NEW o \in Before(key), x.id \in o.cited PROVE FALSE
    <3>1. Separate(key, o, l, t)
      BY <1>4 DEF Accounting
    <3>2. key = l /\ o = t
      BY <1>8, <2>4, <3>1 DEF Separate
    <3> QED BY <1>8, <3>2
  <2> QED BY <1>3, <1>8, <2>2, <2>3, <2>4
<1>9. ASSUME NEW k \in DOMAIN incidents', NEW l \in DOMAIN incidents',
             NEW s \in DeniedOf(incidents'[k]), NEW t \in DeniedOf(incidents'[l]),
             NEW x \in Events, x.type \in Exchange, x.id \in s.cited, x.id \in t.cited
      PROVE  k = l /\ s = t
  <2> HIDE DEF before
  <2>1. (k = key /\ s = d) \/ (k \in DOMAIN incidents /\ s \in Denied(k) /\ s \notin before(k))
    BY <1>3
  <2>2. (l = key /\ t = d) \/ (l \in DOMAIN incidents /\ t \in Denied(l) /\ t \notin before(l))
    BY <1>3
  <2>3. CASE k \in DOMAIN incidents /\ s \in Denied(k) /\ l \in DOMAIN incidents /\ t \in Denied(l)
    <3>1. Separate(k, s, l, t)
      BY <2>3 DEF Accounting
    <3> QED BY <1>9, <3>1 DEF Separate
  <2> QED BY <1>8, <1>9, <2>1, <2>2, <2>3
<1>10. \A k, l \in DOMAIN incidents' : \A s \in DeniedOf(incidents'[k]), t \in DeniedOf(incidents'[l]) : Separate(k, s, l, t)'
  BY <1>1, <1>9 DEF Separate
<1>11. ASSUME NEW k \in DOMAIN incidents', NEW s \in DeniedOf(incidents'[k])
       PROVE  Matching(s)' /\ (k = contained' => AllMarked(s)')
  <2>1. CASE k = key /\ s = d
    BY <1>5, <2>1
  <2>2. CASE k \in DOMAIN incidents /\ s \in Denied(k)
    <3>1. Matching(s) /\ (k = contained => AllMarked(s))
      BY <2>2 DEF Accounting
    <3>2. Matching(s)' /\ (AllMarked(s)' <=> AllMarked(s))
      BY <1>1, <3>1, MatchingStands
    <3> QED BY <3>1, <3>2
  <2> QED BY <1>3, <2>1, <2>2
<1> QED BY <1>1, <1>6, <1>7, <1>10, <1>11 DEF Accounting, Denied

LEMMA AwaitingDeny ==
    ASSUME Reading, Awaiting, Taking({"NETWORK_DENY"}), UNCHANGED contextVars,
           pending' = Unpaired(Network(ordered[next].resource), ordered[next]), NEW key, NEW d, NowTold(key, d)
    PROVE  Awaiting'
<1> DEFINE e == ordered[next]
           n == Network(e.resource)
<1>1. /\ e \in Events /\ e.type = "NETWORK_DENY" /\ Events' = Events /\ ordered' = ordered /\ Past \subseteq Events
      /\ ordered[next' - 1].type \in Consumed => next' - 1 = next
  BY TakenFacts DEF contextVars
<1>2. Of(Past, "NETWORK_REQUEST")' = Of(Past, "NETWORK_REQUEST")
  BY <1>1, PastFacts
<1>3. \A x \in Events : x.id \in PairedWith(n, e) => n \in DOMAIN pending /\ x = pending[n]
  BY PairedFacts
<1>4. /\ \A k \in DOMAIN incidents' : \A s \in DeniedOf(incidents'[k]) :
            (k = key /\ s = d) \/ (k \in DOMAIN incidents /\ s \in Denied(k))
      /\ \A x \in Events : x.type \in Exchange /\ x.id \in d.cited =>
            x = e \/ x.id \in PairedWith(n, e) \/ \E o \in Before(key) : x.id \in o.cited
  BY DEF NowTold
<1>5. /\ \A m \in DOMAIN pending' : m \in DOMAIN pending /\ pending'[m] = pending[m]
      /\ PairedWith(n, e) # {} => n \notin DOMAIN pending'
  BY DEF Unpaired
<1> HIDE DEF e, n
<1>6. ASSUME NEW m \in DOMAIN pending'
      PROVE  /\ pending'[m] \in Of(Past, "NETWORK_REQUEST")' /\ m = Network(pending'[m].resource)
             /\ \A k \in DOMAIN incidents' : \A s \in DeniedOf(incidents'[k]) : pending'[m].id \notin s.cited
  <2> DEFINE x == pending[m]
  <2>1. /\ m \in DOMAIN pending /\ pending'[m] = x /\ x \in Of(Past, "NETWORK_REQUEST") /\ m = Network(x.resource)
        /\ \A k \in DOMAIN incidents : \A s \in Denied(k) : x.id \notin s.cited
    BY <1>5 DEF Awaiting
  <2>2. x \in Events /\ x.type = "NETWORK_REQUEST" /\ x.type \in Exchange
    BY <1>1, <2>1 DEF Of, Exchange
  <2> HIDE DEF x
  <2>3. x.id \notin d.cited
    <3>1. SUFFICES ASSUME x.id \in d.cited PROVE FALSE
      OBVIOUS
    <3>2. CASE x = e
      BY <1>1, <2>2, <3>2
    <3>3. CASE x.id \in PairedWith(n, e)
      <4>1. n \in DOMAIN pending /\ x = pending[n] /\ n \notin DOMAIN pending'
        BY <1>3, <1>5, <2>2, <3>3
      <4>2. n = Network(x.resource)
        BY <4>1 DEF Awaiting
      <4> QED BY <2>1, <4>1, <4>2
    <3>4. ASSUME NEW o \in Before(key), x.id \in o.cited PROVE FALSE
      BY <2>1, <3>4 DEF Before
    <3> QED BY <1>4, <2>2, <3>1, <3>2, <3>3, <3>4
  <2>4. \A k \in DOMAIN incidents' : \A s \in DeniedOf(incidents'[k]) : x.id \notin s.cited
    BY <1>4, <2>1, <2>3
  <2> QED BY <1>2, <2>1, <2>4
<1>7. ordered'[next' - 1].type # "NETWORK_REQUEST"
  <2>1. SUFFICES ASSUME ordered[next' - 1].type = "NETWORK_REQUEST" PROVE FALSE
    BY <1>1
  <2>2. ordered[next' - 1] = e
    BY <1>1, <2>1 DEF Consumed, e
  <2> QED BY <1>1, <2>1, <2>2
<1> QED BY <1>6, <1>7 DEF Awaiting, Denied

LEMMA DenialStep ==
    ASSUME StoredInvariant, ReplayInvariant, ContainmentInvariant, DenialInvariant, [Next]_vars
    PROVE  DenialInvariant'
<1> SUFFICES ASSUME stage' = "reading" PROVE Awaiting' /\ Accounting'
  BY DEF DenialInvariant
<1>1. CASE Read
  <2>1. /\ incidents' = <<>> /\ pending' = <<>> /\ \A i \in 1 .. next' - 1 : ordered'[i].type \notin Consumed
        /\ next' \in 1 .. Len(ordered') + 1 /\ ReplayInvariant'
    BY <1>1, BeginSound
  <2>2. {"NETWORK_REQUEST", "NETWORK_DENY"} \subseteq Consumed
    BY DEF Consumed
  <2>3. Of(Past, "NETWORK_DENY")' = {}
    BY <2>1, <2>2 DEF Of, Past
  <2>4. DOMAIN incidents' = {} /\ DOMAIN pending' = {}
    BY <2>1
  <2>5. next' > 1 => ordered'[next' - 1].type # "NETWORK_REQUEST"
    <3>1. ordered' \in Seq(Range(ordered'))
      <4>1. TrailSound(Range(stored)) /\ ordered' = Ordered(Range(stored))
        BY <1>1 DEF Read, Begin, StoredInvariant
      <4>2. Dated(Range(stored))
        BY <4>1 DEF TrailSound, IsEvent, Dated
      <4> HIDE DEF Range
      <4> QED BY <4>1, <4>2, OrderedFacts
    <3>2. Len(ordered') \in Nat
      BY <3>1
    <3>3. next' > 1 => next' - 1 \in 1 .. next' - 1
      <4>1. \A a \in Nat : a > 1 => a - 1 \in 1 .. a - 1
        OBVIOUS
      <4>2. next' \in Nat
        BY <2>1, <3>2
      <4> QED BY <4>1, <4>2
    <3> QED BY <2>1, <2>2, <3>3
  <2> QED BY <2>3, <2>4, <2>5 DEF Awaiting, Accounting
<1>2. CASE Reading /\ UNCHANGED replayVars
  <2>1. Awaiting /\ Accounting
    BY <1>2 DEF Reading, DenialInvariant
  <2>2. Past' = Past /\ Events' = Events
    BY <1>2 DEF Past, Events, replayVars
  <2>3. /\ Of(Past, "NETWORK_DENY")' = Of(Past, "NETWORK_DENY")
        /\ Of(Past, "NETWORK_REQUEST")' = Of(Past, "NETWORK_REQUEST")
        /\ \A k : Denied(k)' = Denied(k)
        /\ UNCHANGED <<ordered, next, incidents, pending, contained>>
    BY <1>2, <2>2 DEF Of, Denied, replayVars
  <2>4. Awaiting'
    BY <2>1, <2>3 DEF Awaiting
  <2>5. \A k, s, l, t : Separate(k, s, l, t)' <=> Separate(k, s, l, t)
    BY <2>2 DEF Separate
  <2>6. \A s : Matching(s) => Matching(s)' /\ (AllMarked(s)' <=> AllMarked(s))
    BY <2>2, MatchingStands
  <2>7. Accounting'
    BY <2>1, <2>3, <2>5, <2>6 DEF Accounting
  <2> QED BY <2>4, <2>7
<1>3. CASE Reading /\ (QuietConsume \/ ConsumeContainmentFirst \/ ConsumeContainmentAgain)
  <2>1. Awaiting /\ Accounting
    BY <1>3 DEF Reading, DenialInvariant
  <2>2. Silent /\ \E types : Taking(types) /\ UNCHANGED contextVars /\ "NETWORK_DENY" \notin types
    BY <1>3, SilentSteps
  <2> QED BY <1>3, <2>1, <2>2, AwaitingSilent, AccountingSilent
<1>4. CASE Reading /\ (ConsumeDenyContained \/ ConsumeDeny)
  <2>1. Awaiting /\ Accounting
    BY <1>4 DEF Reading, DenialInvariant
  <2>2. Taking({"NETWORK_DENY"}) /\ UNCHANGED contextVars /\ contained' = contained
    BY <1>4 DEF ConsumeDenyContained, ConsumeDeny
  <2>3. pending' = Unpaired(Network(ordered[next].resource), ordered[next])
    BY <1>4, DenyJoined, DenyAlone
  <2>4. PICK key, i, cited : Retelling(key, i, cited)
    BY <1>4, RetellingFacts
  <2>5. PICK d : NowTold(key, d)
    BY <1>4, <2>2, <2>4, NowToldFacts
  <2> QED BY <1>4, <2>1, <2>2, <2>3, <2>5, AwaitingDeny, AccountingDeny
<1> QED BY <1>1, <1>2, <1>3, <1>4, ReplayCases

\* The replay pairs denials with their requests: consumeDeny of reconstruct.go.
THEOREM DenialInvariance == Spec => [](ContainmentInvariant /\ DenialInvariant)
<1>1. Init => DenialInvariant
  BY DEF Init, DenialInvariant
<1>2. /\ StoredInvariant /\ ReplayInvariant /\ ContainmentInvariant /\ DenialInvariant /\ [Next]_vars => DenialInvariant'
  BY DenialStep
<1> QED BY <1>1, <1>2, ContainmentInvariance, ReplayInvariance, PTL DEF Spec


\* ContainmentOwned: activations have one owner (consumeContainment of reconstruct.go), and what is
\* said to be denied after containment was (consumeDeny), by the markers of the log and recovery.
THEOREM ContainmentHasItsOwner == Spec => []ContainmentOwned
<1>1. StoredInvariant /\ ReplayInvariant /\ ContainmentInvariant /\ DenialInvariant => LaterIsLater
  <2> SUFFICES ASSUME StoredInvariant, ReplayInvariant, ContainmentInvariant, DenialInvariant,
                      contained # NoIncident,
                      NEW s \in Statements(contained, {"NETWORK_DENIED"}), NEW e \in Cited(s.cited, "NETWORK_DENY")
               PROVE  e.marked
    BY DEF LaterIsLater
  <2>1. stage = "reading"
    BY DEF ReplayInvariant, ReplayInit
  <2>2. contained \in DOMAIN incidents
    BY <2>1, OwnerFacts DEF Reading
  <2>3. s \in Denied(contained)
    BY DEF Statements, Denied, DeniedOf
  <2>4. AllMarked(s)
    BY <2>1, <2>2, <2>3 DEF DenialInvariant, Accounting
  <2> QED BY <2>4 DEF AllMarked
<1>2. StoredInvariant /\ ReplayInvariant /\ ContainmentInvariant => ActivationsHaveOneOwner
  BY OneOwner
<1>3. StoredInvariant /\ ReplayInvariant /\ ContainmentInvariant /\ DenialInvariant => ContainmentOwned
  BY <1>1, <1>2 DEF ContainmentOwned
<1> QED BY <1>3, ReplayInvariance, DenialInvariance, PTL

\* Denials are statements about denials, with the keys of their incidents.
LEMMA DenialsAre ==
    /\ \A d \in Denials : /\ d[1] \in DOMAIN incidents /\ d[2] \in Denied(d[1])
                          /\ d = <<d[1], d[2]>>
    /\ \A key \in DOMAIN incidents : \A s \in Denied(key) : <<key, s>> \in Denials
<1>1. \A key : Statements(key, {"NETWORK_DENIED"}) = Denied(key)
  BY DEF Statements, Denied, DeniedOf
<1>2. \A d \in Denials : \E key \in DOMAIN incidents : \E s \in Denied(key) : d = <<key, s>>
  BY <1>1 DEF Denials
<1>3. \A key \in DOMAIN incidents : \A s \in Denied(key) : <<key, s>> \in Denials
  BY <1>1 DEF Denials
<1> QED BY <1>2, <1>3

\* DenialsAccountedFor: every denial is told once, with its own request: consumeDeny and
\* pendingRequests of reconstruct.go.
THEOREM EveryDenialIsAccountedFor == Spec => []DenialsAccountedFor
<1>1. StoredInvariant /\ ReplayInvariant /\ DenialInvariant => DenialsAccountedFor
  <2> SUFFICES ASSUME StoredInvariant, ReplayInvariant, DenialInvariant, Replayed PROVE DenialsAccountedFor
    BY DEF DenialsAccountedFor
  <2>1. Reading /\ Past = Events
    BY ReplayedFacts
  <2>2. Accounting
    BY <2>1 DEF Reading, DenialInvariant
  <2>3. OfType("NETWORK_DENY") = Of(Past, "NETWORK_DENY")
    BY <2>1 DEF OfType, Of
  <2>4. ASSUME NEW d \in Denials, NEW other \in Denials, NEW x \in Events, x.type \in Exchange,
               x.id \in d[2].cited, x.id \in other[2].cited
        PROVE  d = other
    <3>1. Separate(d[1], d[2], other[1], other[2])
      BY <2>2, DenialsAre DEF Accounting
    <3>2. d[1] = other[1] /\ d[2] = other[2]
      BY <2>4, <3>1 DEF Separate
    <3> QED BY <3>2, DenialsAre
  <2>5. ASSUME NEW e \in OfType("NETWORK_DENY")
        PROVE  Cardinality({d \in Denials : e.id \in d[2].cited}) = 1
    <3>0. PICK key \in DOMAIN incidents : \E s \in Denied(key) : e.id \in s.cited
      BY <2>2, <2>3 DEF Accounting
    <3>1. PICK s \in Denied(key) : e.id \in s.cited
      BY <3>0
    <3> DEFINE d == <<key, s>>
    <3>2. d \in Denials /\ e.id \in d[2].cited
      BY <3>1, DenialsAre
    <3>3. e \in Events /\ e.type \in Exchange
      BY DEF OfType, Exchange
    <3> HIDE DEF d
    <3>4. {f \in Denials : e.id \in f[2].cited} = {d}
      BY <2>4, <3>2, <3>3
    <3>5. Cardinality({d}) = 1
      BY FS_Singleton
    <3> QED BY <3>4, <3>5
  <2>6. ASSUME NEW d \in Denials
        PROVE  LET denied == Cited(d[2].cited, "NETWORK_DENY")
                   requested == Cited(d[2].cited, "NETWORK_REQUEST")
               IN /\ \A e \in denied : e.rid = NoRequest => e.id - 1 \in d[2].cited
                  /\ Cardinality(requested) <= Cardinality(denied)
                  /\ \A q \in requested : \E e \in denied : q.resource = e.resource /\ BeforeOrEqual(q, e)
                  /\ \A other \in Denials \ {d} : requested \cap Cited(other[2].cited, "NETWORK_REQUEST") = {}
    <3> DEFINE s == d[2]
               denied == Cited(s.cited, "NETWORK_DENY")
               requested == Cited(s.cited, "NETWORK_REQUEST")
    <3>1. Matching(s)
      BY <2>2, DenialsAre DEF Accounting
    <3> HIDE DEF s
    <3>2. \A x \in denied \cup requested : x \in Events /\ x.type \in Exchange /\ x.id \in s.cited
      BY DEF Cited, OfType, Exchange
    <3>3. ASSUME NEW q \in requested PROVE \E e \in denied : q.resource = e.resource /\ BeforeOrEqual(q, e)
      <4>1. PICK e \in denied : BeforeOrEqual(q, e)
        BY <3>1 DEF Matching
      <4>2. s.about = Network(q.resource) /\ s.about = Network(e.resource)
        BY <3>1, <3>2 DEF Matching
      <4>3. q.resource = e.resource
        BY <4>2 DEF Network
      <4> QED BY <4>1, <4>3
    <3>4. ASSUME NEW other \in Denials \ {d}, NEW q \in requested \cap Cited(other[2].cited, "NETWORK_REQUEST") PROVE FALSE
      <4>1. q.id \in other[2].cited /\ q \in Events /\ q.type \in Exchange /\ q.id \in d[2].cited
        BY <3>2 DEF Cited, s
      <4> QED BY <2>4, <3>4, <4>1
    <3>5. (\A e \in denied : e.rid = NoRequest => e.id - 1 \in s.cited) /\ Cardinality(requested) <= Cardinality(denied)
      BY <3>1 DEF Matching
    <3>6. \A other \in Denials \ {d} : requested \cap Cited(other[2].cited, "NETWORK_REQUEST") = {}
      BY <3>4
    <3> HIDE DEF denied, requested
    <3> QED BY <3>3, <3>5, <3>6 DEF denied, requested, s
  <2> QED BY <2>5, <2>6 DEF DenialsAccountedFor
<1> QED BY <1>1, ReplayInvariance, DenialInvariance, PTL

(* Approvals. *)

\* The denials that statements cite, and what was asked and answered for them.
CitedDenials(statements) == UNION {Cited(s.cited, "NETWORK_DENY") : s \in statements}
AskedFor(denied) == {a.id : a \in {b \in Events : b.type \in ApprovalTypes /\ \E e \in denied : e.rid = b.rid}}

\* An incident tells what was asked and answered for the denials it tells of, and nothing else.
ApprovalInvariant ==
    stage = "reading" =>
        /\ approvals = {a \in Past : a.type \in ApprovalTypes}
        /\ \A key \in DOMAIN incidents : ToldOfApprovals(incidents[key]) = AskedFor(CitedDenials(Denied(key)))

LEMMA ApprovalKept ==
    ASSUME Events' = Events, approvals' = {a \in Past' : a.type \in ApprovalTypes},
           \A k \in DOMAIN incidents' : ToldOfApprovals(incidents'[k]) = AskedFor(CitedDenials(DeniedOf(incidents'[k])))
    PROVE  ApprovalInvariant'
<1>1. \A k : CitedDenials(Denied(k))' = CitedDenials(DeniedOf(incidents'[k]))
  BY CitedStands DEF CitedDenials, Denied
<1>2. \A k : AskedFor(CitedDenials(Denied(k)))' = AskedFor(CitedDenials(DeniedOf(incidents'[k])))
  BY <1>1 DEF AskedFor
<1> QED BY <1>2 DEF ApprovalInvariant

LEMMA AskedParts ==
    /\ \A a, b : AskedFor(a \cup b) = AskedFor(a) \cup AskedFor(b)
    /\ AskedFor({}) = {} /\ CitedDenials({}) = {}
BY DEF AskedFor, CitedDenials

\* What may be said of a denial is all that was asked and answered for it.
LEMMA AskedBefore ==
    ASSUME Reading, ApprovalInvariant, Taking({"NETWORK_DENY"}), UNCHANGED contextVars
    PROVE  {a.id : a \in {b \in ApprovalsFor(ordered[next]) : SaidOf(b)}} = AskedFor({ordered[next]})
<1> DEFINE e == ordered[next]
<1>1. /\ e \in Events /\ e.type = "NETWORK_DENY" /\ Past \subseteq Events
      /\ \A f \in Events : BeforeOrEqual(f, e) => f \in Past \/ f = e
  BY TakenFacts
<1>2. approvals = {a \in Past : a.type \in ApprovalTypes}
  BY DEF Reading, ApprovalInvariant
<1>3. TrailSound(Events)
  BY ReadingFacts
<1> HIDE DEF e
<1>4. e \in Of(Events, "NETWORK_DENY") /\ e.type \notin ApprovalTypes
  BY <1>1 DEF Of, ApprovalTypes, Outcomes
<1>5. ASSUME NEW b \in Events, b.type \in ApprovalTypes, b.rid = e.rid
      PROVE  b \in ApprovalsFor(e) /\ SaidOf(b)
  <2>1. b.rid \in Connections /\ b.resource = "ask" /\ SaidOf(b) /\ BeforeOrEqual(b, e)
    BY <1>3, <1>4, <1>5 DEF TrailSound
  <2>2. e.rid # NoRequest
    BY <1>5, <2>1, TrailAssumption
  <2>3. e.resource = "ask"
    BY <1>3, <1>4, <2>2 DEF TrailSound
  <2>4. b \in approvals
    BY <1>1, <1>2, <1>4, <1>5, <2>1
  <2> QED BY <1>5, <2>1, <2>2, <2>3, <2>4 DEF ApprovalsFor
<1>6. ASSUME NEW b \in ApprovalsFor(e)
      PROVE  b \in Events /\ b.type \in ApprovalTypes /\ b.rid = e.rid
  BY <1>1, <1>2 DEF ApprovalsFor
<1>7. {b \in ApprovalsFor(e) : SaidOf(b)} = {b \in Events : b.type \in ApprovalTypes /\ \E f \in {e} : f.rid = b.rid}
  BY <1>5, <1>6
<1> QED BY <1>7 DEF AskedFor, e


\* What an approval's event changes, and no other.
LEMMA ApprovalsGrow ==
    ASSUME Reading, ApprovalInvariant, NEW types, Taking(types), UNCHANGED contextVars,
           approvals' = IF ordered[next].type \in ApprovalTypes THEN approvals \cup {ordered[next]} ELSE approvals
    PROVE  approvals' = {a \in Past' : a.type \in ApprovalTypes}
<1> DEFINE e == ordered[next]
<1>1. \A type \in Consumed : Of(Past', type) = Of(Past, type) \cup {f \in {e} : f.type = type}
  BY TakenFacts
<1>2. ApprovalTypes \subseteq Consumed
  BY DEF ApprovalTypes, Consumed, Outcomes
<1>3. approvals = {a \in Past : a.type \in ApprovalTypes}
  BY DEF Reading, ApprovalInvariant
<1> HIDE DEF e
<1>4. {a \in Past' : a.type \in ApprovalTypes} = {a \in Past : a.type \in ApprovalTypes} \cup {f \in {e} : f.type \in ApprovalTypes}
  BY <1>1, <1>2 DEF Of
<1> QED BY <1>3, <1>4 DEF e

LEMMA ApprovalsRead ==
    ASSUME Reading, QuietConsume \/ ConsumeContainmentFirst \/ ConsumeContainmentAgain \/ ConsumeDenyContained \/ ConsumeDeny
    PROVE  approvals' = IF ordered[next].type \in ApprovalTypes THEN approvals \cup {ordered[next]} ELSE approvals
<1>1. CASE ConsumeApproval
  BY <1>1 DEF ConsumeApproval, Taking, ApprovalTypes
<1>2. CASE \/ ConsumeStart \/ ConsumeUntrusted \/ ConsumeShadow \/ ConsumeDecoyAccessed \/ ConsumePrompt
           \/ ConsumeSensitive \/ ConsumeRecorded \/ ConsumeRequest
           \/ ConsumeContainmentFirst \/ ConsumeContainmentAgain \/ ConsumeDenyContained \/ ConsumeDeny
  <2>1. approvals' = approvals /\ ordered[next].type \notin ApprovalTypes
    BY <1>2, Zenon DEF ConsumeStart, ConsumeUntrusted, ConsumeShadow, ConsumeDecoyAccessed, ConsumePrompt, ConsumeSensitive,
                ConsumeRecorded, ConsumeRequest, ConsumeContainmentFirst, ConsumeContainmentAgain, ConsumeDenyContained,
                ConsumeDeny, Taking, ApprovalTypes, Outcomes
  <2> QED BY <2>1
<1> QED BY <1>1, <1>2 DEF QuietConsume

LEMMA ApprovalsDeny ==
    ASSUME Reading, Awaiting, Accounting, ApprovalInvariant, Taking({"NETWORK_DENY"}), UNCHANGED contextVars,
           NEW key, NEW i, NEW cited, Retelling(key, i, cited), NEW d, NowTold(key, d)
    PROVE  \A k \in DOMAIN incidents' :
                ToldOfApprovals(incidents'[k]) = AskedFor(CitedDenials(DeniedOf(incidents'[k])))
<1> DEFINE e == ordered[next]
           said == {a.id : a \in {b \in ApprovalsFor(e) : SaidOf(b)}}
           old == IF key \in DOMAIN incidents THEN Denied(key) ELSE {}
           new == DeniedOf(incidents'[key])
<1>1. said = AskedFor({e})
  BY AskedBefore
<1>2. \A k \in DOMAIN incidents : ToldOfApprovals(incidents[k]) = AskedFor(CitedDenials(Denied(k)))
  BY DEF Reading, ApprovalInvariant
<1>3. /\ DOMAIN incidents' = DOMAIN incidents \cup {key}
      /\ \A k \in DOMAIN incidents : k # key =>
            /\ DeniedOf(incidents'[k]) = Denied(k)
            /\ ToldOfApprovals(incidents'[k]) = ToldOfApprovals(incidents[k])
      /\ ToldOfApprovals(incidents'[key]) = ToldOfApprovals(i) \cup said
      /\ ToldOfApprovals(i) = IF key \in DOMAIN incidents THEN ToldOfApprovals(incidents[key]) ELSE {}
  BY DEF Retelling, Tells, Denied
<1>4. CitedDenials(new) = CitedDenials(old) \cup {e}
  <2>1. /\ d \in new /\ \A s \in new : s = d \/ s \in old
        /\ \A s \in old : s \in new \/ s \in Before(key)
        /\ Before(key) \subseteq old
    BY DEF NowTold, Before
  <2>2. /\ Cited(d.cited, "NETWORK_DENY") = Cited(UNION {o.cited : o \in Before(key)}, "NETWORK_DENY") \cup {e}
        /\ \A o \in Before(key) : UNION {p.cited : p \in Before(key)} = o.cited
    BY NowCites
  <2> HIDE DEF old, new, e
  <2>3. Cited(UNION {o.cited : o \in Before(key)}, "NETWORK_DENY") \subseteq CitedDenials(old)
    BY <2>1 DEF CitedDenials, Cited
  <2>4. \A o \in Before(key) : Cited(o.cited, "NETWORK_DENY") \subseteq Cited(d.cited, "NETWORK_DENY")
    BY <2>2
  <2>5. ASSUME NEW x \in CitedDenials(new) PROVE x \in CitedDenials(old) \cup {e}
    <3>1. PICK s \in new : x \in Cited(s.cited, "NETWORK_DENY")
      BY DEF CitedDenials
    <3>2. CASE s = d
      BY <2>2, <2>3, <3>1, <3>2
    <3>3. CASE s \in old
      BY <3>1, <3>3 DEF CitedDenials
    <3> QED BY <2>1, <3>2, <3>3
  <2>6. ASSUME NEW x \in CitedDenials(old) \cup {e} PROVE x \in CitedDenials(new)
    <3>1. CASE x = e
      BY <2>1, <2>2, <3>1 DEF CitedDenials
    <3>2. CASE x \in CitedDenials(old)
      <4>1. PICK s \in old : x \in Cited(s.cited, "NETWORK_DENY")
        BY <3>2 DEF CitedDenials
      <4>2. CASE s \in new
        BY <4>1, <4>2 DEF CitedDenials
      <4>3. CASE s \in Before(key)
        BY <2>1, <2>4, <4>1, <4>3 DEF CitedDenials
      <4> QED BY <2>1, <4>2, <4>3
    <3> QED BY <2>6, <3>1, <3>2
  <2> QED BY <2>5, <2>6
<1>5. ToldOfApprovals(i) = AskedFor(CitedDenials(old))
  BY <1>2, <1>3, AskedParts
<1> HIDE DEF e, said, old, new
<1>6. ToldOfApprovals(incidents'[key]) = AskedFor(CitedDenials(new))
  BY <1>1, <1>3, <1>4, <1>5, AskedParts
<1> QED BY <1>2, <1>3, <1>6 DEF new

LEMMA ApprovalStep ==
    ASSUME StoredInvariant, ReplayInvariant, ContainmentInvariant, DenialInvariant, ApprovalInvariant, [Next]_vars
    PROVE  ApprovalInvariant'
<1> SUFFICES ASSUME stage' = "reading"
             PROVE  ApprovalInvariant'
  BY DEF ApprovalInvariant
<1>1. CASE Read
  <2>1. /\ incidents' = <<>> /\ approvals' = {}
        /\ \A j \in 1 .. next' - 1 : ordered'[j].type \notin Consumed
    BY <1>1, BeginSound
  <2>2. ApprovalTypes \subseteq Consumed
    BY DEF ApprovalTypes, Consumed, Outcomes
  <2>3. {a \in Past' : a.type \in ApprovalTypes} = {}
    BY <2>1, <2>2 DEF Past
  <2>4. DOMAIN incidents' = {}
    BY <2>1
  <2> QED BY <2>1, <2>3, <2>4 DEF ApprovalInvariant
<1>2. CASE Reading /\ UNCHANGED replayVars
  <2>1. /\ approvals = {a \in Past : a.type \in ApprovalTypes}
        /\ \A k \in DOMAIN incidents : ToldOfApprovals(incidents[k]) = AskedFor(CitedDenials(DeniedOf(incidents[k])))
    BY <1>2 DEF Reading, ApprovalInvariant, Denied
  <2>2. Past' = Past /\ Events' = Events /\ UNCHANGED <<approvals, incidents>>
    BY <1>2 DEF Past, Events, replayVars
  <2> QED BY <2>1, <2>2, ApprovalKept
<1>3. CASE Reading /\ (QuietConsume \/ ConsumeContainmentFirst \/ ConsumeContainmentAgain)
  <2>1. PICK types : Taking(types) /\ UNCHANGED contextVars
    BY <1>3, SilentSteps
  <2>2. Silent /\ Events' = Events
    BY <1>3, <2>1, SilentSteps, TakenFacts
  <2>3. approvals' = {a \in Past' : a.type \in ApprovalTypes}
    BY <1>3, <2>1, ApprovalsRead, ApprovalsGrow
  <2>4. \A k \in DOMAIN incidents : ToldOfApprovals(incidents[k]) = AskedFor(CitedDenials(DeniedOf(incidents[k])))
    BY <1>3 DEF Reading, ApprovalInvariant, Denied
  <2>5. ASSUME NEW k \in DOMAIN incidents'
        PROVE  ToldOfApprovals(incidents'[k]) = AskedFor(CitedDenials(DeniedOf(incidents'[k])))
    BY <2>2, <2>4, AskedParts DEF Silent
  <2> QED BY <2>2, <2>3, <2>5, ApprovalKept
<1>4. CASE Reading /\ (ConsumeDenyContained \/ ConsumeDeny)
  <2>1. Awaiting /\ Accounting
    BY <1>4 DEF Reading, DenialInvariant
  <2>2. Taking({"NETWORK_DENY"}) /\ UNCHANGED contextVars
    BY <1>4 DEF ConsumeDenyContained, ConsumeDeny
  <2>3. Events' = Events
    BY <1>4, <2>2, TakenFacts
  <2>4. PICK key, i, cited : Retelling(key, i, cited)
    BY <1>4, RetellingFacts
  <2>5. PICK d : NowTold(key, d)
    BY <1>4, <2>2, <2>4, NowToldFacts
  <2>6. approvals' = {a \in Past' : a.type \in ApprovalTypes}
    BY <1>4, <2>2, ApprovalsRead, ApprovalsGrow
  <2>7. \A k \in DOMAIN incidents' : ToldOfApprovals(incidents'[k]) = AskedFor(CitedDenials(DeniedOf(incidents'[k])))
    BY <1>4, <2>1, <2>2, <2>4, <2>5, ApprovalsDeny
  <2> QED BY <2>3, <2>6, <2>7, ApprovalKept
<1> QED BY <1>1, <1>2, <1>3, <1>4, ReplayCases

\* ApprovalsMatch: addApprovalStatements of reconstruct.go tells of a denial what was asked and
\* answered for its own connection.
THEOREM ApprovalsAreOfTheirDenials == Spec => []ApprovalsMatch
<1>1. Init => ApprovalInvariant
  BY DEF Init, ApprovalInvariant
<1>2. /\ StoredInvariant /\ ReplayInvariant /\ ContainmentInvariant /\ DenialInvariant /\ ApprovalInvariant /\ [Next]_vars
      => ApprovalInvariant'
  BY ApprovalStep
<1>3. StoredInvariant /\ ReplayInvariant /\ ApprovalInvariant => ApprovalsMatch
  <2> SUFFICES ASSUME StoredInvariant, ReplayInvariant, ApprovalInvariant, Replayed, NEW key \in DOMAIN incidents
               PROVE  LET denied == UNION {Cited(s.cited, "NETWORK_DENY") : s \in Statements(key, {"NETWORK_DENIED"})}
                          told == UNION {s.cited : s \in Statements(key, {"APPROVAL_REQUIRED"} \cup Outcomes)}
                      IN told = {a.id : a \in {b \in Events : /\ b.type \in {"APPROVAL_REQUIRED"} \cup Outcomes
                                                              /\ \E e \in denied : e.rid = b.rid}}
    BY DEF ApprovalsMatch
  <2>1. Reading
    BY ReplayedFacts
  <2>2. ToldOfApprovals(incidents[key]) = AskedFor(CitedDenials(Denied(key)))
    BY <2>1 DEF Reading, ApprovalInvariant
  <2>3. /\ Statements(key, {"NETWORK_DENIED"}) = Denied(key)
        /\ UNION {s.cited : s \in Statements(key, {"APPROVAL_REQUIRED"} \cup Outcomes)} = ToldOfApprovals(incidents[key])
    BY DEF Statements, Denied, DeniedOf, ToldOfApprovals, ApprovalTypes
  <2> QED BY <2>2, <2>3 DEF AskedFor, CitedDenials, ApprovalTypes
<1> QED BY <1>1, <1>2, <1>3, ReplayInvariance, ContainmentInvariance, DenialInvariance, PTL DEF Spec
==============================================================================
