------------------------ MODULE WorkspaceScanProofs -------------------------
(***************************************************************************)
(* The inspection for any tree of paths, any contents, limits and any      *)
(* number of changes that other programs make.                             *)
(*                                                                         *)
(* Induction is over sets: of the counterexamples to a claim the first one *)
(* is taken, which the well-foundedness of the naturals gives.             *)
(***************************************************************************)
EXTENDS WorkspaceScan, FiniteSetTheorems, SequenceTheorems, WellFoundedInduction, TLAPS

AllPaths == Range(Paths)

\* A set of naturals has a least member.
LEMMA LeastOfNaturals ==
    ASSUME NEW T, T \subseteq Nat, T # {}
    PROVE  \E n \in T : \A m \in T : n <= m
<1>1. PICK n \in T : \A m \in T : ~(<<m, n>> \in OpToRel(<, Nat))
  BY NatLessThanWellFounded, WFMin
<1>2. ASSUME NEW m \in T PROVE n <= m
  <2>1. n \in Nat /\ m \in Nat
    OBVIOUS
  <2>2. m < n => <<m, n>> \in OpToRel(<, Nat)
    BY <2>1 DEF OpToRel
  <2>3. ~(m < n)
    BY <1>1, <2>2, Zenon
  <2> QED BY <2>1, <2>3
<1> QED BY <1>2

\* What InOrder promises: every member once, and nothing else.
LEMMA InOrderFacts ==
    ASSUME NEW S, IsFiniteSet(S), NEW place,
           \A p \in S : place[p] \in Nat,
           \A p, q \in S : place[p] = place[q] => p = q
    PROVE  /\ InOrder(S, place) \in Seq(S)
           /\ Len(InOrder(S, place)) = Cardinality(S)
           /\ Range(InOrder(S, place)) = S
           /\ \A i, j \in DOMAIN InOrder(S, place) : InOrder(S, place)[i] = InOrder(S, place)[j] => i = j
<1> DEFINE n == Cardinality(S)
           Before(p) == {q \in S : place[q] < place[p]}
           rank == [p \in S |-> Cardinality(Before(p)) + 1]
           enum == InOrder(S, place)
<1>1. n \in Nat /\ IsFiniteSet(1 .. n) /\ Cardinality(1 .. n) = n
  BY FS_CardinalityType, FS_Interval
<1>2. \A p \in S : IsFiniteSet(Before(p)) /\ Cardinality(Before(p)) \in Nat
  BY FS_Subset, FS_CardinalityType
<1>3. \A p, q \in S : q \in Before(p) <=> place[q] < place[p]
  OBVIOUS
<1>4. \A p \in S : Before(p) \subseteq S
  OBVIOUS
<1>5. rank \in [S -> Int] /\ \A p \in S : rank[p] = Cardinality(Before(p)) + 1
  BY <1>2
<1>6. /\ DOMAIN enum = 1 .. n
      /\ \A i \in 1 .. n : enum[i] = CHOOSE p \in S : Cardinality(Before(p)) = i - 1
  BY DEF InOrder
<1>7. ASSUME NEW p \in S PROVE IsFiniteSet(S \ {p}) /\ Cardinality(S \ {p}) = n - 1
  BY FS_RemoveElement
<1> HIDE DEF n, Before, rank, enum
<1>8. ASSUME NEW p \in S PROVE rank[p] \in 1 .. n
  <2>1. Before(p) \in SUBSET (S \ {p})
    BY <1>3, <1>4
  <2>2. IsFiniteSet(S \ {p}) /\ Cardinality(S \ {p}) = n - 1
    BY <1>7
  <2>3. Cardinality(Before(p)) <= Cardinality(S \ {p})
    BY <2>1, <2>2, FS_Subset
  <2> QED BY <1>1, <1>2, <1>5, <2>2, <2>3
<1>9. ASSUME NEW p \in S, NEW q \in S, place[p] < place[q] PROVE rank[p] < rank[q]
  <2>1. Before(p) \in SUBSET (Before(q) \ {p}) /\ p \in Before(q)
    BY <1>3, <1>4, <1>9
  <2>2. IsFiniteSet(Before(q)) /\ Cardinality(Before(q)) \in Nat /\ Cardinality(Before(p)) \in Nat
    BY <1>2
  <2>3. IsFiniteSet(Before(q) \ {p}) /\ Cardinality(Before(q) \ {p}) = Cardinality(Before(q)) - 1
    BY <2>1, <2>2, FS_RemoveElement
  <2>4. Cardinality(Before(p)) <= Cardinality(Before(q)) - 1
    BY <2>1, <2>3, FS_Subset
  <2>5. rank[p] = Cardinality(Before(p)) + 1 /\ rank[q] = Cardinality(Before(q)) + 1
    BY <1>5
  <2> QED BY <2>2, <2>4, <2>5
<1>10. ASSUME NEW p \in S, NEW q \in S, rank[p] = rank[q] PROVE p = q
  <2>1. rank[p] \in Int /\ rank[q] \in Int /\ place[p] \in Nat /\ place[q] \in Nat
    BY <1>5
  <2>2. ~(place[p] < place[q]) /\ ~(place[q] < place[p])
    BY <1>9, <1>10, <2>1
  <2> QED BY <2>1, <2>2
<1>11. rank \in Injection(S, 1 .. n)
  <2>1. rank \in [S -> 1 .. n]
    BY <1>5, <1>8
  <2>2. \A p, q \in S : rank[p] = rank[q] => p = q
    BY <1>10
  <2> QED BY <2>1, <2>2 DEF Injection, IsInjective
<1>12. rank \in Surjection(S, 1 .. n)
  BY <1>1, <1>11, FS_Injection DEF n
<1>13. ASSUME NEW i \in 1 .. n PROVE enum[i] \in S /\ rank[enum[i]] = i
  <2>1. PICK p \in S : rank[p] = i
    BY <1>12 DEF Surjection
  <2>2. Cardinality(Before(p)) = i - 1
    BY <1>2, <1>5, <2>1
  <2>3. enum[i] \in S /\ Cardinality(Before(enum[i])) = i - 1
    BY <1>6, <2>2
  <2> QED BY <1>5, <2>3
<1>14. enum \in [1 .. n -> S]
  <2>1. enum = [i \in 1 .. n |-> CHOOSE p \in S : Cardinality(Before(p)) = i - 1]
    BY DEF enum, InOrder, n, Before
  <2> QED BY <1>13, <2>1
<1>15. enum \in Seq(S) /\ Len(enum) = n
  BY <1>1, <1>14
<1>16. ASSUME NEW p \in S PROVE \E i \in 1 .. n : enum[i] = p
  <2>1. rank[p] \in 1 .. n
    BY <1>8
  <2>2. enum[rank[p]] \in S /\ rank[enum[rank[p]]] = rank[p]
    BY <1>13, <2>1
  <2> QED BY <1>10, <2>1, <2>2
<1>17. Range(enum) = S
  BY <1>6, <1>13, <1>16 DEF Range
<1>18. \A i, j \in 1 .. n : enum[i] = enum[j] => i = j
  BY <1>13
<1> QED BY <1>6, <1>15, <1>17, <1>18 DEF enum, n

\* AllPaths have places of their own.
LEMMA Places ==
    /\ IsFiniteSet(AllPaths) /\ Len(Paths) \in Nat
    /\ \A p \in AllPaths : Position[p] \in 1 .. Len(Paths) /\ Paths[Position[p]] = p
    /\ \A p, q \in AllPaths : Position[p] = Position[q] => p = q
<1>1. Paths \in Seq(AllPaths) /\ Len(Paths) \in Nat /\ DOMAIN Paths = 1 .. Len(Paths)
  <2>1. Paths \in Seq(AllPaths)
    BY PathsAssumption DEF AllPaths
  <2> QED BY <2>1, LenProperties
<1>2. Paths \in Surjection(1 .. Len(Paths), AllPaths)
  BY <1>1 DEF Surjection, AllPaths, Range
<1>3. IsFiniteSet(AllPaths)
  BY <1>1, <1>2, FS_Interval, FS_Surjection
<1>4. ASSUME NEW p \in AllPaths PROVE Position[p] \in 1 .. Len(Paths) /\ Paths[Position[p]] = p
  <2>1. \E i \in DOMAIN Paths : Paths[i] = p
    BY DEF AllPaths, Range
  <2>2. Position[p] = CHOOSE i \in DOMAIN Paths : Paths[i] = p
    BY DEF Position, AllPaths
  <2> QED BY <1>1, <2>1, <2>2
<1> QED BY <1>1, <1>3, <1>4

\* A set of paths in their order.
LEMMA PathsInOrder ==
    ASSUME NEW S, S \subseteq AllPaths
    PROVE  /\ InOrder(S, Position) \in Seq(S)
           /\ Range(InOrder(S, Position)) = S
           /\ \A i, j \in DOMAIN InOrder(S, Position) :
                InOrder(S, Position)[i] = InOrder(S, Position)[j] => i = j
<1>1. IsFiniteSet(S)
  BY Places, FS_Subset
<1>2. /\ \A p \in S : Position[p] \in Nat
      /\ \A p, q \in S : Position[p] = Position[q] => p = q
  BY Places
<1> QED BY <1>1, <1>2, InOrderFacts

\* Sources in the order of their priority.
LEMMA PrioritiesInOrder ==
    ASSUME NEW S, S \subseteq AllPaths
    PROVE  /\ ByPriority(S) \in Seq(S)
           /\ Range(ByPriority(S)) = S
           /\ \A i, j \in DOMAIN ByPriority(S) : ByPriority(S)[i] = ByPriority(S)[j] => i = j
<1> DEFINE place == [p \in S |-> Priority(p) * (Len(Paths) + 1) + Position[p]]
<1>1. IsFiniteSet(S)
  BY Places, FS_Subset
<1>2. \A p \in S : Priority(p) \in 0 .. 4
  BY DEF Priority
<1>3. \A m \in Nat : \A a, b \in 0 .. 4 : \A i, j \in 1 .. m :
            a * (m + 1) + i = b * (m + 1) + j => i = j
  <2> SUFFICES ASSUME NEW m \in Nat, NEW a \in 0 .. 4, NEW b \in 0 .. 4, NEW i \in 1 .. m, NEW j \in 1 .. m,
                      a * (m + 1) + i = b * (m + 1) + j
               PROVE  i = j
    OBVIOUS
  <2>1. a \in {0, 1, 2, 3, 4} /\ b \in {0, 1, 2, 3, 4}
    OBVIOUS
  <2> QED BY <2>1
<1>4. \A p \in S : place[p] \in Nat
  BY <1>2, Places
<1>5. \A p, q \in S : place[p] = place[q] => p = q
  <2> SUFFICES ASSUME NEW p \in S, NEW q \in S, place[p] = place[q] PROVE p = q
    OBVIOUS
  <2>1. Position[p] \in 1 .. Len(Paths) /\ Position[q] \in 1 .. Len(Paths)
    BY Places
  <2>2. Priority(p) * (Len(Paths) + 1) + Position[p] = Priority(q) * (Len(Paths) + 1) + Position[q]
    OBVIOUS
  <2>3. Position[p] = Position[q]
    <3> HIDE DEF place
    <3> QED BY <1>2, <1>3, <2>1, <2>2, Places, SMTT(30)
  <2> QED BY <2>3, Places
<1>6. ByPriority(S) = InOrder(S, place)
  BY DEF ByPriority
<1> HIDE DEF place
<1> QED BY <1>1, <1>4, <1>5, <1>6, InOrderFacts

-----------------------------------------------------------------------------
(***************************************************************************)
(* The inductive invariant.                                                *)
(***************************************************************************)

Types == {"dir", "file", "link", "fifo", "absent"}
Entry == [path : AllPaths \cup {Root}, type : Types]
Sources == [path : Files, inode : Nat, content : Contents]
Reports ==
    [sources : SUBSET Sources, bytes : Nat, binary : Nat, symlinks : Nat, oversized : Nat,
     byFiles : Nat, byBytes : Nat, analysisTruncated : Nat, discoveryTruncated : BOOLEAN]
ScanEvent ==
    [type : {"UNTRUSTED_CONTENT_OBSERVED", "PROMPT_INJECTION_SUSPECTED"}, path : Files, content : Contents]
        \cup [type : {"RESOURCE_LIMIT_TRIGGERED"}, path : {Root}, content : {""}]
Known == Range(Severities) \cup {""}

\* What may be at a file's path when there are n inodes.
Things(n) == {Absent, Fifo} \cup {Link(i) : i \in 0 .. n} \cup {File(i) : i \in 1 .. n}
IsFile(p) == disk[p].type = "file"

\* An inode is at one path at most, and what is at a path now has been placed there.
DiskSound ==
    /\ inodes \in Seq(Contents) /\ disk \in [Files -> Things(Len(inodes))]
    /\ \A p \in Files : IsFile(p) => <<p, disk[p].inode>> \in placed
    /\ \A p, q \in Files : IsFile(p) /\ IsFile(q) /\ disk[p].inode = disk[q].inode => p = q

\* Entries of the walk tell directories from other things; a file that nobody changed is still
\* what its entry says.
EntrySound(e) ==
    /\ e.type = "dir" <=> e.path \notin Files
    /\ e.path \in Files \ touched => e.type = disk[e.path].type

WalkSound ==
    /\ todo \in Seq(Entry) /\ entries \in 0 .. MaxEntries
    /\ \A i \in DOMAIN todo : EntrySound(todo[i])
    /\ report.discoveryTruncated => todo = <<>>

\* Of the candidates none is read twice, and the open one is the first of them.
ReadSound ==
    /\ candidates \in Seq(Files) /\ index \in 0 .. MaxFiles
    /\ stage = "discovering" => index = 0 /\ report.sources = {} /\ handle = Closed
    /\ stage \notin {"discovering", "failed"} => \A i, j \in DOMAIN candidates : candidates[i] = candidates[j] => i = j
    /\ \A s \in report.sources : s.path \notin Range(candidates)
    /\ handle # Closed =>
        /\ candidates # <<>> /\ index < MaxFiles
        /\ handle \in [step : {"seen", "open", "measured"}, path : {Head(candidates)}, inode : 1 .. Len(inodes)]
        /\ <<handle.path, handle.inode>> \in placed
        /\ handle.path \notin touched => disk[handle.path] = File(handle.inode)

\* Every byte that is counted is one of a source.
BytesOf(sources) == {b \in sources \X (1 .. MaxFileBytes) : b[2] <= b[1].content.size}

ReportSound ==
    /\ report \in Reports
    /\ IsFiniteSet(report.sources) /\ Cardinality(report.sources) <= index
    /\ report.bytes = Cardinality(BytesOf(report.sources)) /\ report.bytes <= MaxTotalBytes
    /\ \A s \in report.sources :
        /\ s.content.size <= MaxFileBytes /\ s.content.text
        /\ <<s.path, s.inode>> \in placed
        /\ \A other \in report.sources : other.path = s.path => other = s

\* A file that was there all the time, of a kind and in a place that the walk looks at.
Present(p) == p \in Files \ touched /\ IsFile(p) /\ Kind[p] # "" /\ Parent[p] \notin Excluded
Pending(p) == \E i \in DOMAIN todo : todo[i].path = p

\* Some directories have been entered, Root has been or will be, and of those that have been
\* nothing that matters is lost.
WalkedThrough(entered) ==
    /\ Root \in entered \/ Pending(Root)
    /\ \A p \in AllPaths : Parent[p] \in entered =>
        /\ p \in Directories \ Excluded => p \in entered \/ Pending(p)
        /\ Present(p) => p \in Range(candidates) \/ Pending(p)

WalkAccounted ==
    stage = "discovering" /\ ~report.discoveryTruncated =>
        \E entered \in SUBSET (Directories \cup {Root}) : WalkedThrough(entered)

\* After the walk a file that matters is to be read or has been, or a limit was reached.
ReadAccounted ==
    stage \in {"reading", "recording", "launched"} /\ ~Limited =>
        \A p \in Files : Present(p) /\ inodes[disk[p].inode].text =>
            \/ p \in Range(candidates)
            \/ \E s \in report.sources : s.path = p /\ s.content = inodes[disk[p].inode]

Observes(e) == e.type \in {"UNTRUSTED_CONTENT_OBSERVED", "PROMPT_INJECTION_SUSPECTED"}
Suspects(e) == e.type = "PROMPT_INJECTION_SUSPECTED"

\* The context knows what has been recorded, and that is part of what the report says.
RecordSound ==
    /\ recorded \in Seq(ScanEvent) /\ toRecord \in Seq(ScanEvent)
    /\ stage \in {"discovering", "reading"} => recorded = <<>>
    /\ stage \in {"recording", "launched"} => recorded \o toRecord = EventsOfReport /\ candidates = <<>>
    /\ stage = "launched" => toRecord = <<>>
    /\ stage # "failed" => failures = 0
    /\ context \in [untrusted : BOOLEAN, severity : Known]
    /\ context.untrusted <=> \E i \in DOMAIN recorded : Observes(recorded[i])
    /\ \A i \in DOMAIN recorded :
        Suspects(recorded[i]) => Rank(recorded[i].content.severity) <= Rank(context.severity)
    /\ \/ context.severity = ""
       \/ \E i \in DOMAIN recorded : Suspects(recorded[i]) /\ recorded[i].content.severity = context.severity

Stages == {"discovering", "reading", "recording", "launched", "failed"}

ScanInvariant ==
    /\ stage \in Stages
    /\ DiskSound /\ WalkSound /\ ReadSound /\ ReportSound
    /\ WalkAccounted /\ ReadAccounted /\ RecordSound

-----------------------------------------------------------------------------
(* What the parts are made of. *)

LEMMA RankFacts ==
    /\ \A s \in Known : Rank(s) \in Nat
    /\ Rank("") = 0
<1>1. Range(Severities) = {"LOW", "MEDIUM", "HIGH", "CRITICAL"} /\ DOMAIN Severities = 1 .. 4
  BY DEF Range, Severities
<1>2. ASSUME NEW s \in Range(Severities) PROVE Rank(s) \in Nat
  <2>1. \E i \in DOMAIN Severities : Severities[i] = s
    BY DEF Range
  <2>2. Rank(s) = CHOOSE i \in DOMAIN Severities : Severities[i] = s
    BY <1>1 DEF Rank
  <2> QED BY <1>1, <2>1, <2>2
<1>3. Rank("") = 0
  BY DEF Rank
<1>4. ASSUME NEW s \in Known PROVE Rank(s) \in Nat
  <2>1. CASE s \in Range(Severities) BY <1>2, <2>1
  <2>2. CASE s = "" BY <2>2 DEF Rank
  <2> QED BY <2>1, <2>2 DEF Known
<1> QED BY <1>3, <1>4

LEMMA ThingFacts ==
    ASSUME NEW n \in Nat, NEW x \in Things(n)
    PROVE  /\ x.type \in {"absent", "fifo", "link", "file"}
           /\ x.type = "absent" => x = Absent
           /\ x.type = "file" => x.inode \in 1 .. n /\ x = File(x.inode)
           /\ x.type = "link" => x.to \in 0 .. n /\ x = Link(x.to)
BY DEF Things, Absent, Fifo, Link, File

LEMMA ThingsGrow ==
    ASSUME NEW n \in Nat, NEW m \in Nat, n <= m
    PROVE  Things(n) \subseteq Things(m)
BY DEF Things

\* Sequences, as far as their ranges go.
LEMMA TailFacts ==
    ASSUME NEW S, NEW s \in Seq(S), s # <<>>
    PROVE  /\ Head(s) = s[1] /\ 1 \in DOMAIN s /\ Head(s) \in S /\ Tail(s) \in Seq(S)
           /\ Len(Tail(s)) = Len(s) - 1
           /\ \A i \in DOMAIN Tail(s) : i + 1 \in DOMAIN s /\ Tail(s)[i] = s[i + 1]
           /\ \A i \in DOMAIN s : i = 1 \/ (i - 1 \in DOMAIN Tail(s) /\ Tail(s)[i - 1] = s[i])
           /\ Range(s) = {Head(s)} \cup Range(Tail(s))
<1>1. /\ Head(s) \in S /\ Tail(s) \in Seq(S) /\ Len(Tail(s)) = Len(s) - 1
      /\ \A i \in 1 .. Len(Tail(s)) : Tail(s)[i] = s[i + 1]
  BY HeadTailProperties
<1>2. Len(s) \in Nat /\ Len(s) # 0 /\ DOMAIN s = 1 .. Len(s) /\ DOMAIN Tail(s) = 1 .. Len(s) - 1
  BY <1>1, EmptySeq, LenProperties
<1>3. Head(s) = s[1]
  BY <1>2
<1>4. \A i \in DOMAIN s : i = 1 \/ (i - 1 \in DOMAIN Tail(s) /\ Tail(s)[i - 1] = s[i])
  BY <1>1, <1>2
<1>5. \A i \in DOMAIN Tail(s) : i + 1 \in DOMAIN s /\ Tail(s)[i] = s[i + 1]
  BY <1>1, <1>2
<1>6. Range(s) = {Head(s)} \cup Range(Tail(s))
  <2>1. ASSUME NEW x \in Range(s) PROVE x \in {Head(s)} \cup Range(Tail(s))
    <3>1. PICK i \in DOMAIN s : s[i] = x
      BY DEF Range
    <3> QED BY <1>3, <1>4, <3>1 DEF Range
  <2>2. ASSUME NEW x \in Range(Tail(s)) PROVE x \in Range(s)
    <3>1. PICK i \in DOMAIN Tail(s) : Tail(s)[i] = x
      BY DEF Range
    <3> QED BY <1>5, <3>1 DEF Range
  <2>3. Head(s) \in Range(s)
    BY <1>2, <1>3 DEF Range
  <2> QED BY <2>1, <2>2, <2>3
<1> QED BY <1>1, <1>2, <1>3, <1>4, <1>5, <1>6

LEMMA AppendFacts ==
    ASSUME NEW S, NEW s \in Seq(S), NEW e \in S
    PROVE  /\ Append(s, e) \in Seq(S)
           /\ \A i \in DOMAIN s : i \in DOMAIN Append(s, e) /\ Append(s, e)[i] = s[i]
           /\ Len(s) + 1 \in DOMAIN Append(s, e) /\ Append(s, e)[Len(s) + 1] = e
           /\ \A i \in DOMAIN Append(s, e) : i \in DOMAIN s \/ i = Len(s) + 1
           /\ Range(Append(s, e)) = Range(s) \cup {e}
<1>1. /\ Append(s, e) \in Seq(S) /\ Len(Append(s, e)) = Len(s) + 1
      /\ \A i \in 1 .. Len(s) : Append(s, e)[i] = s[i]
      /\ Append(s, e)[Len(s) + 1] = e
  BY AppendProperties
<1>2. Len(s) \in Nat /\ DOMAIN s = 1 .. Len(s) /\ DOMAIN Append(s, e) = 1 .. Len(s) + 1
  BY <1>1, LenProperties
<1>3. /\ \A i \in DOMAIN s : i \in DOMAIN Append(s, e) /\ Append(s, e)[i] = s[i]
      /\ \A i \in DOMAIN Append(s, e) : i \in DOMAIN s \/ i = Len(s) + 1
      /\ Len(s) + 1 \in DOMAIN Append(s, e)
  BY <1>1, <1>2
<1>4. Range(Append(s, e)) = Range(s) \cup {e}
  BY <1>1, <1>3 DEF Range
<1> QED BY <1>1, <1>3, <1>4

LEMMA ConcatFacts ==
    ASSUME NEW S, NEW s \in Seq(S), NEW t \in Seq(S)
    PROVE  /\ s \o t \in Seq(S)
           /\ \A i \in DOMAIN s : i \in DOMAIN (s \o t) /\ (s \o t)[i] = s[i]
           /\ \A i \in DOMAIN t : Len(s) + i \in DOMAIN (s \o t) /\ (s \o t)[Len(s) + i] = t[i]
           /\ \A i \in DOMAIN (s \o t) :
                \/ i \in DOMAIN s
                \/ i > Len(s) /\ i - Len(s) \in DOMAIN t /\ (s \o t)[i] = t[i - Len(s)]
<1>1. /\ s \o t \in Seq(S) /\ Len(s \o t) = Len(s) + Len(t)
      /\ \A i \in 1 .. Len(s) + Len(t) : (s \o t)[i] = IF i <= Len(s) THEN s[i] ELSE t[i - Len(s)]
  BY ConcatProperties
<1>2. /\ Len(s) \in Nat /\ Len(t) \in Nat /\ DOMAIN s = 1 .. Len(s) /\ DOMAIN t = 1 .. Len(t)
      /\ DOMAIN (s \o t) = 1 .. Len(s) + Len(t)
  BY <1>1, LenProperties
<1> QED BY <1>1, <1>2

\* A listing names what is in the directory, and everything that is.
LEMMA ListingFacts ==
    ASSUME DiskSound, NEW d
    PROVE  /\ Listing(d) \in Seq(Entry)
           /\ \A i \in DOMAIN Listing(d) :
                /\ Listing(d)[i].path \in AllPaths
                /\ Listing(d)[i].type = TypeAt(Listing(d)[i].path)
           /\ \A p \in AllPaths : Parent[p] = d /\ TypeAt(p) # "absent" =>
                \E i \in DOMAIN Listing(d) : Listing(d)[i].path = p
<1> DEFINE S == {p \in AllPaths : Parent[p] = d /\ TypeAt(p) # "absent"}
           children == InOrder(S, Position)
<1>1. S \subseteq AllPaths
  OBVIOUS
<1>2. children \in Seq(S) /\ Range(children) = S
  BY <1>1, PathsInOrder
<1>3. Listing(d) = [i \in DOMAIN children |-> [path |-> children[i], type |-> TypeAt(children[i])]]
  BY DEF Listing, AllPaths
<1>4. ASSUME NEW p \in AllPaths PROVE TypeAt(p) \in Types
  <2>1. p \notin Directories => p \in Files
    BY DEF Files, AllPaths
  <2>2. Len(inodes) \in Nat
    BY LenProperties DEF DiskSound
  <2>3. p \notin Directories => disk[p].type \in {"absent", "fifo", "link", "file"}
    BY <2>1, <2>2, ThingFacts DEF DiskSound
  <2> QED BY <2>3 DEF TypeAt, Types
<1> HIDE DEF S, children
<1>5. Len(children) \in Nat /\ DOMAIN children = 1 .. Len(children) /\ \A i \in DOMAIN children : children[i] \in S
  BY <1>2, LenProperties, ElementOfSeq
<1>6. \A i \in DOMAIN children : [path |-> children[i], type |-> TypeAt(children[i])] \in Entry
  BY <1>1, <1>4, <1>5 DEF Entry
<1>7. Listing(d) \in [1 .. Len(children) -> Entry] /\ DOMAIN Listing(d) = DOMAIN children
  BY <1>3, <1>5, <1>6
<1>8. Listing(d) \in Seq(Entry)
  BY <1>5, <1>7
<1>9. \A i \in DOMAIN children : Listing(d)[i].path = children[i] /\ Listing(d)[i].type = TypeAt(children[i])
  BY <1>3
<1>10. ASSUME NEW p \in AllPaths, Parent[p] = d, TypeAt(p) # "absent"
       PROVE  \E i \in DOMAIN Listing(d) : Listing(d)[i].path = p
  <2>1. p \in Range(children)
    BY <1>2, <1>10 DEF S
  <2>2. PICK i \in DOMAIN children : children[i] = p
    BY <2>1 DEF Range
  <2> QED BY <1>7, <1>9, <2>2
<1> QED BY <1>1, <1>5, <1>7, <1>8, <1>9, <1>10

\* What EventsOfReport tells of the report.
LEMMA EventFacts ==
    ASSUME report \in Reports,
           \A s, other \in report.sources : other.path = s.path => other = s
    PROVE  /\ EventsOfReport \in Seq(ScanEvent)
           /\ \A i \in DOMAIN EventsOfReport : Observes(EventsOfReport[i]) =>
                \E s \in report.sources :
                    /\ s.path = EventsOfReport[i].path /\ s.content = EventsOfReport[i].content
                    /\ Suspects(EventsOfReport[i]) => s.content.severity # ""
           /\ \A s \in report.sources : \E i \in DOMAIN EventsOfReport :
                EventsOfReport[i] = Event("UNTRUSTED_CONTENT_OBSERVED", s.path, s.content)
           /\ \A s \in report.sources : s.content.severity # "" => \E i \in DOMAIN EventsOfReport :
                EventsOfReport[i] = Event("PROMPT_INJECTION_SUSPECTED", s.path, s.content)
           /\ \A i \in DOMAIN EventsOfReport : Suspects(EventsOfReport[i]) =>
                \E j \in DOMAIN EventsOfReport :
                    /\ j < i /\ EventsOfReport[j].type = "UNTRUSTED_CONTENT_OBSERVED"
                    /\ EventsOfReport[j].path = EventsOfReport[i].path
                    /\ EventsOfReport[j].content = EventsOfReport[i].content
           /\ (\E i \in DOMAIN EventsOfReport : EventsOfReport[i].type = "RESOURCE_LIMIT_TRIGGERED") <=> Limited
<1> DEFINE contentOf(p) == (CHOOSE s \in report.sources : s.path = p).content
           observed == {s.path : s \in report.sources}
           suspected == {p \in observed : contentOf(p).severity # ""}
           ordered == InOrder(observed, Position)
           found == InOrder(suspected, Position)
           one == [i \in DOMAIN ordered |-> Event("UNTRUSTED_CONTENT_OBSERVED", ordered[i], contentOf(ordered[i]))]
           two == [i \in DOMAIN found |-> Event("PROMPT_INJECTION_SUSPECTED", found[i], contentOf(found[i]))]
           three == IF Limited THEN <<Event("RESOURCE_LIMIT_TRIGGERED", Root, "")>> ELSE <<>>
<1>1. EventsOfReport = (one \o two) \o three
  BY DEF EventsOfReport
<1>2. /\ report.sources \subseteq Sources
      /\ \A s \in report.sources : s.path \in Files /\ s.content \in Contents
  BY DEF Reports, Sources
<1>3. observed \subseteq Files /\ suspected \subseteq observed /\ Files \subseteq AllPaths
  BY <1>2 DEF Files, AllPaths
<1>4. ordered \in Seq(observed) /\ Range(ordered) = observed
  BY <1>3, PathsInOrder
<1>5. found \in Seq(suspected) /\ Range(found) = suspected
  <2>1. suspected \subseteq AllPaths
    BY <1>3
  <2> HIDE DEF suspected
  <2> QED BY <2>1, PathsInOrder
<1>6. \A s \in report.sources : s.path \in observed /\ contentOf(s.path) = s.content
  OBVIOUS
<1>7. \A p \in observed : \E s \in report.sources : s.path = p /\ contentOf(p) = s.content
  OBVIOUS
<1>8. /\ \A p \in suspected : contentOf(p).severity # ""
      /\ \A p \in observed : contentOf(p).severity # "" => p \in suspected
  OBVIOUS
<1>9. /\ DOMAIN one = DOMAIN ordered /\ DOMAIN two = DOMAIN found
      /\ \A i \in DOMAIN ordered : one[i] = Event("UNTRUSTED_CONTENT_OBSERVED", ordered[i], contentOf(ordered[i]))
      /\ \A i \in DOMAIN found : two[i] = Event("PROMPT_INJECTION_SUSPECTED", found[i], contentOf(found[i]))
  OBVIOUS
<1>10. ASSUME NEW X
       PROVE  /\ (\A i \in DOMAIN ordered : one[i] \in X) => one \in [DOMAIN ordered -> X]
              /\ (\A i \in DOMAIN found : two[i] \in X) => two \in [DOMAIN found -> X]
  OBVIOUS
<1>11. /\ three \in Seq(ScanEvent)
       /\ Limited => 1 \in DOMAIN three /\ three[1] = Event("RESOURCE_LIMIT_TRIGGERED", Root, "")
       /\ \A i \in DOMAIN three : Limited /\ three[i] = Event("RESOURCE_LIMIT_TRIGGERED", Root, "")
  <2> DEFINE limit == Event("RESOURCE_LIMIT_TRIGGERED", Root, "")
  <2>1. limit \in ScanEvent
    BY DEF Event, ScanEvent
  <2>2. (Limited => three = <<limit>>) /\ (~Limited => three = <<>>)
    OBVIOUS
  <2> HIDE DEF limit, three
  <2>3. CASE Limited
    <3>1. three = <<limit>>
      BY <2>2, <2>3
    <3>2. three \in Seq(ScanEvent) /\ DOMAIN three = {1} /\ three[1] = limit
      BY <2>1, <3>1
    <3> QED BY <2>3, <3>2 DEF limit
  <2>4. CASE ~Limited
    BY <2>2, <2>4
  <2> QED BY <2>3, <2>4
<1> HIDE DEF contentOf, observed, suspected, ordered, found, one, two, three
<1>12. /\ \A i \in DOMAIN ordered : ordered[i] \in observed
       /\ \A i \in DOMAIN found : found[i] \in suspected
       /\ \A p \in observed : \E i \in DOMAIN ordered : ordered[i] = p
       /\ \A p \in suspected : \E i \in DOMAIN found : found[i] = p
       /\ Len(ordered) \in Nat /\ Len(found) \in Nat
       /\ DOMAIN ordered = 1 .. Len(ordered) /\ DOMAIN found = 1 .. Len(found)
  BY <1>4, <1>5, LenProperties DEF Range
<1>13. ASSUME NEW p \in observed
       PROVE  /\ Event("UNTRUSTED_CONTENT_OBSERVED", p, contentOf(p)) \in ScanEvent
              /\ Event("PROMPT_INJECTION_SUSPECTED", p, contentOf(p)) \in ScanEvent
  BY <1>2, <1>7 DEF Event, ScanEvent
<1>14. one \in Seq(ScanEvent) /\ two \in Seq(ScanEvent)
  <2>1. \A i \in 1 .. Len(ordered) : one[i] \in ScanEvent
    BY <1>9, <1>12, <1>13
  <2>2. \A i \in 1 .. Len(found) : two[i] \in ScanEvent
    BY <1>3, <1>9, <1>12, <1>13
  <2>3. one \in [1 .. Len(ordered) -> ScanEvent] /\ two \in [1 .. Len(found) -> ScanEvent]
    BY <1>10, <1>12, <2>1, <2>2
  <2> QED BY <1>12, <2>3
<1> DEFINE both == one \o two
           all == both \o three
<1>15. /\ both \in Seq(ScanEvent)
       /\ \A i \in DOMAIN one : i \in DOMAIN both /\ both[i] = one[i]
       /\ \A i \in DOMAIN two : Len(one) + i \in DOMAIN both /\ both[Len(one) + i] = two[i]
       /\ \A i \in DOMAIN both : i \in DOMAIN one \/ (i > Len(one) /\ i - Len(one) \in DOMAIN two /\ both[i] = two[i - Len(one)])
  BY <1>14, ConcatFacts
<1> HIDE DEF both
<1>16. /\ all \in Seq(ScanEvent)
       /\ \A i \in DOMAIN both : i \in DOMAIN all /\ all[i] = both[i]
       /\ \A i \in DOMAIN three : Len(both) + i \in DOMAIN all /\ all[Len(both) + i] = three[i]
       /\ \A i \in DOMAIN all : i \in DOMAIN both \/ (i > Len(both) /\ i - Len(both) \in DOMAIN three /\ all[i] = three[i - Len(both)])
  <2>1. both \in Seq(ScanEvent) /\ three \in Seq(ScanEvent)
    BY <1>11, <1>15
  <2> HIDE DEF ScanEvent
  <2> QED BY <2>1, ConcatFacts
<1> HIDE DEF all
<1>17. EventsOfReport = all
  BY <1>1 DEF all, both
<1>18. ASSUME NEW i \in DOMAIN all
       PROVE  \/ \E p \in observed : all[i] = Event("UNTRUSTED_CONTENT_OBSERVED", p, contentOf(p)) /\ i \in DOMAIN one
              \/ \E p \in suspected : all[i] = Event("PROMPT_INJECTION_SUSPECTED", p, contentOf(p)) /\ i > Len(one)
              \/ Limited /\ all[i] = Event("RESOURCE_LIMIT_TRIGGERED", Root, "")
  <2>1. CASE i \in DOMAIN both /\ i \in DOMAIN one
    <3>1. all[i] = one[i] /\ i \in DOMAIN ordered
      BY <2>1, <1>9, <1>15, <1>16
    <3>2. ordered[i] \in observed /\ one[i] = Event("UNTRUSTED_CONTENT_OBSERVED", ordered[i], contentOf(ordered[i]))
      BY <3>1, <1>9, <1>12
    <3> QED BY <2>1, <3>1, <3>2
  <2>2. CASE i \in DOMAIN both /\ i \notin DOMAIN one
    <3>1. all[i] = two[i - Len(one)] /\ i - Len(one) \in DOMAIN found /\ i > Len(one)
      BY <2>2, <1>9, <1>15, <1>16
    <3>2. found[i - Len(one)] \in suspected
      BY <3>1, <1>12
    <3>3. all[i] = Event("PROMPT_INJECTION_SUSPECTED", found[i - Len(one)], contentOf(found[i - Len(one)]))
      BY <3>1, <1>9
    <3> QED BY <3>1, <3>2, <3>3
  <2>3. CASE i \notin DOMAIN both
    <3>1. i - Len(both) \in DOMAIN three /\ all[i] = three[i - Len(both)]
      BY <2>3, <1>16
    <3> QED BY <3>1, <1>11
  <2> QED BY <2>1, <2>2, <2>3
<1>19. ASSUME NEW p \in observed
       PROVE  \E i \in DOMAIN all : all[i] = Event("UNTRUSTED_CONTENT_OBSERVED", p, contentOf(p)) /\ i \in DOMAIN one
  <2>1. PICK i \in DOMAIN ordered : ordered[i] = p
    BY <1>12
  <2> QED BY <2>1, <1>9, <1>15, <1>16
<1>20. ASSUME NEW p \in suspected
       PROVE  \E i \in DOMAIN all : all[i] = Event("PROMPT_INJECTION_SUSPECTED", p, contentOf(p))
  <2>1. PICK i \in DOMAIN found : found[i] = p
    BY <1>12
  <2> QED BY <2>1, <1>9, <1>15, <1>16
<1>21. Limited => \E i \in DOMAIN all : all[i] = Event("RESOURCE_LIMIT_TRIGGERED", Root, "")
  <2> SUFFICES ASSUME Limited PROVE \E i \in DOMAIN all : all[i] = Event("RESOURCE_LIMIT_TRIGGERED", Root, "")
    OBVIOUS
  <2>1. 1 \in DOMAIN three /\ three[1] = Event("RESOURCE_LIMIT_TRIGGERED", Root, "")
    BY <1>11
  <2>2. Len(both) + 1 \in DOMAIN all /\ all[Len(both) + 1] = three[1]
    BY <2>1, <1>16
  <2> QED BY <2>1, <2>2, Zenon
<1>22. DOMAIN one = 1 .. Len(one) /\ Len(one) \in Nat
  BY <1>14, LenProperties
<1>23. ASSUME NEW i \in DOMAIN all, Observes(all[i])
       PROVE  \E s \in report.sources :
                /\ s.path = all[i].path /\ s.content = all[i].content
                /\ Suspects(all[i]) => s.content.severity # ""
  <2>1. CASE \E p \in observed : all[i] = Event("UNTRUSTED_CONTENT_OBSERVED", p, contentOf(p))
    BY <2>1, <1>7 DEF Suspects, Event
  <2>2. CASE \E p \in suspected : all[i] = Event("PROMPT_INJECTION_SUSPECTED", p, contentOf(p))
    <3>1. PICK p \in suspected : all[i] = Event("PROMPT_INJECTION_SUSPECTED", p, contentOf(p))
      BY <2>2
    <3>2. PICK s \in report.sources : s.path = p /\ contentOf(p) = s.content
      BY <1>3, <1>7
    <3>3. s.content.severity # ""
      BY <1>8, <3>2, Zenon
    <3>4. all[i].path = p /\ all[i].content = contentOf(p)
      BY <3>1 DEF Event
    <3> QED BY <3>2, <3>3, <3>4, Zenon
  <2>3. all[i] # Event("RESOURCE_LIMIT_TRIGGERED", Root, "")
    <3>1. \A r, c : all[i] # Event("RESOURCE_LIMIT_TRIGGERED", r, c)
      BY <1>23 DEF Observes, Event
    <3> QED BY <3>1, Zenon
  <2> QED BY <1>18, <2>1, <2>2, <2>3
<1>24. ASSUME NEW i \in DOMAIN all, Suspects(all[i])
       PROVE  \E j \in DOMAIN all :
                /\ j < i /\ all[j].type = "UNTRUSTED_CONTENT_OBSERVED"
                /\ all[j].path = all[i].path /\ all[j].content = all[i].content
  <2>1. PICK p \in suspected : all[i] = Event("PROMPT_INJECTION_SUSPECTED", p, contentOf(p)) /\ i > Len(one)
    <3>1. \A p \in observed : all[i] # Event("UNTRUSTED_CONTENT_OBSERVED", p, contentOf(p))
      BY <1>24 DEF Suspects, Event
    <3>2. \A r, c : all[i] # Event("RESOURCE_LIMIT_TRIGGERED", r, c)
      BY <1>24 DEF Suspects, Event
    <3>3. all[i] # Event("RESOURCE_LIMIT_TRIGGERED", Root, "")
      BY <3>2, Zenon
    <3> QED BY <1>18, <3>1, <3>3
  <2>2. PICK j \in DOMAIN all : all[j] = Event("UNTRUSTED_CONTENT_OBSERVED", p, contentOf(p)) /\ j \in DOMAIN one
    BY <1>3, <1>19
  <2>3. j < i
    <3>1. i \in Nat
      BY <1>16, LenProperties
    <3> QED BY <3>1, <2>1, <2>2, <1>22
  <2> QED BY <2>1, <2>2, <2>3 DEF Event
<1>25. (\E i \in DOMAIN all : all[i].type = "RESOURCE_LIMIT_TRIGGERED") <=> Limited
  <2>1. \A p : /\ Event("UNTRUSTED_CONTENT_OBSERVED", p, contentOf(p)).type # "RESOURCE_LIMIT_TRIGGERED"
                /\ Event("PROMPT_INJECTION_SUSPECTED", p, contentOf(p)).type # "RESOURCE_LIMIT_TRIGGERED"
    BY DEF Event
  <2>2. Event("RESOURCE_LIMIT_TRIGGERED", Root, "").type = "RESOURCE_LIMIT_TRIGGERED"
    BY DEF Event
  <2>3. ASSUME NEW i \in DOMAIN all, all[i].type = "RESOURCE_LIMIT_TRIGGERED" PROVE Limited
    BY <1>18, <2>1, <2>3
  <2> QED BY <1>21, <2>2, <2>3
<1>26. \A s \in report.sources : \E i \in DOMAIN all : all[i] = Event("UNTRUSTED_CONTENT_OBSERVED", s.path, s.content)
  BY <1>6, <1>19
<1>27. \A s \in report.sources : s.content.severity # "" =>
            \E i \in DOMAIN all : all[i] = Event("PROMPT_INJECTION_SUSPECTED", s.path, s.content)
  BY <1>6, <1>8, <1>20
<1>28. EventsOfReport \in Seq(ScanEvent)
  BY <1>16, <1>17
<1> QED BY <1>17, <1>23, <1>24, <1>25, <1>26, <1>27, <1>28, Zenon

-----------------------------------------------------------------------------
(* Other programs. *)

\* All that a change to p does to the inspection.
ChangeOf(p) ==
    /\ stage \in {"discovering", "reading"}
    /\ touched' = touched \cup {p} /\ placed \subseteq placed'
    /\ Len(inodes) \in Nat /\ Len(inodes') \in Nat /\ Len(inodes) <= Len(inodes')
    /\ \A q \in Files : q # p => disk'[q] = disk[q] /\ (IsFile(q) => inodes'[disk[q].inode] = inodes[disk[q].inode])
    /\ UNCHANGED <<stage, walkVars, readVars, report, recordVars>>

LEMMA PlacedByChange ==
    ASSUME NEW p, Change(p)
    PROVE  /\ placed \subseteq placed'
           /\ \A q \in Files : IsFile(q)' => <<q, disk'[q].inode>> \in placed'
BY DEF Change, IsFile

LEMMA ChangeSound ==
    ASSUME DiskSound, NEW p \in Files, Write(p) \/ Replace(p) \/ Exchange(p)
    PROVE  DiskSound' /\ ChangeOf(p)
<1>1. /\ Change(p) /\ inodes \in Seq(Contents) /\ Len(inodes) \in Nat /\ DOMAIN inodes = 1 .. Len(inodes)
      /\ disk \in [Files -> Things(Len(inodes))]
  BY LenProperties DEF DiskSound, Write, Replace, Exchange
<1>2. /\ stage \in {"discovering", "reading"} /\ touched' = touched \cup {p}
      /\ UNCHANGED <<stage, walkVars, readVars, report, recordVars>>
  BY <1>1 DEF Change
<1>3. /\ placed \subseteq placed'
      /\ \A q \in Files : IsFile(q)' => <<q, disk'[q].inode>> \in placed'
  BY <1>1, PlacedByChange
<1>4. \A q \in Files : IsFile(q) => disk[q].inode \in 1 .. Len(inodes)
  BY <1>1, ThingFacts DEF IsFile
<1>5. CASE Write(p)
  <2>1. PICK c \in Contents : inodes' = [inodes EXCEPT ![disk[p].inode] = c]
    BY <1>5 DEF Write
  <2>2. IsFile(p) /\ disk' = disk
    BY <1>5 DEF Write, IsFile
  <2>3. disk[p].inode \in 1 .. Len(inodes)
    BY <1>4, <2>2
  <2>4. inodes' \in Seq(Contents) /\ Len(inodes') = Len(inodes)
        /\ \A i \in 1 .. Len(inodes) : i # disk[p].inode => inodes'[i] = inodes[i]
    BY <1>1, <2>1, <2>3, ExceptSeq
  <2>5. \A q \in Files : q # p /\ IsFile(q) => disk[q].inode # disk[p].inode
    BY <2>2 DEF DiskSound
  <2>6. DiskSound'
    BY <1>1, <1>3, <2>2, <2>4 DEF DiskSound, IsFile
  <2>7. \A q \in Files : q # p => disk'[q] = disk[q] /\ (IsFile(q) => inodes'[disk[q].inode] = inodes[disk[q].inode])
    BY <1>4, <2>2, <2>4, <2>5
  <2> QED BY <1>1, <1>2, <1>3, <2>4, <2>6, <2>7 DEF ChangeOf
<1>6. CASE Replace(p)
  <2>1. PICK c \in Contents : inodes' = Append(inodes, c)
    BY <1>6 DEF Replace
  <2>2. /\ inodes' \in Seq(Contents) /\ Len(inodes') = Len(inodes) + 1
        /\ \A i \in 1 .. Len(inodes) : inodes'[i] = inodes[i]
    BY <1>1, <2>1, AppendProperties
  <2>3. disk' = [disk EXCEPT ![p] = File(Len(inodes) + 1)]
    BY <1>6, <2>2 DEF Replace
  <2>4. \A q \in Files : disk'[q] = IF q = p THEN File(Len(inodes) + 1) ELSE disk[q]
    BY <1>1, <2>3
  <2>5. Things(Len(inodes)) \subseteq Things(Len(inodes'))
    BY <1>1, <2>2, ThingsGrow
  <2>6. File(Len(inodes) + 1) \in Things(Len(inodes'))
    BY <1>1, <2>2 DEF Things
  <2>7. disk' \in [Files -> Things(Len(inodes'))]
    BY <1>1, <2>3, <2>5, <2>6
  <2>8. File(Len(inodes) + 1).inode = Len(inodes) + 1
    BY DEF File
  <2>9. ASSUME NEW q \in Files, NEW r \in Files, IsFile(q)', IsFile(r)', disk'[q].inode = disk'[r].inode
        PROVE  q = r
    <3>1. CASE q # p /\ r # p
      BY <3>1, <2>4, <2>9 DEF DiskSound, IsFile
    <3>2. CASE q = p /\ r # p
      <4>1. IsFile(r) /\ disk[r].inode = Len(inodes) + 1
        BY <3>2, <2>4, <2>8, <2>9 DEF IsFile
      <4> QED BY <4>1, <1>1, <1>4
    <3>3. CASE q # p /\ r = p
      <4>1. IsFile(q) /\ disk[q].inode = Len(inodes) + 1
        BY <3>3, <2>4, <2>8, <2>9 DEF IsFile
      <4> QED BY <4>1, <1>1, <1>4
    <3> QED BY <3>1, <3>2, <3>3
  <2>10. DiskSound'
    BY <1>3, <2>2, <2>7, <2>9 DEF DiskSound
  <2>11. \A q \in Files : q # p => disk'[q] = disk[q] /\ (IsFile(q) => inodes'[disk[q].inode] = inodes[disk[q].inode])
    BY <1>4, <2>2, <2>4
  <2> QED BY <1>1, <1>2, <1>3, <2>2, <2>10, <2>11 DEF ChangeOf
<1>7. CASE Exchange(p)
  <2>1. PICK other \in {Absent, Fifo} \cup {Link(i) : i \in 0 .. Len(inodes)} : disk' = [disk EXCEPT ![p] = other]
    BY <1>7 DEF Exchange
  <2>2. inodes' = inodes
    BY <1>7 DEF Exchange
  <2>3. other \in Things(Len(inodes)) /\ other.type # "file"
    BY <2>1 DEF Things, Absent, Fifo, Link
  <2>4. disk' \in [Files -> Things(Len(inodes))] /\ \A q \in Files : disk'[q] = IF q = p THEN other ELSE disk[q]
    BY <1>1, <2>1, <2>3
  <2>5. ~IsFile(p)' /\ \A q \in Files : q # p => (IsFile(q)' <=> IsFile(q))
    BY <2>3, <2>4 DEF IsFile
  <2>6. DiskSound'
    BY <1>1, <1>3, <2>2, <2>4, <2>5 DEF DiskSound
  <2> QED BY <1>1, <1>2, <1>3, <2>2, <2>4, <2>6 DEF ChangeOf
<1> QED BY <1>5, <1>6, <1>7

-----------------------------------------------------------------------------
(* The walk. *)

LEMMA ListedSound ==
    ASSUME DiskSound, NEW d, NEW i \in DOMAIN Listing(d)
    PROVE  EntrySound(Listing(d)[i])
<1> DEFINE p == Listing(d)[i].path
<1>1. p \in AllPaths /\ Listing(d)[i].type = TypeAt(p)
  BY ListingFacts
<1>2. p \in Files <=> p \notin Directories
  BY <1>1 DEF Files, AllPaths
<1>3. p \in Files => disk[p].type # "dir"
  <2>1. Len(inodes) \in Nat
    BY LenProperties DEF DiskSound
  <2> QED BY <2>1, ThingFacts DEF DiskSound
<1> QED BY <1>1, <1>2, <1>3 DEF EntrySound, TypeAt

LEMMA WalkUnderChange ==
    ASSUME WalkSound, NEW p \in Files, ChangeOf(p)
    PROVE  WalkSound'
<1>1. /\ UNCHANGED <<todo, entries, report>> /\ touched' = touched \cup {p}
      /\ \A q \in Files : q # p => disk'[q] = disk[q]
  BY DEF ChangeOf, walkVars
<1>2. ASSUME NEW e, EntrySound(e) PROVE EntrySound(e)'
  BY <1>1, <1>2 DEF EntrySound
<1> QED BY <1>1, <1>2 DEF WalkSound

LEMMA WalkEnterDirectory ==
    ASSUME DiskSound, WalkSound, report \in Reports, EnterDirectory
    PROVE  WalkSound'
<1> DEFINE d == Head(todo).path
           children == Listing(d)
<1>1. UNCHANGED <<disk, touched, inodes>>
  BY DEF EnterDirectory, Discovering, diskVars
<1>2. children \in Seq(Entry) /\ \A i \in DOMAIN children : EntrySound(children[i])
  BY ListingFacts, ListedSound
<1>3. todo \in Seq(Entry) /\ todo # <<>> /\ \A i \in DOMAIN todo : EntrySound(todo[i])
  BY DEF WalkSound, EnterDirectory
<1>4. Tail(todo) \in Seq(Entry) /\ \A i \in DOMAIN Tail(todo) : EntrySound(Tail(todo)[i])
  BY <1>3, TailFacts
<1>5. /\ children \o Tail(todo) \in Seq(Entry)
      /\ \A i \in DOMAIN (children \o Tail(todo)) : EntrySound((children \o Tail(todo))[i])
  BY <1>2, <1>4, ConcatFacts
<1>6. \A e : EntrySound(e) => EntrySound(e)'
  BY <1>1 DEF EntrySound
<1>7. CASE Len(children) <= MaxEntries - entries
  <2>1. /\ todo' = children \o Tail(todo) /\ entries' = entries + Len(children)
        /\ report' = [report EXCEPT !.discoveryTruncated = FALSE]
    BY <1>7 DEF EnterDirectory
  <2>2. entries' \in 0 .. MaxEntries
    <3>1. Len(children) \in Nat
      BY <1>2, LenProperties
    <3> QED BY <1>7, <2>1, <3>1, LimitsAssumption DEF WalkSound
  <2>3. ~report'.discoveryTruncated
    BY <2>1 DEF Reports
  <2> QED BY <1>5, <1>6, <2>1, <2>2, <2>3 DEF WalkSound
<1>8. CASE ~(Len(children) <= MaxEntries - entries)
  <2>1. todo' = <<>> /\ entries' = entries
    BY <1>8 DEF EnterDirectory
  <2> QED BY <2>1, <1>3 DEF WalkSound
<1> QED BY <1>7, <1>8

LEMMA WalkSeeEntry ==
    ASSUME WalkSound, SeeEntry
    PROVE  WalkSound'
<1>1. UNCHANGED <<disk, touched, inodes, entries>> /\ todo' = Tail(todo) /\ todo # <<>>
  BY DEF SeeEntry, Discovering, diskVars
<1>2. todo' \in Seq(Entry) /\ \A i \in DOMAIN todo' : EntrySound(todo'[i])
  BY <1>1, TailFacts DEF WalkSound
<1>3. \A e : EntrySound(e) => EntrySound(e)'
  BY <1>1 DEF EntrySound
<1>4. ~report'.discoveryTruncated
  <2>1. ~report.discoveryTruncated
    BY <1>1 DEF WalkSound
  <2>2. report' = [report EXCEPT !.symlinks = @ + 1] \/ report' = report
    BY DEF SeeEntry
  <2>3. [report EXCEPT !.symlinks = @ + 1].discoveryTruncated = report.discoveryTruncated
    OBVIOUS
  <2> QED BY <2>1, <2>2, <2>3
<1> QED BY <1>1, <1>2, <1>3, <1>4 DEF WalkSound

-----------------------------------------------------------------------------
(* Reading: each step moves the handle on, passes a source over, reports   *)
(* it, or ends the reading.                                                *)

ReportGrows ==
    /\ report' \in Reports /\ report'.discoveryTruncated = report.discoveryTruncated
    /\ Limited => Limited'

\* A file that nobody changed and that is text.
Readable(p) == p \notin touched /\ IsFile(p) /\ inodes[disk[p].inode].text

Moved ==
    /\ UNCHANGED <<stage, report, candidates, index>>
    /\ candidates # <<>> /\ index < MaxFiles
    /\ handle' \in [step : {"seen", "open", "measured"}, path : {Head(candidates)}, inode : 1 .. Len(inodes)]
    /\ <<handle'.path, handle'.inode>> \in placed
    /\ handle'.path \notin touched => disk[handle'.path] = File(handle'.inode)

PassedOver ==
    /\ stage' = stage /\ NextSource
    /\ candidates # <<>> /\ index < MaxFiles
    /\ ReportGrows /\ report'.sources = report.sources /\ report'.bytes = report.bytes
    /\ Limited' \/ ~Readable(Head(candidates))

Reported ==
    /\ stage' = stage /\ NextSource
    /\ handle # Closed
    /\ Held.size <= MaxFileBytes /\ Held.text /\ report.bytes + Held.size <= MaxTotalBytes
    /\ ReportGrows
    /\ report'.sources = report.sources \cup {Source(handle.path, handle.inode, Held)}
    /\ report'.bytes = report.bytes + Held.size

CutOff ==
    /\ stage' = stage /\ candidates' = <<>> /\ UNCHANGED <<index, handle>> /\ handle = Closed
    /\ ReportGrows /\ report'.sources = report.sources /\ report'.bytes = report.bytes
    /\ Limited'

ReadingFrame == stage = "reading" /\ UNCHANGED <<diskVars, walkVars, recordVars>>

LEMMA Counted ==
    ASSUME report \in Reports, NEW n \in Nat, n > 0
    PROVE  /\ [report EXCEPT !.oversized = @ + n] \in Reports
           /\ [report EXCEPT !.byBytes = @ + n] \in Reports
           /\ [report EXCEPT !.binary = @ + n] \in Reports
           /\ [report EXCEPT !.byFiles = n] \in Reports
           /\ {report.oversized, report.byBytes, report.byFiles, report.analysisTruncated} \subseteq Nat
           /\ report.discoveryTruncated \in BOOLEAN
BY DEF Reports

LEMMA OversizedCounted ==
    ASSUME report \in Reports, report' = [report EXCEPT !.oversized = @ + 1]
    PROVE  ReportGrows /\ report'.sources = report.sources /\ report'.bytes = report.bytes /\ Limited'
BY Counted DEF ReportGrows, Limited, Reports

LEMMA ByBytesCounted ==
    ASSUME report \in Reports, report' = [report EXCEPT !.byBytes = @ + 1]
    PROVE  ReportGrows /\ report'.sources = report.sources /\ report'.bytes = report.bytes /\ Limited'
BY Counted DEF ReportGrows, Limited, Reports

LEMMA BinaryCounted ==
    ASSUME report \in Reports, report' = [report EXCEPT !.binary = @ + 1]
    PROVE  ReportGrows /\ report'.sources = report.sources /\ report'.bytes = report.bytes
BY Counted DEF ReportGrows, Limited, Reports

LEMMA NothingCounted ==
    ASSUME report \in Reports, report' = report
    PROVE  ReportGrows
BY DEF ReportGrows, Limited

LEMMA FileLimitKind ==
    ASSUME ReadSound, ReportSound, FileLimit
    PROVE  ReadingFrame /\ CutOff
<1>1. Len(candidates) \in Nat /\ Len(candidates) > 0
  BY EmptySeq, LenProperties DEF FileLimit, ReadSound
<1>2. report' = [report EXCEPT !.byFiles = Len(candidates)] /\ report \in Reports
  BY DEF FileLimit, ReportSound
<1>3. ReportGrows /\ report'.sources = report.sources /\ report'.bytes = report.bytes /\ Limited'
  BY <1>1, <1>2, Counted DEF ReportGrows, Limited, Reports
<1> QED BY <1>3 DEF FileLimit, Reading, ReadingFrame, CutOff

LEMMA LookAtKind ==
    ASSUME DiskSound, ReadSound, ReportSound, LookAt
    PROVE  ReadingFrame /\ (Moved \/ PassedOver \/ Fail)
<1> DEFINE p == Head(candidates)
<1>1. stage = "reading" /\ candidates # <<>> /\ index < MaxFiles /\ ReadingFrame
  BY DEF LookAt, Reading, ReadingFrame
<1>2. p \in Files
  BY <1>1, TailFacts DEF ReadSound
<1>3. disk[p] \in Things(Len(inodes)) /\ Len(inodes) \in Nat
  BY <1>2, LenProperties DEF DiskSound
<1>4. CASE disk[p].type = "file"
  <2>1. /\ handle' = [step |-> "seen", path |-> p, inode |-> disk[p].inode]
        /\ UNCHANGED <<stage, report, candidates, index>>
    BY <1>4 DEF LookAt, StillOpen
  <2>2. disk[p].inode \in 1 .. Len(inodes) /\ disk[p] = File(disk[p].inode)
    BY <1>3, <1>4, ThingFacts
  <2>3. <<p, disk[p].inode>> \in placed
    BY <1>2, <1>4 DEF DiskSound, IsFile
  <2>4. Moved
    BY <1>1, <2>1, <2>2, <2>3 DEF Moved
  <2> QED BY <1>1, <2>4
<1>5. CASE disk[p].type = "absent"
  <2>1. NextSource /\ stage' = stage /\ report' = report
    BY <1>5 DEF LookAt
  <2>2. ReportGrows
    BY <2>1, NothingCounted DEF ReportSound
  <2>3. ~Readable(p)
    BY <1>5 DEF Readable, IsFile
  <2>4. PassedOver
    BY <1>1, <2>1, <2>2, <2>3 DEF PassedOver
  <2> QED BY <1>1, <2>4
<1>6. CASE disk[p].type \notin {"file", "absent"}
  BY <1>1, <1>6 DEF LookAt
<1> QED BY <1>4, <1>5, <1>6

LEMMA HandleFacts ==
    ASSUME DiskSound, ReadSound, handle.step \in {"seen", "open", "measured"}
    PROVE  /\ handle # Closed /\ candidates # <<>> /\ index < MaxFiles
           /\ handle \in [step : {"seen", "open", "measured"}, path : {Head(candidates)}, inode : 1 .. Len(inodes)]
           /\ handle.path = Head(candidates) /\ handle.path \in Files /\ handle.inode \in 1 .. Len(inodes)
           /\ <<handle.path, handle.inode>> \in placed
           /\ handle.path \notin touched => disk[handle.path] = File(handle.inode)
           /\ Held \in Contents
<1>1. handle # Closed
  BY DEF Closed
<1>2. candidates # <<>> /\ handle.path = Head(candidates) /\ handle.inode \in 1 .. Len(inodes)
  BY <1>1 DEF ReadSound
<1>3. handle.path \in Files
  BY <1>2, TailFacts DEF ReadSound
<1>4. Held \in Contents
  BY <1>2 DEF Held, DiskSound
<1> QED BY <1>1, <1>2, <1>3, <1>4 DEF ReadSound

LEMMA OpenKind ==
    ASSUME DiskSound, ReadSound, ReportSound, Open
    PROVE  ReadingFrame /\ (Moved \/ PassedOver \/ Fail)
<1> DEFINE p == handle.path
           file == Opened(p)
<1>1. ReadingFrame /\ handle.step = "seen"
  BY DEF Open, Reading, ReadingFrame
<1>2. CASE file.type = "absent"
  <2>1. NextSource /\ stage' = stage /\ report' = report
    BY <1>2 DEF Open
  <2>2. ReportGrows
    BY <2>1, NothingCounted DEF ReportSound
  <2>3. ~Readable(p)
    <3>1. CASE IsFile(p)
      <4>1. Opened(p) = disk[p]
        BY <3>1 DEF Opened, IsFile
      <4> QED BY <4>1, <1>2, <3>1 DEF IsFile
    <3> QED BY <3>1 DEF Readable
  <2>4. PassedOver
    BY <1>1, <2>1, <2>2, <2>3, HandleFacts DEF PassedOver
  <2> QED BY <1>1, <2>4
<1>3. CASE file.type = "file" /\ file.inode = handle.inode
  <2>1. handle' = [handle EXCEPT !.step = "open"] /\ UNCHANGED <<stage, report, candidates, index>>
    BY <1>3 DEF Open, StillOpen
  <2>2. Moved
    BY <1>1, <2>1, HandleFacts DEF Moved
  <2> QED BY <1>1, <2>2
<1>4. CASE file.type # "absent" /\ ~(file.type = "file" /\ file.inode = handle.inode)
  <2>1. Fail
    BY <1>4 DEF Open
  <2> QED BY <1>1, <2>1
<1> QED BY <1>2, <1>3, <1>4

LEMMA MeasureKind ==
    ASSUME DiskSound, ReadSound, ReportSound, Measure
    PROVE  ReadingFrame /\ (Moved \/ PassedOver)
<1>1. ReadingFrame /\ handle.step = "open" /\ stage' = stage /\ report \in Reports
  BY DEF Measure, Reading, ReadingFrame, ReportSound
<1>2. CASE Held.size > MaxFileBytes
  <2>0. Held.size \in Nat
    BY <1>1, HandleFacts, ContentsAssumption
  <2>1. report' = [report EXCEPT !.oversized = @ + 1] /\ NextSource
    BY <1>2, <2>0, LimitsAssumption DEF Measure
  <2>2. PassedOver
    BY <1>1, <2>1, OversizedCounted, HandleFacts DEF PassedOver
  <2> QED BY <1>1, <2>2
<1>3. CASE ~(Held.size > MaxFileBytes) /\ report.bytes + Held.size > MaxTotalBytes
  <2>1. Held.size \in Nat
    BY <1>1, HandleFacts, ContentsAssumption
  <2>2. report' = [report EXCEPT !.byBytes = @ + 1] /\ NextSource
    BY <1>3, <2>1, LimitsAssumption DEF Measure
  <2>3. PassedOver
    BY <1>1, <2>2, ByBytesCounted, HandleFacts DEF PassedOver
  <2> QED BY <1>1, <2>3
<1>4. CASE ~(Held.size > MaxFileBytes) /\ ~(report.bytes + Held.size > MaxTotalBytes)
  <2>1. handle' = [handle EXCEPT !.step = "measured"] /\ UNCHANGED <<stage, report, candidates, index>>
    BY <1>1, <1>4 DEF Measure, StillOpen
  <2>2. Moved
    BY <1>1, <2>1, HandleFacts DEF Moved
  <2> QED BY <1>1, <2>2
<1> QED BY <1>2, <1>3, <1>4

LEMMA ReadKind ==
    ASSUME DiskSound, ReadSound, ReportSound, Read
    PROVE  ReadingFrame /\ (PassedOver \/ Reported)
<1>1. ReadingFrame /\ handle.step = "measured" /\ stage' = stage /\ NextSource /\ report \in Reports
  BY DEF Read, Reading, ReadingFrame, ReportSound
<1>2. Held.size \in Nat /\ Held.text \in BOOLEAN /\ Held \in Contents /\ report.bytes \in Nat
  BY <1>1, HandleFacts, ContentsAssumption DEF Reports
<1>3. CASE Held.size > MaxFileBytes
  <2>1. report' = [report EXCEPT !.oversized = @ + 1]
    BY <1>2, <1>3, LimitsAssumption DEF Read
  <2>2. PassedOver
    BY <1>1, <2>1, OversizedCounted, HandleFacts DEF PassedOver
  <2> QED BY <1>1, <2>2
<1>4. CASE Held.size <= MaxFileBytes /\ ~Held.text
  <2>1. report' = [report EXCEPT !.binary = @ + 1]
    BY <1>2, <1>4, LimitsAssumption DEF Read
  <2>2. ~Readable(Head(candidates))
    <3>1. ASSUME Readable(Head(candidates)) PROVE FALSE
      <4>1. disk[handle.path] = File(handle.inode) /\ handle.path = Head(candidates)
        BY <1>1, <3>1, HandleFacts DEF Readable
      <4>2. inodes[disk[Head(candidates)].inode] = Held
        BY <4>1 DEF File, Held
      <4> QED BY <4>2, <3>1, <1>4 DEF Readable
    <3> QED BY <3>1
  <2>3. PassedOver
    BY <1>1, <2>1, <2>2, BinaryCounted, HandleFacts DEF PassedOver
  <2> QED BY <1>1, <2>3
<1>5. CASE Held.size <= MaxFileBytes /\ Held.text /\ report.bytes + Held.size > MaxTotalBytes
  <2>1. report' = [report EXCEPT !.byBytes = @ + 1]
    BY <1>2, <1>5, LimitsAssumption DEF Read
  <2>2. PassedOver
    BY <1>1, <2>1, ByBytesCounted, HandleFacts DEF PassedOver
  <2> QED BY <1>1, <2>2
<1>6. CASE Held.size <= MaxFileBytes /\ Held.text /\ ~(report.bytes + Held.size > MaxTotalBytes)
  <2> DEFINE long == IF Held.long THEN 1 ELSE 0
             source == Source(handle.path, handle.inode, Held)
  <2>1. report' = [report EXCEPT !.bytes = @ + Held.size, !.sources = @ \cup {source},
                                 !.analysisTruncated = @ + long]
    BY <1>2, <1>6, LimitsAssumption DEF Read
  <2>2. long \in Nat
    OBVIOUS
  <2>3. source \in Sources
    <3>1. handle.path \in Files /\ handle.inode \in Nat
      BY <1>1, HandleFacts
    <3> QED BY <1>2, <3>1 DEF Source, Sources
  <2> HIDE DEF long, source
  <2>4. /\ report' \in Reports /\ report'.discoveryTruncated = report.discoveryTruncated
        /\ report'.sources = report.sources \cup {source} /\ report'.bytes = report.bytes + Held.size
    <3>1. report.sources \cup {source} \in SUBSET Sources
      BY <1>1, <2>3 DEF Reports
    <3>2. report.bytes + Held.size \in Nat /\ report.analysisTruncated + long \in Nat
      BY <1>1, <1>2, <2>2 DEF Reports
    <3>3. /\ report'.sources = report.sources \cup {source} /\ report'.bytes = report.bytes + Held.size
          /\ report'.discoveryTruncated = report.discoveryTruncated
      BY <1>1, <2>1 DEF Reports
    <3>4. report' \in Reports
      <4> DEFINE r == report.sources \cup {source}
                 b == report.bytes + Held.size
                 a == report.analysisTruncated + long
      <4>1. report' = [report EXCEPT !.bytes = b, !.sources = r, !.analysisTruncated = a]
        BY <2>1
      <4>2. r \in SUBSET Sources /\ b \in Nat /\ a \in Nat
        BY <3>1, <3>2
      <4> HIDE DEF r, b, a
      <4> QED BY <1>1, <4>1, <4>2 DEF Reports
    <3> QED BY <3>3, <3>4
  <2>5. /\ report'.oversized = report.oversized /\ report'.byFiles = report.byFiles /\ report'.byBytes = report.byBytes
        /\ report'.analysisTruncated = report.analysisTruncated + long /\ report.analysisTruncated \in Nat
    BY <1>1, <2>1 DEF Reports
  <2>6. Limited => Limited'
    BY <2>2, <2>4, <2>5 DEF Limited
  <2>7. Held.size <= MaxFileBytes /\ report.bytes + Held.size <= MaxTotalBytes
    BY <1>2, <1>6, LimitsAssumption
  <2>8. Reported
    BY <1>1, <1>6, <2>4, <2>6, <2>7, HandleFacts DEF Reported, ReportGrows, source
  <2> QED BY <1>1, <2>8
<1> QED BY <1>2, <1>3, <1>4, <1>5, <1>6, LimitsAssumption

\* A source adds as many bytes as it has.
LEMMA BytesAdded ==
    ASSUME NEW sources, IsFiniteSet(sources), NEW s, s \notin sources,
           s.content.size \in Nat, s.content.size <= MaxFileBytes
    PROVE  Cardinality(BytesOf(sources \cup {s})) = Cardinality(BytesOf(sources)) + s.content.size
<1> DEFINE n == s.content.size
           new == {s} \X (1 .. n)
<1>1. IsFiniteSet(1 .. MaxFileBytes) /\ IsFiniteSet(1 .. n) /\ Cardinality(1 .. n) = n
  <2>1. n \in Int /\ 0 <= n /\ MaxFileBytes \in Int /\ 1 \in Int
    BY LimitsAssumption
  <2> HIDE DEF n
  <2>2. IsFiniteSet(1 .. n) /\ Cardinality(1 .. n) = IF 1 > n THEN 0 ELSE n - 1 + 1
    BY <2>1, FS_Interval
  <2>3. IsFiniteSet(1 .. MaxFileBytes)
    BY <2>1, FS_Interval
  <2> QED BY <2>1, <2>2, <2>3
<1>2. IsFiniteSet({s}) /\ Cardinality({s}) = 1
  BY FS_Singleton
<1>3. IsFiniteSet(new) /\ Cardinality(new) = n
  <2> DEFINE one == {s}
             m == 1 .. n
  <2>1. IsFiniteSet(one) /\ IsFiniteSet(m) /\ Cardinality(one) = 1 /\ Cardinality(m) = n
    BY <1>1, <1>2
  <2>2. n \in Nat
    OBVIOUS
  <2> HIDE DEF one, m, n
  <2>3. IsFiniteSet(one \X m) /\ Cardinality(one \X m) = Cardinality(one) * Cardinality(m)
    BY <2>1, FS_Product
  <2> QED BY <2>1, <2>2, <2>3 DEF one, m
<1>4. IsFiniteSet(sources \X (1 .. MaxFileBytes))
  BY <1>1, FS_Product
<1>5. IsFiniteSet(BytesOf(sources)) /\ Cardinality(BytesOf(sources)) \in Nat
  <2>1. BytesOf(sources) \in SUBSET (sources \X (1 .. MaxFileBytes))
    BY DEF BytesOf
  <2> QED BY <1>4, <2>1, FS_Subset, FS_CardinalityType
<1>6. BytesOf(sources \cup {s}) = BytesOf(sources) \cup new
  <2>1. ASSUME NEW b \in BytesOf(sources \cup {s}) PROVE b \in BytesOf(sources) \cup new
    BY LimitsAssumption DEF BytesOf
  <2>2. ASSUME NEW b \in BytesOf(sources) PROVE b \in BytesOf(sources \cup {s})
    BY DEF BytesOf
  <2>3. ASSUME NEW b \in new PROVE b \in BytesOf(sources \cup {s})
    BY LimitsAssumption DEF BytesOf
  <2> QED BY <2>1, <2>2, <2>3
<1>7. BytesOf(sources) \cap new = {}
  BY DEF BytesOf
<1>8. Cardinality(BytesOf(sources) \cap new) = 0
  BY <1>7, FS_EmptySet
<1> HIDE DEF new, n
<1>9. Cardinality(BytesOf(sources) \cup new) = Cardinality(BytesOf(sources)) + n
  <2> DEFINE old == BytesOf(sources)
  <2> HIDE DEF old
  <2>1. IsFiniteSet(old) /\ IsFiniteSet(new) /\ Cardinality(old \cap new) = 0 /\ Cardinality(new) = n
    BY <1>3, <1>5, <1>8 DEF old
  <2>2. Cardinality(old \cup new) = Cardinality(old) + Cardinality(new) - Cardinality(old \cap new)
    BY <2>1, FS_Union
  <2>3. Cardinality(old) \in Nat /\ n \in Nat
    BY <1>5 DEF old, n
  <2> QED BY <2>1, <2>2, <2>3 DEF old
<1> QED BY <1>6, <1>9 DEF n

LEMMA NextSourceFacts ==
    ASSUME ReadSound, stage = "reading", candidates # <<>>, index < MaxFiles, NextSource
    PROVE  /\ candidates' \in Seq(Files) /\ index' \in 0 .. MaxFiles /\ index' = index + 1 /\ handle' = Closed
           /\ \A i, j \in DOMAIN candidates' : candidates'[i] = candidates'[j] => i = j
           /\ Range(candidates) = {Head(candidates)} \cup Range(candidates')
           /\ Head(candidates) \notin Range(candidates') /\ Head(candidates) \in Files
<1>1. candidates' = Tail(candidates) /\ index' = index + 1 /\ handle' = Closed
  BY DEF NextSource
<1>2. candidates \in Seq(Files) /\ index \in 0 .. MaxFiles
      /\ \A i, j \in DOMAIN candidates : candidates[i] = candidates[j] => i = j
  BY DEF ReadSound
<1>3. /\ Head(candidates) = candidates[1] /\ 1 \in DOMAIN candidates /\ Head(candidates) \in Files
      /\ candidates' \in Seq(Files)
      /\ \A i \in DOMAIN candidates' : i + 1 \in DOMAIN candidates /\ candidates'[i] = candidates[i + 1]
      /\ Range(candidates) = {Head(candidates)} \cup Range(candidates')
  BY <1>1, <1>2, TailFacts
<1>4. DOMAIN candidates' = 1 .. Len(candidates') /\ Len(candidates') \in Nat
  BY <1>3, LenProperties
<1>5. \A i, j \in DOMAIN candidates' : candidates'[i] = candidates'[j] => i = j
  BY <1>2, <1>3, <1>4
<1>6. Head(candidates) \notin Range(candidates')
  <2>1. ASSUME NEW i \in DOMAIN candidates', candidates'[i] = Head(candidates) PROVE FALSE
    <3>1. i + 1 \in DOMAIN candidates /\ candidates[i + 1] = candidates[1] /\ i \in 1 .. Len(candidates')
      BY <1>3, <1>4, <2>1
    <3>2. i + 1 = 1
      BY <1>2, <1>3, <3>1
    <3> QED BY <1>4, <3>1, <3>2
  <2> QED BY <2>1 DEF Range
<1>7. index' \in 0 .. MaxFiles
  BY <1>1, <1>2, LimitsAssumption
<1> QED BY <1>1, <1>3, <1>5, <1>6, <1>7

LEMMA MovedSound ==
    ASSUME ReadSound, ReportSound, ReadAccounted, ReadingFrame, Moved
    PROVE  ReadSound' /\ ReportSound' /\ ReadAccounted'
<1>1. UNCHANGED <<stage, report, candidates, index, disk, inodes, touched, placed>> /\ stage = "reading"
  BY DEF Moved, ReadingFrame, diskVars
<1>2. ReadSound'
  BY <1>1 DEF ReadSound, Moved
<1>3. ReportSound'
  BY <1>1 DEF ReportSound
<1>4. ReadAccounted'
  BY <1>1 DEF ReadAccounted, Limited, Present, IsFile
<1> QED BY <1>2, <1>3, <1>4

LEMMA PassedOverSound ==
    ASSUME ReadSound, ReportSound, ReadAccounted, ReadingFrame, PassedOver
    PROVE  ReadSound' /\ ReportSound' /\ ReadAccounted'
<1>1. /\ UNCHANGED <<stage, disk, inodes, touched, placed>> /\ stage = "reading"
      /\ report' \in Reports /\ report'.sources = report.sources /\ report'.bytes = report.bytes
      /\ candidates # <<>> /\ index < MaxFiles /\ NextSource
  BY DEF PassedOver, ReadingFrame, diskVars, ReportGrows
<1>2. /\ candidates' \in Seq(Files) /\ index' \in 0 .. MaxFiles /\ index' = index + 1 /\ handle' = Closed
      /\ \A i, j \in DOMAIN candidates' : candidates'[i] = candidates'[j] => i = j
      /\ Range(candidates) = {Head(candidates)} \cup Range(candidates')
  BY <1>1, NextSourceFacts
<1>3. ReadSound'
  BY <1>1, <1>2 DEF ReadSound
<1>4. ReportSound'
  <2>1. Cardinality(report.sources) <= index /\ Cardinality(report.sources) \in Nat /\ index \in Nat
    BY FS_CardinalityType DEF ReportSound, ReadSound
  <2>2. Cardinality(report'.sources) <= index'
    BY <1>1, <1>2, <2>1
  <2> QED BY <1>1, <2>2 DEF ReportSound
<1>5. ReadAccounted'
  <2> SUFFICES ASSUME ~Limited', NEW p \in Files, Present(p)', inodes'[disk'[p].inode].text
               PROVE  \/ p \in Range(candidates')
                      \/ \E s \in report'.sources : s.path = p /\ s.content = inodes'[disk'[p].inode]
    BY DEF ReadAccounted
  <2>1. ~Limited /\ Present(p) /\ inodes[disk[p].inode].text
    BY <1>1 DEF PassedOver, ReportGrows, Present, IsFile
  <2>2. p # Head(candidates)
    BY <2>1 DEF PassedOver, Present, Readable
  <2> QED BY <1>1, <1>2, <2>1, <2>2 DEF ReadAccounted
<1> QED BY <1>3, <1>4, <1>5

LEMMA ReportedSound ==
    ASSUME DiskSound, ReadSound, ReportSound, ReadAccounted, ReadingFrame, Reported
    PROVE  ReadSound' /\ ReportSound' /\ ReadAccounted'
<1> DEFINE source == Source(handle.path, handle.inode, Held)
<1>1. /\ UNCHANGED <<stage, disk, inodes, touched, placed>> /\ stage = "reading"
      /\ report' \in Reports /\ report'.sources = report.sources \cup {source}
      /\ report'.bytes = report.bytes + Held.size /\ NextSource
  BY DEF Reported, ReadingFrame, diskVars, ReportGrows
<1>2. handle # Closed /\ candidates # <<>> /\ index < MaxFiles /\ handle.step \in {"seen", "open", "measured"}
  BY DEF Reported, ReadSound
<1>3. /\ handle.path = Head(candidates) /\ <<handle.path, handle.inode>> \in placed /\ Held \in Contents
      /\ handle.path \notin touched => disk[handle.path] = File(handle.inode)
  BY <1>2, HandleFacts
<1>4. /\ candidates' \in Seq(Files) /\ index' \in 0 .. MaxFiles /\ index' = index + 1 /\ handle' = Closed
      /\ \A i, j \in DOMAIN candidates' : candidates'[i] = candidates'[j] => i = j
      /\ Range(candidates) = {Head(candidates)} \cup Range(candidates')
      /\ Head(candidates) \notin Range(candidates')
  BY <1>1, <1>2, NextSourceFacts
<1>5. source.path = Head(candidates) /\ source.inode = handle.inode /\ source.content = Held
  BY <1>3 DEF Source
<1>6. \A s \in report.sources : s.path # source.path
  BY <1>4, <1>5 DEF ReadSound
<1> HIDE DEF source
<1>7. ReadSound'
  BY <1>1, <1>4, <1>5 DEF ReadSound
<1>8. ReportSound'
  <2>1. Held.size \in Nat /\ Held.size <= MaxFileBytes /\ Held.text /\ report.bytes + Held.size <= MaxTotalBytes
    BY <1>3, ContentsAssumption DEF Reported
  <2>2. source \notin report.sources
    BY <1>6
  <2>3. IsFiniteSet(report.sources) /\ Cardinality(report.sources) <= index /\ Cardinality(report.sources) \in Nat
    BY FS_CardinalityType DEF ReportSound
  <2>4. IsFiniteSet(report'.sources) /\ Cardinality(report'.sources) = Cardinality(report.sources) + 1
    <3>1. /\ IsFiniteSet(report.sources \cup {source})
          /\ Cardinality(report.sources \cup {source}) = Cardinality(report.sources) + 1
      BY <2>2, <2>3, FS_AddElement
    <3> QED BY <1>1, <3>1
  <2>5. Cardinality(report'.sources) <= index'
    BY <1>4, <2>3, <2>4 DEF ReadSound
  <2>6. report'.bytes = Cardinality(BytesOf(report'.sources))
    BY <1>1, <1>5, <2>1, <2>2, <2>3, BytesAdded DEF ReportSound
  <2>7. \A s \in report'.sources :
            /\ s.content.size <= MaxFileBytes /\ s.content.text
            /\ <<s.path, s.inode>> \in placed'
            /\ \A other \in report'.sources : other.path = s.path => other = s
    BY <1>1, <1>3, <1>5, <1>6, <2>1 DEF ReportSound
  <2>8. report'.bytes <= MaxTotalBytes
    BY <1>1, <2>1
  <2> QED BY <1>1, <2>4, <2>5, <2>6, <2>7, <2>8 DEF ReportSound
<1>9. ReadAccounted'
  <2> SUFFICES ASSUME ~Limited', NEW p \in Files, Present(p)', inodes'[disk'[p].inode].text
               PROVE  \/ p \in Range(candidates')
                      \/ \E s \in report'.sources : s.path = p /\ s.content = inodes'[disk'[p].inode]
    BY DEF ReadAccounted
  <2>1. ~Limited /\ Present(p) /\ inodes[disk[p].inode].text
    BY <1>1 DEF Reported, ReportGrows, Present, IsFile
  <2>2. CASE p = Head(candidates)
    <3>1. disk[p] = File(handle.inode)
      BY <1>3, <2>1, <2>2 DEF Present
    <3>2. Held = inodes'[disk'[p].inode]
      BY <1>1, <3>1 DEF Held, File
    <3> QED BY <1>1, <1>5, <2>2, <3>2
  <2>3. CASE p # Head(candidates)
    BY <1>1, <1>4, <2>1, <2>3 DEF ReadAccounted
  <2> QED BY <2>2, <2>3
<1> QED BY <1>7, <1>8, <1>9

LEMMA CutOffSound ==
    ASSUME ReadSound, ReportSound, ReadAccounted, ReadingFrame, CutOff
    PROVE  ReadSound' /\ ReportSound' /\ ReadAccounted'
<1>1. /\ UNCHANGED <<stage, disk, inodes, touched, placed, index, handle>> /\ stage = "reading"
      /\ report' \in Reports /\ report'.sources = report.sources /\ report'.bytes = report.bytes
      /\ candidates' = <<>> /\ Limited' /\ handle = Closed
  BY DEF CutOff, ReadingFrame, diskVars, ReportGrows
<1>2. candidates' \in Seq(Files) /\ DOMAIN candidates' = {} /\ Range(candidates') = {}
  BY <1>1 DEF Range
<1>3. ReadSound'
  BY <1>1, <1>2 DEF ReadSound
<1>4. ReportSound'
  BY <1>1 DEF ReportSound
<1>5. ReadAccounted'
  BY <1>1 DEF ReadAccounted
<1> QED BY <1>3, <1>4, <1>5

LEMMA FailSound ==
    ASSUME ReadSound, ReportSound, ReadingFrame, Fail
    PROVE  ReadSound' /\ ReportSound' /\ ReadAccounted'
<1>1. UNCHANGED <<report, candidates, index, handle, disk, inodes, touched, placed>>
      /\ stage = "reading" /\ stage' = "failed"
  BY DEF Fail, readVars, ReadingFrame, diskVars
<1>2. ReadSound'
  BY <1>1 DEF ReadSound
<1>3. ReportSound'
  BY <1>1 DEF ReportSound
<1>4. ReadAccounted'
  BY <1>1 DEF ReadAccounted
<1> QED BY <1>2, <1>3, <1>4

-----------------------------------------------------------------------------
(* What changes by other programs, and the walk, do to the sources. *)

LEMMA ReadUnderChange ==
    ASSUME DiskSound, ReadSound, ReportSound, WalkAccounted, ReadAccounted, NEW p \in Files, ChangeOf(p)
    PROVE  ReadSound' /\ ReportSound' /\ WalkAccounted' /\ ReadAccounted'
<1>1. /\ UNCHANGED <<stage, todo, report, candidates, index, handle>>
      /\ touched' = touched \cup {p} /\ placed \subseteq placed'
      /\ Len(inodes) \in Nat /\ Len(inodes') \in Nat /\ Len(inodes) <= Len(inodes')
      /\ \A q \in Files : q # p => disk'[q] = disk[q] /\ (IsFile(q) => inodes'[disk[q].inode] = inodes[disk[q].inode])
  BY DEF ChangeOf, walkVars, readVars
<1>2. ReadSound'
  <2> SUFFICES ASSUME handle # Closed
               PROVE  /\ handle \in [step : {"seen", "open", "measured"}, path : {Head(candidates)}, inode : 1 .. Len(inodes')]
                      /\ <<handle.path, handle.inode>> \in placed'
                      /\ handle.path \notin touched' => disk'[handle.path] = File(handle.inode)
    BY <1>1 DEF ReadSound
  <2>1. /\ candidates # <<>> /\ <<handle.path, handle.inode>> \in placed
        /\ handle \in [step : {"seen", "open", "measured"}, path : {Head(candidates)}, inode : 1 .. Len(inodes)]
        /\ handle.path \notin touched => disk[handle.path] = File(handle.inode)
    BY DEF ReadSound
  <2>2. handle.path \in Files
    BY <2>1, TailFacts DEF ReadSound
  <2>3. 1 .. Len(inodes) \subseteq 1 .. Len(inodes')
    BY <1>1
  <2> QED BY <1>1, <2>1, <2>2, <2>3
<1>3. ReportSound'
  BY <1>1 DEF ReportSound
<1>4. ASSUME NEW q, Present(q)' PROVE Present(q) /\ inodes'[disk'[q].inode] = inodes[disk[q].inode]
  BY <1>1, <1>4 DEF Present, IsFile
<1>5. WalkAccounted'
  <2>1. ASSUME NEW entered, WalkedThrough(entered) PROVE WalkedThrough(entered)'
    BY <1>1, <1>4, <2>1 DEF WalkedThrough, Pending
  <2> QED BY <1>1, <2>1 DEF WalkAccounted
<1>6. ReadAccounted'
  BY <1>1, <1>4 DEF ReadAccounted, Limited
<1> QED BY <1>2, <1>3, <1>5, <1>6

LEMMA FilesAmongPaths == Files \subseteq AllPaths /\ Files \cap Directories = {} /\ Root \notin Files
BY PathsAssumption DEF Files, AllPaths

LEMMA ReadEnterDirectory ==
    ASSUME DiskSound, WalkSound, ReadSound, ReportSound, WalkAccounted, EnterDirectory
    PROVE  ReadSound' /\ ReportSound' /\ WalkAccounted' /\ ReadAccounted'
<1> DEFINE d == Head(todo).path
           children == Listing(d)
<1>1. /\ UNCHANGED <<stage, candidates, index, handle, disk, inodes, touched, placed>> /\ stage = "discovering"
      /\ todo # <<>> /\ Head(todo).type = "dir"
  BY DEF EnterDirectory, Discovering, diskVars
<1>2. PICK truncated \in BOOLEAN : report' = [report EXCEPT !.discoveryTruncated = truncated]
  BY DEF EnterDirectory
<1>3. /\ report' \in Reports /\ report'.sources = report.sources /\ report'.bytes = report.bytes
      /\ report'.discoveryTruncated = truncated
  BY <1>2 DEF Reports, ReportSound
<1>4. ReadSound'
  BY <1>1, <1>3 DEF ReadSound
<1>5. ReportSound'
  BY <1>1, <1>3 DEF ReportSound
<1>6. ReadAccounted'
  BY <1>1 DEF ReadAccounted
<1>7. ASSUME ~report'.discoveryTruncated
      PROVE  \E entered \in SUBSET (Directories \cup {Root}) : WalkedThrough(entered)'
  <2>1. todo' = children \o Tail(todo)
    <3>1. CASE Len(children) <= MaxEntries - entries
      BY <3>1 DEF EnterDirectory
    <3>2. CASE ~(Len(children) <= MaxEntries - entries)
      <4>1. report' = [report EXCEPT !.discoveryTruncated = TRUE]
        BY <3>2 DEF EnterDirectory
      <4>2. report'.discoveryTruncated
        BY <4>1 DEF ReportSound, Reports
      <4> QED BY <4>2, <1>7
    <3> QED BY <3>1, <3>2
  <2>2. ~report.discoveryTruncated
    BY <1>1 DEF WalkSound
  <2>3. PICK entered \in SUBSET (Directories \cup {Root}) : WalkedThrough(entered)
    BY <1>1, <2>2 DEF WalkAccounted
  <2>4. todo \in Seq(Entry) /\ \A i \in DOMAIN todo : EntrySound(todo[i])
    BY DEF WalkSound
  <2>5. children \in Seq(Entry) /\ Tail(todo) \in Seq(Entry)
    BY <1>1, <2>4, ListingFacts, TailFacts
  <2>6. d \notin Files /\ d \in Directories \cup {Root}
    <3>1. Head(todo) \in Entry /\ EntrySound(Head(todo))
      BY <1>1, <2>4, TailFacts
    <3> QED BY <1>1, <3>1 DEF EntrySound, Entry, Files, AllPaths
  <2>7. ASSUME NEW p, Pending(p) PROVE p = d \/ Pending(p)'
    <3>1. PICK i \in DOMAIN todo : todo[i].path = p
      BY <2>7 DEF Pending
    <3>2. CASE i = 1
      BY <1>1, <2>4, <3>1, <3>2, TailFacts
    <3>3. CASE i # 1
      <4>1. PICK j \in DOMAIN Tail(todo) : Tail(todo)[j] = todo[i]
        BY <1>1, <2>4, <3>1, <3>3, TailFacts
      <4>2. Len(children) + j \in DOMAIN todo' /\ todo'[Len(children) + j] = Tail(todo)[j]
        BY <2>1, <2>5, <4>1, ConcatFacts
      <4> QED BY <3>1, <4>1, <4>2 DEF Pending
    <3> QED BY <3>2, <3>3
  <2>8. ASSUME NEW p \in AllPaths, Parent[p] = d, TypeAt(p) # "absent" PROVE Pending(p)'
    <3>1. PICK i \in DOMAIN children : children[i].path = p
      BY <2>8, ListingFacts
    <3>2. i \in DOMAIN todo' /\ todo'[i] = children[i]
      BY <2>1, <2>5, <3>1, ConcatFacts
    <3> QED BY <3>1, <3>2 DEF Pending
  <2>9. \A p : Present(p)' <=> Present(p)
    BY <1>1 DEF Present, IsFile
  <2>10. PICK seen \in SUBSET (Directories \cup {Root}) : seen = entered \cup {d}
    BY <2>6
  <2>11. ASSUME NEW p \in AllPaths, Parent[p] \in seen
         PROVE  /\ p \in Directories \ Excluded => p \in seen \/ Pending(p)'
                /\ Present(p)' => p \in Range(candidates)' \/ Pending(p)'
    <3>1. CASE Parent[p] \in entered
      <4>1. p \in Directories \ Excluded => p \in entered \/ Pending(p)
        BY <2>3, <3>1 DEF WalkedThrough
      <4>2. Present(p) => p \in Range(candidates) \/ Pending(p)
        BY <2>3, <3>1 DEF WalkedThrough
      <4>3. Present(p) => p # d
        BY <2>6 DEF Present
      <4> QED BY <1>1, <2>7, <2>9, <2>10, <4>1, <4>2, <4>3
    <3>2. CASE Parent[p] = d
      <4>1. p \in Directories => TypeAt(p) # "absent"
        BY DEF TypeAt
      <4>2. Present(p) => TypeAt(p) # "absent"
        BY FilesAmongPaths DEF Present, IsFile, TypeAt
      <4> QED BY <2>8, <2>9, <3>2, <4>1, <4>2
    <3> QED BY <2>10, <2>11, <3>1, <3>2
  <2>12. Root \in seen \/ Pending(Root)'
    BY <2>3, <2>7, <2>10 DEF WalkedThrough
  <2>13. WalkedThrough(seen)'
    BY <2>11, <2>12 DEF WalkedThrough
  <2> QED BY <2>13
<1> QED BY <1>4, <1>5, <1>6, <1>7 DEF WalkAccounted

LEMMA ReadSeeEntry ==
    ASSUME DiskSound, WalkSound, ReadSound, ReportSound, WalkAccounted, SeeEntry
    PROVE  ReadSound' /\ ReportSound' /\ WalkAccounted' /\ ReadAccounted'
<1> DEFINE e == Head(todo)
<1>1. /\ UNCHANGED <<stage, index, handle, disk, inodes, touched, placed>> /\ stage = "discovering"
      /\ todo # <<>> /\ (e.type = "dir" => e.path \in Excluded) /\ todo' = Tail(todo)
  BY DEF SeeEntry, Discovering, diskVars
<1>2. todo \in Seq(Entry) /\ \A i \in DOMAIN todo : EntrySound(todo[i])
  BY DEF WalkSound
<1>3. e \in Entry /\ EntrySound(e)
  BY <1>1, <1>2, TailFacts
<1>4. report' = report \/ report' = [report EXCEPT !.symlinks = @ + 1]
  BY DEF SeeEntry
<1>5. /\ report' \in Reports /\ report'.sources = report.sources /\ report'.bytes = report.bytes
      /\ report'.discoveryTruncated = report.discoveryTruncated
  BY <1>4 DEF Reports, ReportSound
<1>6. /\ candidates' \in Seq(Files) /\ Range(candidates) \subseteq Range(candidates')
      /\ e.type = "file" /\ Kind[e.path] # "" => e.path \in Range(candidates')
  <2>0. candidates \in Seq(Files)
    BY DEF ReadSound
  <2>1. CASE e.type = "file" /\ Kind[e.path] # ""
    <3>1. candidates' = Append(candidates, e.path)
      BY <2>1 DEF SeeEntry
    <3>2. e.path \in Files
      BY <1>3, <2>1 DEF EntrySound
    <3>3. candidates' \in Seq(Files) /\ Range(candidates') = Range(candidates) \cup {e.path}
      BY <2>0, <3>1, <3>2, AppendFacts
    <3> QED BY <3>3
  <2>2. CASE ~(e.type = "file" /\ Kind[e.path] # "")
    <3>1. candidates' = candidates
      BY <2>2 DEF SeeEntry
    <3> QED BY <2>0, <2>2, <3>1
  <2> QED BY <2>1, <2>2
<1>7. ReadSound'
  BY <1>1, <1>5, <1>6 DEF ReadSound
<1>8. ReportSound'
  BY <1>1, <1>5 DEF ReportSound
<1>9. ReadAccounted'
  BY <1>1 DEF ReadAccounted
<1>10. WalkAccounted'
  <2>1. ~report.discoveryTruncated
    BY <1>1 DEF WalkSound
  <2>2. PICK entered \in SUBSET (Directories \cup {Root}) : WalkedThrough(entered)
    BY <1>1, <2>1 DEF WalkAccounted
  <2>3. ASSUME NEW p, Pending(p) PROVE p = e.path \/ Pending(p)'
    <3>1. PICK i \in DOMAIN todo : todo[i].path = p
      BY <2>3 DEF Pending
    <3>2. CASE i = 1
      BY <1>1, <1>2, <3>1, <3>2, TailFacts
    <3>3. CASE i # 1
      <4>1. PICK j \in DOMAIN todo' : todo'[j] = todo[i]
        BY <1>1, <1>2, <3>1, <3>3, TailFacts
      <4> QED BY <3>1, <4>1 DEF Pending
    <3> QED BY <3>2, <3>3
  <2>4. \A p : Present(p)' <=> Present(p)
    BY <1>1 DEF Present, IsFile
  <2>5. Root \in entered \/ Pending(Root)'
    <3>1. e.path = Root => e.type = "dir" /\ Root \notin Excluded
      BY <1>3, FilesAmongPaths, PathsAssumption DEF EntrySound
    <3>2. e.path # Root
      BY <1>1, <3>1
    <3> QED BY <2>2, <2>3, <3>2 DEF WalkedThrough
  <2>6. ASSUME NEW p \in AllPaths, Parent[p] \in entered
        PROVE  /\ p \in Directories \ Excluded => p \in entered \/ Pending(p)'
               /\ Present(p)' => p \in Range(candidates)' \/ Pending(p)'
    <3>1. /\ p \in Directories \ Excluded => p \in entered \/ Pending(p)
          /\ Present(p) => p \in Range(candidates) \/ Pending(p)
      BY <2>2, <2>6 DEF WalkedThrough
    <3>2. p \in Directories \ Excluded => p # e.path
      BY <1>1, <1>3, FilesAmongPaths DEF EntrySound
    <3>3. Present(p) /\ p = e.path => p \in Range(candidates')
      BY <1>3, <1>6 DEF EntrySound, Present, IsFile
    <3> QED BY <1>6, <2>3, <2>4, <3>1, <3>2, <3>3
  <2>7. WalkedThrough(entered)'
    BY <2>5, <2>6 DEF WalkedThrough
  <2> QED BY <2>7 DEF WalkAccounted
<1> QED BY <1>7, <1>8, <1>9, <1>10

\* When nothing is pending, every directory that is not passed over has been entered.
LEMMA AllEntered ==
    ASSUME NEW entered \in SUBSET (Directories \cup {Root}), WalkedThrough(entered), todo = <<>>
    PROVE  \A d \in Directories \ Excluded : d \in entered
<1>1. \A p : ~Pending(p)
  BY DEF Pending
<1> DEFINE missed == {d \in Directories \ Excluded : d \notin entered}
           T == {Position[d] : d \in missed}
<1> SUFFICES ASSUME missed # {} PROVE FALSE
  OBVIOUS
<1>2. Directories \subseteq AllPaths
  BY PathsAssumption DEF AllPaths
<1>3. T \subseteq Nat /\ T # {}
  BY <1>2, Places
<1>4. PICK n \in T : \A m \in T : n <= m
  <2> HIDE DEF T
  <2> QED BY <1>3, LeastOfNaturals
<1>5. PICK d \in missed : Position[d] = n
  BY <1>4
<1>6. d \in AllPaths /\ d \in Directories \ Excluded /\ d \notin entered
  BY <1>2, <1>5
<1>7. CASE Parent[d] = Root
  BY <1>1, <1>6, <1>7 DEF WalkedThrough
<1>8. CASE Parent[d] # Root
  <2>1. Parent[d] \in Directories /\ Position[Parent[d]] < Position[d] /\ Parent[d] \notin Excluded
    BY <1>6, <1>8, PathsAssumption DEF AllPaths
  <2>2. Parent[d] \notin missed
    <3>1. ASSUME Parent[d] \in missed PROVE FALSE
      <4>1. Position[Parent[d]] \in T
        BY <3>1
      <4>2. n <= Position[Parent[d]]
        BY <1>4, <4>1
      <4>3. n \in Nat /\ Position[Parent[d]] \in Nat
        BY <1>3, <4>1
      <4> QED BY <1>5, <2>1, <4>2, <4>3
    <3> QED BY <3>1
  <2>3. Parent[d] \in entered
    BY <2>1, <2>2
  <2> QED BY <1>1, <1>6, <2>3 DEF WalkedThrough
<1> QED BY <1>7, <1>8

LEMMA ReadEndWalk ==
    ASSUME DiskSound, WalkSound, ReadSound, ReportSound, WalkAccounted, EndWalk
    PROVE  WalkSound' /\ ReadSound' /\ ReportSound' /\ WalkAccounted' /\ ReadAccounted'
<1>1. /\ UNCHANGED <<index, handle, disk, inodes, touched, placed, report, todo, entries>>
      /\ stage = "discovering" /\ stage' = "reading" /\ todo = <<>>
      /\ candidates' = ByPriority(Range(candidates))
  BY DEF EndWalk, Discovering, diskVars, walkVars
<1>2. Range(candidates) \subseteq Files
  BY RangeOfSeq DEF ReadSound
<1>3. /\ candidates' \in Seq(Range(candidates)) /\ Range(candidates') = Range(candidates)
      /\ \A i, j \in DOMAIN candidates' : candidates'[i] = candidates'[j] => i = j
  <2>1. Range(candidates) \subseteq AllPaths
    BY <1>2, FilesAmongPaths
  <2> QED BY <1>1, <2>1, PrioritiesInOrder
<1>4. candidates' \in Seq(Files)
  BY <1>2, <1>3, SeqMonotonic
<1>5. WalkSound'
  BY <1>1 DEF WalkSound, EntrySound
<1>6. ReadSound'
  BY <1>1, <1>3, <1>4 DEF ReadSound
<1>7. ReportSound'
  BY <1>1 DEF ReportSound
<1>8. WalkAccounted'
  BY <1>1 DEF WalkAccounted
<1>9. ReadAccounted'
  <2> SUFFICES ASSUME ~Limited', NEW p \in Files, Present(p)' PROVE p \in Range(candidates')
    BY DEF ReadAccounted
  <2>1. ~report.discoveryTruncated /\ Present(p)
    BY <1>1 DEF Limited, Present, IsFile
  <2>2. PICK entered \in SUBSET (Directories \cup {Root}) : WalkedThrough(entered)
    BY <1>1, <2>1 DEF WalkAccounted
  <2>3. \A q : ~Pending(q)
    BY <1>1 DEF Pending
  <2>4. p \in AllPaths /\ Parent[p] \notin Excluded
    BY <2>1, FilesAmongPaths DEF Present
  <2>5. Parent[p] = Root \/ Parent[p] \in Directories
    BY <2>4, PathsAssumption DEF AllPaths
  <2>6. Parent[p] \in entered
    <3>1. CASE Parent[p] = Root
      BY <2>2, <2>3, <3>1 DEF WalkedThrough
    <3>2. CASE Parent[p] \in Directories
      BY <1>1, <2>2, <2>4, <3>2, AllEntered
    <3> QED BY <2>5, <3>1, <3>2
  <2> QED BY <1>3, <2>1, <2>2, <2>3, <2>4, <2>6 DEF WalkedThrough
<1> QED BY <1>5, <1>6, <1>7, <1>8, <1>9

-----------------------------------------------------------------------------
(* What is recorded. *)

\* Nothing is recorded while the workspace is looked at.
LEMMA RecordingWaits ==
    ASSUME RecordSound, stage \in {"discovering", "reading"}, stage' \in {"discovering", "reading", "failed"},
           UNCHANGED recordVars
    PROVE  RecordSound'
<1>1. UNCHANGED <<toRecord, recorded, context, failures>>
  BY DEF recordVars
<1>2. recorded = <<>> /\ failures = 0
  BY DEF RecordSound
<1> QED BY <1>1, <1>2 DEF RecordSound

\* An inspection that ends early leaves everything as it is.
LEMMA InterruptedSound ==
    ASSUME ScanInvariant, Interrupted
    PROVE  ScanInvariant'
<1>1. /\ stage \in {"discovering", "reading"} /\ stage' = "failed"
      /\ UNCHANGED <<disk, inodes, touched, placed, todo, entries, candidates, index, handle, report>>
      /\ UNCHANGED recordVars
  BY DEF Interrupted, diskVars, walkVars, readVars
<1>2. DiskSound'
  BY <1>1 DEF ScanInvariant, DiskSound, IsFile
<1>3. WalkSound'
  BY <1>1 DEF ScanInvariant, WalkSound, EntrySound
<1>4. ReadSound'
  BY <1>1 DEF ScanInvariant, ReadSound
<1>5. ReportSound'
  BY <1>1 DEF ScanInvariant, ReportSound
<1>6. WalkAccounted' /\ ReadAccounted'
  BY <1>1 DEF WalkAccounted, ReadAccounted
<1>7. RecordSound'
  BY <1>1, RecordingWaits DEF ScanInvariant
<1> QED BY <1>1, <1>2, <1>3, <1>4, <1>5, <1>6, <1>7 DEF ScanInvariant, Stages

\* Nor is the workspace looked at while recording.
LEMMA InspectionRests ==
    ASSUME DiskSound, WalkSound, ReadSound, ReportSound, ReadAccounted,
           stage \in {"reading", "recording", "launched", "failed"}, stage' \in {"recording", "launched", "failed"},
           stage' \in {"recording", "launched"} => stage \in {"reading", "recording", "launched"},
           UNCHANGED <<diskVars, walkVars, readVars, report>>
    PROVE  DiskSound' /\ WalkSound' /\ ReadSound' /\ ReportSound' /\ WalkAccounted' /\ ReadAccounted'
<1>1. UNCHANGED <<disk, inodes, touched, placed, todo, entries, candidates, index, handle, report>>
  BY DEF diskVars, walkVars, readVars
<1>2. DiskSound'
  BY <1>1 DEF DiskSound, IsFile
<1>3. WalkSound'
  BY <1>1 DEF WalkSound, EntrySound
<1>4. ReadSound'
  BY <1>1 DEF ReadSound
<1>5. ReportSound'
  BY <1>1 DEF ReportSound
<1>6. WalkAccounted'
  BY DEF WalkAccounted
<1>7. ReadAccounted'
  BY <1>1 DEF ReadAccounted, Present, IsFile, Limited
<1> QED BY <1>2, <1>3, <1>4, <1>5, <1>6, <1>7

\* While the walk and the reading leave the disk alone, the disk and what is in the walk stay sound.
LEMMA WalkRests ==
    ASSUME DiskSound, WalkSound, UNCHANGED <<diskVars, walkVars>>,
           report'.discoveryTruncated = report.discoveryTruncated
    PROVE  DiskSound' /\ WalkSound'
<1>1. UNCHANGED <<disk, inodes, touched, placed, todo, entries>>
  BY DEF diskVars, walkVars
<1>2. DiskSound'
  BY <1>1 DEF DiskSound, IsFile
<1>3. WalkSound'
  BY <1>1 DEF WalkSound, EntrySound
<1> QED BY <1>2, <1>3

LEMMA BeginSound ==
    ASSUME ReportSound, RecordSound, BeginRecording
    PROVE  RecordSound'
<1>1. /\ stage = "reading" /\ stage' = "recording" /\ candidates' = <<>>
      /\ UNCHANGED <<report, recorded, context, failures>> /\ toRecord' = EventsOfReport
  BY DEF BeginRecording, readVars
<1>2. recorded = <<>> /\ failures = 0
  BY <1>1 DEF RecordSound
<1>3. EventsOfReport \in Seq(ScanEvent)
  BY EventFacts DEF ReportSound
<1>4. EventsOfReport' = EventsOfReport
  <2>1. report' = report
    BY <1>1
  <2> QED BY <2>1 DEF EventsOfReport, Limited
<1>5. recorded' \o toRecord' = EventsOfReport'
  <2>1. <<>> \o EventsOfReport = EventsOfReport
    <3> HIDE DEF ScanEvent
    <3> QED BY <1>3, ConcatEmptySeq
  <2> QED BY <1>1, <1>2, <1>4, <2>1
<1> QED BY <1>1, <1>2, <1>3, <1>5 DEF RecordSound

\* What an event tells the context.
LEMMA Observed ==
    ASSUME NEW c \in [untrusted : BOOLEAN, severity : Known], NEW event \in ScanEvent
    PROVE  /\ Observe(c, event) \in [untrusted : BOOLEAN, severity : Known]
           /\ Observe(c, event).untrusted <=> c.untrusted \/ Observes(event)
           /\ Rank(c.severity) <= Rank(Observe(c, event).severity)
           /\ Suspects(event) => Rank(event.content.severity) <= Rank(Observe(c, event).severity)
           /\ \/ Observe(c, event).severity = c.severity
              \/ Suspects(event) /\ Observe(c, event).severity = event.content.severity
<1>1. Rank(c.severity) \in Nat
  BY RankFacts
<1>2. CASE event.type = "UNTRUSTED_CONTENT_OBSERVED"
  <2>1. Observe(c, event) = [c EXCEPT !.untrusted = TRUE]
    BY <1>2 DEF Observe
  <2>2. /\ Observe(c, event) \in [untrusted : BOOLEAN, severity : Known]
        /\ Observe(c, event).untrusted = TRUE /\ Observe(c, event).severity = c.severity
    BY <2>1
  <2>3. Observes(event) /\ ~Suspects(event)
    BY <1>2 DEF Observes, Suspects
  <2> QED BY <1>1, <2>2, <2>3
<1>3. CASE event.type = "PROMPT_INJECTION_SUSPECTED"
  <2>1. event.content \in Contents
    BY <1>3 DEF ScanEvent
  <2>2. event.content.severity \in Known
    BY <2>1, ContentsAssumption DEF Known
  <2>3. Rank(event.content.severity) \in Nat
    BY <2>2, RankFacts
  <2>4. Observe(c, event) =
            [untrusted |-> TRUE,
             severity |-> IF Rank(event.content.severity) > Rank(c.severity) THEN event.content.severity ELSE c.severity]
    BY <1>3 DEF Observe
  <2> QED BY <1>1, <1>3, <2>2, <2>3, <2>4 DEF Observes, Suspects
<1>4. CASE event.type = "RESOURCE_LIMIT_TRIGGERED"
  <2>1. Observe(c, event) = c
    BY <1>4 DEF Observe
  <2> QED BY <1>1, <1>4, <2>1 DEF Observes, Suspects
<1>5. event.type \in {"UNTRUSTED_CONTENT_OBSERVED", "PROMPT_INJECTION_SUSPECTED", "RESOURCE_LIMIT_TRIGGERED"}
  BY DEF ScanEvent
<1> QED BY <1>2, <1>3, <1>4, <1>5

LEMMA RecordStep ==
    ASSUME RecordSound, Record
    PROVE  RecordSound'
<1> DEFINE e == Head(toRecord)
<1>1. /\ stage = "recording" /\ stage' = "recording" /\ UNCHANGED <<report, candidates, failures>>
      /\ toRecord # <<>> /\ recorded' = Append(recorded, e) /\ toRecord' = Tail(toRecord)
      /\ context' = Observe(context, e)
  BY DEF Record, Recording, readVars
<1>2. /\ recorded \in Seq(ScanEvent) /\ toRecord \in Seq(ScanEvent) /\ failures = 0
      /\ recorded \o toRecord = EventsOfReport /\ candidates = <<>>
      /\ context \in [untrusted : BOOLEAN, severity : Known]
      /\ context.untrusted <=> \E i \in DOMAIN recorded : Observes(recorded[i])
      /\ \A i \in DOMAIN recorded : Suspects(recorded[i]) => Rank(recorded[i].content.severity) <= Rank(context.severity)
  BY <1>1 DEF RecordSound
<1> DEFINE Any == ScanEvent
<1> HIDE DEF Any
<1>3. recorded \in Seq(Any) /\ toRecord \in Seq(Any)
  BY <1>2 DEF Any
<1>4. /\ e \in Any /\ recorded' \in Seq(Any) /\ toRecord' \in Seq(Any)
      /\ \A i \in DOMAIN recorded : i \in DOMAIN recorded' /\ recorded'[i] = recorded[i]
      /\ Len(recorded) + 1 \in DOMAIN recorded' /\ recorded'[Len(recorded) + 1] = e
      /\ \A i \in DOMAIN recorded' : i \in DOMAIN recorded \/ i = Len(recorded) + 1
  <2>1. e \in Any /\ Tail(toRecord) \in Seq(Any)
    BY <1>1, <1>3, TailFacts
  <2> QED BY <1>1, <1>3, <2>1, AppendFacts
<1>5. recorded' \o toRecord' = recorded \o toRecord
  <2>1. /\ <<e>> \in Seq(Any) /\ Tail(toRecord) \in Seq(Any)
        /\ toRecord = <<e>> \o Tail(toRecord)
    BY <1>1, <1>3, <1>4, HeadTailProperties
  <2>2. recorded' = recorded \o <<e>>
    BY <1>1, <1>3, <1>4, AppendIsConcat
  <2>3. (recorded \o <<e>>) \o Tail(toRecord) = recorded \o (<<e>> \o Tail(toRecord))
    BY <1>3, <2>1, ConcatAssociative
  <2> QED BY <1>1, <2>1, <2>2, <2>3
<1>6. EventsOfReport' = EventsOfReport
  BY <1>1 DEF EventsOfReport, Limited
<1>7. /\ context' \in [untrusted : BOOLEAN, severity : Known]
      /\ context'.untrusted <=> context.untrusted \/ Observes(e)
      /\ Rank(context.severity) <= Rank(context'.severity)
      /\ Suspects(e) => Rank(e.content.severity) <= Rank(context'.severity)
      /\ \/ context'.severity = context.severity
         \/ Suspects(e) /\ context'.severity = e.content.severity
  BY <1>1, <1>2, <1>4, Observed DEF Any
<1>8. context'.untrusted <=> \E i \in DOMAIN recorded' : Observes(recorded'[i])
  BY <1>2, <1>4, <1>7
<1>9. ASSUME NEW i \in DOMAIN recorded', Suspects(recorded'[i])
      PROVE  Rank(recorded'[i].content.severity) <= Rank(context'.severity)
  <2>1. CASE i \in DOMAIN recorded
    <3>1. Rank(recorded[i].content.severity) <= Rank(context.severity) /\ recorded'[i] = recorded[i]
      BY <1>2, <1>4, <1>9, <2>1
    <3>2. Rank(recorded[i].content.severity) \in Nat
      <4>1. recorded[i] \in ScanEvent
        BY <1>2, <2>1, ElementOfSeq, LenProperties
      <4>2. recorded[i].content \in Contents
        BY <1>9, <3>1, <4>1 DEF ScanEvent, Suspects
      <4> QED BY <4>2, ContentsAssumption, RankFacts DEF Known
    <3>3. Rank(context.severity) \in Nat /\ Rank(context'.severity) \in Nat
      BY <1>2, <1>7, RankFacts
    <3> QED BY <1>7, <3>1, <3>2, <3>3
  <2>2. CASE i = Len(recorded) + 1
    BY <1>4, <1>7, <1>9, <2>2
  <2> QED BY <1>4, <2>1, <2>2
<1>10. \/ context'.severity = ""
       \/ \E i \in DOMAIN recorded' : Suspects(recorded'[i]) /\ recorded'[i].content.severity = context'.severity
  <2>1. CASE context'.severity = context.severity
    <3>1. CASE context.severity = ""
      BY <2>1, <3>1, Zenon
    <3>2. CASE \E i \in DOMAIN recorded : Suspects(recorded[i]) /\ recorded[i].content.severity = context.severity
      <4>1. PICK i \in DOMAIN recorded : Suspects(recorded[i]) /\ recorded[i].content.severity = context.severity
        BY <3>2
      <4>2. i \in DOMAIN recorded' /\ recorded'[i] = recorded[i]
        BY <1>4
      <4> QED BY <2>1, <4>1, <4>2, Zenon
    <3> QED BY <3>1, <3>2, Zenon DEF RecordSound
  <2>2. CASE Suspects(e) /\ context'.severity = e.content.severity
    BY <1>4, <2>2, Zenon
  <2> QED BY <1>7, <2>1, <2>2
<1>11. recorded' \in Seq(ScanEvent) /\ toRecord' \in Seq(ScanEvent) /\ recorded' \o toRecord' = EventsOfReport'
  BY <1>2, <1>4, <1>5, <1>6 DEF Any
<1>12. candidates' = <<>> /\ failures' = 0
  BY <1>1, <1>2
<1> QED BY <1>1, <1>7, <1>8, <1>9, <1>10, <1>11, <1>12, Zenon DEF RecordSound

LEMMA RecordEnds ==
    ASSUME RecordSound, RecordFails \/ Launch \/ Done
    PROVE  RecordSound'
<1>1. UNCHANGED <<toRecord, recorded, context, candidates, report>>
  BY DEF RecordFails, Launch, Done, Recording, recordVars, readVars, vars
<1>2. EventsOfReport' = EventsOfReport
  BY <1>1 DEF EventsOfReport, Limited
<1>3. /\ recorded' \in Seq(ScanEvent) /\ toRecord' \in Seq(ScanEvent)
      /\ context' \in [untrusted : BOOLEAN, severity : Known]
      /\ context'.untrusted <=> \E i \in DOMAIN recorded' : Observes(recorded'[i])
      /\ \A i \in DOMAIN recorded' :
            Suspects(recorded'[i]) => Rank(recorded'[i].content.severity) <= Rank(context'.severity)
  BY <1>1 DEF RecordSound
<1>4. \/ context'.severity = ""
      \/ \E i \in DOMAIN recorded' : Suspects(recorded'[i]) /\ recorded'[i].content.severity = context'.severity
  BY <1>1, Zenon DEF RecordSound
<1>5. CASE RecordFails
  <2>1. stage' = "failed"
    BY <1>5 DEF RecordFails
  <2> QED BY <1>3, <1>4, <2>1 DEF RecordSound
<1>6. CASE Launch
  <2>1. stage = "recording" /\ stage' = "launched" /\ toRecord = <<>> /\ failures' = failures
    BY <1>6 DEF Launch, Recording, recordVars
  <2>2. recorded \o toRecord = EventsOfReport /\ candidates = <<>> /\ failures = 0
    BY <2>1 DEF RecordSound
  <2> QED BY <1>1, <1>2, <1>3, <1>4, <2>1, <2>2 DEF RecordSound
<1>7. CASE Done
  <2>1. stage' = stage /\ failures' = failures
    BY <1>7 DEF Done, vars, recordVars
  <2> QED BY <1>1, <1>2, <2>1 DEF RecordSound
<1> QED BY <1>5, <1>6, <1>7

\* At the launch everything that the report says has been recorded.
LEMMA RecordedAll ==
    ASSUME RecordSound, stage = "launched"
    PROVE  recorded = EventsOfReport /\ candidates = <<>>
<1>1. /\ recorded \in Seq(ScanEvent) /\ toRecord = <<>>
      /\ recorded \o toRecord = EventsOfReport /\ candidates = <<>>
  BY DEF RecordSound
<1>2. recorded \o <<>> = recorded
  <2> HIDE DEF ScanEvent
  <2> QED BY <1>1, ConcatEmptySeq
<1> QED BY <1>1, <1>2

-----------------------------------------------------------------------------
(* The invariant. *)

LEMMA InitSound == Init => ScanInvariant
<1> SUFFICES ASSUME Init PROVE ScanInvariant
  OBVIOUS
<1>1. /\ stage = "discovering" /\ todo = <<[path |-> Root, type |-> "dir"]>> /\ entries = 0
      /\ candidates = <<>> /\ index = 0 /\ handle = Closed /\ report = NoReport /\ touched = {}
      /\ placed = {<<p, disk[p].inode>> : p \in {f \in Files : disk[f].type = "file"}}
      /\ toRecord = <<>> /\ recorded = <<>> /\ failures = 0
  BY Zenon DEF Init
<1>2. DiskSound
  <2>0. PICK here \in SUBSET Files : \E holds \in [here -> Contents] :
            /\ inodes = [i \in DOMAIN InOrder(here, Position) |-> holds[InOrder(here, Position)[i]]]
            /\ disk = [p \in Files |-> IF p \in here THEN File(CHOOSE i \in DOMAIN InOrder(here, Position) :
                                                                InOrder(here, Position)[i] = p) ELSE Absent]
    BY Zenon DEF Init
  <2>1. PICK holds \in [here -> Contents] :
            /\ inodes = [i \in DOMAIN InOrder(here, Position) |-> holds[InOrder(here, Position)[i]]]
            /\ disk = [p \in Files |-> IF p \in here THEN File(CHOOSE i \in DOMAIN InOrder(here, Position) :
                                                                InOrder(here, Position)[i] = p) ELSE Absent]
    BY <2>0
  <2> DEFINE files == InOrder(here, Position)
             at(p) == CHOOSE i \in DOMAIN files : files[i] = p
  <2>2. files \in Seq(here) /\ Range(files) = here
    <3>1. here \subseteq AllPaths
      BY FilesAmongPaths
    <3> QED BY <3>1, PathsInOrder
  <2>3. /\ inodes = [i \in DOMAIN files |-> holds[files[i]]]
        /\ \A p \in Files : disk[p] = IF p \in here THEN File(at(p)) ELSE Absent
        /\ DOMAIN disk = Files /\ disk = [p \in Files |-> disk[p]]
    BY <2>1
  <2> HIDE DEF files
  <2>4. Len(files) \in Nat /\ DOMAIN files = 1 .. Len(files) /\ \A i \in DOMAIN files : files[i] \in here
    BY <2>2, LenProperties, ElementOfSeq
  <2>5. inodes \in Seq(Contents) /\ Len(inodes) = Len(files)
    <3>1. inodes \in [1 .. Len(files) -> Contents]
      BY <2>3, <2>4
    <3> QED BY <2>4, <3>1
  <2>6. \A p \in here : at(p) \in 1 .. Len(files) /\ files[at(p)] = p
    <3> SUFFICES ASSUME NEW p \in here PROVE at(p) \in 1 .. Len(files) /\ files[at(p)] = p
      OBVIOUS
    <3>1. \E i \in DOMAIN files : files[i] = p
      BY <2>2 DEF Range
    <3> QED BY <2>4, <3>1
  <2> HIDE DEF at
  <2>7. \A p \in Files : disk[p] \in Things(Len(inodes))
    BY <2>3, <2>4, <2>5, <2>6 DEF Things
  <2>8. disk \in [Files -> Things(Len(inodes))]
    BY <2>3, <2>7
  <2>9. \A p \in Files : IsFile(p) => p \in here /\ disk[p].inode = at(p)
    BY <2>3 DEF IsFile, File, Absent
  <2>10. \A p, q \in Files : IsFile(p) /\ IsFile(q) /\ disk[p].inode = disk[q].inode => p = q
    BY <2>6, <2>9
  <2>11. \A p \in Files : IsFile(p) => <<p, disk[p].inode>> \in placed
    BY <1>1 DEF IsFile
  <2> QED BY <2>5, <2>8, <2>10, <2>11 DEF DiskSound
<1>3. WalkSound
  <2>1. [path |-> Root, type |-> "dir"] \in Entry /\ EntrySound([path |-> Root, type |-> "dir"])
    BY FilesAmongPaths DEF Entry, Types, EntrySound
  <2>2. todo \in Seq(Entry) /\ \A i \in DOMAIN todo : EntrySound(todo[i])
    BY <1>1, <2>1
  <2> QED BY <1>1, <2>2, LimitsAssumption DEF WalkSound, NoReport
<1>4. ReadSound
  BY <1>1, LimitsAssumption DEF ReadSound, NoReport
<1>5. ReportSound
  <2>1. report.sources = {} /\ report.bytes = 0 /\ report \in Reports
    BY <1>1 DEF NoReport, Reports
  <2>2. BytesOf(report.sources) = {}
    BY <2>1 DEF BytesOf
  <2>3. Cardinality({}) = 0 /\ IsFiniteSet({})
    BY FS_EmptySet
  <2>4. index = 0 /\ 0 <= MaxTotalBytes /\ BytesOf({}) = {}
    BY <1>1, <2>1, <2>2, LimitsAssumption
  <2> HIDE DEF Reports, BytesOf
  <2> QED BY <2>1, <2>3, <2>4 DEF ReportSound
<1>6. WalkAccounted
  <2>1. 1 \in DOMAIN todo /\ todo[1].path = Root
    BY <1>1
  <2>2. Pending(Root)
    BY <2>1 DEF Pending
  <2>3. WalkedThrough({})
    BY <2>2 DEF WalkedThrough
  <2> QED BY <2>3 DEF WalkAccounted
<1>7. ReadAccounted
  BY <1>1 DEF ReadAccounted
<1>8. RecordSound
  <2>1. context = [untrusted |-> FALSE, severity |-> ""]
    BY Zenon DEF Init
  <2>2. PICK none : none = ""
    OBVIOUS
  <2>3. context = [untrusted |-> FALSE, severity |-> none] /\ none \in Known
    BY <2>1, <2>2, Zenon DEF Known
  <2>4. context \in [untrusted : BOOLEAN, severity : Known] /\ context.untrusted = FALSE /\ context.severity = none
    BY <2>3
  <2>5. context.severity = ""
    BY <2>2, <2>4, Zenon
  <2>6. recorded \in Seq(ScanEvent) /\ toRecord \in Seq(ScanEvent) /\ DOMAIN recorded = {}
    <3> HIDE DEF ScanEvent
    <3> QED BY <1>1
  <2> QED BY <1>1, <2>4, <2>5, <2>6, Zenon DEF RecordSound
<1> QED BY <1>1, <1>2, <1>3, <1>4, <1>5, <1>6, <1>7, <1>8 DEF ScanInvariant, Stages

LEMMA StepSound == ScanInvariant /\ [Next]_vars => ScanInvariant'
<1> SUFFICES ASSUME ScanInvariant, [Next]_vars PROVE ScanInvariant'
  OBVIOUS
<1> USE DEF ScanInvariant
<1>0. report \in Reports
  BY DEF ReportSound
<1>1. ASSUME NEW p \in Files, Write(p) \/ Replace(p) \/ Exchange(p) PROVE ScanInvariant'
  <2>1. DiskSound' /\ ChangeOf(p)
    BY <1>1, ChangeSound
  <2>2. WalkSound' /\ ReadSound' /\ ReportSound' /\ WalkAccounted' /\ ReadAccounted'
    BY <2>1, WalkUnderChange, ReadUnderChange
  <2>3. stage \in {"discovering", "reading"} /\ stage' = stage /\ UNCHANGED recordVars
    BY <2>1 DEF ChangeOf
  <2> QED BY <2>1, <2>2, <2>3, RecordingWaits DEF Stages
<1>2. CASE EnterDirectory
  <2>1. stage = "discovering" /\ stage' = stage /\ UNCHANGED <<diskVars, recordVars>>
    BY <1>2 DEF EnterDirectory, Discovering
  <2>2. DiskSound'
    BY <2>1 DEF DiskSound, IsFile, diskVars
  <2>3. WalkSound' /\ ReadSound' /\ ReportSound' /\ WalkAccounted' /\ ReadAccounted'
    BY <1>0, <1>2, WalkEnterDirectory, ReadEnterDirectory
  <2> QED BY <2>1, <2>2, <2>3, RecordingWaits DEF Stages
<1>3. CASE SeeEntry
  <2>1. stage = "discovering" /\ stage' = stage /\ UNCHANGED <<diskVars, recordVars>>
    BY <1>3 DEF SeeEntry, Discovering
  <2>2. DiskSound'
    BY <2>1 DEF DiskSound, IsFile, diskVars
  <2>3. WalkSound' /\ ReadSound' /\ ReportSound' /\ WalkAccounted' /\ ReadAccounted'
    BY <1>3, WalkSeeEntry, ReadSeeEntry
  <2> QED BY <2>1, <2>2, <2>3, RecordingWaits DEF Stages
<1>4. CASE EndWalk
  <2>1. stage = "discovering" /\ stage' = "reading" /\ UNCHANGED <<diskVars, recordVars>>
    BY <1>4 DEF EndWalk, Discovering
  <2>2. DiskSound'
    BY <2>1 DEF DiskSound, IsFile, diskVars
  <2>3. WalkSound' /\ ReadSound' /\ ReportSound' /\ WalkAccounted' /\ ReadAccounted'
    BY <1>4, ReadEndWalk
  <2> QED BY <2>1, <2>2, <2>3, RecordingWaits DEF Stages
<1>5. CASE FileLimit \/ LookAt \/ Open \/ Measure \/ Read
  <2>1. ReadingFrame /\ (Moved \/ PassedOver \/ Reported \/ CutOff \/ Fail)
    BY <1>5, FileLimitKind, LookAtKind, OpenKind, MeasureKind, ReadKind
  <2>2. ReadSound' /\ ReportSound' /\ ReadAccounted'
    BY <2>1, MovedSound, PassedOverSound, ReportedSound, CutOffSound, FailSound
  <2>3. /\ stage = "reading" /\ stage' \in {"reading", "failed"} /\ UNCHANGED <<diskVars, walkVars, recordVars>>
        /\ report'.discoveryTruncated = report.discoveryTruncated
    BY <2>1 DEF ReadingFrame, Moved, PassedOver, Reported, CutOff, Fail, ReportGrows
  <2>4. DiskSound' /\ WalkSound'
    BY <2>3, WalkRests
  <2>5. WalkAccounted' /\ RecordSound'
    BY <2>3, RecordingWaits DEF WalkAccounted
  <2> QED BY <2>2, <2>3, <2>4, <2>5 DEF Stages
<1>6. CASE BeginRecording
  <2>1. stage = "reading" /\ stage' = "recording" /\ UNCHANGED <<diskVars, walkVars, readVars, report>>
    BY <1>6 DEF BeginRecording
  <2> QED BY <1>6, <2>1, BeginSound, InspectionRests DEF Stages
<1>7. CASE Record
  <2>1. stage = "recording" /\ stage' = "recording" /\ UNCHANGED <<diskVars, walkVars, readVars, report>>
    BY <1>7 DEF Record, Recording
  <2> QED BY <1>7, <2>1, RecordStep, InspectionRests DEF Stages
<1>8. CASE RecordFails \/ Launch
  <2>1. /\ stage = "recording" /\ stage' \in {"launched", "failed"}
        /\ UNCHANGED <<diskVars, walkVars, readVars, report>>
    BY <1>8 DEF RecordFails, Launch, Recording
  <2> QED BY <1>8, <2>1, RecordEnds, InspectionRests DEF Stages
<1>9. CASE Done
  <2>1. stage \in {"launched", "failed"} /\ stage' = stage /\ UNCHANGED <<diskVars, walkVars, readVars, report>>
    BY <1>9 DEF Done, vars
  <2> QED BY <1>9, <2>1, RecordEnds, InspectionRests DEF Stages
<1>10. CASE Interrupted
  BY <1>10, InterruptedSound
<1>11. CASE UNCHANGED vars
  <2>1. UNCHANGED <<diskVars, stage, walkVars, readVars, report, recordVars>>
    BY <1>11 DEF vars
  <2>2. UNCHANGED <<disk, inodes, touched, placed, todo, entries, candidates, index, handle, report>>
    BY <2>1 DEF diskVars, walkVars, readVars
  <2>3. UNCHANGED <<toRecord, recorded, context, failures>>
    BY <2>1 DEF recordVars
  <2>4. DiskSound' /\ WalkSound'
    BY <2>1, WalkRests
  <2>5. ReadSound' /\ ReportSound' /\ ReadAccounted'
    <3>1. ReadSound'
      BY <2>1, <2>2 DEF ReadSound
    <3>2. ReportSound'
      BY <2>1, <2>2 DEF ReportSound
    <3>3. (Limited' <=> Limited) /\ \A p : Present(p)' <=> Present(p)
      BY <2>2 DEF Limited, Present, IsFile
    <3>4. ReadAccounted'
      BY <2>1, <2>2, <3>3 DEF ReadAccounted
    <3> QED BY <3>1, <3>2, <3>4
  <2>6. WalkAccounted'
    <3>1. \A entered : WalkedThrough(entered) => WalkedThrough(entered)'
      BY <2>2 DEF WalkedThrough, Pending, Present, IsFile
    <3> QED BY <2>1, <2>2, <3>1 DEF WalkAccounted
  <2>7. EventsOfReport' = EventsOfReport
    BY <2>2 DEF EventsOfReport, Limited
  <2>8. RecordSound'
    BY <2>1, <2>2, <2>3, <2>7 DEF RecordSound
  <2> QED BY <2>1, <2>4, <2>5, <2>6, <2>8
<1> QED BY <1>1, <1>2, <1>3, <1>4, <1>5, <1>6, <1>7, <1>8, <1>9, <1>10, <1>11 DEF Next

\* The inspection (promptguard.Scanner.Scan, Manager.inspectWorkspace) keeps to the invariant,
\* whatever the workspace is and however other programs change it.
THEOREM ScanInvariance == Spec => []ScanInvariant
<1>1. Init => ScanInvariant
  BY InitSound
<1>2. ScanInvariant /\ [Next]_vars => ScanInvariant'
  BY StepSound
<1> QED BY <1>1, <1>2, PTL DEF Spec

-----------------------------------------------------------------------------
(* What the inspection promises. *)

\* What openInspected and readBoundedText report of a source comes from one file that was at
\* that path, once, and within the limits of files and bytes; also when files grow meanwhile.
THEOREM SourcesAreSound == Spec => []SourcesSound
<1>1. ScanInvariant => SourcesSound
  <2> SUFFICES ASSUME ScanInvariant PROVE SourcesSound
    OBVIOUS
  <2>1. entries <= MaxEntries /\ index \in 0 .. MaxFiles /\ MaxFiles \in Nat
    BY LimitsAssumption DEF ScanInvariant, WalkSound, ReadSound
  <2>2. Cardinality(report.sources) <= MaxFiles
    <3>1. IsFiniteSet(report.sources) /\ Cardinality(report.sources) <= index
      BY DEF ScanInvariant, ReportSound
    <3> QED BY <2>1, <3>1, FS_CardinalityType
  <2> QED BY <2>1, <2>2 DEF ScanInvariant, Stages, ReportSound, BytesOf, SourcesSound
<1> QED BY <1>1, ScanInvariance, PTL

\* The agent is only launched when each source that was there all the time has been read, or
\* when the limit that was reached is on record: discover loses nothing, in any tree.
THEOREM NothingIsMissed == Spec => []NothingMissedSilently
<1>1. ScanInvariant => NothingMissedSilently
  <2> SUFFICES ASSUME ScanInvariant, stage = "launched", NEW p \in Files \ touched, Relevant(p)
               PROVE  \/ \E s \in report.sources : s.path = p /\ s.content = inodes[disk[p].inode]
                      \/ \E i \in DOMAIN recorded : recorded[i].type = "RESOURCE_LIMIT_TRIGGERED"
    BY DEF NothingMissedSilently
  <2>1. candidates = <<>> /\ recorded = EventsOfReport
    BY RecordedAll DEF ScanInvariant
  <2>2. CASE Limited
    <3>1. \E i \in DOMAIN EventsOfReport : EventsOfReport[i].type = "RESOURCE_LIMIT_TRIGGERED"
      BY <2>2, EventFacts DEF ScanInvariant, ReportSound
    <3> QED BY <2>1, <3>1
  <2>3. CASE ~Limited
    <3>1. Present(p) /\ inodes[disk[p].inode].text
      BY DEF Relevant, Present, IsFile
    <3>2. Range(candidates) = {}
      BY <2>1 DEF Range
    <3> QED BY <2>3, <3>1, <3>2 DEF ScanInvariant, ReadAccounted
  <2> QED BY <2>2, <2>3
<1> QED BY <1>1, ScanInvariance, PTL

\* When the agent is launched (Manager.Run after inspectWorkspace), stored events and the context
\* in which approvals are asked say the same, and it is what the report says.
THEOREM LaunchIsInformed == Spec => []LaunchKnows
<1>1. ScanInvariant => LaunchKnows
  <2> SUFFICES ASSUME ScanInvariant, stage = "launched" PROVE LaunchKnows
    BY DEF LaunchKnows
  <2> DEFINE seen(type) == {i \in DOMAIN recorded : recorded[i].type = type}
             found == {recorded[i].content.severity : i \in seen("PROMPT_INJECTION_SUSPECTED")}
  <2>1. recorded = EventsOfReport /\ failures = 0
    BY RecordedAll DEF ScanInvariant, RecordSound
  <2>2. /\ \A i \in DOMAIN recorded : Observes(recorded[i]) =>
                \E s \in report.sources :
                    /\ s.path = recorded[i].path /\ s.content = recorded[i].content
                    /\ Suspects(recorded[i]) => s.content.severity # ""
        /\ \A s \in report.sources : \E i \in DOMAIN recorded :
                recorded[i] = Event("UNTRUSTED_CONTENT_OBSERVED", s.path, s.content)
        /\ \A s \in report.sources : s.content.severity # "" => \E i \in DOMAIN recorded :
                recorded[i] = Event("PROMPT_INJECTION_SUSPECTED", s.path, s.content)
        /\ \A i \in DOMAIN recorded : Suspects(recorded[i]) =>
                \E j \in DOMAIN recorded :
                    /\ j < i /\ recorded[j].type = "UNTRUSTED_CONTENT_OBSERVED"
                    /\ recorded[j].path = recorded[i].path /\ recorded[j].content = recorded[i].content
        /\ (\E i \in DOMAIN recorded : recorded[i].type = "RESOURCE_LIMIT_TRIGGERED") <=> Limited
    <3>1. report \in Reports /\ \A s, other \in report.sources : other.path = s.path => other = s
      BY DEF ScanInvariant, ReportSound
    <3> QED BY <2>1, <3>1, EventFacts, Zenon
  <2>3. PICK none : none = ""
    OBVIOUS
  <2>4. /\ \A i \in DOMAIN recorded : Observes(recorded[i]) =>
                \E s \in report.sources :
                    /\ s.path = recorded[i].path /\ s.content = recorded[i].content
                    /\ Suspects(recorded[i]) => s.content.severity # none
        /\ \A s \in report.sources : s.content.severity # none => \E i \in DOMAIN recorded :
                recorded[i] = Event("PROMPT_INJECTION_SUSPECTED", s.path, s.content)
        /\ \A s \in report.sources : \E i \in DOMAIN recorded :
                /\ recorded[i].type = "UNTRUSTED_CONTENT_OBSERVED"
                /\ recorded[i].path = s.path /\ recorded[i].content = s.content
    <3>1. \A p, c : /\ Event("UNTRUSTED_CONTENT_OBSERVED", p, c).type = "UNTRUSTED_CONTENT_OBSERVED"
                    /\ Event("UNTRUSTED_CONTENT_OBSERVED", p, c).path = p
                    /\ Event("UNTRUSTED_CONTENT_OBSERVED", p, c).content = c
      BY DEF Event
    <3>2. ASSUME NEW s \in report.sources
          PROVE  \E i \in DOMAIN recorded :
                    /\ recorded[i].type = "UNTRUSTED_CONTENT_OBSERVED"
                    /\ recorded[i].path = s.path /\ recorded[i].content = s.content
      <4>1. PICK i \in DOMAIN recorded : recorded[i] = Event("UNTRUSTED_CONTENT_OBSERVED", s.path, s.content)
        BY <2>2, Zenon
      <4> QED BY <3>1, <4>1
    <3>3. /\ \A i \in DOMAIN recorded : Observes(recorded[i]) =>
                \E s \in report.sources :
                    /\ s.path = recorded[i].path /\ s.content = recorded[i].content
                    /\ Suspects(recorded[i]) => s.content.severity # none
          /\ \A s \in report.sources : s.content.severity # none => \E i \in DOMAIN recorded :
                recorded[i] = Event("PROMPT_INJECTION_SUSPECTED", s.path, s.content)
      BY <2>2, <2>3, Zenon
    <3> QED BY <3>2, <3>3
  <2>5. {[path |-> recorded[i].path, content |-> recorded[i].content] : i \in seen("UNTRUSTED_CONTENT_OBSERVED")}
            = {[path |-> s.path, content |-> s.content] : s \in report.sources}
    <3>1. ASSUME NEW i \in seen("UNTRUSTED_CONTENT_OBSERVED")
          PROVE  \E s \in report.sources : s.path = recorded[i].path /\ s.content = recorded[i].content
      BY <2>4 DEF Observes
    <3>2. ASSUME NEW s \in report.sources
          PROVE  \E i \in seen("UNTRUSTED_CONTENT_OBSERVED") : s.path = recorded[i].path /\ s.content = recorded[i].content
      BY <2>4
    <3> HIDE DEF seen
    <3> QED BY <3>1, <3>2
  <2>6. found = {s.content.severity : s \in report.sources} \ {none}
    <3>1. ASSUME NEW i \in seen("PROMPT_INJECTION_SUSPECTED")
          PROVE  \E s \in report.sources : s.content.severity = recorded[i].content.severity /\ s.content.severity # none
      BY <2>4 DEF Observes, Suspects
    <3>2. ASSUME NEW s \in report.sources, s.content.severity # none
          PROVE  \E i \in seen("PROMPT_INJECTION_SUSPECTED") : s.content.severity = recorded[i].content.severity
      BY <2>4, <3>2 DEF Event
    <3> HIDE DEF seen
    <3> QED BY <3>1, <3>2
  <2>7. \A i \in seen("PROMPT_INJECTION_SUSPECTED") : \E j \in seen("UNTRUSTED_CONTENT_OBSERVED") :
            j < i /\ recorded[j].path = recorded[i].path /\ recorded[j].content = recorded[i].content
    BY <2>2 DEF Suspects
  <2>8. /\ context \in [untrusted : BOOLEAN, severity : Known]
        /\ context.untrusted <=> \E i \in DOMAIN recorded : Observes(recorded[i])
        /\ \A i \in DOMAIN recorded :
                Suspects(recorded[i]) => Rank(recorded[i].content.severity) <= Rank(context.severity)
        /\ \/ context.severity = none
           \/ \E i \in DOMAIN recorded : Suspects(recorded[i]) /\ recorded[i].content.severity = context.severity
    BY <2>3, Zenon DEF ScanInvariant, RecordSound
  <2>9. context.untrusted = (report.sources # {})
    <3>1. (\E i \in DOMAIN recorded : Observes(recorded[i])) <=> report.sources # {}
      BY <2>4 DEF Observes
    <3> QED BY <2>8, <3>1
  <2>10. \A severity \in found \cup {none} : Rank(severity) <= Rank(context.severity)
    <3>1. Rank(none) = 0 /\ Rank(context.severity) \in Nat
      BY <2>3, <2>8, RankFacts
    <3>2. \A severity \in found : Rank(severity) <= Rank(context.severity)
      BY <2>8 DEF Suspects
    <3> HIDE DEF found
    <3> QED BY <3>1, <3>2
  <2>11. context.severity \in found \cup {none}
    BY <2>8 DEF Suspects
  <2>12. (seen("RESOURCE_LIMIT_TRIGGERED") # {}) = Limited
    <3>1. seen("RESOURCE_LIMIT_TRIGGERED") # {} <=> Limited
      BY <2>2
    <3>2. Limited \in BOOLEAN
      BY DEF Limited
    <3> QED BY <3>1, <3>2
  <2> QED BY <2>1, <2>3, <2>5, <2>6, <2>7, <2>9, <2>10, <2>11, <2>12, Zenon DEF LaunchKnows
<1> QED BY <1>1, ScanInvariance, PTL
=============================================================================
