---------------------------- MODULE WorkspaceScan ----------------------------
(***************************************************************************)
(* The inspection of the workspace before a run: internal/promptguard      *)
(* (scanner.go) discovers and reads instruction files, session/manager.go  *)
(* (inspectWorkspace) stores what was seen and builds the context in which *)
(* the user is asked for approvals.  Meanwhile other programs go on        *)
(* changing the workspace.                                                 *)
(*                                                                         *)
(* Names, text and detection rules are data: a path has its kind, a        *)
(* content its size and what the detector says of it.  A file is an inode; *)
(* reading it takes what it holds at that moment.  Directories stay.       *)
(***************************************************************************)
EXTENDS Integers, FiniteSets, Sequences, Functions

CONSTANTS
    Paths,          \* everything that may be in the workspace, in the order of names
    Directories,    \* those of them that are directories
    Excluded,       \* directories that are passed over, and what is below them
    Root,           \* "."
    Parent,         \* the directory of each path
    Kind,           \* SourceKind of each file, "" when it is of no interest
    Contents,       \* what a file may hold: [size, text, severity, long]
    MaxEntries, MaxFiles, MaxFileBytes, MaxTotalBytes,
    MaxChanges,     \* bound: changes that other programs make
    MaxFailures     \* bound: failures to store an event

Files == Range(Paths) \ Directories
Kinds == {"AGENT_INSTRUCTIONS", "AUTOMATION_CONFIG", "REPOSITORY_DOCS", "INSTRUCTION_SCRIPT"}
Severities == <<"LOW", "MEDIUM", "HIGH", "CRITICAL">>
Rank(severity) == IF severity = "" THEN 0 ELSE CHOOSE i \in DOMAIN Severities : Severities[i] = severity

\* Everything has a place in the order of names, ...
Position == [p \in Range(Paths) |-> CHOOSE i \in DOMAIN Paths : Paths[i] = p]

\* ... and a set is put in order by the places of its members: i - 1 come before the i-th.
InOrder(set, place) ==
    [i \in 1 .. Cardinality(set) |->
        CHOOSE p \in set : Cardinality({q \in set : place[q] < place[p]}) = i - 1]

\* Limits.validate
ASSUME LimitsAssumption ==
    /\ {MaxFileBytes, MaxTotalBytes, MaxFiles, MaxEntries} \subseteq Nat
    /\ MaxFileBytes >= 1 /\ MaxTotalBytes >= MaxFileBytes
    /\ MaxFiles >= 1 /\ MaxEntries >= MaxFiles

\* Paths form a tree below Root; the path of a directory is a prefix of those in it, so it sorts
\* before them.  The walk never gets below a directory that it passes over.
ASSUME PathsAssumption ==
    /\ Paths \in Seq(Range(Paths)) /\ Directories \subseteq Range(Paths) /\ Root \notin Range(Paths)
    /\ \A p \in Range(Paths) :
        Parent[p] = Root \/ (Parent[p] \in Directories /\ Position[Parent[p]] < Position[p])
    /\ Root \notin Excluded /\ \A d \in Directories : Parent[d] \in Excluded => d \in Excluded
    /\ \A p \in Files : Kind[p] \in Kinds \cup {""}

ASSUME ContentsAssumption ==
    \A c \in Contents :
        /\ c.size \in Nat /\ {c.text, c.long} \subseteq BOOLEAN
        /\ c.severity \in Range(Severities) \cup {""}

VARIABLES
    disk,           \* what is at each file's path
    inodes,         \* what each inode holds; inodes are numbered as they are made
    changes,        \* changes made so far
    touched,        \* paths changed since the inspection began; history
    placed,         \* which inodes have been at which path; history
    stage,          \* "discovering", "reading", "recording", "launched", "failed"
    todo,           \* entries of the walk still to be seen, with the type their listing gave
    entries,        \* entries counted
    candidates,     \* sources found, then those still to be read, in order
    index,          \* candidates done with
    handle,         \* the open source: [path, inode, step]
    report,         \* promptguard.Report
    toRecord,       \* events to be stored
    recorded,       \* events stored
    context,        \* runSecurityContext
    failures        \* failures to store so far

diskVars == <<disk, inodes, changes, touched, placed>>
walkVars == <<todo, entries>>
readVars == <<candidates, index, handle>>
recordVars == <<toRecord, recorded, context, failures>>
vars == <<diskVars, stage, walkVars, readVars, report, recordVars>>

Absent == [type |-> "absent"]
Fifo == [type |-> "fifo"]
Link(i) == [type |-> "link", to |-> i]    \* to an inode, or to nothing: 0
File(i) == [type |-> "file", inode |-> i]
Closed == [step |-> "closed"]

NoReport ==
    [sources |-> {}, bytes |-> 0, binary |-> 0, symlinks |-> 0, oversized |-> 0,
     byFiles |-> 0, byBytes |-> 0, analysisTruncated |-> 0, discoveryTruncated |-> FALSE]

-----------------------------------------------------------------------------
(* Other programs. *)

Change(p) ==
    /\ stage \in {"discovering", "reading"}
    /\ changes < MaxChanges
    /\ changes' = changes + 1
    /\ touched' = touched \cup {p}
    /\ placed' = placed \cup {<<q, disk'[q].inode>> : q \in {f \in Files : disk'[f].type = "file"}}
    /\ UNCHANGED <<stage, walkVars, readVars, report, recordVars>>

\* The file at p is written to.
Write(p) ==
    /\ disk[p].type = "file"
    /\ \E c \in Contents : inodes' = [inodes EXCEPT ![disk[p].inode] = c]
    /\ UNCHANGED disk
    /\ Change(p)

\* Another file is put in its place, ...
Replace(p) ==
    /\ \E c \in Contents : inodes' = Append(inodes, c)
    /\ disk' = [disk EXCEPT ![p] = File(Len(inodes'))]
    /\ Change(p)

\* ... or something else, or nothing.
Exchange(p) ==
    /\ \E other \in {Absent, Fifo} \cup {Link(i) : i \in 0 .. Len(inodes)} : disk' = [disk EXCEPT ![p] = other]
    /\ UNCHANGED inodes
    /\ Change(p)

-----------------------------------------------------------------------------
(* discover *)

TypeAt(p) == IF p \in Directories THEN "dir" ELSE disk[p].type

\* A directory's listing, in the order of names.
Listing(d) ==
    LET children == InOrder({p \in Range(Paths) : Parent[p] = d /\ TypeAt(p) # "absent"}, Position)
    IN [i \in DOMAIN children |-> [path |-> children[i], type |-> TypeAt(children[i])]]

Priority(p) ==
    CASE Kind[p] = "AGENT_INSTRUCTIONS" -> 0
      [] Kind[p] # "AGENT_INSTRUCTIONS" /\ Parent[p] = Root -> 1
      [] Kind[p] = "AUTOMATION_CONFIG" /\ Parent[p] # Root -> 2
      [] Kind[p] = "REPOSITORY_DOCS" /\ Parent[p] # Root -> 3
      [] OTHER -> 4

\* The sources in the order of their priority, sources of one priority by path.
ByPriority(found) ==
    InOrder(found, [p \in found |-> Priority(p) * (Len(Paths) + 1) + Position[p]])

Discovering == stage = "discovering" /\ UNCHANGED <<diskVars, index, handle, recordVars>>

\* A directory that does not fit into what is left of the entries ends the whole walk.
EnterDirectory ==
    /\ Discovering
    /\ todo # <<>> /\ Head(todo).type = "dir" /\ Head(todo).path \notin Excluded
    /\ LET children == Listing(Head(todo).path)
           fits == Len(children) <= MaxEntries - entries
       IN /\ todo' = IF fits THEN children \o Tail(todo) ELSE <<>>
          /\ entries' = IF fits THEN entries + Len(children) ELSE entries
          /\ report' = [report EXCEPT !.discoveryTruncated = ~fits]
    /\ UNCHANGED <<stage, candidates>>

SeeEntry ==
    /\ Discovering
    /\ todo # <<>> /\ (Head(todo).type = "dir" => Head(todo).path \in Excluded)
    /\ LET entry == Head(todo)
       IN /\ candidates' = IF entry.type = "file" /\ Kind[entry.path] # ""
                           THEN Append(candidates, entry.path) ELSE candidates
          /\ report' = IF entry.type = "link" THEN [report EXCEPT !.symlinks = @ + 1] ELSE report
    /\ todo' = Tail(todo)
    /\ UNCHANGED <<stage, entries>>

EndWalk ==
    /\ Discovering
    /\ todo = <<>>
    /\ candidates' = ByPriority(Range(candidates))
    /\ stage' = "reading"
    /\ UNCHANGED <<walkVars, report>>

-----------------------------------------------------------------------------
(* The sources, one by one: openInspected, then Inspect and readBoundedText. *)

Reading == stage = "reading" /\ UNCHANGED <<diskVars, walkVars, recordVars>>
NextSource == candidates' = Tail(candidates) /\ index' = index + 1 /\ handle' = Closed
StillOpen == UNCHANGED <<candidates, index>>
Fail == stage' = "failed" /\ UNCHANGED <<report, readVars>>

FileLimit ==
    /\ Reading
    /\ handle = Closed /\ candidates # <<>> /\ index >= MaxFiles
    /\ report' = [report EXCEPT !.byFiles = Len(candidates)]
    /\ candidates' = <<>>
    /\ UNCHANGED <<stage, index, handle>>

\* Lstat: a source that is gone is passed over, one that is no longer a file ends the run.
LookAt ==
    /\ Reading
    /\ handle = Closed /\ candidates # <<>> /\ index < MaxFiles
    /\ LET p == Head(candidates)
       IN CASE disk[p].type = "file" ->
                    handle' = [step |-> "seen", path |-> p, inode |-> disk[p].inode] /\ StillOpen /\ UNCHANGED <<stage, report>>
            [] disk[p].type = "absent" -> NextSource /\ UNCHANGED <<stage, report>>
            [] OTHER -> Fail

\* What opening p by name leads to; a link leads on, to a file or to nothing.
Opened(p) ==
    CASE disk[p].type = "link" /\ disk[p].to = 0 -> Absent
      [] disk[p].type = "link" /\ disk[p].to # 0 -> File(disk[p].to)
      [] OTHER -> disk[p]

\* Mutant: whatever the name leads to is read.
OpenAnything ==
    /\ Reading
    /\ handle.step = "seen"
    /\ LET file == Opened(handle.path)
       IN CASE file.type = "absent" -> NextSource /\ UNCHANGED <<stage, report>>
            [] file.type = "file" ->
                    handle' = [handle EXCEPT !.step = "open", !.inode = file.inode] /\ StillOpen /\ UNCHANGED <<stage, report>>
            [] OTHER -> Fail

\* OpenFile, and Stat of what was opened: it must be the file that Lstat saw.
Open ==
    /\ Reading
    /\ handle.step = "seen"
    /\ LET file == Opened(handle.path)
       IN CASE file.type = "absent" -> NextSource /\ UNCHANGED <<stage, report>>
            [] file.type = "file" /\ file.inode = handle.inode ->
                    handle' = [handle EXCEPT !.step = "open"] /\ StillOpen /\ UNCHANGED <<stage, report>>
            [] OTHER -> Fail

Held == inodes[handle.inode]

\* Sizes before reading.
Measure ==
    /\ Reading
    /\ handle.step = "open"
    /\ CASE Held.size > MaxFileBytes -> report' = [report EXCEPT !.oversized = @ + 1] /\ NextSource
         [] Held.size <= MaxFileBytes /\ report.bytes + Held.size > MaxTotalBytes ->
                report' = [report EXCEPT !.byBytes = @ + 1] /\ NextSource
         [] OTHER -> handle' = [handle EXCEPT !.step = "measured"] /\ StillOpen /\ UNCHANGED report
    /\ UNCHANGED stage

\* What a source is reported with.
Source(p, i, c) == [path |-> p, inode |-> i, content |-> c]

\* readBoundedText and the limits on what it returned.  Its Stat and its ReadAll are one step: a
\* file found too large at the Stat is as if read then, any other is taken at the ReadAll, which
\* stops behind the limit and so sees that a file has grown.
Read ==
    /\ Reading
    /\ handle.step = "measured"
    /\ report' =
        CASE Held.size > MaxFileBytes -> [report EXCEPT !.oversized = @ + 1]
          [] Held.size <= MaxFileBytes /\ ~Held.text -> [report EXCEPT !.binary = @ + 1]
          [] Held.size <= MaxFileBytes /\ Held.text /\ report.bytes + Held.size > MaxTotalBytes ->
                [report EXCEPT !.byBytes = @ + 1]
          [] OTHER -> [report EXCEPT !.bytes = @ + Held.size,
                                     !.sources = @ \cup {Source(handle.path, handle.inode, Held)},
                                     !.analysisTruncated = @ + (IF Held.long THEN 1 ELSE 0)]
    /\ NextSource
    /\ UNCHANGED stage

\* A cancelled context, or a directory or source that cannot be opened, listed, read or closed,
\* ends the inspection and the run.
Interrupted ==
    /\ stage \in {"discovering", "reading"}
    /\ stage' = "failed"
    /\ UNCHANGED <<diskVars, walkVars, readVars, report, recordVars>>

-----------------------------------------------------------------------------
(* inspectWorkspace: the report becomes events and context. *)

\* Mutant: only the limits on what is read.
LimitedReading ==
    report.oversized > 0 \/ report.byFiles > 0 \/ report.byBytes > 0 \/ report.analysisTruncated > 0

\* Report.Limited
Limited ==
    report.oversized > 0 \/ report.byFiles > 0 \/ report.byBytes > 0
        \/ report.analysisTruncated > 0 \/ report.discoveryTruncated

Event(type, path, content) == [type |-> type, path |-> path, content |-> content]

\* Sources by path, then findings by path, then the limits that were reached.
EventsOfReport ==
    LET contentOf(p) == (CHOOSE s \in report.sources : s.path = p).content
        observed == {s.path : s \in report.sources}
        ordered == InOrder(observed, Position)
        found == InOrder({p \in observed : contentOf(p).severity # ""}, Position)
    IN [i \in DOMAIN ordered |-> Event("UNTRUSTED_CONTENT_OBSERVED", ordered[i], contentOf(ordered[i]))]
       \o [i \in DOMAIN found |-> Event("PROMPT_INJECTION_SUSPECTED", found[i], contentOf(found[i]))]
       \o (IF Limited THEN <<Event("RESOURCE_LIMIT_TRIGGERED", Root, "")>> ELSE <<>>)

Recording == stage = "recording" /\ UNCHANGED <<diskVars, walkVars, readVars, report>>

BeginRecording ==
    /\ stage = "reading"
    /\ handle = Closed /\ candidates = <<>>
    /\ stage' = "recording"
    /\ toRecord' = EventsOfReport
    /\ UNCHANGED <<diskVars, walkVars, readVars, report, recorded, context, failures>>

\* Mutant: the last finding counts.
ObserveLast(c, event) ==
    CASE event.type = "UNTRUSTED_CONTENT_OBSERVED" -> [c EXCEPT !.untrusted = TRUE]
      [] event.type = "PROMPT_INJECTION_SUSPECTED" -> [untrusted |-> TRUE, severity |-> event.content.severity]
      [] OTHER -> c

\* runSecurityContext and trust.Context only ever learn more.
Observe(c, event) ==
    CASE event.type = "UNTRUSTED_CONTENT_OBSERVED" -> [c EXCEPT !.untrusted = TRUE]
      [] event.type = "PROMPT_INJECTION_SUSPECTED" ->
            [untrusted |-> TRUE,
             severity |-> IF Rank(event.content.severity) > Rank(c.severity) THEN event.content.severity ELSE c.severity]
      [] OTHER -> c

Record ==
    /\ Recording
    /\ toRecord # <<>>
    /\ recorded' = Append(recorded, Head(toRecord))
    /\ context' = Observe(context, Head(toRecord))
    /\ toRecord' = Tail(toRecord)
    /\ UNCHANGED <<stage, failures>>

RecordFails ==
    /\ Recording
    /\ toRecord # <<>> /\ failures < MaxFailures
    /\ failures' = failures + 1
    /\ stage' = "failed"
    /\ UNCHANGED <<toRecord, recorded, context>>

\* Manager.Run goes on; the context is the one approvals will be asked in.
Launch ==
    /\ Recording
    /\ toRecord = <<>>
    /\ stage' = "launched"
    /\ UNCHANGED recordVars

Done == stage \in {"launched", "failed"} /\ UNCHANGED vars

\* Some of the files are there when the inspection begins, each with an inode of its own.
Init ==
    /\ \E here \in SUBSET Files : \E holds \in [here -> Contents] :
        LET files == InOrder(here, Position)
        IN /\ inodes = [i \in DOMAIN files |-> holds[files[i]]]
           /\ disk = [p \in Files |-> IF p \in here THEN File(CHOOSE i \in DOMAIN files : files[i] = p) ELSE Absent]
    /\ changes = 0 /\ touched = {}
    /\ placed = {<<p, disk[p].inode>> : p \in {f \in Files : disk[f].type = "file"}}
    /\ stage = "discovering"
    /\ todo = <<[path |-> Root, type |-> "dir"]>> /\ entries = 0
    /\ candidates = <<>> /\ index = 0 /\ handle = Closed
    /\ report = NoReport
    /\ toRecord = <<>> /\ recorded = <<>> /\ failures = 0
    /\ context = [untrusted |-> FALSE, severity |-> ""]

Next ==
    \/ EnterDirectory \/ SeeEntry \/ EndWalk
    \/ FileLimit \/ LookAt \/ Open \/ Measure \/ Read \/ Interrupted
    \/ BeginRecording \/ Record \/ RecordFails \/ Launch \/ Done
    \/ \E p \in Files : Write(p) \/ Replace(p) \/ Exchange(p)

Spec == Init /\ [][Next]_vars

-----------------------------------------------------------------------------
(* What the inspection promises. *)

\* While other programs write to, replace, remove and link files, what is reported of a source
\* comes from one file that was itself at that path, is reported once, and all of it together
\* is within the limits: also when a file grows between its measuring and its reading.
SourcesSound ==
    /\ stage \in {"discovering", "reading", "recording", "launched", "failed"}
    /\ entries <= MaxEntries /\ index <= MaxFiles
    /\ Cardinality(report.sources) <= MaxFiles
    /\ report.bytes = Cardinality({b \in report.sources \X (1 .. MaxFileBytes) : b[2] <= b[1].content.size})
    /\ report.bytes <= MaxTotalBytes
    /\ \A s \in report.sources :
        /\ s.content.size <= MaxFileBytes /\ s.content.text
        /\ <<s.path, s.inode>> \in placed
        /\ \A other \in report.sources : other.path = s.path => other = s

\* The sources the guard is there for: text of a known kind, in no directory it passes over.
Relevant(p) ==
    /\ Kind[p] # "" /\ Parent[p] \notin Excluded
    /\ disk[p].type = "file" /\ inodes[disk[p].inode].text

\* A run is launched only when every source that was there all the time has been read, or when
\* RESOURCE_LIMIT_TRIGGERED says that the inspection was not complete; whatever order the
\* limits, the walk and changes to other files come in.
NothingMissedSilently ==
    stage = "launched" =>
        \A p \in Files \ touched : Relevant(p) =>
            \/ \E s \in report.sources : s.path = p /\ s.content = inodes[disk[p].inode]
            \/ \E i \in DOMAIN recorded : recorded[i].type = "RESOURCE_LIMIT_TRIGGERED"

\* When the agent starts, the context its approvals are asked in and the stored events say the
\* same: every source and finding is stored, each finding after its source and of the same
\* content, the context has seen them all and the highest severity, and limits are on record if
\* and only if they were reached.  A failure to store any of it has ended the run.
LaunchKnows ==
    stage = "launched" =>
        LET seen(type) == {i \in DOMAIN recorded : recorded[i].type = type}
            found == {recorded[i].content.severity : i \in seen("PROMPT_INJECTION_SUSPECTED")}
        IN /\ {[path |-> recorded[i].path, content |-> recorded[i].content] : i \in seen("UNTRUSTED_CONTENT_OBSERVED")}
                = {[path |-> s.path, content |-> s.content] : s \in report.sources}
           /\ found = {s.content.severity : s \in report.sources} \ {""}
           /\ \A i \in seen("PROMPT_INJECTION_SUSPECTED") : \E j \in seen("UNTRUSTED_CONTENT_OBSERVED") :
                j < i /\ recorded[j].path = recorded[i].path /\ recorded[j].content = recorded[i].content
           /\ context.untrusted = (report.sources # {})
           /\ \A severity \in found \cup {""} : Rank(severity) <= Rank(context.severity)
           /\ context.severity \in found \cup {""}
           /\ (seen("RESOURCE_LIMIT_TRIGGERED") # {}) = Limited
           /\ failures = 0
=============================================================================
