------------------------------ MODULE Sentinel ------------------------------
(***************************************************************************)
(* The Shadow sentinel: one inotify queue that orders decoy accesses and   *)
(* barrier requests, worked off serially by sentinel-handler, which marks  *)
(* containment before it logs an access and acknowledges a barrier only    *)
(* when everything queued before it has been handled.                      *)
(*                                                                         *)
(* External, modelled from the comments and the handler: inotifyd waits    *)
(* for a handler before it dispatches the next event, and all watches are  *)
(* in place before the agent starts (the readiness barrier).               *)
(*                                                                         *)
(* Bound: the agent opens each decoy once; a token names one barrier       *)
(* request, as mktemp and the host's counters make it.                     *)
(***************************************************************************)
EXTENDS Naturals, Sequences, FiniteSets

CONSTANTS
    Decoys,         \* the watched files
    ContainOnDecoy  \* the contain-on-access file was created for the session

ASSUME SentinelAssumption == ContainOnDecoy \in BOOLEAN

VARIABLES
    up,         \* the sentinel's container runs
    queue,      \* its inotify queue; the head is the event being handled
    marked,     \* the handler of the head, an access, is past the marker
    marker,     \* the containment marker file exists
    acks,       \* acknowledgement files
    logged,     \* decoys with an access record in events.jsonl
    opened      \* history: decoys the agent has opened

sentinelVars == <<up, queue, marked, marker, acks, logged, opened>>

AccessTo(d) == [kind |-> "access", of |-> d]
BarrierOf(t) == [kind |-> "barrier", of |-> t]

SentinelInit ==
    /\ up = TRUE
    /\ queue = <<>>
    /\ marked = FALSE
    /\ marker = FALSE
    /\ acks = {}
    /\ logged = {}
    /\ opened = {}

\* What the kernel puts into the queue; nothing, once the sentinel is gone.
Enqueued(event) == IF up THEN Append(queue, event) ELSE queue

\* The agent opens a decoy.
Open(d) ==
    /\ d \notin opened
    /\ opened' = opened \cup {d}
    /\ queue' = Enqueued(AccessTo(d))
    /\ UNCHANGED <<up, marked, marker, acks, logged>>

\* A barrier request file appears.
Signal(t) ==
    /\ queue' = Enqueued(BarrierOf(t))
    /\ UNCHANGED <<up, marked, marker, acks, logged, opened>>

\* sentinel-handler on an access: the marker first, ...
Mark ==
    /\ queue # <<>> /\ Head(queue).kind = "access"
    /\ ~marked
    /\ marked' = TRUE
    /\ marker' = (marker \/ ContainOnDecoy)
    /\ UNCHANGED <<up, queue, acks, logged, opened>>

\* ... then the record.
Record ==
    /\ marked
    /\ logged' = logged \cup {Head(queue).of}
    /\ queue' = Tail(queue)
    /\ marked' = FALSE
    /\ UNCHANGED <<up, marker, acks, opened>>

\* Mutant: handlers run side by side, a barrier's overtakes those before it.
AcknowledgeAtOnce ==
    \E i \in DOMAIN queue :
        /\ queue[i].kind = "barrier" /\ ~(marked /\ i = 1)
        /\ acks' = acks \cup {queue[i].of}
        /\ queue' = SubSeq(queue, 1, i - 1) \o SubSeq(queue, i + 1, Len(queue))
        /\ UNCHANGED <<up, marked, marker, logged, opened>>

\* sentinel-handler on a barrier request.
Acknowledge ==
    /\ queue # <<>> /\ Head(queue).kind = "barrier"
    /\ acks' = acks \cup {Head(queue).of}
    /\ queue' = Tail(queue)
    /\ UNCHANGED <<up, marked, marker, logged, opened>>

\* Whoever sees an acknowledgement, or stops waiting for it, removes it.
Forget(t) ==
    /\ acks' = acks \ {t}
    /\ UNCHANGED <<up, queue, marked, marker, logged, opened>>

Handle == Mark \/ Record \/ Acknowledge

\* The container is gone, stopped by Ghost or killed: nothing is handled again.
StopSentinel ==
    /\ up
    /\ up' = FALSE
    /\ queue' = <<>>
    /\ marked' = FALSE
    /\ UNCHANGED <<marker, acks, logged, opened>>
=============================================================================
