--------------------------- MODULE GatewayProofs ---------------------------
(***************************************************************************)
(* The boundary of a running session for any number of connections,        *)
(* decoys, destinations, flush requests and failures: its types, the fence *)
(* around a forwarded connection and the completeness of a confirmed       *)
(* flush; then what leaves the boundary: an ASK destination is reached     *)
(* only on the user's word, and the records the handlers leave are ones    *)
(* the manager accepts.                                                    *)
(***************************************************************************)
EXTENDS Gateway, SequenceTheorems, TLAPS

Events == {AccessTo(d) : d \in Decoys} \cup {BarrierOf(t) : t \in Tokens}

LEMMA EventFacts ==
    /\ \A d, e : AccessTo(d) = AccessTo(e) <=> d = e
    /\ \A t, u : BarrierOf(t) = BarrierOf(u) <=> t = u
    /\ \A d, t : AccessTo(d) # BarrierOf(t)
    /\ \A d : AccessTo(d).kind = "access" /\ AccessTo(d).of = d
    /\ \A t : BarrierOf(t).kind = "barrier" /\ BarrierOf(t).of = t
BY DEF AccessTo, BarrierOf

LEMMA EventKinds ==
    ASSUME NEW e \in Events
    PROVE  /\ e.kind = "access" => e.of \in Decoys /\ e = AccessTo(e.of)
           /\ e.kind = "barrier" => e.of \in Tokens /\ e = BarrierOf(e.of)
           /\ e.kind \in {"access", "barrier"}
<1>1. CASE \E d \in Decoys : e = AccessTo(d)
  BY <1>1, EventFacts
<1>2. CASE \E t \in Tokens : e = BarrierOf(t)
  BY <1>2, EventFacts
<1> QED BY <1>1, <1>2 DEF Events

LEMMA AppendFacts ==
    ASSUME NEW S, NEW q \in Seq(S), NEW e \in S
    PROVE  /\ Append(q, e) \in Seq(S) /\ Append(q, e) # <<>>
           /\ DOMAIN Append(q, e) = 1..(Len(q) + 1) /\ DOMAIN q = 1..Len(q) /\ Len(q) \in Nat
           /\ \A i \in 1..Len(q) : Append(q, e)[i] = q[i]
           /\ Append(q, e)[Len(q) + 1] = e
           /\ q # <<>> => Head(Append(q, e)) = Head(q)
OBVIOUS

LEMMA TailFacts ==
    ASSUME NEW S, NEW q \in Seq(S), q # <<>>
    PROVE  /\ Tail(q) \in Seq(S) /\ Head(q) = q[1] /\ Head(q) \in S
           /\ DOMAIN q = 1..Len(q) /\ Len(q) \in Nat \ {0} /\ 1 \in DOMAIN q
           /\ DOMAIN Tail(q) = 1..(Len(q) - 1)
           /\ \A i \in 1..(Len(q) - 1) : Tail(q)[i] = q[i + 1]
BY HeadTailProperties

LEMMA TokensDistinct ==
    /\ \A c, d, p, q : <<c, p>> = <<d, q>> <=> c = d /\ p = q
    /\ \A c \in Requests, p \in Purposes : <<c, p>> \in Tokens
    /\ \A n \in 1..MaxAttempts : <<"host", n>> \in Tokens
    /\ \A c \in Requests : \A p, n : <<c, p>> # <<"host", n>>
<1>1. "host" \notin Requests
  BY GatewayAssumption
<1> QED BY <1>1 DEF Tokens

-----------------------------------------------------------------------------
(* The sentinel's part of the state.                                       *)

SentinelPart ==
    /\ up \in BOOLEAN /\ marked \in BOOLEAN /\ marker \in BOOLEAN
    /\ acks \subseteq Tokens
    /\ opened \subseteq Decoys
    /\ logged \subseteq Decoys
    /\ SentinelSound

HostTypeOK ==
    /\ phase \in {"running", "flush", "sentinel", "gateway", "broker", "drain",
                  "collect", "accepted", "rejected", "uncollected"}
    /\ attempt \in 0..MaxAttempts
    /\ flushed \in BOOLEAN
    /\ faults \in 0..MaxFaults

LEMMA TypeParts ==
    BoundaryTypeOK /\ SentinelSound <=>
        SentinelPart /\ ApprovalTypeOK /\ HandlerTypeOK /\ HostTypeOK
<1>1. SentinelSound => \A i \in DOMAIN queue : queue[i] \in Events
  BY DEF SentinelSound, Events
<1> QED BY <1>1 DEF BoundaryTypeOK, SentinelPart, HostTypeOK, Events

LEMMA TypePartsNext ==
    (BoundaryTypeOK /\ SentinelSound)' <=>
        SentinelPart' /\ ApprovalTypeOK' /\ HandlerTypeOK' /\ HostTypeOK'
<1>1. (BoundaryTypeOK /\ SentinelSound)' <=>
        (SentinelPart /\ ApprovalTypeOK /\ HandlerTypeOK /\ HostTypeOK)'
  BY TypeParts, PTL
<1> QED BY <1>1

\* SentinelSound with the type of the queue by its name.
LEMMA QueueTyped == SentinelPart => queue \in Seq(Events)
BY DEF SentinelPart, SentinelSound, Events

LEMMA OpenSound ==
    ASSUME SentinelPart, NEW d \in Decoys, Open(d)
    PROVE  SentinelPart'
<1> USE DEF SentinelPart, SentinelSound, Open
<1>1. queue \in Seq(Events) /\ AccessTo(d) \in Events
  BY QueueTyped DEF Events
<1>2. CASE up
  <2>1. queue' = Append(queue, AccessTo(d))
    BY <1>2 DEF Enqueued
  <2>2. queue' \in Seq(Events)
    BY <1>1, <2>1, AppendFacts
  <2>3. marked' => queue' # <<>> /\ Head(queue').kind = "access"
    BY <1>1, <2>1, AppendFacts
  <2>4. \A i \in DOMAIN queue' : queue'[i].kind = "access" => queue'[i].of \in opened'
    BY <1>1, <2>1, AppendFacts, EventFacts
  <2>5. \A e \in opened' \ logged' : \E i \in DOMAIN queue' : queue'[i] = AccessTo(e)
    <3> SUFFICES ASSUME NEW e \in opened' \ logged'
                 PROVE  \E i \in DOMAIN queue' : queue'[i] = AccessTo(e)
      OBVIOUS
    <3>1. CASE e = d
      BY <3>1, <1>1, <2>1, AppendFacts
    <3>2. CASE e # d
      <4>1. PICK i \in DOMAIN queue : queue[i] = AccessTo(e)
        BY <1>2, <3>2
      <4>2. i \in DOMAIN queue' /\ queue'[i] = queue[i]
        BY <1>1, <2>1, AppendFacts
      <4> QED BY <4>1, <4>2
    <3> QED BY <3>1, <3>2
  <2> QED BY <1>2, <2>2, <2>3, <2>4, <2>5 DEF Events
<1>3. CASE ~up
  BY <1>3 DEF Enqueued
<1> QED BY <1>2, <1>3

\* A barrier is requested; some acknowledgements may go with it.
LEMMA SignalSound ==
    ASSUME SentinelPart, NEW t \in Tokens, queue' = Enqueued(BarrierOf(t)),
           acks' \subseteq acks, UNCHANGED <<up, marked, marker, logged, opened>>
    PROVE  SentinelPart'
<1> USE DEF SentinelPart, SentinelSound
<1>1. queue \in Seq(Events) /\ BarrierOf(t) \in Events
  BY QueueTyped DEF Events
<1>2. CASE up
  <2>1. queue' = Append(queue, BarrierOf(t))
    BY <1>2 DEF Enqueued
  <2>2. queue' \in Seq(Events)
    BY <1>1, <2>1, AppendFacts
  <2>3. marked' => queue' # <<>> /\ Head(queue').kind = "access"
    BY <1>1, <2>1, AppendFacts
  <2>4. \A i \in DOMAIN queue' : queue'[i].kind = "access" => queue'[i].of \in opened'
    BY <1>1, <2>1, AppendFacts, EventFacts
  <2>5. \A e \in opened' \ logged' : \E i \in DOMAIN queue' : queue'[i] = AccessTo(e)
    <3> SUFFICES ASSUME NEW e \in opened' \ logged'
                 PROVE  \E i \in DOMAIN queue' : queue'[i] = AccessTo(e)
      OBVIOUS
    <3>1. PICK i \in DOMAIN queue : queue[i] = AccessTo(e)
      BY <1>2
    <3>2. i \in DOMAIN queue' /\ queue'[i] = queue[i]
      BY <1>1, <2>1, AppendFacts
    <3> QED BY <3>1, <3>2
  <2> QED BY <1>2, <2>2, <2>3, <2>4, <2>5 DEF Events
<1>3. CASE ~up
  BY <1>3 DEF Enqueued
<1> QED BY <1>2, <1>3

LEMMA ForgetSound ==
    ASSUME SentinelPart, NEW t, Forget(t)
    PROVE  SentinelPart'
BY DEF SentinelPart, SentinelSound, Forget

LEMMA StopSound == SentinelPart /\ StopSentinel => SentinelPart'
<1> SUFFICES ASSUME SentinelPart, StopSentinel PROVE SentinelPart'
  OBVIOUS
<1>1. queue' \in Seq(Events)
  BY EmptySeq DEF StopSentinel
<1>2. \A i : i \notin DOMAIN queue'
  BY DEF StopSentinel
<1>3. SentinelSound'
  BY <1>1, <1>2 DEF SentinelPart, SentinelSound, StopSentinel, Events
<1> QED BY <1>3 DEF SentinelPart, StopSentinel

LEMMA MarkSound == SentinelPart /\ Mark => SentinelPart'
<1> SUFFICES ASSUME SentinelPart, Mark PROVE SentinelPart'
  OBVIOUS
<1> USE DEF SentinelPart, SentinelSound, Mark
<1>1. queue \in Seq(Events)
  BY QueueTyped
<1>2. Head(queue).of \in opened
  BY <1>1, TailFacts
<1>3. marker' \in BOOLEAN
  BY SentinelAssumption
<1> QED BY <1>2, <1>3

\* The access at the head leaves the queue for the log; a barrier for acks.
LEMMA RecordSound == SentinelPart /\ Record => SentinelPart'
<1> SUFFICES ASSUME SentinelPart, Record PROVE SentinelPart'
  OBVIOUS
<1> USE DEF SentinelPart, SentinelSound, Record
<1>1. queue \in Seq(Events) /\ queue # <<>>
  BY QueueTyped
<1>2. Head(queue) = AccessTo(Head(queue).of) /\ Head(queue).of \in opened
        /\ Head(queue).of \in Decoys
  BY <1>1, TailFacts, EventKinds
<1>3. queue' \in Seq(Events)
  BY <1>1, TailFacts
<1>4. \A i \in DOMAIN queue' : queue'[i].kind = "access" => queue'[i].of \in opened'
  <2> SUFFICES ASSUME NEW i \in DOMAIN queue'
               PROVE  queue'[i].kind = "access" => queue'[i].of \in opened'
    OBVIOUS
  <2>1. i + 1 \in DOMAIN queue /\ queue'[i] = queue[i + 1]
    BY <1>1, TailFacts
  <2> QED BY <2>1
<1>5. ASSUME up, NEW e \in opened' \ logged'
      PROVE  \E i \in DOMAIN queue' : queue'[i] = AccessTo(e)
  <2>1. PICK i \in DOMAIN queue : queue[i] = AccessTo(e)
    BY <1>5
  <2>2. i # 1
    BY <1>1, <1>2, <1>5, <2>1, TailFacts, EventFacts
  <2>3. i - 1 \in DOMAIN queue' /\ queue'[i - 1] = queue[i]
    BY <1>1, <2>2, TailFacts
  <2> QED BY <2>1, <2>3
<1> QED BY <1>1, <1>2, <1>3, <1>4, <1>5 DEF Events

LEMMA AcknowledgeSound == SentinelPart /\ Acknowledge => SentinelPart'
<1> SUFFICES ASSUME SentinelPart, Acknowledge PROVE SentinelPart'
  OBVIOUS
<1> USE DEF SentinelPart, SentinelSound, Acknowledge
<1>1. queue \in Seq(Events) /\ queue # <<>>
  BY QueueTyped
<1>2. Head(queue) = BarrierOf(Head(queue).of) /\ Head(queue).of \in Tokens /\ ~marked
  BY <1>1, TailFacts, EventKinds
<1>3. queue' \in Seq(Events)
  BY <1>1, TailFacts
<1>4. \A i \in DOMAIN queue' : queue'[i].kind = "access" => queue'[i].of \in opened'
  <2> SUFFICES ASSUME NEW i \in DOMAIN queue'
               PROVE  queue'[i].kind = "access" => queue'[i].of \in opened'
    OBVIOUS
  <2>1. i + 1 \in DOMAIN queue /\ queue'[i] = queue[i + 1]
    BY <1>1, TailFacts
  <2> QED BY <2>1
<1>5. ASSUME up, NEW e \in opened' \ logged'
      PROVE  \E i \in DOMAIN queue' : queue'[i] = AccessTo(e)
  <2>1. PICK i \in DOMAIN queue : queue[i] = AccessTo(e)
    BY <1>5
  <2>2. i # 1
    BY <1>1, <1>2, <2>1, TailFacts, EventFacts
  <2>3. i - 1 \in DOMAIN queue' /\ queue'[i - 1] = queue[i]
    BY <1>1, <2>2, TailFacts
  <2> QED BY <2>1, <2>3
<1> QED BY <1>1, <1>2, <1>3, <1>4, <1>5 DEF Events

LEMMA SentinelIdle ==
    ASSUME SentinelPart, UNCHANGED sentinelVars
    PROVE  SentinelPart'
BY DEF SentinelPart, SentinelSound, sentinelVars

-----------------------------------------------------------------------------
(* What lies before a barrier in the queue.                                *)

\* A step of the sentinel's own: nothing new is requested or opened, and a
\* barrier is acknowledged only when what was before it has been logged.
LEMMA HandleBehind ==
    ASSUME SentinelPart, Handle, NEW t, NEW S, Behind(t, S)
    PROVE  Behind(t, S)'
<1>1. queue \in Seq(Events)
  BY QueueTyped
<1>2. CASE Mark
  BY <1>2 DEF Mark, Behind
<1>3. ASSUME queue # <<>>, queue' = Tail(queue), logged \subseteq logged',
             \A d : Head(queue) = AccessTo(d) => d \in logged',
             acks' = acks \/ (Head(queue) = BarrierOf(t) /\ logged' = logged)
                \/ (\E u : u # t /\ acks' = acks \cup {u})
      PROVE  Behind(t, S)'
  <2>1. t \in acks' => S \subseteq logged'
    <3> SUFFICES ASSUME t \in acks', t \notin acks PROVE S \subseteq logged'
      BY <1>3 DEF Behind
    <3>1. queue[1] = BarrierOf(t) /\ 1 \in DOMAIN queue
      BY <1>1, <1>3, TailFacts
    <3> QED BY <1>3, <3>1 DEF Behind
  <2>2. ASSUME NEW i \in DOMAIN queue', queue'[i] = BarrierOf(t), NEW d \in S
        PROVE  d \in logged' \/ \E j \in 1..(i - 1) : queue'[j] = AccessTo(d)
    <3>1. i \in 1..(Len(queue) - 1) /\ i + 1 \in DOMAIN queue /\ queue[i + 1] = BarrierOf(t)
      BY <1>1, <1>3, <2>2, TailFacts
    <3>2. CASE d \in logged
      BY <1>3, <3>2
    <3>3. CASE \E j \in 1..i : queue[j] = AccessTo(d)
      <4>1. PICK j \in 1..i : queue[j] = AccessTo(d)
        BY <3>3
      <4>2. CASE j = 1
        BY <1>1, <1>3, <4>1, <4>2, TailFacts
      <4>3. CASE j # 1
        <5>1. j - 1 \in 1..(i - 1) /\ j - 1 \in 1..(Len(queue) - 1) /\ (j - 1) + 1 = j
          BY <1>1, <1>3, <3>1, <4>3, TailFacts
        <5>2. queue'[j - 1] = AccessTo(d)
          BY <1>1, <1>3, <4>1, <5>1, TailFacts
        <5> QED BY <5>1, <5>2
      <4> QED BY <4>2, <4>3
    <3>4. (i + 1) - 1 = i
      BY <3>1
    <3> QED BY <3>1, <3>2, <3>3, <3>4 DEF Behind
  <2> QED BY <2>1, <2>2 DEF Behind
<1>4. CASE Record
  <2>1. queue # <<>> /\ Head(queue).kind = "access"
    BY <1>4 DEF Record, SentinelPart, SentinelSound
  <2> QED BY <1>3, <1>4, <2>1, EventFacts DEF Record
<1>5. CASE Acknowledge
  <2>1. Head(queue) = BarrierOf(Head(queue).of)
    BY <1>1, <1>5, TailFacts, EventKinds DEF Acknowledge
  <2>2. \A d : Head(queue) # AccessTo(d)
    BY <2>1, EventFacts
  <2>3. CASE Head(queue).of = t
    BY <1>3, <1>5, <2>1, <2>2, <2>3 DEF Acknowledge
  <2>4. CASE Head(queue).of # t
    BY <1>3, <1>5, <2>1, <2>2, <2>4 DEF Acknowledge
  <2> QED BY <2>3, <2>4
<1> QED BY <1>2, <1>4, <1>5 DEF Handle

LEMMA HandleOutstanding ==
    ASSUME SentinelPart, Handle, NEW t, ~Outstanding(t)
    PROVE  ~Outstanding(t)'
<1>1. queue \in Seq(Events)
  BY QueueTyped
<1>2. CASE Mark
  BY <1>2 DEF Mark, Outstanding
<1>3. ASSUME queue # <<>>, queue' = Tail(queue), t \notin acks'
      PROVE  ~Outstanding(t)'
  <2>1. ASSUME NEW i \in DOMAIN queue' PROVE queue'[i] # BarrierOf(t)
    <3>1. i + 1 \in DOMAIN queue /\ queue'[i] = queue[i + 1]
      BY <1>1, <1>3, TailFacts
    <3> QED BY <3>1 DEF Outstanding
  <2> QED BY <1>3, <2>1 DEF Outstanding
<1>4. CASE Record
  BY <1>3, <1>4 DEF Record, Outstanding, SentinelPart, SentinelSound
<1>5. CASE Acknowledge
  <2>1. Head(queue) = BarrierOf(Head(queue).of) /\ queue[1] = Head(queue) /\ 1 \in DOMAIN queue
    BY <1>1, <1>5, TailFacts, EventKinds DEF Acknowledge
  <2>2. t \notin acks'
    BY <1>5, <2>1 DEF Acknowledge, Outstanding
  <2> QED BY <1>3, <1>5, <2>2 DEF Acknowledge
<1> QED BY <1>2, <1>4, <1>5 DEF Handle

\* Something is queued behind the barrier, or the sentinel is gone and nothing
\* is; acknowledgements may be taken away.
QueueGrows(e) ==
    /\ queue' = Enqueued(e) /\ e \in Events
    /\ acks' \subseteq acks /\ logged' = logged

LEMMA GrownQueue ==
    ASSUME SentinelPart, NEW e, QueueGrows(e), NEW i \in DOMAIN queue'
    PROVE  \/ i \in DOMAIN queue /\ \A j \in 1..i : queue'[j] = queue[j]
           \/ queue'[i] = e /\ up /\ \A j \in DOMAIN queue : j \in 1..(i - 1) /\ queue'[j] = queue[j]
<1>1. queue \in Seq(Events)
  BY QueueTyped
<1>2. CASE up
  <2>1. queue' = Append(queue, e)
    BY <1>2 DEF QueueGrows, Enqueued
  <2>2. i \in 1..(Len(queue) + 1) /\ DOMAIN queue = 1..Len(queue) /\ Len(queue) \in Nat
    BY <1>1, <2>1, AppendFacts DEF QueueGrows
  <2>3. CASE i = Len(queue) + 1
    BY <1>1, <1>2, <2>1, <2>2, <2>3, AppendFacts DEF QueueGrows
  <2>4. CASE i # Len(queue) + 1
    BY <1>1, <2>1, <2>2, <2>4, AppendFacts DEF QueueGrows
  <2> QED BY <2>3, <2>4
<1>3. CASE ~up
  BY <1>3 DEF QueueGrows, Enqueued
<1> QED BY <1>2, <1>3

LEMMA GrowsBehind ==
    ASSUME SentinelPart, NEW e, QueueGrows(e), NEW t, NEW S, Behind(t, S),
           e = BarrierOf(t) => S \subseteq opened
    PROVE  Behind(t, S)'
<1>1. t \in acks' => S \subseteq logged'
  BY DEF Behind, QueueGrows
<1>2. ASSUME NEW i \in DOMAIN queue', queue'[i] = BarrierOf(t), NEW d \in S
      PROVE  d \in logged' \/ \E j \in 1..(i - 1) : queue'[j] = AccessTo(d)
  <2>0. i \in Nat
    <3>1. queue \in Seq(Events)
      BY QueueTyped
    <3> QED BY <3>1, AppendFacts DEF QueueGrows, Enqueued
  <2>1. CASE i \in DOMAIN queue /\ \A j \in 1..i : queue'[j] = queue[j]
    <3>0. i \in 1..i
      <4>1. queue \in Seq(Events)
        BY QueueTyped
      <4> QED BY <2>1, <4>1, AppendFacts
    <3>1. queue[i] = BarrierOf(t)
      BY <1>2, <2>1, <3>0
    <3>2. CASE d \in logged
      BY <3>2 DEF QueueGrows
    <3>3. CASE \E j \in 1..(i - 1) : queue[j] = AccessTo(d)
      <4>1. PICK j \in 1..(i - 1) : queue[j] = AccessTo(d)
        BY <3>3
      <4>2. j \in 1..i
        BY <2>0, <4>1
      <4> QED BY <2>1, <4>1, <4>2
    <3> QED BY <2>1, <3>1, <3>2, <3>3 DEF Behind
  <2>2. CASE /\ queue'[i] = e /\ up
             /\ \A j \in DOMAIN queue : j \in 1..(i - 1) /\ queue'[j] = queue[j]
    <3>1. CASE d \in logged
      BY <3>1 DEF QueueGrows
    <3>2. CASE d \notin logged
      <4>1. d \in opened \ logged
        BY <1>2, <2>2, <3>2
      <4>2. PICK j \in DOMAIN queue : queue[j] = AccessTo(d)
        BY <2>2, <4>1 DEF SentinelPart, SentinelSound
      <4> QED BY <2>2, <4>2
    <3> QED BY <3>1, <3>2
  <2> QED BY <2>1, <2>2, GrownQueue
<1> QED BY <1>1, <1>2 DEF Behind

LEMMA GrowsOutstanding ==
    ASSUME SentinelPart, NEW e, QueueGrows(e), NEW t, ~Outstanding(t), e # BarrierOf(t)
    PROVE  ~Outstanding(t)'
<1>1. t \notin acks'
  BY DEF Outstanding, QueueGrows
<1>2. ASSUME NEW i \in DOMAIN queue' PROVE queue'[i] # BarrierOf(t)
  <2>1. CASE i \in DOMAIN queue /\ \A j \in 1..i : queue'[j] = queue[j]
    <3>1. i \in 1..i
      <4>1. queue \in Seq(Events)
        BY QueueTyped
      <4> QED BY <2>1, <4>1, AppendFacts
    <3> QED BY <2>1, <3>1 DEF Outstanding
  <2> QED BY <2>1, GrownQueue
<1> QED BY <1>1, <1>2 DEF Outstanding

\* The sentinel is stopped, or an acknowledgement is taken away.
LEMMA ShrinksBehind ==
    ASSUME queue' = queue \/ queue' = <<>>, acks' \subseteq acks, logged' = logged,
           NEW t
    PROVE  /\ \A S : Behind(t, S) => Behind(t, S)'
           /\ ~Outstanding(t) => ~Outstanding(t)'
<1>1. \A i \in DOMAIN queue' : i \in DOMAIN queue /\ queue' = queue
  OBVIOUS
<1>2. ASSUME NEW S, Behind(t, S) PROVE Behind(t, S)'
  BY <1>1, <1>2 DEF Behind
<1>3. ~Outstanding(t) => ~Outstanding(t)'
  BY <1>1 DEF Outstanding
<1> QED BY <1>2, <1>3

LEMMA NobodyBehind == ASSUME NEW t, ~Outstanding(t), NEW S PROVE Behind(t, S)
BY DEF Outstanding, Behind

-----------------------------------------------------------------------------
(* Types of the other parts.                                               *)

LEMMA Started == Init => FenceInvariant
<1> SUFFICES ASSUME Init PROVE FenceInvariant
  OBVIOUS
<1>1. SentinelPart
  <2>1. queue \in Seq({AccessTo(d) : d \in Decoys} \cup {BarrierOf(t) : t \in Tokens})
    BY EmptySeq DEF Init, SentinelInit
  <2>2. \A i : i \notin DOMAIN queue
    BY DEF Init, SentinelInit
  <2>3. SentinelSound
    BY <2>1, <2>2 DEF Init, SentinelInit, SentinelSound
  <2> QED BY <2>3 DEF Init, SentinelInit, SentinelPart
<1>2. ApprovalTypeOK
  BY ApprovalsAssumption DEF Init, ApprovalInit, ApprovalTypeOK
<1>3. HandlerTypeOK
  <2>1. <<>> \in Seq(Records)
    BY EmptySeq
  <2> QED BY <2>1, GatewayAssumption
          DEF Init, HandlerTypeOK, Handling, Ended, Writers, Destinations, Purposes, Outcomes
<1>4. HostTypeOK
  <2>1. 0 \in 0..MaxAttempts /\ 0 \in 0..MaxFaults
    BY GatewayAssumption
  <2> QED BY <2>1 DEF Init, HostTypeOK
<1>5. \A t : ~Outstanding(t)
  BY DEF Init, SentinelInit, Outstanding
<1>6. FenceSound
  BY <1>5 DEF Init, FenceSound, At
<1>7. HostSound
  BY <1>5, NobodyBehind DEF Init, SentinelInit, HostSound
<1>8. InStep /\ Named
  BY ApprovalsAssumption DEF Init, ApprovalInit, InStep, Named, At
<1> QED BY <1>1, <1>2, <1>3, <1>4, <1>6, <1>7, <1>8, TypeParts DEF FenceInvariant

LEMMA HandlerTypes ==
    ASSUME HandlerTypeOK, ApprovalTypeOK, marker \in BOOLEAN, opened \subseteq Decoys, InStep,
           NEW c \in Requests, HandlerStep(c) \/ HandlerFails(c)
    PROVE  HandlerTypeOK' /\ InStep'
<1> USE DEF HandlerTypeOK, Handling, Ended, Writers, Sampled, Goto, At, Purposes, Outcomes,
            InStep, recordVars, askVars
<1>1. CASE Gate(c)
  BY <1>1 DEF Gate
<1>2. CASE RequestBarrier(c)
  BY <1>2 DEF RequestBarrier
<1>3. CASE SeeAck(c)
  BY <1>3 DEF SeeAck
<1>4. CASE BarrierTimesOut(c)
  BY <1>4 DEF BarrierTimesOut
<1>5. CASE Check(c)
  BY <1>5, ZenonT(30) DEF Check
<1>6. CASE PostRequest(c)
  BY <1>6 DEF PostRequest
<1>7. CASE Sample(c)
  BY <1>7, ZenonT(30) DEF Sample
<1>8. CASE Write(c)
  <2>1. pc[c] \in Writers
    BY <1>8 DEF Write, Writing
  <2>2. Kind(c) \in Outcomes \cup {"required", "ALLOW", "DENY"}
    BY <2>1 DEF Kind
  <2>3. [kind |-> Kind(c), contained |-> flag[c]] \in Records
    BY <2>2 DEF Records
  <2>4. Append(trail[c], [kind |-> Kind(c), contained |-> flag[c]]) \in Seq(Records)
    BY <2>3, AppendFacts
  <2>5. trail' \in [Requests -> Seq(Records)]
    BY <1>8, <2>4 DEF Write
  <2>6. pc' \in [Requests -> {"idle"} \cup Handling \cup Ended]
    <3>1. AfterRefusal(c) \in Handling
      BY DEF AfterRefusal
    <3> QED BY <1>8, <2>1, <3>1 DEF Write
  <2>7. purpose' \in [Requests -> Purposes]
    BY <1>8 DEF Write
  <2>8. InStep'
    <3>1. AfterRefusal(c) # "post"
      BY DEF AfterRefusal
    <3>2. writing'[c] = FALSE /\ pc'[c] # "post" /\ dest' = dest
      BY <1>8, <2>1, <3>1 DEF Write
    <3>3. \A d \in Requests : d # c => writing'[d] = writing[d] /\ pc'[d] = pc[d]
      BY <1>8 DEF Write
    <3> QED BY <3>2, <3>3
  <2> QED BY <1>8, <2>5, <2>6, <2>7, <2>8 DEF Write
<1>9. CASE TakeResponse(c)
  <2>1. OutcomeOf(response[c]) \in Outcomes
    BY <1>9 DEF TakeResponse, OutcomeOf, ApprovalTypeOK, Resolutions, Granting
  <2>2. 0 \in 0..Patience
    BY GatewayAssumption
  <2> QED BY <1>9, <2>1, <2>2 DEF TakeResponse
<1>10. CASE GiveUp(c)
  BY <1>10 DEF GiveUp
<1>11. CASE PostFails(c)
  BY <1>11 DEF PostFails
<1>12. CASE RecordFails(c)
  <2>1. pc[c] \in Writers
    BY <1>12 DEF RecordFails, Writing
  <2>2. pc' \in [Requests -> {"idle"} \cup Handling \cup Ended]
    <3>1. AfterRefusal(c) \in Handling
      BY DEF AfterRefusal
    <3> QED BY <1>12, <2>1, <3>1 DEF RecordFails
  <2>3. InStep'
    BY <1>12 DEF RecordFails, AfterRefusal
  <2> QED BY <1>12, <2>2, <2>3 DEF RecordFails
<1>13. CASE WithdrawRequest(c)
  <2>1. 0 \in 0..Patience
    BY GatewayAssumption
  <2> QED BY <1>13, <2>1 DEF WithdrawRequest
<1> QED BY <1>1, <1>2, <1>3, <1>4, <1>5, <1>6, <1>7, <1>8, <1>9, <1>10, <1>11, <1>12, <1>13
        DEF HandlerStep, HandlerFails

LEMMA ApprovalTypes ==
    ASSUME ApprovalTypeOK, Named, NEW r \in Requests,
           \/ BrokerStep(r) \/ ScanEnds \/ WorkerFails(r) \/ Withdraw(r)
           \/ \E cause \in Causes : ContextDone(cause)
           \/ \E a \in Answers : Answer(r, a)
           \/ \E k \in Keys : Post(r, k)
    PROVE  ApprovalTypeOK' /\ Named'
<1> USE ApprovalsAssumption DEF ApprovalTypeOK, Resolutions, Named, Causes
<1>1. CASE Consume(r)
  BY <1>1 DEF Consume
<1>2. CASE Resolve(r)
  BY <1>2 DEF Resolve
<1>3. CASE Decide(r)
  <2>1. PICK v \in Verdicts(r) : /\ resolution' = [resolution EXCEPT ![r] = v]
                                 /\ grants' = IF v = "session" THEN grants \cup {wanted[r]} ELSE grants
    BY <1>3 DEF Decide
  <2>2. v \in Resolutions
    BY <2>1 DEF Verdicts
  <2>3. wanted[r] \in Keys
    BY <1>3 DEF Decide, Named
  <2> QED BY <1>3, <2>1, <2>2, <2>3 DEF Decide
<1>4. CASE Respond(r)
  BY <1>4 DEF Respond
<1>5. CASE ScanEnds
  BY <1>5 DEF ScanEnds
<1>6. CASE WorkerFails(r)
  BY <1>6 DEF WorkerFails
<1>7. CASE \E cause \in Causes : ContextDone(cause)
  BY <1>7 DEF ContextDone
<1>8. CASE Withdraw(r)
  BY <1>8 DEF Withdraw
<1>9. CASE \E a \in Answers : Answer(r, a)
  BY <1>9 DEF Answer
<1>10. CASE \E k \in Keys : Post(r, k)
  BY <1>10 DEF Post
<1> QED BY <1>1, <1>2, <1>3, <1>4, <1>5, <1>6, <1>7, <1>8, <1>9, <1>10 DEF BrokerStep

-----------------------------------------------------------------------------
(* The barriers of the handlers and of the host.                           *)

FencePart(c) ==
    /\ pc[c] \in Beginning => purpose[c] = "policy"
    /\ purpose[c] # "connection" \/ At(c, "signal") => ~Outstanding(<<c, "connection">>)
    /\ purpose[c] = "connection" /\ At(c, "ack") => Behind(<<c, "connection">>, fenced[c])
    /\ ContainOnDecoy =>
          /\ purpose[c] = "connection" /\ At(c, "check") => fenced[c] \subseteq logged
          /\ pc[c] \in {"record", "forwarded"} => fenced[c] = {}

LEMMA FenceParts == FenceSound <=> \A c \in Requests : FencePart(c)
BY DEF FenceSound, FencePart

LEMMA FencePartsNext == FenceSound' <=> \A c \in Requests : FencePart(c)'
BY DEF FenceSound, FencePart

\* A step that leaves a barrier where it is among the accesses.
Keeps(t) ==
    /\ ~Outstanding(t) => ~Outstanding(t)'
    /\ \A S : Behind(t, S) => Behind(t, S)'

LEMMA FenceKept ==
    ASSUME NEW c \in Requests, FencePart(c), Keeps(<<c, "connection">>),
           pc'[c] = pc[c], purpose'[c] = purpose[c], fenced'[c] = fenced[c],
           logged \subseteq logged'
    PROVE  FencePart(c)'
<1>1. /\ ~Outstanding(<<c, "connection">>) => ~Outstanding(<<c, "connection">>)'
      /\ Behind(<<c, "connection">>, fenced[c]) => Behind(<<c, "connection">>, fenced[c])'
  <2>1. PICK S : S = fenced[c]
    OBVIOUS
  <2>2. Behind(<<c, "connection">>, S) => Behind(<<c, "connection">>, S)'
    BY DEF Keeps
  <2> QED BY <2>1, <2>2 DEF Keeps, Behind
<1> QED BY <1>1 DEF FencePart, At

LEMMA HostKept ==
    ASSUME HostSound, \A n \in 1..MaxAttempts : Keeps(<<"host", n>>),
           UNCHANGED <<phase, attempt, flushed>>, logged \subseteq logged', logged' \subseteq opened',
           opened' = opened \/ phase = "running"
    PROVE  HostSound'
<1>1. phase = "running" => \A n \in 1..MaxAttempts : ~Outstanding(<<"host", n>>)'
  BY DEF HostSound, Keeps
<1>2. ASSUME NEW n \in 1..MaxAttempts PROVE Behind(<<"host", n>>, opened)'
  <2>1. CASE phase = "running"
    BY <1>1, <2>1 DEF Outstanding, Behind
  <2>2. CASE opened' = opened
    <3>1. PICK S : S = opened
      OBVIOUS
    <3>2. Behind(<<"host", n>>, S)'
      BY <3>1 DEF HostSound, Keeps
    <3> QED BY <2>2, <3>1, <3>2 DEF Behind
  <2> QED BY <2>1, <2>2
<1>3. flushed => opened' = logged'
  BY DEF HostSound
<1> QED BY <1>1, <1>2, <1>3 DEF HostSound

\* What each of the sentinel's operations keeps.
LEMMA IdleKeeps == UNCHANGED sentinelVars => \A t : Keeps(t)
BY DEF sentinelVars, Keeps, Behind, Outstanding

LEMMA HandleKeeps ==
    SentinelPart /\ Handle => (\A t : Keeps(t)) /\ logged \subseteq logged' /\ opened' = opened
<1> SUFFICES ASSUME SentinelPart, Handle
             PROVE  (\A t : Keeps(t)) /\ logged \subseteq logged' /\ opened' = opened
  OBVIOUS
<1>1. \A t : Keeps(t)
  BY HandleBehind, HandleOutstanding DEF Keeps
<1> QED BY <1>1 DEF Handle, Mark, Record, Acknowledge

LEMMA ShrinkKeeps ==
    ASSUME StopSentinel \/ \E t : Forget(t)
    PROVE  (\A t : Keeps(t)) /\ logged' = logged /\ opened' = opened
<1>1. /\ queue' = queue \/ queue' = <<>>
      /\ acks' \subseteq acks /\ logged' = logged /\ opened' = opened
  BY DEF StopSentinel, Forget
<1> QED BY <1>1, ShrinksBehind DEF Keeps

LEMMA OpenKeeps ==
    ASSUME SentinelPart, NEW d \in Decoys, Open(d)
    PROVE  (\A t : Keeps(t)) /\ logged' = logged /\ opened \subseteq opened'
<1>1. QueueGrows(AccessTo(d)) /\ logged' = logged /\ opened \subseteq opened'
  BY DEF Open, QueueGrows, Events
<1>2. \A t : AccessTo(d) # BarrierOf(t)
  BY EventFacts
<1> QED BY <1>1, <1>2, GrowsBehind, GrowsOutstanding DEF Keeps

LEMMA SignalKeeps ==
    ASSUME SentinelPart, NEW u \in Tokens, QueueGrows(BarrierOf(u))
    PROVE  /\ \A t : t # u => Keeps(t)
           /\ \A S : Behind(u, S) /\ S \subseteq opened => Behind(u, S)'
<1>1. \A t : t # u => BarrierOf(u) # BarrierOf(t)
  BY EventFacts
<1> QED BY <1>1, GrowsBehind, GrowsOutstanding DEF Keeps

-----------------------------------------------------------------------------
(* The steps of a handler.                                                 *)

\* What a handler does to the sentinel: it requests a barrier, or it takes an
\* acknowledgement away, or nothing.
LEMMA HandlerTouches ==
    ASSUME NEW c \in Requests, HandlerTypeOK, HandlerStep(c) \/ HandlerFails(c)
    PROVE  \/ UNCHANGED sentinelVars
           \/ RequestBarrier(c) /\ ContainOnDecoy /\ Signal(<<c, purpose[c]>>)
           \/ SeeAck(c) /\ Forget(<<c, purpose[c]>>)
BY DEF HandlerStep, HandlerFails, PostFails, RecordFails, Gate, RequestBarrier, SeeAck,
     BarrierTimesOut, Check, PostRequest, Sample, Write, TakeResponse, GiveUp,
     WithdrawRequest

LEMMA SignalGrows ==
    ASSUME NEW t \in Tokens, Signal(t)
    PROVE  QueueGrows(BarrierOf(t)) /\ UNCHANGED <<up, marked, marker, acks, logged, opened>>
BY DEF Signal, QueueGrows, Events

LEMMA HandlerSentinel ==
    ASSUME SentinelPart, HandlerTypeOK, NEW c \in Requests, HandlerStep(c) \/ HandlerFails(c)
    PROVE  /\ SentinelPart' /\ logged' = logged /\ opened' = opened
           /\ \A t : t # <<c, purpose[c]>> => Keeps(t)
           /\ ~RequestBarrier(c) => Keeps(<<c, purpose[c]>>)
<1>1. <<c, purpose[c]>> \in Tokens
  BY TokensDistinct DEF HandlerTypeOK
<1>2. CASE UNCHANGED sentinelVars
  BY <1>2, SentinelIdle, IdleKeeps DEF sentinelVars
<1>3. CASE RequestBarrier(c) /\ ContainOnDecoy /\ Signal(<<c, purpose[c]>>)
  <2>1. /\ queue' = Enqueued(BarrierOf(<<c, purpose[c]>>)) /\ acks' \subseteq acks
        /\ UNCHANGED <<up, marked, marker, logged, opened>>
    BY <1>3 DEF Signal
  <2>2. SentinelPart'
    BY <1>1, <2>1, SignalSound
  <2> QED BY <1>1, <1>3, <2>1, <2>2, SignalGrows, SignalKeeps
<1>4. CASE SeeAck(c) /\ Forget(<<c, purpose[c]>>)
  <2>1. (\A t : Keeps(t)) /\ logged' = logged /\ opened' = opened
    BY <1>4, ShrinkKeeps
  <2> QED BY <1>4, <2>1, ForgetSound
<1> QED BY <1>2, <1>3, <1>4, HandlerTouches

LEMMA HandlerFence ==
    ASSUME SentinelPart, HandlerTypeOK, InStep, NEW c \in Requests, FencePart(c),
           HandlerStep(c) \/ HandlerFails(c)
    PROVE  FencePart(c)'
<1> DEFINE t == <<c, "connection">>
<1> USE DEF At, Goto, Beginning, HandlerTypeOK, Purposes
<1>0. /\ SentinelPart' /\ logged' = logged
      /\ purpose[c] # "connection" => Keeps(t)
      /\ ~RequestBarrier(c) => Keeps(t)
  BY HandlerSentinel, TokensDistinct
<1>1. purpose[c] # "connection" \/ ~RequestBarrier(c) =>
          (~Outstanding(t) => ~Outstanding(t)')
  BY <1>0 DEF Keeps
<1>2. CASE Gate(c)
  BY <1>1, <1>2 DEF FencePart, Gate
<1>3. CASE RequestBarrier(c)
  <2>1. purpose'[c] = purpose[c] /\ pc[c] = "signal" /\ pc'[c] \in {"ack", "check"}
          /\ (ContainOnDecoy => pc'[c] = "ack")
    BY <1>3, SentinelAssumption DEF RequestBarrier
  <2>2. CASE purpose[c] # "connection"
    BY <1>1, <2>1, <2>2 DEF FencePart
  <2>3. CASE purpose[c] = "connection" /\ ContainOnDecoy
    <3>1. PICK S : S = opened
      OBVIOUS
    <3>2. Behind(t, S)
      BY <2>1, NobodyBehind DEF FencePart
    <3>3. t \in Tokens /\ QueueGrows(BarrierOf(t))
      BY <1>3, <2>3, SignalGrows, TokensDistinct DEF RequestBarrier
    <3>4. Behind(t, S)'
      BY <3>1, <3>2, <3>3, SignalKeeps
    <3>5. fenced'[c] = S
      BY <1>3, <2>3, <3>1 DEF RequestBarrier
    <3> QED BY <2>1, <2>3, <3>4, <3>5 DEF FencePart, Behind
  <2>4. CASE ~ContainOnDecoy
    BY <1>3, <2>1, <2>4, <1>1, <2>2 DEF FencePart, RequestBarrier
  <2> QED BY <2>2, <2>3, <2>4
<1>4. CASE SeeAck(c)
  <2>1. purpose[c] = "connection" => fenced[c] \subseteq logged
    BY <1>4 DEF SeeAck, FencePart, Behind
  <2>2. pc'[c] = "check" /\ purpose'[c] = purpose[c] /\ fenced'[c] = fenced[c] /\ ~RequestBarrier(c)
    BY <1>4 DEF SeeAck, RequestBarrier
  <2> QED BY <1>0, <1>1, <2>1, <2>2 DEF FencePart
<1>5. CASE BarrierTimesOut(c)
  BY <1>1, <1>5 DEF FencePart, BarrierTimesOut, RequestBarrier
<1>6. CASE Check(c)
  <2>1. ~marker /\ ContainOnDecoy => logged = {}
    BY DEF SentinelPart, SentinelSound
  <2>2. fenced'[c] = fenced[c] /\ pc[c] = "check" /\ ~RequestBarrier(c)
    BY <1>6 DEF Check, RequestBarrier
  <2>3. CASE Goto(c, "refuse") /\ UNCHANGED purpose
    BY <1>1, <2>2, <2>3 DEF FencePart
  <2>4. CASE purpose[c] = "policy" /\ Goto(c, "post") /\ UNCHANGED purpose
    BY <1>1, <2>2, <2>4 DEF FencePart
  <2>5. CASE /\ purpose[c] \in {"approval", "policy"} /\ Goto(c, "signal")
             /\ purpose' = [purpose EXCEPT ![c] = "connection"]
    BY <1>1, <2>2, <2>5 DEF FencePart
  <2>6. CASE ~marker /\ purpose[c] = "connection" /\ Goto(c, "record") /\ UNCHANGED purpose
    BY <1>0, <1>1, <2>1, <2>2, <2>6 DEF FencePart
  <2> QED BY <1>6, <2>3, <2>4, <2>5, <2>6 DEF Check
<1>7. CASE PostRequest(c)
  BY <1>1, <1>7 DEF FencePart, PostRequest, RequestBarrier
<1>8. CASE Sample(c)
  BY <1>1, <1>8 DEF FencePart, Sample, RequestBarrier, Sampled
<1>9. CASE Write(c)
  <2>1. pc[c] \in Writers /\ fenced'[c] = fenced[c] /\ ~RequestBarrier(c)
    BY <1>9 DEF Write, Writing, Writers, Sampled, InStep, RequestBarrier
  <2>2. CASE pc[c] = "outcome"
    BY <1>1, <1>9, <2>1, <2>2 DEF FencePart, Write, AfterRefusal
  <2>3. CASE pc[c] = "require"
    BY <1>1, <1>9, <2>1, <2>3 DEF FencePart, Write
  <2>4. CASE pc[c] = "record"
    BY <1>1, <1>9, <2>1, <2>4 DEF FencePart, Write
  <2>5. CASE pc[c] = "refuse"
    BY <1>1, <1>9, <2>1, <2>5 DEF FencePart, Write
  <2> QED BY <2>1, <2>2, <2>3, <2>4, <2>5 DEF Writers
<1>10. CASE TakeResponse(c)
  BY <1>1, <1>10 DEF FencePart, TakeResponse, RequestBarrier
<1>11. CASE GiveUp(c)
  BY <1>1, <1>11 DEF FencePart, GiveUp, RequestBarrier
<1>12. CASE PostFails(c)
  BY <1>1, <1>12 DEF FencePart, PostFails, RequestBarrier
<1>13. CASE RecordFails(c)
  <2>1. pc[c] \in Writers /\ fenced'[c] = fenced[c] /\ ~RequestBarrier(c)
    BY <1>13 DEF RecordFails, Writing, Writers, Sampled, InStep, RequestBarrier
  <2>2. CASE pc[c] = "outcome"
    <3>1. pc'[c] \in {"withdraw", "refuse"} /\ purpose[c] = "policy" /\ purpose'[c] = "approval"
      BY <1>13, <2>2 DEF FencePart, RecordFails, AfterRefusal
    <3> QED BY <1>1, <2>1, <3>1 DEF FencePart
  <2>3. CASE pc[c] # "outcome"
    <3>1. pc'[c] \in {"refuse", "refused"} /\ purpose'[c] = purpose[c]
      BY <1>13, <2>1, <2>3 DEF RecordFails
    <3> QED BY <1>1, <2>1, <3>1 DEF FencePart, Writers
  <2> QED BY <2>2, <2>3
<1>14. CASE WithdrawRequest(c)
  BY <1>1, <1>14 DEF FencePart, WithdrawRequest, RequestBarrier
<1> QED BY <1>2, <1>3, <1>4, <1>5, <1>6, <1>7, <1>8, <1>9, <1>10, <1>11, <1>12, <1>13, <1>14
        DEF HandlerStep, HandlerFails

-----------------------------------------------------------------------------
(* Every step keeps the invariant.                                         *)

LEMMA InvariantParts ==
    FenceInvariant <=>
        /\ SentinelPart /\ ApprovalTypeOK /\ HandlerTypeOK /\ HostTypeOK
        /\ Named /\ InStep /\ HostSound
        /\ \A c \in Requests : FencePart(c)
BY TypeParts, FenceParts DEF FenceInvariant

LEMMA InvariantPartsNext ==
    FenceInvariant' <=>
        /\ SentinelPart' /\ ApprovalTypeOK' /\ HandlerTypeOK' /\ HostTypeOK'
        /\ Named' /\ InStep' /\ HostSound'
        /\ \A c \in Requests : FencePart(c)'
BY TypePartsNext, FencePartsNext DEF FenceInvariant

LEMMA ApprovalsStand ==
    ASSUME ApprovalTypeOK, Named, UNCHANGED approvalVars
    PROVE  ApprovalTypeOK' /\ Named'
BY DEF ApprovalTypeOK, Named, approvalVars

LEMMA HandlersStand ==
    ASSUME HandlerTypeOK, InStep, UNCHANGED handlerVars
    PROVE  HandlerTypeOK' /\ InStep'
BY DEF HandlerTypeOK, InStep, At, handlerVars, recordVars, askVars

\* Handlers that stand still while no barrier of theirs is requested.
LEMMA FencesStand ==
    ASSUME \A c \in Requests : FencePart(c), UNCHANGED <<pc, purpose, fenced>>,
           \A c \in Requests : Keeps(<<c, "connection">>), logged \subseteq logged'
    PROVE  \A c \in Requests : FencePart(c)'
BY FenceKept

LEMMA HandlerKeeps ==
    ASSUME FenceInvariant, NEW c \in Requests, HandlerStep(c) \/ HandlerFails(c)
    PROVE  FenceInvariant'
<1> USE InvariantParts
<1>1. /\ SentinelPart' /\ logged' = logged /\ opened' = opened
      /\ \A t : t # <<c, purpose[c]>> => Keeps(t)
  BY HandlerSentinel
<1>2. HandlerTypeOK' /\ InStep'
  BY HandlerTypes DEF SentinelPart
<1>3. ApprovalTypeOK' /\ Named'
  <2>1. CASE UNCHANGED approvalVars
    BY <2>1, ApprovalsStand
  <2>2. CASE PostRequest(c)
    BY <2>2, ApprovalTypes DEF PostRequest, InStep
  <2>3. CASE WithdrawRequest(c)
    BY <2>3, ApprovalTypes DEF WithdrawRequest
  <2> QED BY <2>1, <2>2, <2>3 DEF HandlerStep, HandlerFails, PostFails, RecordFails, Gate,
             RequestBarrier, SeeAck, BarrierTimesOut, Check, Sample, Write, TakeResponse, GiveUp
<1>4. UNCHANGED hostVars /\ (faults' = faults \/ (faults < MaxFaults /\ faults' = faults + 1))
  BY DEF HandlerStep, HandlerFails, PostFails, RecordFails, Gate, RequestBarrier,
       SeeAck, BarrierTimesOut, Check, PostRequest, Sample, Write, TakeResponse, GiveUp,
       WithdrawRequest, Fault
<1>5. HostTypeOK'
  BY <1>4, GatewayAssumption DEF HostTypeOK, hostVars
<1>6. HostSound'
  <2>1. \A n \in 1..MaxAttempts : Keeps(<<"host", n>>)
    BY <1>1, TokensDistinct
  <2> QED BY <1>1, <1>4, <2>1, HostKept DEF SentinelPart, SentinelSound, hostVars
<1>7. ASSUME NEW d \in Requests PROVE FencePart(d)'
  <2>1. CASE d = c
    BY <2>1, HandlerFence
  <2>2. CASE d # c
    <3>1. Keeps(<<d, "connection">>)
      BY <1>1, <2>2, TokensDistinct
    <3>2. pc'[d] = pc[d] /\ purpose'[d] = purpose[d] /\ fenced'[d] = fenced[d]
      BY <2>2 DEF HandlerTypeOK, HandlerStep, HandlerFails, PostFails, RecordFails,
           Gate, RequestBarrier, SeeAck, BarrierTimesOut, Check, PostRequest, Sample,
           Write, TakeResponse, GiveUp, WithdrawRequest, Goto, recordVars, askVars
    <3> QED BY <1>1, <3>1, <3>2, FenceKept
  <2> QED BY <2>1, <2>2
<1> QED BY <1>1, <1>2, <1>3, <1>5, <1>6, <1>7, InvariantPartsNext

LEMMA ArrivalKeeps ==
    ASSUME FenceInvariant, NEW c \in Requests, NEW d \in Destinations, Arrive(c, d)
    PROVE  FenceInvariant'
<1> USE InvariantParts
<1>1. UNCHANGED sentinelVars /\ SentinelPart' /\ \A t : Keeps(t)
  BY SentinelIdle, IdleKeeps DEF Arrive
<1>2. ApprovalTypeOK' /\ Named'
  BY ApprovalsStand DEF Arrive
<1>3. HandlerTypeOK' /\ InStep'
  BY DEF Arrive, HandlerTypeOK, InStep, At, Goto, Handling, Writers, Sampled, recordVars, askVars
<1>4. HostTypeOK'
  BY DEF Arrive, HostTypeOK, hostVars
<1>5. HostSound'
  BY <1>1, HostKept DEF Arrive, hostVars, sentinelVars, SentinelPart, SentinelSound
<1>6. ASSUME NEW e \in Requests PROVE FencePart(e)'
  <2>1. logged' = logged /\ fenced' = fenced /\ purpose' = purpose /\ Keeps(<<e, "connection">>)
    BY <1>1 DEF Arrive, sentinelVars
  <2>2. CASE e = c
    <3>1. pc[c] = "idle" /\ pc'[c] \in {"gate", "refuse"}
      BY DEF Arrive, At, Goto, HandlerTypeOK
    <3> QED BY <2>1, <2>2, <3>1 DEF FencePart, At, Beginning, Keeps
  <2>3. CASE e # c
    <3>1. pc'[e] = pc[e]
      BY <2>3 DEF Arrive, Goto, HandlerTypeOK
    <3> QED BY <2>1, <3>1, FenceKept
  <2> QED BY <2>2, <2>3
<1> QED BY <1>1, <1>2, <1>3, <1>4, <1>5, <1>6, InvariantPartsNext

\* The sentinel and the agent move; nobody else does.
LEMMA SentinelKeeps ==
    ASSUME FenceInvariant, SentinelStep \/ AgentOpens \/ SentinelDies
    PROVE  FenceInvariant'
<1> USE InvariantParts
<1>1. /\ SentinelPart' /\ (\A t : Keeps(t)) /\ logged \subseteq logged'
      /\ opened' = opened \/ phase = "running"
  <2>1. CASE SentinelStep
    BY <2>1, HandleKeeps, MarkSound, RecordSound, AcknowledgeSound DEF SentinelStep, Handle
  <2>2. CASE AgentOpens
    BY <2>2, OpenSound, OpenKeeps DEF AgentOpens
  <2>3. CASE SentinelDies
    BY <2>3, StopSound, ShrinkKeeps DEF SentinelDies
  <2> QED BY <2>1, <2>2, <2>3
<1>2. /\ UNCHANGED <<approvalVars, handlerVars, hostVars>>
      /\ faults' = faults \/ (faults < MaxFaults /\ faults' = faults + 1)
  BY DEF SentinelStep, AgentOpens, SentinelDies, Fault
<1>3. ApprovalTypeOK' /\ Named' /\ HandlerTypeOK' /\ InStep'
  BY <1>2, ApprovalsStand, HandlersStand
<1>4. HostTypeOK'
  BY <1>2, GatewayAssumption DEF HostTypeOK, hostVars
<1>5. HostSound'
  BY <1>1, <1>2, HostKept DEF hostVars, SentinelPart, SentinelSound
<1>6. \A c \in Requests : FencePart(c)'
  BY <1>1, <1>2, FencesStand DEF handlerVars
<1> QED BY <1>1, <1>3, <1>4, <1>5, <1>6, InvariantPartsNext

\* The broker and the user move; or time passes.
LEMMA BrokerKeeps ==
    ASSUME FenceInvariant, BrokerSteps \/ UserAnswers \/ BrokerFails \/ RunEnds
    PROVE  FenceInvariant'
<1> USE InvariantParts
<1>1. /\ UNCHANGED <<sentinelVars, handlerVars, hostVars>>
      /\ faults' = faults \/ (faults < MaxFaults /\ faults' = faults + 1)
  BY DEF BrokerSteps, UserAnswers, BrokerFails, RunEnds, Fault
<1>2. ApprovalTypeOK' /\ Named'
  <2>1. CASE \E r \in Requests : \/ BrokerStep(r) \/ WorkerFails(r)
                                 \/ \E a \in Answers : Answer(r, a)
    BY <2>1, ApprovalTypes
  <2>2. CASE ScanEnds
    BY <2>2 DEF ScanEnds, ApprovalTypeOK, Named
  <2>3. CASE RunEnds
    BY <2>3, GatewayAssumption DEF RunEnds, ContextDone, ApprovalTypeOK, Named
  <2> QED BY <2>1, <2>2, <2>3 DEF BrokerSteps, UserAnswers, BrokerFails
<1>3. SentinelPart' /\ \A t : Keeps(t)
  BY <1>1, SentinelIdle, IdleKeeps
<1>4. HandlerTypeOK' /\ InStep'
  BY <1>1, HandlersStand
<1>5. HostTypeOK'
  BY <1>1, GatewayAssumption DEF HostTypeOK, hostVars
<1>6. HostSound'
  BY <1>1, <1>3, HostKept DEF hostVars, sentinelVars, SentinelPart, SentinelSound
<1>7. \A c \in Requests : FencePart(c)'
  BY <1>1, <1>3, FencesStand DEF handlerVars, sentinelVars
<1> QED BY <1>2, <1>3, <1>4, <1>5, <1>6, <1>7, InvariantPartsNext

LEMMA TickKeeps == FenceInvariant /\ Tick => FenceInvariant'
<1> SUFFICES ASSUME FenceInvariant, Tick PROVE FenceInvariant'
  OBVIOUS
<1> USE InvariantParts
<1>1. UNCHANGED sentinelVars /\ SentinelPart' /\ \A t : Keeps(t)
  BY SentinelIdle, IdleKeeps DEF Tick
<1>2. ApprovalTypeOK' /\ Named'
  <2>1. owner # NoRequest => age' \in 0..DecisionTimeout
    BY ApprovalsAssumption DEF Tick, BrokerDue, Expired, ApprovalTypeOK
  <2>2. owner = NoRequest => age' = age
    BY DEF Tick
  <2> QED BY <2>1, <2>2 DEF Tick, ApprovalTypeOK, Named
<1>3. HandlerTypeOK' /\ InStep'
  <2>1. ASSUME NEW c \in Requests, At(c, "await") PROVE waited[c] + 1 \in 0..Patience
    BY <2>1, GatewayAssumption DEF Tick, HandlerDue, HandlerTypeOK
  <2>2. waited' \in [Requests -> 0..Patience]
    BY <2>1 DEF Tick, HandlerTypeOK
  <2> QED BY <2>2 DEF Tick, HandlerTypeOK, InStep, At, recordVars
<1>4. HostTypeOK'
  BY DEF Tick, HostTypeOK, hostVars
<1>5. HostSound'
  BY <1>1, HostKept DEF Tick, hostVars, sentinelVars, SentinelPart, SentinelSound
<1>6. \A c \in Requests : FencePart(c)'
  BY <1>1, FencesStand DEF Tick, sentinelVars
<1> QED BY <1>1, <1>2, <1>3, <1>4, <1>5, <1>6, InvariantPartsNext

-----------------------------------------------------------------------------
(* The host takes the boundary down.                                       *)

\* After the agent's end, what is opened stays the same.
LEMMA HostMoves ==
    ASSUME HostSound, phase' # "running", attempt' # 0, opened' = opened, logged' = logged,
           \A n \in 1..MaxAttempts :
              \A S : Behind(<<"host", n>>, S) /\ S \subseteq opened => Behind(<<"host", n>>, S)',
           flushed' => opened = logged
    PROVE  HostSound'
<1>1. ASSUME NEW n \in 1..MaxAttempts PROVE Behind(<<"host", n>>, opened)'
  <2>1. PICK S : S = opened
    OBVIOUS
  <2>2. Behind(<<"host", n>>, S)'
    BY <2>1 DEF HostSound
  <2> QED BY <2>1, <2>2 DEF Behind
<1> QED BY <1>1 DEF HostSound

LEMMA FlushKeeps ==
    ASSUME FenceInvariant, AgentExits \/ FlushAgain
    PROVE  FenceInvariant'
<1> USE InvariantParts
<1> DEFINE n == IF phase = "running" THEN 1 ELSE attempt + 1
           u == <<"host", n>>
<1>1. /\ n \in 1..MaxAttempts /\ attempt' = n /\ phase' = "flush"
      /\ queue' = Enqueued(BarrierOf(u)) /\ acks' \subseteq acks
      /\ UNCHANGED <<up, marked, marker, logged, opened>>
      /\ UNCHANGED <<approvalVars, handlerVars, flushed, faults>>
  <2>1. CASE AgentExits
    BY <2>1, GatewayAssumption DEF AgentExits, Stage, Signal
  <2>2. CASE FlushAgain
    BY <2>2, GatewayAssumption DEF FlushAgain, HostTypeOK
  <2> QED BY <2>1, <2>2
<1>2. u \in Tokens
  BY <1>1, TokensDistinct
<1>3. SentinelPart'
  BY <1>1, <1>2, SignalSound
<1>4. QueueGrows(BarrierOf(u))
  BY <1>1, <1>2 DEF QueueGrows, Events
<1>5. ApprovalTypeOK' /\ Named' /\ HandlerTypeOK' /\ InStep'
  BY <1>1, ApprovalsStand, HandlersStand
<1>6. HostTypeOK'
  BY <1>1, GatewayAssumption DEF HostTypeOK
<1>7. \A c \in Requests : Keeps(<<c, "connection">>)
  BY <1>2, <1>4, SignalKeeps, TokensDistinct
<1>8. \A c \in Requests : FencePart(c)'
  BY <1>1, <1>7, FencesStand DEF handlerVars
<1>9. HostSound'
  <2>1. ASSUME NEW m \in 1..MaxAttempts, NEW S, Behind(<<"host", m>>, S), S \subseteq opened
        PROVE  Behind(<<"host", m>>, S)'
    <3>1. CASE <<"host", m>> = u
      BY <1>2, <1>4, <2>1, <3>1, SignalKeeps
    <3>2. CASE <<"host", m>> # u
      BY <1>2, <1>4, <2>1, <3>2, SignalKeeps DEF Keeps
    <3> QED BY <3>1, <3>2
  <2>2. flushed' => opened = logged
    BY <1>1 DEF HostSound
  <2>3. phase' # "running" /\ attempt' # 0 /\ opened' = opened /\ logged' = logged
    BY <1>1
  <2> QED BY <2>1, <2>2, <2>3, HostMoves
<1> QED BY <1>3, <1>5, <1>6, <1>8, <1>9, InvariantPartsNext

\* The other steps of the host request no barrier.
LEMMA TeardownKeeps ==
    ASSUME FenceInvariant,
           \/ FlushDone \/ FlushTimesOut \/ RemoveSentinel \/ RemoveGateway \/ StopBroker
           \/ Drained \/ Collect
    PROVE  FenceInvariant'
<1> USE InvariantParts
<1>1. /\ SentinelPart' /\ (\A t : Keeps(t)) /\ logged' = logged /\ opened' = opened
  <2>1. CASE UNCHANGED sentinelVars
    BY <2>1, SentinelIdle, IdleKeeps DEF sentinelVars
  <2>2. CASE FlushDone
    BY <2>2, ForgetSound, ShrinkKeeps DEF FlushDone
  <2>3. CASE StopSentinel
    BY <2>3, StopSound, ShrinkKeeps
  <2> QED BY <2>1, <2>2, <2>3
          DEF FlushTimesOut, RemoveSentinel, RemoveGateway, StopBroker, Drained, Collect
<1>2. /\ phase # "running" /\ phase' # "running" /\ attempt' = attempt
      /\ faults' = faults \/ (faults < MaxFaults /\ faults' = faults + 1)
  BY DEF FlushDone, FlushTimesOut, RemoveSentinel, RemoveGateway, StopBroker, Drained,
         Collect, Stage
<1>3. HostTypeOK'
  <2>1. phase' \in {"sentinel", "gateway", "broker", "drain", "collect", "accepted",
                    "rejected", "uncollected"}
    BY DEF FlushDone, FlushTimesOut, RemoveSentinel, RemoveGateway, StopBroker, Drained,
           Collect, Stage
  <2>2. flushed' \in BOOLEAN
    BY DEF HostTypeOK, FlushDone, FlushTimesOut, RemoveSentinel, RemoveGateway, StopBroker,
           Drained, Collect
  <2> QED BY <1>2, <2>1, <2>2, GatewayAssumption DEF HostTypeOK
<1>4. HostSound'
  <2>1. flushed' => opened = logged
    <3>1. CASE FlushDone
      <4>1. attempt \in 1..MaxAttempts
        BY <1>2, GatewayAssumption DEF HostTypeOK, HostSound
      <4>2. opened \subseteq logged
        BY <3>1, <4>1 DEF FlushDone, HostSound, Behind
      <4> QED BY <4>2 DEF SentinelPart, SentinelSound
    <3>2. CASE ~FlushDone
      BY <3>2 DEF HostSound, FlushTimesOut, RemoveSentinel, RemoveGateway, StopBroker,
                  Drained, Collect
    <3> QED BY <3>1, <3>2
  <2>2. attempt' # 0
    BY <1>2 DEF HostSound
  <2> QED BY <1>1, <1>2, <2>1, <2>2, HostMoves DEF Keeps
<1>5. ApprovalTypeOK' /\ Named'
  <2>1. CASE StopBroker
    BY <2>1 DEF StopBroker, ContextDone, Causes, ApprovalTypeOK, Named
  <2>2. CASE UNCHANGED approvalVars
    BY <2>2, ApprovalsStand
  <2> QED BY <2>1, <2>2 DEF FlushDone, FlushTimesOut, RemoveSentinel, RemoveGateway, Drained,
                            Collect
<1>6. HandlerTypeOK' /\ InStep' /\ \A c \in Requests : FencePart(c)'
  <2>1. CASE RemoveGateway
    <3>1. HandlerTypeOK' /\ InStep'
      BY <2>1 DEF RemoveGateway, HandlerTypeOK, InStep, At, Handling, Ended, askVars
    <3>2. ASSUME NEW c \in Requests PROVE FencePart(c)'
      <4>1. /\ pc'[c] = pc[c] \/ pc'[c] = "killed"
            /\ purpose' = purpose /\ fenced' = fenced /\ Keeps(<<c, "connection">>)
        BY <1>1, <2>1 DEF RemoveGateway, HandlerTypeOK
      <4>2. CASE pc'[c] = pc[c]
        BY <1>1, <4>1, <4>2, FenceKept
      <4>3. CASE pc'[c] = "killed"
        BY <4>1, <4>3 DEF FencePart, At, Beginning, Keeps
      <4> QED BY <4>1, <4>2, <4>3
    <3> QED BY <3>1, <3>2
  <2>2. CASE UNCHANGED handlerVars
    BY <1>1, <2>2, HandlersStand, FencesStand DEF handlerVars
  <2> QED BY <2>1, <2>2 DEF FlushDone, FlushTimesOut, RemoveSentinel, StopBroker, Drained,
                            Collect
<1> QED BY <1>1, <1>3, <1>4, <1>5, <1>6, InvariantPartsNext

LEMMA NobodyKeeps == FenceInvariant /\ UNCHANGED vars => FenceInvariant'
<1> SUFFICES ASSUME FenceInvariant, UNCHANGED vars PROVE FenceInvariant'
  OBVIOUS
<1> USE InvariantParts DEF vars
<1>1. SentinelPart' /\ \A t : Keeps(t)
  BY SentinelIdle, IdleKeeps
<1>2. ApprovalTypeOK' /\ Named' /\ HandlerTypeOK' /\ InStep'
  BY ApprovalsStand, HandlersStand
<1>3. HostTypeOK'
  BY DEF HostTypeOK, hostVars
<1>4. HostSound'
  BY <1>1, HostKept DEF hostVars, sentinelVars, SentinelPart, SentinelSound
<1>5. \A c \in Requests : FencePart(c)'
  BY <1>1, FencesStand DEF handlerVars, sentinelVars
<1> QED BY <1>1, <1>2, <1>3, <1>4, <1>5, InvariantPartsNext

(***************************************************************************)
(* The sentinel's queue orders accesses and barriers, and the handlers'    *)
(* and the host's requests keep to it, whatever dies.                      *)
(***************************************************************************)
THEOREM FenceInvariance == Spec => []FenceInvariant
<1>1. FenceInvariant /\ [Next]_vars => FenceInvariant'
  BY HandlerKeeps, ArrivalKeeps, SentinelKeeps, BrokerKeeps, TickKeeps, FlushKeeps,
     TeardownKeeps, NobodyKeeps DEF Next, HostStep
<1> QED BY Started, <1>1, PTL DEF Spec

(***************************************************************************)
(* The boundary's state has its types: no queue holds anything but         *)
(* accesses and requests, no poll counts beyond its bound.                 *)
(***************************************************************************)
THEOREM BoundaryTyped == Spec => []BoundaryTypeOK
<1>1. FenceInvariant => BoundaryTypeOK
  BY DEF FenceInvariant
<1> QED BY <1>1, FenceInvariance, PTL

(***************************************************************************)
(* No connection is forwarded whose last barrier was requested after the   *)
(* agent had opened a decoy (network_docker.go:120-142).                   *)
(***************************************************************************)
THEOREM FenceStands == Spec => []FenceHolds
<1>1. FenceInvariant => FenceHolds
  BY DEF FenceInvariant, FenceSound, FenceHolds, At
<1> QED BY <1>1, FenceInvariance, PTL

(***************************************************************************)
(* A flush the host took for confirmed leaves no access unrecorded or      *)
(* unmarked (docker.go:961-998).                                           *)
(***************************************************************************)
THEOREM FlushIsComplete == Spec => []EvidenceComplete
<1>1. FenceInvariant => EvidenceComplete
  BY DEF FenceInvariant, HostSound, SentinelSound, EvidenceComplete
<1> QED BY <1>1, FenceInvariance, PTL


-----------------------------------------------------------------------------
(* Answers, grants and responses.                                          *)

Given(k) == \E q \in Requests : answer[q] = "session" /\ wanted[q] = k

AnswersPart(r) ==
    /\ r \notin asked => Unasked(r)
    /\ resolution[r] \in Granting => UserAllows(r, wanted[r])
    /\ response[r] \in Granting => UserAllows(r, wanted[r])

AsksPart(c) ==
    /\ Unposted(c) => c \notin asked
    /\ pc[c] \in {"require", "await", "outcome"} => wanted[c] = dest[c] /\ c \in asked
    /\ pc[c] \in {"require", "await", "outcome"} => dest[c] \in Keys
    /\ outcome[c] = "granted" => UserAllows(c, dest[c])
    /\ (Passed(c) \/ At(c, "forwarded")) /\ dest[c] \in Keys => outcome[c] = "granted"

LEMMA ApprovalParts ==
    ApprovalInvariant <=>
        /\ FenceInvariant /\ \A k \in grants : Given(k)
        /\ \A r \in Requests : AnswersPart(r)
        /\ \A c \in Requests : AsksPart(c)
BY DEF ApprovalInvariant, AnswersSound, AsksSound, AnswersPart, AsksPart, Given

LEMMA ApprovalPartsNext ==
    ApprovalInvariant' <=>
        /\ FenceInvariant' /\ (\A k \in grants : Given(k))'
        /\ \A r \in Requests : AnswersPart(r)'
        /\ \A c \in Requests : AsksPart(c)'
BY DEF ApprovalInvariant, AnswersSound, AsksSound, AnswersPart, AsksPart, Given

\* An answer once given stands, and so does the key it was given for.
AnswersStay ==
    \A q \in Requests : answer[q] # "none" => answer'[q] = answer[q] /\ wanted'[q] = wanted[q]

LEMMA WordStands ==
    ASSUME AnswersStay
    PROVE  /\ \A k : Given(k) => Given(k)'
           /\ \A r \in Requests : \A k : UserAllows(r, k) => UserAllows(r, k)'
<1>1. ASSUME NEW k, Given(k) PROVE Given(k)'
  BY <1>1 DEF Given, AnswersStay
<1>2. ASSUME NEW r \in Requests, NEW k, UserAllows(r, k) PROVE UserAllows(r, k)'
  <2>1. CASE answer[r] \in {"once", "session"}
    BY <2>1 DEF AnswersStay, UserAllows
  <2>2. CASE Given(k)
    BY <1>1, <2>2 DEF Given, UserAllows
  <2> QED BY <1>2, <2>1, <2>2 DEF UserAllows, Given
<1> QED BY <1>1, <1>2

\* The same with the key that a request wants, or a handler is after.
LEMMA WordStandsFor ==
    ASSUME AnswersStay, NEW r \in Requests
    PROVE  /\ wanted'[r] = wanted[r] /\ UserAllows(r, wanted[r]) => UserAllows(r, wanted[r])'
           /\ dest'[r] = dest[r] /\ UserAllows(r, dest[r]) => UserAllows(r, dest[r])'
<1>1. ASSUME wanted'[r] = wanted[r], UserAllows(r, wanted[r]) PROVE UserAllows(r, wanted[r])'
  <2>1. PICK k : k = wanted[r]
    OBVIOUS
  <2>2. UserAllows(r, k)'
    BY <1>1, <2>1, WordStands
  <2> QED BY <1>1, <2>1, <2>2 DEF UserAllows
<1>2. ASSUME dest'[r] = dest[r], UserAllows(r, dest[r]) PROVE UserAllows(r, dest[r])'
  <2>1. PICK k : k = dest[r]
    OBVIOUS
  <2>2. UserAllows(r, k)'
    BY <1>2, <2>1, WordStands
  <2> QED BY <1>2, <2>1, <2>2 DEF UserAllows
<1> QED BY <1>1, <1>2

LEMMA AnswersStand ==
    ASSUME NEW r \in Requests, AnswersPart(r), AnswersStay,
           r \in asked' <=> r \in asked, r \in posted' <=> r \in posted,
           worker'[r] = worker[r], owner' = owner, answer'[r] = answer[r],
           resolution'[r] = resolution[r], response'[r] = response[r],
           outcome'[r] = outcome[r], wanted'[r] = wanted[r]
    PROVE  AnswersPart(r)'
BY WordStandsFor DEF AnswersPart, Unasked

LEMMA AsksStand ==
    ASSUME NEW c \in Requests, AsksPart(c), AnswersStay,
           c \in asked' <=> c \in asked, pc'[c] = pc[c], purpose'[c] = purpose[c],
           dest'[c] = dest[c], outcome'[c] = outcome[c], wanted'[c] = wanted[c]
    PROVE  AsksPart(c)'
BY WordStandsFor DEF AsksPart, Unposted, Passed, At

LEMMA Unheard == Init => ApprovalInvariant
<1> SUFFICES ASSUME Init PROVE ApprovalInvariant
  OBVIOUS
<1>1. FenceInvariant
  BY Started
<1>2. (\A k \in grants : Given(k)) /\ \A r \in Requests : AnswersPart(r)
  BY ApprovalsAssumption DEF Init, ApprovalInit, AnswersPart, Unasked, Granting
<1>3. \A c \in Requests : AsksPart(c)
  BY DEF Init, AsksPart, Unposted, Passed, At, AtBarrier
<1> QED BY <1>1, <1>2, <1>3, ApprovalParts

LEMMA FenceNext == FenceInvariant /\ [Next]_vars => FenceInvariant'
BY HandlerKeeps, ArrivalKeeps, SentinelKeeps, BrokerKeeps, TickKeeps, FlushKeeps,
   TeardownKeeps, NobodyKeeps DEF Next, HostStep

LEMMA TypesKnown ==
    FenceInvariant => /\ ApprovalTypeOK /\ HandlerTypeOK /\ InStep
                      /\ \A c \in Requests : FencePart(c)
BY InvariantParts

\* What a step of one handler leaves alone of the others.
LEMMA HandlerAlone ==
    ASSUME HandlerTypeOK, ApprovalTypeOK, NEW c \in Requests, HandlerStep(c) \/ HandlerFails(c),
           NEW d \in Requests, d # c
    PROVE  /\ pc'[d] = pc[d] /\ purpose'[d] = purpose[d] /\ dest'[d] = dest[d]
           /\ outcome'[d] = outcome[d] /\ wanted'[d] = wanted[d]
           /\ d \in asked' <=> d \in asked
           /\ d \in posted' <=> d \in posted
           /\ response'[d] = response[d]
BY DEF HandlerTypeOK, ApprovalTypeOK, HandlerStep, HandlerFails, PostFails, RecordFails,
     Gate, RequestBarrier, SeeAck, BarrierTimesOut, Check, PostRequest, Sample, Write,
     TakeResponse, GiveUp, WithdrawRequest, Goto, recordVars, askVars, approvalVars,
     Post, Withdraw

LEMMA HandlerApprovals ==
    ASSUME NEW c \in Requests, HandlerStep(c) \/ HandlerFails(c)
    PROVE  /\ UNCHANGED <<worker, owner, answer, resolution, grants, dest>>
           /\ response' = response \/ WithdrawRequest(c)
BY DEF HandlerStep, HandlerFails, PostFails, RecordFails, Gate, RequestBarrier, SeeAck,
       BarrierTimesOut, Check, PostRequest, Sample, Write, TakeResponse, GiveUp,
       WithdrawRequest, approvalVars, Post, Withdraw

LEMMA HandlerAsks ==
    ASSUME FenceInvariant, NEW c \in Requests, AnswersPart(c), AsksPart(c),
           HandlerStep(c) \/ HandlerFails(c)
    PROVE  AnswersStay /\ AnswersPart(c)' /\ AsksPart(c)'
<1>0. /\ ApprovalTypeOK /\ HandlerTypeOK /\ InStep /\ FencePart(c)
  BY TypesKnown
<1> USE DEF At, Goto, HandlerTypeOK, AtBarrier, Unposted, Passed
<1>1. AnswersStay
  <2>1. CASE UNCHANGED approvalVars \/ WithdrawRequest(c)
    BY <2>1 DEF approvalVars, AnswersStay, WithdrawRequest, Withdraw
  <2>2. CASE PostRequest(c)
    <3>1. answer[c] = "none"
      BY <2>2 DEF PostRequest, AsksPart, AnswersPart, Unasked
    <3> QED BY <1>0, <2>2, <3>1 DEF PostRequest, Post, AnswersStay, ApprovalTypeOK
  <2> QED BY <2>1, <2>2 DEF HandlerStep, HandlerFails, PostFails, RecordFails, Gate,
             RequestBarrier, SeeAck, BarrierTimesOut, Check, Sample, Write, TakeResponse, GiveUp
<1>2. /\ UNCHANGED <<worker, owner, answer, resolution, grants, dest>>
      /\ response' = response \/ WithdrawRequest(c)
  BY HandlerApprovals
<1>3. AnswersPart(c)'
  <2>1. CASE PostRequest(c)
    <3>1. response' = response
      BY <2>1 DEF PostRequest, Post
    <3> QED BY <1>0, <2>1, <1>2, <3>1 DEF PostRequest, AnswersPart, AsksPart, Unasked, Granting
  <2>2. CASE PostFails(c)
    <3>1. response' = response
      BY <2>2 DEF PostFails, approvalVars
    <3> QED BY <1>0, <2>2, <1>2, <3>1 DEF PostFails, AnswersPart, AsksPart, Unasked, Granting
  <2>3. CASE TakeResponse(c) \/ GiveUp(c)
    <3>1. c \in asked' /\ wanted'[c] = wanted[c] /\ response' = response
      BY <2>3 DEF TakeResponse, GiveUp, AsksPart, approvalVars
    <3> QED BY <1>1, <1>2, <3>1, WordStandsFor DEF AnswersPart
  <2>4. CASE UNCHANGED <<approvalVars, askVars>>
    BY <1>1, <2>4, AnswersStand DEF approvalVars, askVars
  <2>5. CASE WithdrawRequest(c)
    <3>1. /\ response'[c] = "none" /\ (c \in posted' => c \in posted)
          /\ UNCHANGED <<asked, outcome, wanted>>
      BY <1>0, <2>5 DEF WithdrawRequest, Withdraw, ApprovalTypeOK
    <3> QED BY <1>1, <1>2, <3>1, WordStandsFor DEF AnswersPart, Unasked, Granting
  <2> QED BY <2>1, <2>2, <2>3, <2>4, <2>5 DEF HandlerStep, HandlerFails, RecordFails, Gate,
             RequestBarrier, SeeAck, BarrierTimesOut, Check, Sample, Write
<1>4. outcome'[c] = outcome[c] => (outcome'[c] = "granted" => UserAllows(c, dest[c])')
  BY <1>1, <1>2, WordStandsFor DEF AsksPart
<1>5. AsksPart(c)'
  <2>1. CASE Gate(c)
    BY <1>0, <1>4, <2>1 DEF Gate, AsksPart, FencePart, Beginning, askVars
  <2>2. CASE RequestBarrier(c)
    <3>1. /\ pc[c] = "signal" /\ pc'[c] \in {"ack", "check"}
          /\ UNCHANGED <<purpose, dest, outcome, asked>>
      BY <1>0, <2>2 DEF RequestBarrier, askVars
    <3> QED BY <1>4, <3>1 DEF AsksPart
  <2>3. CASE SeeAck(c)
    BY <1>4, <2>3 DEF SeeAck, AsksPart, askVars, approvalVars
  <2>4. CASE BarrierTimesOut(c)
    BY <1>4, <2>4 DEF BarrierTimesOut, AsksPart, askVars, approvalVars
  <2>5. CASE Check(c)
    <3>1. {"allowed", "other"} \cap Keys = {}
      BY GatewayAssumption
    <3>2. UNCHANGED <<approvalVars, dest, askVars>> /\ pc[c] = "check"
      BY <2>5 DEF Check
    <3>3. CASE Goto(c, "refuse") /\ UNCHANGED purpose
      BY <1>4, <3>2, <3>3 DEF AsksPart, askVars
    <3>4. CASE purpose[c] = "policy" /\ Goto(c, "post") /\ UNCHANGED purpose
      BY <1>4, <3>2, <3>4 DEF AsksPart, askVars
    <3>5. CASE /\ purpose[c] = "approval" \/ (purpose[c] = "policy" /\ dest[c] = "allowed")
               /\ Goto(c, "signal") /\ purpose' = [purpose EXCEPT ![c] = "connection"]
      BY <1>4, <3>1, <3>2, <3>5 DEF AsksPart, askVars
    <3>6. CASE purpose[c] = "connection" /\ Goto(c, "record") /\ UNCHANGED purpose
      BY <1>4, <3>2, <3>6 DEF AsksPart, askVars
    <3> QED BY <2>5, <3>3, <3>4, <3>5, <3>6 DEF Check
  <2>6. CASE PostRequest(c)
    BY <1>0, <1>4, <2>6 DEF PostRequest, Post, AsksPart, InStep, ApprovalTypeOK
  <2>7. CASE PostFails(c)
    <3>1. pc'[c] = "refuse" /\ outcome' = outcome
      BY <1>0, <2>7 DEF PostFails
    <3> QED BY <1>4, <3>1 DEF AsksPart
  <2>8. CASE Sample(c)
    <3>1. UNCHANGED <<approvalVars, purpose, dest, outcome, asked>>
            /\ (pc'[c] = pc[c] \/ pc'[c] = "refuse")
      BY <1>0, <2>8 DEF Sample, askVars
    <3>2. CASE pc'[c] = pc[c]
      BY <1>1, <3>1, <3>2, AsksStand DEF approvalVars
    <3>3. CASE pc'[c] = "refuse"
      BY <1>4, <3>1, <3>3 DEF AsksPart
    <3> QED BY <3>1, <3>2, <3>3
  <2>9. CASE Write(c)
    <3>1. pc[c] \in Writers /\ UNCHANGED <<approvalVars, dest, askVars>>
      BY <1>0, <2>9 DEF Write, Writing, Writers, Sampled, InStep
    <3>2. CASE pc[c] = "outcome"
      <4>1. /\ pc'[c] \in {"withdraw", "refuse"} \/ (pc'[c] = "signal" /\ outcome[c] = "granted")
            /\ purpose'[c] = "approval" /\ UNCHANGED <<outcome, asked>>
        BY <1>0, <2>9, <3>1, <3>2 DEF Write, AfterRefusal, askVars
      <4> QED BY <1>4, <4>1 DEF AsksPart
    <3>3. CASE pc[c] = "require"
      BY <1>4, <2>9, <3>1, <3>3 DEF Write, AsksPart, askVars, approvalVars
    <3>4. CASE pc[c] \in {"record", "refuse"}
      BY <1>4, <2>9, <3>1, <3>4 DEF Write, AsksPart, askVars, approvalVars
    <3> QED BY <3>1, <3>2, <3>3, <3>4 DEF Writers
  <2>10. CASE TakeResponse(c)
    <3>1. outcome'[c] = "granted" => response[c] \in Granting
      BY <1>0, <2>10 DEF TakeResponse, OutcomeOf, ApprovalTypeOK, Resolutions, Granting
    <3>2. wanted[c] = dest[c] /\ wanted'[c] = wanted[c]
      BY <2>10 DEF TakeResponse, AsksPart, approvalVars
    <3>3. outcome'[c] = "granted" => UserAllows(c, dest[c])'
      BY <1>1, <1>2, <3>1, <3>2, WordStandsFor DEF AnswersPart
    <3> QED BY <2>10, <3>2, <3>3 DEF TakeResponse, AsksPart, approvalVars
  <2>11. CASE GiveUp(c)
    <3>1. /\ pc[c] = "await" /\ pc'[c] = "outcome" /\ outcome'[c] = "unavailable"
          /\ UNCHANGED <<dest, wanted, asked>>
      BY <1>0, <2>11 DEF GiveUp, approvalVars
    <3> QED BY <3>1 DEF AsksPart
  <2>12. CASE WithdrawRequest(c)
    <3>1. pc'[c] = "refuse" /\ outcome' = outcome
      BY <1>0, <2>12 DEF WithdrawRequest
    <3> QED BY <1>4, <3>1 DEF AsksPart
  <2>13. CASE RecordFails(c)
    <3>1. pc'[c] \in {"withdraw", "refuse", "refused"} /\ outcome' = outcome
      BY <1>0, <2>13 DEF RecordFails, AfterRefusal, askVars
    <3> QED BY <1>4, <3>1 DEF AsksPart
  <2> QED BY <2>1, <2>2, <2>3, <2>4, <2>5, <2>6, <2>7, <2>8, <2>9, <2>10, <2>11, <2>12, <2>13
          DEF HandlerStep, HandlerFails
<1> QED BY <1>1, <1>3, <1>5

\* The user and the broker: an answer is given once, and what is resolved,
\* granted or responded goes back to one.
LEMMA BrokerAnswers ==
    ASSUME ApprovalInvariant, BrokerSteps \/ UserAnswers \/ BrokerFails
    PROVE  /\ AnswersStay /\ (\A k \in grants : Given(k))'
           /\ \A r \in Requests : AnswersPart(r)'
<1> USE ApprovalParts, TypesKnown DEF ApprovalTypeOK
<1>1. UNCHANGED <<handlerVars, wanted>>
  BY DEF BrokerSteps, UserAnswers, BrokerFails, ScanEnds, BrokerStep, Consume, Resolve,
         Decide, Respond, Answer, WorkerFails
<1>2. AnswersStay
  BY DEF AnswersStay, BrokerSteps, UserAnswers, BrokerFails, ScanEnds, BrokerStep, Consume,
         Resolve, Decide, Respond, Answer, WorkerFails
<1>3. (\A k \in grants : Given(k))'
  <2>1. CASE grants' = grants
    BY <1>2, <2>1, WordStands
  <2>2. CASE \E r \in Requests : Decide(r)
    <3>1. PICK r \in Requests : Decide(r)
      BY <2>2
    <3>2. grants' = grants \/ (answer[r] = "session" /\ grants' = grants \cup {wanted[r]})
      BY <3>1 DEF Decide, Verdicts
    <3>3. answer[r] = "session" => Given(wanted[r])'
      BY <1>1, <3>1 DEF Decide, Given
    <3>4. \A k \in grants : Given(k)'
      BY <1>2, WordStands
    <3> QED BY <1>1, <3>2, <3>3, <3>4 DEF Given
  <2> QED BY <2>1, <2>2 DEF BrokerSteps, UserAnswers, BrokerFails, ScanEnds, BrokerStep,
             Consume, Resolve, Respond, Answer, WorkerFails
<1>4. ASSUME NEW q \in Requests PROVE AnswersPart(q)'
  <2>1. /\ asked' = asked /\ outcome' = outcome /\ wanted'[q] = wanted[q]
        /\ UserAllows(q, wanted[q]) => UserAllows(q, wanted[q])'
    BY <1>1, <1>2, WordStandsFor DEF handlerVars, askVars
  <2>2. CASE ScanEnds
    BY <1>2, <2>1, <2>2, AnswersStand DEF ScanEnds
  <2>3. ASSUME NEW r \in Requests, r # q,
               \/ BrokerStep(r) \/ WorkerFails(r) \/ \E a \in Answers : Answer(r, a)
        PROVE  AnswersPart(q)'
    <3>1. /\ q \in posted' <=> q \in posted
          /\ worker'[q] = worker[q] /\ answer'[q] = answer[q] /\ resolution'[q] = resolution[q]
          /\ response'[q] = response[q] /\ (owner' = q => owner = q)
      BY <2>3, ApprovalsAssumption
         DEF BrokerStep, Consume, Resolve, Decide, Respond, Answer, WorkerFails
    <3> QED BY <2>1, <3>1 DEF AnswersPart, Unasked
  <2>4. CASE Consume(q) \/ WorkerFails(q)
    <3>1. q \in asked
      BY <2>4 DEF AnswersPart, Unasked, Consume, WorkerFails
    <3> QED BY <2>1, <2>4, <3>1 DEF AnswersPart, Consume, WorkerFails
  <2>5. CASE Resolve(q)
    <3>1. q \in asked
      BY <2>5 DEF AnswersPart, Unasked, Resolve
    <3>2. /\ response' = response
          /\ resolution'[q] = resolution[q] \/ resolution'[q] = "unavailable"
                \/ (resolution'[q] = "matching" /\ wanted[q] \in grants)
      BY <2>5 DEF Resolve
    <3>3. wanted[q] \in grants => UserAllows(q, wanted[q])
      BY DEF Given, UserAllows
    <3> QED BY <2>1, <3>1, <3>2, <3>3 DEF AnswersPart, Granting
  <2>6. CASE Decide(q)
    <3>1. q \in asked /\ answer' = answer /\ response' = response
      BY <2>6 DEF AnswersPart, Unasked, Decide
    <3>2. resolution'[q] \in Verdicts(q)
      BY <2>6 DEF Decide
    <3>3. resolution'[q] \in Granting => answer[q] \in {"once", "session"}
      BY <3>2 DEF Verdicts, Granting
    <3>4. resolution'[q] \in Granting => UserAllows(q, wanted[q])
      BY <3>3 DEF UserAllows
    <3> QED BY <2>1, <3>1, <3>4 DEF AnswersPart
  <2>7. CASE Respond(q)
    <3>1. q \in asked
      BY <2>7 DEF AnswersPart, Unasked, Respond
    <3>2. response'[q] = resolution[q] /\ resolution'[q] = "none"
      BY <2>7 DEF Respond
    <3> QED BY <2>1, <3>1, <3>2 DEF AnswersPart, Granting
  <2>8. CASE \E a \in Answers : Answer(q, a)
    <3>1. q \in asked
      BY <2>8, ApprovalsAssumption DEF AnswersPart, Unasked, Answer
    <3> QED BY <2>1, <2>8, <3>1 DEF AnswersPart, Answer
  <2> QED BY <2>2, <2>3, <2>4, <2>5, <2>6, <2>7, <2>8
          DEF BrokerSteps, UserAnswers, BrokerFails, BrokerStep
<1> QED BY <1>2, <1>3, <1>4

\* A step outside approval and the handlers' own.
LEMMA ElsewhereApproves ==
    ASSUME ApprovalInvariant,
           UNCHANGED <<posted, wanted, worker, owner, answer, resolution, response, grants>>,
           UNCHANGED <<outcome, asked>>,
           \A c \in Requests :
              \/ pc'[c] = pc[c] /\ purpose'[c] = purpose[c] /\ dest'[c] = dest[c]
              \/ pc'[c] = "killed" /\ dest'[c] = dest[c]
              \/ pc[c] = "idle" /\ pc'[c] \in {"gate", "refuse"}
    PROVE  /\ (\A k \in grants : Given(k))'
           /\ \A r \in Requests : AnswersPart(r)'
           /\ \A c \in Requests : AsksPart(c)'
<1> USE ApprovalParts
<1>1. AnswersStay
  BY DEF AnswersStay
<1>2. \A r \in Requests : AnswersPart(r)'
  BY <1>1, AnswersStand
<1>3. ASSUME NEW c \in Requests PROVE AsksPart(c)'
  <2>1. CASE pc'[c] = pc[c] /\ purpose'[c] = purpose[c] /\ dest'[c] = dest[c]
    BY <1>1, <2>1, AsksStand
  <2>2. CASE pc'[c] = "killed" /\ dest'[c] = dest[c]
    BY <1>1, <2>2, WordStandsFor DEF AsksPart, Unposted, Passed, At, AtBarrier
  <2>3. CASE pc[c] = "idle" /\ pc'[c] \in {"gate", "refuse"}
    <3>1. c \notin asked /\ outcome[c] = "unavailable"
      BY <2>3 DEF AsksPart, AnswersPart, Unasked, Unposted
    <3> QED BY <2>3, <3>1 DEF AsksPart, Unposted, Passed, At, AtBarrier
  <2> QED BY <2>1, <2>2, <2>3
<1>4. (\A k \in grants : Given(k))'
  BY <1>1, WordStands
<1> QED BY <1>2, <1>3, <1>4

LEMMA ApprovalNext == ApprovalInvariant /\ [Next]_vars => ApprovalInvariant'
<1> SUFFICES ASSUME ApprovalInvariant, [Next]_vars PROVE ApprovalInvariant'
  OBVIOUS
<1> USE ApprovalParts
<1>1. FenceInvariant'
  BY FenceNext
<1>2. HandlerTypeOK /\ ApprovalTypeOK
  BY TypesKnown
<1>3. ASSUME NEW c \in Requests, HandlerStep(c) \/ HandlerFails(c) PROVE ApprovalInvariant'
  <2>1. AnswersStay /\ AnswersPart(c)' /\ AsksPart(c)'
    BY <1>3, HandlerAsks
  <2>2. UNCHANGED <<worker, owner, answer, resolution, grants, dest>>
    BY <1>3, HandlerApprovals
  <2>3. ASSUME NEW d \in Requests, d # c PROVE AnswersPart(d)' /\ AsksPart(d)'
    <3>1. /\ pc'[d] = pc[d] /\ purpose'[d] = purpose[d] /\ dest'[d] = dest[d]
          /\ outcome'[d] = outcome[d] /\ wanted'[d] = wanted[d]
          /\ d \in asked' <=> d \in asked
          /\ d \in posted' <=> d \in posted
          /\ response'[d] = response[d]
      BY <1>2, <1>3, <2>3, HandlerAlone
    <3> QED BY <2>1, <2>2, <3>1, AnswersStand, AsksStand
  <2>4. (\A k \in grants : Given(k))'
    BY <2>1, <2>2, WordStands
  <2> QED BY <1>1, <2>1, <2>3, <2>4, ApprovalPartsNext
<1>4. CASE BrokerSteps \/ UserAnswers \/ BrokerFails
  <2>1. /\ AnswersStay /\ (\A k \in grants : Given(k))'
        /\ \A r \in Requests : AnswersPart(r)'
    BY <1>4, BrokerAnswers
  <2>2. UNCHANGED <<handlerVars, wanted>>
    BY <1>4 DEF BrokerSteps, UserAnswers, BrokerFails, ScanEnds, BrokerStep, Consume, Resolve,
           Decide, Respond, Answer, WorkerFails
  <2>3. \A c \in Requests : AsksPart(c)'
    BY <2>1, <2>2, AsksStand DEF handlerVars, askVars
  <2> QED BY <1>1, <2>1, <2>3, ApprovalPartsNext
<1>5. ASSUME UNCHANGED <<posted, wanted, worker, owner, answer, resolution, response, grants>>,
             UNCHANGED <<outcome, asked>>,
             \A c \in Requests :
                \/ pc'[c] = pc[c] /\ purpose'[c] = purpose[c] /\ dest'[c] = dest[c]
                \/ pc'[c] = "killed" /\ dest'[c] = dest[c]
                \/ pc[c] = "idle" /\ pc'[c] \in {"gate", "refuse"}
      PROVE  ApprovalInvariant'
  BY <1>1, <1>5, ElsewhereApproves, ApprovalPartsNext
<1>6. ASSUME NEW c \in Requests, NEW d \in Destinations, Arrive(c, d) PROVE ApprovalInvariant'
  <2>1. UNCHANGED <<posted, wanted, worker, owner, answer, resolution, response, grants,
                    outcome, asked, purpose>>
    BY <1>6 DEF Arrive, approvalVars, askVars
  <2>2. ASSUME NEW e \in Requests
        PROVE  \/ pc'[e] = pc[e] /\ purpose'[e] = purpose[e] /\ dest'[e] = dest[e]
               \/ pc[e] = "idle" /\ pc'[e] \in {"gate", "refuse"}
    BY <1>2, <1>6, <2>1 DEF Arrive, At, Goto, HandlerTypeOK
  <2> QED BY <1>5, <2>1, <2>2
<1>7. CASE RemoveGateway
  <2>1. UNCHANGED <<posted, wanted, worker, owner, answer, resolution, response, grants,
                    outcome, asked, purpose, dest>>
    BY <1>7 DEF RemoveGateway, approvalVars, askVars
  <2>2. \A e \in Requests : pc'[e] = pc[e] \/ pc'[e] = "killed"
    BY <1>2, <1>7 DEF RemoveGateway, HandlerTypeOK
  <2> QED BY <1>5, <2>1, <2>2
<1>8. CASE \/ SentinelStep \/ AgentOpens \/ SentinelDies \/ Tick \/ AgentExits \/ FlushTimesOut
           \/ FlushAgain \/ FlushDone \/ RemoveSentinel \/ StopBroker \/ Drained \/ Collect
           \/ RunEnds \/ UNCHANGED vars
  <2>1. UNCHANGED <<posted, wanted, worker, owner, answer, resolution, response, grants,
                    outcome, asked, pc, purpose, dest>>
    BY <1>8 DEF SentinelStep, AgentOpens, SentinelDies, Tick, AgentExits, FlushTimesOut,
           FlushAgain, FlushDone, RemoveSentinel, StopBroker, ContextDone, RunEnds, Drained,
           Collect, vars, handlerVars, approvalVars, askVars
  <2> QED BY <1>5, <2>1
<1> QED BY <1>3, <1>4, <1>6, <1>7, <1>8 DEF Next, HostStep

(***************************************************************************)
(* Whatever is resolved, granted or let through goes back to an answer of  *)
(* the user that stands.                                                   *)
(***************************************************************************)
THEOREM ApprovalInvariance == Spec => []ApprovalInvariant
BY Unheard, ApprovalNext, PTL DEF Spec

(***************************************************************************)
(* An ASK destination is reached only on the user's word for this request, *)
(* or for the session and the same key (model.go:163-227).                 *)
(***************************************************************************)
THEOREM UserApproves == Spec => []ApprovedByUser
<1>1. ApprovalInvariant => ApprovedByUser
  BY DEF ApprovalInvariant, AsksSound, ApprovedByUser, UserAllows, At
<1> QED BY <1>1, ApprovalInvariance, PTL

-----------------------------------------------------------------------------
(* The records of a handler.                                               *)

LEMMA ShortTrails ==
    /\ \A a : Append(<<>>, a) = <<a>>
    /\ \A a, b : Append(<<a>>, b) = <<a, b>>
    /\ \A a, b, c : Append(<<a, b>>, c) = <<a, b, c>>
<1>1. \A a : Append(<<>>, a) = <<a>>
  OBVIOUS
<1>2. ASSUME NEW a, NEW b PROVE Append(<<a>>, b) = <<a, b>>
  <2>1. <<a>> \in Seq({a, b}) /\ <<a, b>> \in Seq({a, b}) /\ b \in {a, b}
    OBVIOUS
  <2>2. Append(<<a>>, b) \in Seq({a, b}) /\ Len(Append(<<a>>, b)) = 2
    BY <2>1, AppendProperties
  <2>3. Append(<<a>>, b)[1] = a /\ Append(<<a>>, b)[2] = b
    BY <2>1, AppendProperties
  <2>4. Len(<<a, b>>) = 2 /\ \A i \in 1..2 : Append(<<a>>, b)[i] = <<a, b>>[i]
    BY <2>3
  <2> QED BY <2>1, <2>2, <2>4, SeqEqual
<1>3. ASSUME NEW a, NEW b, NEW c PROVE Append(<<a, b>>, c) = <<a, b, c>>
  <2>1. <<a, b>> \in Seq({a, b, c}) /\ <<a, b, c>> \in Seq({a, b, c}) /\ c \in {a, b, c}
    OBVIOUS
  <2>2. Append(<<a, b>>, c) \in Seq({a, b, c}) /\ Len(Append(<<a, b>>, c)) = 3
    BY <2>1, AppendProperties
  <2>3. Append(<<a, b>>, c)[1] = a /\ Append(<<a, b>>, c)[2] = b
          /\ Append(<<a, b>>, c)[3] = c
    BY <2>1, AppendProperties
  <2>4. Len(<<a, b, c>>) = 3 /\ \A i \in 1..3 : Append(<<a, b>>, c)[i] = <<a, b, c>>[i]
    BY <2>3
  <2> QED BY <2>1, <2>2, <2>4, SeqEqual
<1> QED BY <1>1, <1>2, <1>3

FlagPart(c) == ~writing[c] \/ At(c, "record") => ~flag[c]
Told(c) == FlagPart(c) /\ Story(c)
RecordPart(c) == FlagPart(c) /\ (faults = 0 => Story(c))

HandlersGone == \A c \in Requests : pc[c] \in {"idle"} \cup Ended

LEMMA EvidenceParts ==
    EvidenceInvariant <=>
        /\ ApprovalInvariant /\ TeardownSound
        /\ \A c \in Requests : RecordPart(c)
BY DEF EvidenceInvariant, RecordsSound, RecordPart, FlagPart

LEMMA EvidencePartsNext ==
    EvidenceInvariant' <=>
        /\ ApprovalInvariant' /\ TeardownSound'
        /\ \A c \in Requests : RecordPart(c)'
BY DEF EvidenceInvariant, RecordsSound, RecordPart, FlagPart

\* Failures are only counted up.
LEMMA StoryStands ==
    ASSUME NEW c \in Requests, RecordPart(c), faults \in Nat, faults' \in Nat, faults' >= faults,
           c \in asked' <=> c \in asked, pc'[c] = pc[c], purpose'[c] = purpose[c],
           dest'[c] = dest[c], trail'[c] = trail[c],
           writing'[c] = writing[c], flag'[c] = flag[c]
    PROVE  RecordPart(c)'
<1>1. /\ Silent(c)' = Silent(c) /\ Pending(c)' = Pending(c) /\ Admitted(c)' = Admitted(c)
      /\ \A o \in Outcomes : Settled(c, o)' = Settled(c, o)
      /\ Unposted(c)' = Unposted(c) /\ Passed(c)' = Passed(c)
  BY DEF Silent, Pending, Admitted, Settled, Unposted, Passed, At
<1>2. Story(c) => Story(c)'
  BY <1>1 DEF Story, At
<1> QED BY <1>2 DEF RecordPart, FlagPart, At

LEMMA Unwritten == Init => EvidenceInvariant
<1> SUFFICES ASSUME Init PROVE EvidenceInvariant
  OBVIOUS
<1>1. ApprovalInvariant
  BY Unheard
<1>2. TeardownSound
  BY DEF Init, TeardownSound, EvidenceAgrees
<1>3. \A c \in Requests : RecordPart(c)
  BY DEF Init, RecordPart, FlagPart, Story, Silent, Passed, At, AtBarrier
<1> QED BY <1>1, <1>2, <1>3, EvidenceParts

LEMMA HandlerCounts ==
    ASSUME FenceInvariant, NEW c \in Requests, HandlerStep(c) \/ HandlerFails(c)
    PROVE  /\ pc[c] \in Handling
           /\ UNCHANGED <<hostVars, dest>>
           /\ faults \in Nat /\ faults' \in Nat /\ faults' >= faults
           /\ HandlerFails(c) => faults' > 0
<1>1. HandlerTypeOK /\ InStep /\ faults \in Nat
  BY TypesKnown, InvariantParts, GatewayAssumption DEF HostTypeOK
<1>2. pc[c] \in Handling
  BY <1>1 DEF InStep, At, Handling, Writers, Writing, Sampled, HandlerStep,
       HandlerFails, PostFails, RecordFails, Gate, RequestBarrier, SeeAck,
       BarrierTimesOut, Check, PostRequest, Sample, Write, TakeResponse, GiveUp,
       WithdrawRequest
<1>3. /\ UNCHANGED <<hostVars, dest>>
      /\ faults' = faults \/ faults' = faults + 1
      /\ HandlerFails(c) => faults' = faults + 1
  BY DEF HandlerStep, HandlerFails, PostFails, RecordFails, Gate, RequestBarrier,
       SeeAck, BarrierTimesOut, Check, PostRequest, Sample, Write, TakeResponse, GiveUp,
       WithdrawRequest, Fault
<1> QED BY <1>1, <1>2, <1>3

\* What is refused at a barrier or before its record has its reasons on record.
LEMMA Refusable ==
    ASSUME NEW c \in Requests, AsksPart(c), Told(c), Unposted(c) \/ Passed(c)
    PROVE  (c \notin asked /\ Silent(c)) \/ \E o \in Outcomes : Settled(c, o)
<1>1. CASE Unposted(c)
  BY <1>1 DEF AsksPart, Told, Story
<1>2. CASE Passed(c)
  BY <1>2 DEF Told, Story, Admitted, Outcomes
<1> QED BY <1>1, <1>2

\* A flag is in hand only while its record is, and never for an ALLOW that is
\* contained.
LEMMA FlagKept ==
    ASSUME HandlerTypeOK, InStep, NEW c \in Requests, FlagPart(c),
           HandlerStep(c) \/ HandlerFails(c)
    PROVE  FlagPart(c)'
<1> USE DEF At, Goto, HandlerTypeOK, FlagPart
<1>1. CASE Write(c) \/ RecordFails(c)
  BY <1>1 DEF Write, RecordFails
<1>2. CASE Sample(c)
  BY <1>2 DEF Sample
<1>3. CASE UNCHANGED recordVars
  <2>1. CASE Check(c)
    BY <1>3, <2>1 DEF Check, InStep, Sampled, recordVars
  <2>2. CASE ~Check(c)
    BY <1>3, <2>2 DEF recordVars, HandlerStep, HandlerFails, PostFails, RecordFails, Gate,
       RequestBarrier, SeeAck, BarrierTimesOut, PostRequest, Sample, Write, TakeResponse,
       GiveUp, WithdrawRequest
  <2> QED BY <2>1, <2>2
<1> QED BY <1>1, <1>2, <1>3 DEF HandlerStep, HandlerFails, PostFails, Gate, RequestBarrier,
        SeeAck, BarrierTimesOut, Check, PostRequest, TakeResponse, GiveUp, WithdrawRequest

\* Where nothing fails, the story goes on.
LEMMA StoryGoesOn ==
    ASSUME FenceInvariant, NEW c \in Requests, AsksPart(c), Told(c), HandlerStep(c)
    PROVE  Told(c)'
<1>0. /\ ApprovalTypeOK /\ HandlerTypeOK /\ InStep /\ FencePart(c) /\ marker \in BOOLEAN
      /\ dest' = dest
  BY TypesKnown, HandlerCounts, InvariantParts DEF SentinelPart
<1> USE DEF At, Goto, AtBarrier, Unposted, Passed, FlagPart
\* Steps that write nothing.
<1>1. ASSUME trail' = trail, writing'[c] = writing[c], flag'[c] = flag[c],
             c \in asked' <=> c \in asked,
             Unposted(c) \/ Passed(c), pc[c] # "record" \/ pc'[c] = "refuse",
             \/ pc'[c] = "refuse"
             \/ pc'[c] \in {"signal", "ack", "check", "post"} /\ purpose'[c] = "policy" /\ Unposted(c)
             \/ pc'[c] = "post" /\ Unposted(c)
             \/ /\ pc'[c] \in {"signal", "ack", "check", "record"} /\ purpose'[c] # "policy"
                /\ Admitted(c) /\ (pc'[c] = "record" => ~writing[c])
      PROVE  Told(c)'
  <2>1. (c \notin asked /\ Silent(c))' \/ \E o \in Outcomes : Settled(c, o)'
    BY <1>0, <1>1, Refusable DEF Silent, Settled
  <2>2. Unposted(c) => Silent(c)'
    BY <1>1 DEF Told, Story, Silent
  <2>3. Admitted(c) => Admitted(c)'
    BY <1>0, <1>1 DEF Admitted, Silent, Settled
  <2>4. ~writing'[c] \/ pc'[c] = "record" => ~flag'[c]
    BY <1>0, <1>1 DEF Told
  <2>5. CASE pc'[c] = "refuse"
    BY <2>1, <2>4, <2>5 DEF Told, Story
  <2>6. CASE pc'[c] \in {"signal", "ack", "check", "post"} /\ purpose'[c] = "policy" /\ Unposted(c)
    BY <2>2, <2>4, <2>6 DEF Told, Story
  <2>7. CASE pc'[c] = "post" /\ Unposted(c)
    BY <2>2, <2>4, <2>7 DEF Told, Story
  <2>8. CASE /\ pc'[c] \in {"signal", "ack", "check", "record"} /\ purpose'[c] # "policy"
             /\ Admitted(c)
    BY <2>3, <2>4, <2>8 DEF Told, Story
  <2> QED BY <1>1, <2>5, <2>6, <2>7, <2>8
<1>2. writing[c] => pc[c] \in Sampled
  BY <1>0 DEF InStep
<1>3. CASE Gate(c)
  <2>1. /\ UNCHANGED <<trail, writing, flag, asked, purpose>> /\ pc[c] = "gate"
        /\ pc'[c] \in {"refuse", "signal"} /\ purpose[c] = "policy"
    BY <1>0, <1>3 DEF Gate, recordVars, askVars, FencePart, Beginning, HandlerTypeOK
  <2> QED BY <1>1, <2>1
<1>4. CASE RequestBarrier(c)
  <2>1. /\ UNCHANGED <<trail, writing, flag, asked, purpose>> /\ pc[c] = "signal"
        /\ pc'[c] \in {"ack", "check"}
    BY <1>0, <1>4 DEF RequestBarrier, recordVars, askVars, HandlerTypeOK
  <2>2. purpose[c] # "policy" => Admitted(c)
    BY <2>1 DEF Told, Story
  <2> QED BY <1>1, <2>1, <2>2
<1>5. CASE SeeAck(c)
  <2>1. /\ UNCHANGED <<trail, writing, flag, asked, purpose>> /\ pc[c] = "ack"
        /\ pc'[c] = "check"
    BY <1>0, <1>5 DEF SeeAck, recordVars, askVars, HandlerTypeOK
  <2>2. purpose[c] # "policy" => Admitted(c)
    BY <2>1 DEF Told, Story
  <2> QED BY <1>1, <2>1, <2>2
<1>6. CASE BarrierTimesOut(c)
  <2>1. /\ UNCHANGED <<trail, writing, flag, asked, purpose>> /\ pc[c] = "ack"
        /\ pc'[c] = "refuse"
    BY <1>0, <1>6 DEF BarrierTimesOut, recordVars, askVars, HandlerTypeOK
  <2> QED BY <1>1, <2>1
<1>7. CASE Check(c)
  <2>1. UNCHANGED <<trail, writing, flag, asked>> /\ pc[c] = "check"
    BY <1>7 DEF Check, recordVars, askVars
  <2>2. purpose[c] # "policy" => Admitted(c)
    BY <2>1 DEF Told, Story
  <2>3. purpose[c] = "policy" => Silent(c) /\ c \notin asked
    BY <2>1 DEF Told, Story, AsksPart
  <2>4. ~writing[c]
    BY <1>2, <2>1 DEF Sampled
  <2>5. CASE Goto(c, "refuse")
    BY <1>0, <1>1, <2>1, <2>5 DEF HandlerTypeOK
  <2>6. CASE purpose[c] = "policy" /\ Goto(c, "post")
    BY <1>0, <1>1, <2>1, <2>6 DEF HandlerTypeOK
  <2>7. CASE /\ purpose[c] = "approval" \/ (purpose[c] = "policy" /\ dest[c] = "allowed")
             /\ Goto(c, "signal") /\ purpose' = [purpose EXCEPT ![c] = "connection"]
    <3>1. Admitted(c)
      BY <2>2, <2>3, <2>7 DEF Admitted
    <3>2. pc'[c] = "signal" /\ purpose'[c] = "connection"
      BY <1>0, <2>7 DEF HandlerTypeOK
    <3> QED BY <1>1, <2>1, <3>1, <3>2
  <2>8. CASE purpose[c] = "connection" /\ Goto(c, "record") /\ UNCHANGED purpose
    <3>1. pc'[c] = "record" /\ purpose'[c] = "connection"
      BY <1>0, <2>8 DEF HandlerTypeOK
    <3> QED BY <1>1, <2>1, <2>2, <2>4, <2>8, <3>1
  <2> QED BY <1>7, <2>5, <2>6, <2>7, <2>8 DEF Check
<1>8. CASE PostRequest(c)
  <2>1. /\ UNCHANGED <<trail, writing, flag>> /\ pc[c] = "post" /\ pc'[c] = "require"
    BY <1>0, <1>8 DEF PostRequest, recordVars, HandlerTypeOK
  <2> QED BY <2>1 DEF Told, Story, Silent
<1>9. CASE WithdrawRequest(c)
  <2>1. /\ UNCHANGED <<trail, writing, flag, asked>> /\ pc[c] = "withdraw" /\ pc'[c] = "refuse"
    BY <1>0, <1>9 DEF WithdrawRequest, recordVars, HandlerTypeOK
  <2> QED BY <2>1 DEF Told, Story, Silent, Settled
<1>10. CASE Sample(c)
  <2>1. /\ UNCHANGED <<trail, asked, purpose>> /\ ~writing[c] /\ pc[c] \in Sampled
    BY <1>10 DEF Sample, askVars
  <2>2. CASE pc[c] = "record" /\ marker
    <3>1. pc'[c] = "refuse" /\ UNCHANGED <<writing, flag>>
      BY <1>0, <1>10, <2>2 DEF Sample, HandlerTypeOK
    <3> QED BY <1>1, <2>1, <2>2, <3>1
  <2>3. CASE ~(pc[c] = "record" /\ marker)
    <3>1. /\ pc' = pc /\ writing'[c] = TRUE /\ flag'[c] = marker
      BY <1>0, <1>10, <2>3 DEF Sample, HandlerTypeOK
    <3>2. Story(c)'
      BY <1>0, <2>1, <3>1 DEF Told, Story, Sampled, Silent, Admitted, Settled
    <3>3. ~writing'[c] \/ pc'[c] = "record" => ~flag'[c]
      BY <2>3, <3>1
    <3> QED BY <3>2, <3>3 DEF Told
  <2> QED BY <2>2, <2>3
<1>11. CASE Write(c)
  <2>1. /\ pc[c] \in Writers /\ asked' = asked /\ writing'[c] = FALSE /\ flag'[c] = FALSE
        /\ trail'[c] = Append(trail[c], [kind |-> Kind(c), contained |-> flag[c]])
        /\ flag[c] \in BOOLEAN
    BY <1>0, <1>2, <1>11 DEF Write, Writing, Writers, Sampled, askVars, HandlerTypeOK
  <2>2. pc[c] \notin Sampled => ~flag[c]
    BY <1>2 DEF Told
  <2>3. CASE pc[c] = "require"
    <3>1. pc'[c] = "await" /\ Kind(c) = "required" /\ trail[c] = <<>>
      BY <1>0, <1>11, <2>3 DEF Write, Kind, HandlerTypeOK, Told, Story, Silent
    <3>2. trail'[c] = <<Required(flag[c])>>
      BY <2>1, <3>1, ShortTrails DEF Required
    <3> QED BY <2>1, <3>1, <3>2 DEF Told, Story, Pending
  <2>4. CASE pc[c] = "outcome"
    <3>1. /\ Kind(c) = outcome[c] /\ outcome[c] \in Outcomes /\ purpose'[c] = "approval"
          /\ outcome[c] = "granted" => pc'[c] = "signal"
          /\ outcome[c] # "granted" => pc'[c] \in {"withdraw", "refuse"}
      BY <1>0, <1>11, <2>4 DEF Write, AfterRefusal, Kind, HandlerTypeOK
    <3>2. PICK f \in BOOLEAN : trail[c] = <<Required(f)>>
      BY <2>4 DEF Told, Story, Pending
    <3>3. ~flag[c]
      BY <2>2, <2>4 DEF Sampled
    <3>4. trail'[c] = <<Required(f), Plain(outcome[c])>>
      BY <2>1, <3>1, <3>2, <3>3, ShortTrails DEF Plain
    <3>5. \E o \in Outcomes : o = outcome[c] /\ Settled(c, o)'
      BY <3>1, <3>4 DEF Settled
    <3>6. dest[c] \in Keys
      BY <2>4 DEF AsksPart
    <3>7. outcome[c] = "granted" => Admitted(c)'
      BY <1>0, <3>5, <3>6 DEF Admitted
    <3> QED BY <2>1, <3>1, <3>5, <3>7 DEF Told, Story
  <2>5. CASE pc[c] = "record"
    <3>1. Kind(c) = "ALLOW" /\ pc'[c] = "forwarded" /\ Admitted(c) /\ ~flag[c]
      BY <1>0, <1>11, <2>5 DEF Write, Kind, HandlerTypeOK, Told, Story
    <3>2. [kind |-> Kind(c), contained |-> flag[c]] = Plain("ALLOW")
      BY <2>1, <3>1 DEF Plain
    <3>3. CASE dest[c] = "allowed" /\ c \notin asked /\ Silent(c)
      <4>1. trail'[c] = <<Plain("ALLOW")>>
        BY <2>1, <3>2, <3>3, ShortTrails DEF Silent
      <4> QED BY <1>0, <2>1, <3>1, <3>3, <4>1 DEF Told, Story
    <3>4. CASE dest[c] \in Keys /\ Settled(c, "granted")
      <4>1. PICK f \in BOOLEAN : trail[c] = <<Required(f), Plain("granted")>>
        BY <3>4 DEF Settled
      <4>2. trail'[c] = <<Required(f), Plain("granted"), Plain("ALLOW")>>
        BY <2>1, <3>2, <4>1, ShortTrails
      <4> QED BY <1>0, <2>1, <3>1, <3>4, <4>2 DEF Told, Story
    <3> QED BY <3>1, <3>3, <3>4 DEF Admitted
  <2>6. CASE pc[c] = "refuse"
    <3>1. Kind(c) = "DENY" /\ pc'[c] = "refused" /\ ~flag[c]
      BY <1>0, <1>11, <2>2, <2>6 DEF Write, Kind, HandlerTypeOK, Sampled
    <3>2. [kind |-> Kind(c), contained |-> flag[c]] = Plain("DENY")
      BY <2>1, <3>1 DEF Plain
    <3>3. CASE c \notin asked /\ Silent(c)
      <4>1. trail'[c] = <<Plain("DENY")>> /\ c \notin asked'
        BY <1>0, <2>1, <3>2, <3>3, ShortTrails DEF Silent
      <4> QED BY <2>1, <3>1, <4>1 DEF Told, Story
    <3>4. CASE \E o \in Outcomes : Settled(c, o)
      <4>1. PICK o \in Outcomes, f \in BOOLEAN : trail[c] = <<Required(f), Plain(o)>>
        BY <3>4 DEF Settled
      <4>2. trail'[c] = <<Required(f), Plain(o), Plain("DENY")>>
        BY <2>1, <3>2, <4>1, ShortTrails
      <4> QED BY <2>1, <3>1, <4>1, <4>2 DEF Told, Story
    <3> QED BY <2>6, <3>3, <3>4 DEF Told, Story
  <2> QED BY <2>1, <2>3, <2>4, <2>5, <2>6 DEF Writers
<1>12. CASE TakeResponse(c) \/ GiveUp(c)
  <2>1. /\ UNCHANGED <<trail, writing, flag>> /\ pc[c] = "await" /\ pc'[c] = "outcome"
    BY <1>0, <1>12 DEF TakeResponse, GiveUp, recordVars, HandlerTypeOK
  <2> QED BY <2>1 DEF Told, Story, Pending
<1> QED BY <1>3, <1>4, <1>5, <1>6, <1>7, <1>8, <1>9, <1>10, <1>11, <1>12 DEF HandlerStep

LEMMA RecordsKept ==
    ASSUME FenceInvariant, NEW c \in Requests, AsksPart(c), RecordPart(c),
           HandlerStep(c) \/ HandlerFails(c)
    PROVE  RecordPart(c)'
<1>1. FlagPart(c)'
  BY TypesKnown, FlagKept DEF RecordPart
<1>2. /\ faults \in Nat /\ faults' \in Nat /\ faults' >= faults
      /\ HandlerFails(c) => faults' > 0
  BY HandlerCounts
<1>3. ASSUME faults' = 0 PROVE Story(c)'
  BY <1>2, <1>3, StoryGoesOn DEF RecordPart, Told
<1> QED BY <1>1, <1>3 DEF RecordPart

-----------------------------------------------------------------------------
(* The judgement.                                                          *)

LEMMA KindFacts ==
    /\ \A f : Required(f).kind = "required" /\ Required(f).contained = f
    /\ \A k : Plain(k).kind = k /\ Plain(k).contained = FALSE
    /\ Required(TRUE) = [kind |-> "required", contained |-> TRUE]
BY DEF Required, Plain

\* What each place of a trail is judged by.
LEMMA BeforeFacts ==
    ASSUME NEW c \in Requests
    PROVE  /\ Before(c, 1) = {}
           /\ Before(c, 2) = {trail[c][1].kind}
           /\ Before(c, 3) = {trail[c][1].kind, trail[c][2].kind}
<1>1. 1..0 = {} /\ 1..1 = {1} /\ 1..2 = {1, 2} /\ 1 - 1 = 0 /\ 2 - 1 = 1 /\ 3 - 1 = 2
  OBVIOUS
<1> QED BY <1>1 DEF Before

LEMMA JudgeRequired ==
    ASSUME NEW c \in Requests, trail[c][1] = Required(FALSE)
    PROVE  AcceptableAt(c, 1)
BY BeforeFacts, KindFacts DEF AcceptableAt, Outcomes

LEMMA JudgeOutcome ==
    ASSUME NEW c \in Requests, NEW o \in Outcomes, NEW f,
           trail[c][1] = Required(f), trail[c][2] = Plain(o)
    PROVE  AcceptableAt(c, 2)
<1>1. Before(c, 2) = {"required"} /\ trail[c][2].kind = o
  BY BeforeFacts, KindFacts
<1>2. {"required"} \cap Outcomes = {} /\ o \notin {"required", "ALLOW", "DENY"}
  BY DEF Outcomes
<1> QED BY <1>1, <1>2 DEF AcceptableAt

LEMMA JudgeTrail ==
    ASSUME NEW c \in Requests, RecordPart(c), faults = 0,
           pc[c] \in {"idle"} \cup Ended,
           Required(TRUE) \notin Range(trail[c])
    PROVE  /\ \A i \in DOMAIN trail[c] : AcceptableAt(c, i)
           /\ Unresolved(c) => At(c, "killed")
<1>1. CASE Silent(c)
  BY <1>1 DEF Silent, Unresolved, Kinds
<1>2. \A i \in DOMAIN trail[c] : trail[c][i] # Required(TRUE)
  BY DEF Range
<1>3. CASE Pending(c)
  <2>1. PICK f \in BOOLEAN : trail[c] = <<Required(f)>>
    BY <1>3 DEF Pending
  <2>2. DOMAIN trail[c] = {1} /\ trail[c][1] = Required(f)
    BY <2>1
  <2>3. f = FALSE
    BY <1>2, <2>2
  <2>4. AcceptableAt(c, 1)
    BY <2>2, <2>3, JudgeRequired
  <2>5. At(c, "killed")
    <3>1. /\ <<Required(f)>> # <<>>
          /\ \A a, b : <<Required(f)>> # <<a, b>>
          /\ \A a, b, d : <<Required(f)>> # <<a, b, d>>
      OBVIOUS
    <3>2. Required(f) # Plain("ALLOW") /\ Required(f) # Plain("DENY")
      BY KindFacts
    <3> QED BY <2>1, <3>1, <3>2 DEF RecordPart, Story, Unposted, Silent, At, Ended
  <2> QED BY <2>2, <2>4, <2>5
<1>4. CASE \E o \in Outcomes : Settled(c, o)
  <2>1. PICK o \in Outcomes, f \in BOOLEAN : trail[c] = <<Required(f), Plain(o)>>
    BY <1>4 DEF Settled
  <2>2. DOMAIN trail[c] = {1, 2} /\ trail[c][1] = Required(f) /\ trail[c][2] = Plain(o)
    BY <2>1
  <2>3. f = FALSE
    BY <1>2, <2>2
  <2>4. AcceptableAt(c, 1) /\ AcceptableAt(c, 2)
    BY <2>2, <2>3, JudgeRequired, JudgeOutcome
  <2>5. ~Unresolved(c)
    BY <2>2, KindFacts DEF Unresolved, Kinds
  <2> QED BY <2>2, <2>4, <2>5
<1>5. CASE At(c, "forwarded")
  <2>1. CASE dest[c] = "allowed" /\ c \notin asked /\ trail[c] = <<Plain("ALLOW")>>
    <3>1. DOMAIN trail[c] = {1} /\ trail[c][1] = Plain("ALLOW")
      BY <2>1
    <3>2. AcceptableAt(c, 1)
      BY <2>1, <3>1, KindFacts, ZenonT(30) DEF AcceptableAt, Outcomes
    <3>3. ~Unresolved(c)
      BY <3>1, KindFacts DEF Unresolved, Kinds
    <3> QED BY <3>1, <3>2, <3>3
  <2>2. CASE dest[c] \in Keys /\ \E f \in BOOLEAN :
                trail[c] = <<Required(f), Plain("granted"), Plain("ALLOW")>>
    <3>1. PICK f \in BOOLEAN : trail[c] = <<Required(f), Plain("granted"), Plain("ALLOW")>>
      BY <2>2
    <3>2. /\ DOMAIN trail[c] = {1, 2, 3} /\ trail[c][1] = Required(f)
          /\ trail[c][2] = Plain("granted") /\ trail[c][3] = Plain("ALLOW")
      BY <3>1
    <3>3. f = FALSE
      BY <1>2, <3>2
    <3>4. "granted" \in Outcomes
      BY DEF Outcomes
    <3>5. AcceptableAt(c, 1) /\ AcceptableAt(c, 2)
      BY <3>2, <3>3, <3>4, JudgeRequired, JudgeOutcome
    <3>6. Before(c, 3) = {"required", "granted"} /\ trail[c][3].kind = "ALLOW"
            /\ trail[c][3].contained = FALSE
      BY <3>2, BeforeFacts, KindFacts
    <3>7. AcceptableAt(c, 3)
      BY <2>2, <3>6 DEF AcceptableAt, Outcomes
    <3>8. ~Unresolved(c)
      BY <3>2, <3>4, KindFacts DEF Unresolved, Kinds
    <3> QED BY <3>2, <3>5, <3>7, <3>8
  <2> QED BY <1>5, <2>1, <2>2 DEF RecordPart, Story
<1>6. CASE At(c, "refused")
  <2>1. CASE c \notin asked /\ trail[c] = <<Plain("DENY")>>
    <3>1. DOMAIN trail[c] = {1} /\ trail[c][1] = Plain("DENY") /\ c \notin asked
      BY <2>1
    <3>2. AcceptableAt(c, 1)
      <4>1. trail[c][1].kind = "DENY" /\ "DENY" \notin Outcomes
        BY <3>1, KindFacts DEF Outcomes
      <4> QED BY <3>1, <4>1 DEF AcceptableAt
    <3>3. ~Unresolved(c)
      BY <3>1, KindFacts DEF Unresolved, Kinds
    <3> QED BY <3>1, <3>2, <3>3
  <2>2. CASE \E f \in BOOLEAN, o \in Outcomes :
                trail[c] = <<Required(f), Plain(o), Plain("DENY")>>
    <3>1. PICK f \in BOOLEAN, o \in Outcomes :
              trail[c] = <<Required(f), Plain(o), Plain("DENY")>>
      BY <2>2
    <3>2. /\ DOMAIN trail[c] = {1, 2, 3} /\ trail[c][1] = Required(f)
          /\ trail[c][2] = Plain(o) /\ trail[c][3] = Plain("DENY")
      BY <3>1
    <3>3. f = FALSE
      BY <1>2, <3>2
    <3>5. AcceptableAt(c, 1) /\ AcceptableAt(c, 2)
      BY <3>2, <3>3, JudgeRequired, JudgeOutcome
    <3>6. Before(c, 3) = {"required", o} /\ trail[c][3].kind = "DENY"
      BY <3>2, BeforeFacts, KindFacts
    <3>7. AcceptableAt(c, 3)
      BY <3>6 DEF AcceptableAt, Outcomes
    <3>8. ~Unresolved(c)
      BY <3>2, KindFacts DEF Unresolved, Kinds
    <3> QED BY <3>2, <3>5, <3>7, <3>8
  <2> QED BY <1>6, <2>1, <2>2 DEF RecordPart, Story
<1> QED BY <1>1, <1>3, <1>4, <1>5, <1>6 DEF RecordPart, Story, Unposted, Ended, At

LEMMA CollectAgrees ==
    ASSUME EvidenceInvariant, Collect, phase' = "rejected"
    PROVE  EvidenceAgrees'
<1> USE EvidenceParts
<1>1. phase = "collect" /\ UNCHANGED <<sentinelVars, handlerVars, faults>> /\ ~Acceptable
  BY DEF Collect, Stage
<1>2. flushed /\ HandlersGone
  BY <1>1 DEF TeardownSound, HandlersGone
<1>3. /\ opened = logged /\ (marker => ContainOnDecoy /\ opened # {})
      /\ (ContainOnDecoy /\ logged # {} => marker)
  BY <1>2 DEF ApprovalInvariant, FenceInvariant, HostSound, SentinelSound
<1>4. marker <=> (ContainOnDecoy /\ logged # {})
  BY <1>3
<1>5. PICK c \in Requests : ~(/\ \A i \in DOMAIN trail[c] : AcceptableAt(c, i)
                              /\ ~Unresolved(c))
  BY <1>1, <1>4 DEF Acceptable
<1>6. faults = 0 /\ Required(TRUE) \notin Range(trail[c]) =>
          Unresolved(c) /\ At(c, "killed")
  BY <1>2, <1>5, JudgeTrail DEF HandlersGone
<1>7. faults \in Nat
  BY TypesKnown, InvariantParts, GatewayAssumption DEF ApprovalInvariant, HostTypeOK
<1>8. /\ At(c, "killed")' = At(c, "killed") /\ Unresolved(c)' = Unresolved(c)
      /\ Range(trail[c])' = Range(trail[c]) /\ faults' = faults
  BY <1>1 DEF handlerVars, recordVars, At, Unresolved, Kinds, Range
<1>9. CASE Unresolved(c) /\ At(c, "killed")
  BY <1>8, <1>9 DEF EvidenceAgrees
<1>10. CASE Required(TRUE) \in Range(trail[c])
  <2>1. [kind |-> "required", contained |-> TRUE] \in Range(trail[c])'
    BY <1>8, <1>10, KindFacts
  <2> QED BY <2>1 DEF EvidenceAgrees
<1>11. CASE faults # 0
  <2>1. faults' > 0
    BY <1>7, <1>8, <1>11
  <2> QED BY <2>1 DEF EvidenceAgrees
<1> QED BY <1>6, <1>9, <1>10, <1>11

\* Once the handlers are gone, what they have left stays.
LEMMA AgreementStands ==
    ASSUME EvidenceAgrees, phase = "rejected", UNCHANGED <<pc, trail>>,
           faults \in Nat, faults' \in Nat, faults' >= faults
    PROVE  EvidenceAgrees'
<1>1. \A c \in Requests : /\ At(c, "killed")' = At(c, "killed")
                          /\ Unresolved(c)' = Unresolved(c)
                          /\ Range(trail[c])' = Range(trail[c])
  BY DEF At, Unresolved, Kinds, Range
<1> QED BY <1>1 DEF EvidenceAgrees

LEMMA Underway ==
    ASSUME phase' \notin {"collect", "rejected"},
           \/ phase' \in {"running", "flush", "sentinel", "gateway"}
           \/ \A c \in Requests : pc'[c] \in {"idle"} \cup Ended
    PROVE  TeardownSound'
BY DEF TeardownSound, EvidenceAgrees

LEMMA EvidenceNext == EvidenceInvariant /\ [Next]_vars => EvidenceInvariant'
<1> SUFFICES ASSUME EvidenceInvariant, [Next]_vars PROVE EvidenceInvariant'
  OBVIOUS
<1> USE EvidenceParts
<1>1. ApprovalInvariant'
  BY ApprovalNext
<1>2. /\ FenceInvariant /\ HandlerTypeOK /\ ApprovalTypeOK /\ faults \in Nat
      /\ \A c \in Requests : AsksPart(c)
  BY ApprovalParts, TypesKnown, InvariantParts, GatewayAssumption DEF HostTypeOK
<1>3. ASSUME NEW c \in Requests, HandlerStep(c) \/ HandlerFails(c) PROVE EvidenceInvariant'
  <2>1. /\ pc[c] \in Handling /\ UNCHANGED <<hostVars, dest>>
        /\ faults' \in Nat /\ faults' >= faults
    BY <1>2, <1>3, HandlerCounts
  <2>2. RecordPart(c)'
    BY <1>2, <1>3, RecordsKept
  <2>3. ASSUME NEW d \in Requests, d # c PROVE RecordPart(d)'
    <3>1. /\ pc'[d] = pc[d] /\ purpose'[d] = purpose[d] /\ dest'[d] = dest[d]
          /\ d \in asked' <=> d \in asked
      BY <1>2, <1>3, <2>3, HandlerAlone
    <3>2. trail'[d] = trail[d] /\ writing'[d] = writing[d] /\ flag'[d] = flag[d]
      BY <1>2, <1>3, <2>3 DEF HandlerTypeOK, HandlerStep, HandlerFails, PostFails,
           RecordFails, Gate, RequestBarrier, SeeAck, BarrierTimesOut, Check,
           PostRequest, Sample, Write, TakeResponse, GiveUp, WithdrawRequest, recordVars
    <3> QED BY <1>2, <2>1, <3>1, <3>2, StoryStands
  <2>4. phase \in {"running", "flush", "sentinel", "gateway"}
    BY <2>1 DEF TeardownSound, Handling, Writers, Ended
  <2>5. TeardownSound'
    BY <2>1, <2>4, Underway DEF hostVars
  <2> QED BY <1>1, <2>2, <2>3, <2>5, EvidencePartsNext
<1>4. ASSUME NEW c \in Requests, NEW d \in Destinations, Arrive(c, d) PROVE EvidenceInvariant'
  <2>1. /\ phase = "running" /\ phase' = phase /\ UNCHANGED <<recordVars, asked, purpose, faults>>
        /\ pc[c] = "idle" /\ pc'[c] \in {"gate", "refuse"}
    BY <1>2, <1>4 DEF Arrive, hostVars, askVars, At, Goto, HandlerTypeOK
  <2>2. ASSUME NEW e \in Requests PROVE RecordPart(e)'
    <3>1. CASE e = c
      <4>1. c \notin asked /\ (faults = 0 => Silent(c))
        BY <1>2, <2>1 DEF AsksPart, RecordPart, Story, Unposted
      <4> QED BY <2>1, <3>1, <4>1 DEF RecordPart, FlagPart, Story, Unposted, Passed, At, AtBarrier,
                 Silent, recordVars
    <3>2. CASE e # c
      <4>1. pc'[e] = pc[e] /\ dest'[e] = dest[e]
        BY <1>2, <1>4, <3>2 DEF Arrive, Goto, HandlerTypeOK
      <4> QED BY <1>2, <2>1, <4>1, StoryStands DEF recordVars
    <3> QED BY <3>1, <3>2
  <2>3. TeardownSound'
    BY <2>1, Underway
  <2> QED BY <1>1, <2>2, <2>3, EvidencePartsNext
<1>5. CASE RemoveGateway
  <2>1. /\ phase' = "broker" /\ UNCHANGED <<dest, purpose, trail, asked, faults>>
        /\ \A c \in Requests : /\ pc'[c] = IF pc[c] \in Handling THEN "killed" ELSE pc[c]
                               /\ ~writing'[c] /\ ~flag'[c]
    BY <1>2, <1>5 DEF RemoveGateway, Stage, askVars, HandlerTypeOK
  <2>2. ASSUME NEW c \in Requests PROVE RecordPart(c)'
    <3>1. CASE pc[c] \in Handling
      <4>1. faults = 0 => Silent(c) \/ Pending(c) \/ \E o \in Outcomes : Settled(c, o)
        BY <3>1 DEF Handling, Writers, RecordPart, Story, Unposted, Passed, At, AtBarrier,
                    Admitted, Outcomes
      <4>2. faults' = 0 => (Silent(c) \/ Pending(c) \/ \E o \in Outcomes : Settled(c, o))'
        BY <2>1, <4>1 DEF Silent, Pending, Settled
      <4>3. pc'[c] = "killed"
        BY <2>1, <3>1
      <4> QED BY <2>1, <4>2, <4>3 DEF RecordPart, FlagPart, Story, Unposted, Passed, At, AtBarrier
    <3>2. CASE pc[c] \notin Handling
      <4>1. pc'[c] = pc[c] /\ pc[c] \in {"idle"} \cup Ended
        BY <1>2, <2>1, <3>2 DEF HandlerTypeOK
      <4> QED BY <1>2, <2>1, <4>1 DEF RecordPart, FlagPart, Story, Unposted, Passed, At, AtBarrier,
                 Silent, Pending, Settled, Ended
    <3> QED BY <3>1, <3>2
  <2>3. \A c \in Requests : pc'[c] \in {"idle"} \cup Ended
    BY <1>2, <2>1 DEF HandlerTypeOK, Ended
  <2>4. TeardownSound'
    BY <2>1, <2>3, Underway
  <2> QED BY <1>1, <2>2, <2>4, EvidencePartsNext
\* The other steps leave the handlers and their records alone.
<1>6. ASSUME UNCHANGED <<pc, purpose, dest, recordVars, asked>>,
             faults' \in Nat, faults' >= faults
      PROVE  /\ TeardownSound' => EvidenceInvariant'
             /\ phase' = phase /\ flushed' = flushed => EvidenceInvariant'
  <2>1. \A c \in Requests : RecordPart(c)'
    BY <1>2, <1>6, StoryStands DEF recordVars
  <2>2. phase' = phase /\ flushed' = flushed => TeardownSound'
    <3> SUFFICES ASSUME phase' = phase, flushed' = flushed PROVE TeardownSound'
      OBVIOUS
    <3>1. CASE phase = "rejected"
      <4>1. EvidenceAgrees'
        BY <1>2, <1>6, <3>1, AgreementStands DEF TeardownSound, recordVars
      <4> QED BY <1>6, <4>1 DEF TeardownSound
    <3>2. CASE phase # "rejected"
      BY <1>6, <3>2 DEF TeardownSound, EvidenceAgrees
    <3> QED BY <3>1, <3>2
  <2> QED BY <1>1, <2>1, <2>2, EvidencePartsNext
<1>7. CASE \/ SentinelStep \/ AgentOpens \/ SentinelDies
           \/ BrokerSteps \/ UserAnswers \/ BrokerFails \/ RunEnds \/ Tick \/ FlushAgain
           \/ UNCHANGED vars
  <2>1. /\ UNCHANGED <<pc, purpose, dest, recordVars, asked, phase, flushed>>
        /\ faults' = faults \/ faults' = faults + 1
    BY <1>7 DEF SentinelStep, AgentOpens, SentinelDies, BrokerSteps, UserAnswers, BrokerFails,
       RunEnds, Tick, FlushAgain, vars, handlerVars, hostVars, askVars, Fault
  <2> QED BY <1>2, <1>6, <2>1
<1>8. CASE \/ AgentExits \/ FlushTimesOut \/ FlushDone \/ RemoveSentinel \/ StopBroker
           \/ Drained \/ Collect
  <2>1. /\ UNCHANGED <<pc, purpose, dest, recordVars, asked>>
        /\ faults' = faults \/ faults' = faults + 1
    BY <1>8 DEF AgentExits, FlushTimesOut, FlushDone, RemoveSentinel, StopBroker,
       Drained, Collect, handlerVars, askVars
  <2>2. TeardownSound'
    <3>1. CASE AgentExits \/ FlushTimesOut \/ FlushDone \/ RemoveSentinel
      BY <3>1, Underway DEF AgentExits, FlushTimesOut, FlushDone, RemoveSentinel, Stage
    <3>2. CASE StopBroker
      BY <2>1, <3>2, Underway DEF StopBroker, Stage, TeardownSound
    <3>3. CASE Drained
      <4>1. /\ phase = "drain" /\ flushed' = flushed
            /\ phase' = IF flushed THEN "collect" ELSE "uncollected"
        BY <3>3 DEF Drained, Stage
      <4>2. \A c \in Requests : pc'[c] \in {"idle"} \cup Ended
        BY <2>1, <4>1 DEF TeardownSound
      <4>3. EvidenceAgrees'
        BY <4>1 DEF EvidenceAgrees
      <4> QED BY <4>1, <4>2, <4>3 DEF TeardownSound
    <3>4. CASE Collect
      <4>1. phase = "collect" /\ phase' \in {"accepted", "rejected"}
        BY <3>4 DEF Collect, Stage
      <4>2. \A c \in Requests : pc'[c] \in {"idle"} \cup Ended
        BY <2>1, <4>1 DEF TeardownSound
      <4>3. EvidenceAgrees'
        BY <3>4, CollectAgrees DEF EvidenceAgrees
      <4> QED BY <4>1, <4>2, <4>3 DEF TeardownSound
    <3> QED BY <1>8, <3>1, <3>2, <3>3, <3>4
  <2> QED BY <1>2, <1>6, <2>1, <2>2
<1> QED BY <1>3, <1>4, <1>5, <1>7, <1>8 DEF Next, HostStep

(***************************************************************************)
(* What the handlers have recorded is, at every moment, the beginning of a *)
(* story the manager takes.                                                *)
(***************************************************************************)
THEOREM EvidenceInvariance == Spec => []EvidenceInvariant
BY Unwritten, EvidenceNext, PTL DEF Spec

(***************************************************************************)
(* The manager rejects the evidence of a run only where a component        *)
(* failed, a handler was killed with its approval open, or containment set *)
(* in before its APPROVAL_REQUIRED (manager.go:281-293, 338-345, 405-413). *)
(***************************************************************************)
THEOREM ManagerAgrees == Spec => []EvidenceAgrees
<1>1. EvidenceInvariant => EvidenceAgrees
  BY DEF EvidenceInvariant, TeardownSound
<1> QED BY <1>1, EvidenceInvariance, PTL
=============================================================================
