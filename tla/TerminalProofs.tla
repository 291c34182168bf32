--------------------------- MODULE TerminalProofs ---------------------------
(***************************************************************************)
(* The approval terminal for any number of calls, any bound on a line and  *)
(* any number of bytes: its types, the order of the bytes, and what it     *)
(* takes to grant a request.                                               *)
(***************************************************************************)
EXTENDS TerminalMux, SequenceTheorems, TLAPS

Receivers == Calls \cup {"agent"}
Handover == [byte : Chars, to : Receivers]

LEMMA AppendFacts ==
    ASSUME NEW S, NEW q \in Seq(S), NEW e \in S
    PROVE  /\ Append(q, e) \in Seq(S)
           /\ Len(Append(q, e)) = Len(q) + 1 /\ Len(q) \in Nat
           /\ DOMAIN Append(q, e) = 1..(Len(q) + 1) /\ DOMAIN q = 1..Len(q)
           /\ \A i \in 1..Len(q) : Append(q, e)[i] = q[i]
           /\ Append(q, e)[Len(q) + 1] = e
OBVIOUS

\* A history of bytes is a sequence of bytes, and grows by the byte handed out.
LEMMA HandedGrows ==
    ASSUME NEW q \in Seq(Handover), NEW b \in Chars, NEW r \in Receivers
    PROVE  LET x == [byte |-> b, to |-> r]
           IN  /\ Append(q, x) \in Seq(Handover)
               /\ BytesIn(q) \in Seq(Chars)
               /\ BytesIn(Append(q, x)) = BytesIn(q) \o <<b>>
<1> DEFINE x == [byte |-> b, to |-> r]
<1>1. x \in Handover /\ x.byte = b
  BY DEF Handover
<1>2. /\ Append(q, x) \in Seq(Handover)
      /\ Len(Append(q, x)) = Len(q) + 1 /\ Len(q) \in Nat
      /\ DOMAIN Append(q, x) = 1..(Len(q) + 1) /\ DOMAIN q = 1..Len(q)
      /\ \A i \in 1..Len(q) : Append(q, x)[i] = q[i]
      /\ Append(q, x)[Len(q) + 1] = x
  <2> HIDE DEF x
  <2> QED BY <1>1, AppendFacts
<1>3. \A i \in 1..Len(q) : q[i].byte \in Chars
  <2>1. \A i \in 1..Len(q) : q[i] \in Handover
    BY ElementOfSeq
  <2> QED BY <2>1 DEF Handover
<1>4. /\ BytesIn(q) \in Seq(Chars) /\ Len(BytesIn(q)) = Len(q)
      /\ \A i \in 1..Len(q) : BytesIn(q)[i] = q[i].byte
  BY <1>2, <1>3 DEF BytesIn
<1>5. /\ BytesIn(Append(q, x)) \in Seq(Chars)
      /\ Len(BytesIn(Append(q, x))) = Len(q) + 1
      /\ \A i \in 1..(Len(q) + 1) : BytesIn(Append(q, x))[i] = Append(q, x)[i].byte
  <2> HIDE DEF x
  <2>1. \A i \in 1..(Len(q) + 1) : Append(q, x)[i].byte \in Chars
    BY <1>1, <1>2, <1>3
  <2> QED BY <1>2, <2>1 DEF BytesIn
<1>6. BytesIn(q) \o <<b>> \in Seq(Chars) /\ Len(BytesIn(q) \o <<b>>) = Len(q) + 1
  BY <1>2, <1>4
<1>7. \A i \in 1..(Len(q) + 1) :
         BytesIn(Append(q, x))[i] = (BytesIn(q) \o <<b>>)[i]
  <2> SUFFICES ASSUME NEW i \in 1..(Len(q) + 1)
               PROVE  BytesIn(Append(q, x))[i] = (BytesIn(q) \o <<b>>)[i]
    OBVIOUS
  <2> HIDE DEF x
  <2>1. CASE i \in 1..Len(q)
    <3>1. (BytesIn(q) \o <<b>>)[i] = BytesIn(q)[i]
      BY <1>2, <1>4, <2>1
    <3> QED BY <1>2, <1>4, <1>5, <2>1, <3>1
  <2>2. CASE i = Len(q) + 1
    <3>1. (BytesIn(q) \o <<b>>)[i] = b
      BY <1>2, <1>4, <2>2
    <3>2. Append(q, x)[i] = x
      BY <1>2, <2>2
    <3>3. BytesIn(Append(q, x))[i] = Append(q, x)[i].byte
      BY <1>5
    <3> QED BY <1>1, <3>1, <3>2, <3>3
  <2>3. i \in 1..Len(q) \/ i = Len(q) + 1
    BY <1>2
  <2> QED BY <2>1, <2>2, <2>3
<1>8. BytesIn(Append(q, x)) = BytesIn(q) \o <<b>>
  <2> HIDE DEF x
  <2> QED BY <1>2, <1>5, <1>6, <1>7, SeqEqual
<1> QED BY <1>2, <1>4, <1>8

LEMMA TypedLast ==
    ASSUME NEW X \in Seq(Chars), NEW D \in Seq(Chars), NEW b \in Chars
    PROVE  Append(X \o D, b) = X \o Append(D, b)
<1>1. <<b>> \in Seq(Chars)
  OBVIOUS
<1>2. Append(X \o D, b) = (X \o D) \o <<b>> /\ Append(D, b) = D \o <<b>>
  BY AppendIsConcat, ConcatProperties
<1> QED BY <1>1, <1>2, ConcatAssociative

\* A byte that moves on to the next of the places that bytes are in leaves
\* what they hold together as it was.
LEMMA MovingOn ==
    ASSUME NEW A \in Seq(Chars), NEW B \in Seq(Chars), NEW C \in Seq(Chars),
           NEW D \in Seq(Chars), NEW b \in Chars
    PROVE  /\ D # <<>> => A \o B \o <<>> \o D = A \o B \o <<Head(D)>> \o Tail(D)
           /\ A \o <<>> \o C \o D = A \o C \o <<>> \o D
           /\ A \o <<b>> \o C \o D = (A \o <<b>>) \o <<>> \o C \o D
           /\ A \o <<>> \o <<b>> \o D = (A \o <<b>>) \o <<>> \o <<>> \o D
<1>1. A \o B \in Seq(Chars) /\ A \o C \in Seq(Chars) /\ <<b>> \in Seq(Chars)
      /\ <<>> \in Seq(Chars) /\ A \o <<b>> \in Seq(Chars)
  BY ConcatProperties
<1>3. ASSUME D # <<>>
      PROVE  A \o B \o <<>> \o D = A \o B \o <<Head(D)>> \o Tail(D)
  <2>1. Head(D) \in Chars /\ Tail(D) \in Seq(Chars) /\ <<Head(D)>> \in Seq(Chars)
    BY <1>3, HeadTailProperties
  <2>2. <<Head(D)>> \o Tail(D) = D
    BY <1>3
  <2>3. (A \o B) \o <<>> = A \o B
    BY <1>1, ConcatEmptySeq
  <2>4. (A \o B) \o <<Head(D)>> \o Tail(D) = (A \o B) \o (<<Head(D)>> \o Tail(D))
    BY <1>1, <2>1, ConcatAssociative
  <2> QED BY <2>2, <2>3, <2>4
<1>4. A \o <<>> = A /\ (A \o C) \o <<>> = A \o C /\ (A \o <<b>>) \o <<>> = A \o <<b>>
  BY <1>1, ConcatEmptySeq
<1> QED BY <1>3, <1>4

-----------------------------------------------------------------------------
(* Types.                                                                  *)

LEMMA ByteSeqs ==
    <<>> \in Seq(Chars) /\ \A b \in Chars : <<b>> \in Seq(Chars)
OBVIOUS

LEMMA HeldKinds ==
    ASSUME TerminalTypeOK
    PROVE  /\ Byte => held[1] \in Chars /\ held = <<held[1]>> /\ held \in Seq(Chars)
           /\ Waiting \in Seq(Chars)
<1>1. ASSUME Byte
      PROVE  held[1] \in Chars /\ held = <<held[1]>>
  <2>1. PICK b \in Chars \cup {"end"} : held = <<b>>
    BY <1>1 DEF TerminalTypeOK, Byte
  <2>2. b # "end"
    BY <1>1, <2>1 DEF Byte
  <2> QED BY <2>1, <2>2
<1>2. Byte => held \in Seq(Chars)
  <2> SUFFICES ASSUME Byte PROVE held \in Seq(Chars)
    OBVIOUS
  <2>1. PICK b \in Chars : b = held[1]
    BY <1>1
  <2>2. held = <<b>>
    BY <1>1, <2>1
  <2> QED BY <2>2, ByteSeqs
<1>3. Waiting \in Seq(Chars)
  BY <1>2, ByteSeqs DEF Waiting
<1> QED BY <1>1, <1>2, <1>3

LEMMA Typed ==
    ASSUME TerminalInvariant, [Next]_vars
    PROVE  TerminalTypeOK'
<1> USE TerminalAssumption DEF TerminalInvariant
<1>h. Byte => held[1] \in Chars /\ held = <<held[1]>>
  BY HeldKinds
<1>1. ASSUME NEW b \in Chars, Type(b)
      PROVE  TerminalTypeOK'
  BY <1>1 DEF TerminalTypeOK, Type, muxVars, controllerVars
<1>2. ASSUME HangUp \/ ReadEnd \/ InputEnds \/ LoopStops \/ WriteFails
      PROVE  TerminalTypeOK'
  BY <1>2 DEF TerminalTypeOK, HangUp, ReadEnd, InputEnds, LoopStops, WriteFails,
              muxVars, inputVars, controllerVars
<1>3. ASSUME ReadByte
      PROVE  TerminalTypeOK'
  <2>1. Head(tty) \in Chars /\ Tail(tty) \in Seq(Chars)
    BY <1>3, HeadTailProperties DEF TerminalTypeOK, ReadByte
  <2> QED BY <1>3, <2>1 DEF TerminalTypeOK, ReadByte, muxVars, controllerVars
<1>4. ASSUME Forward
      PROVE  TerminalTypeOK'
  BY <1>4, <1>h DEF TerminalTypeOK, Forward, controllerVars
<1>5. ASSUME AgentReads
      PROVE  TerminalTypeOK'
  <2>1. feeding[1] \in Chars
    BY <1>5 DEF TerminalTypeOK, AgentReads, FeedSound
  <2>2. routed' \in Seq([byte : Chars, to : Calls \cup {"agent"}])
    BY <1>5, <2>1, HandedGrows
    DEF TerminalTypeOK, AgentReads, Routed, Handover, Receivers
  <2> QED BY <1>5, <2>2 DEF TerminalTypeOK, AgentReads, inputVars, controllerVars
<1>6. ASSUME PromptReads
      PROVE  TerminalTypeOK'
  <2>1. prompt \in Calls /\ held[1] \in Chars
    BY <1>6, <1>h DEF PromptSound, PromptReads
  <2>2. routed' \in Seq([byte : Chars, to : Calls \cup {"agent"}])
    BY <1>6, <2>1, HandedGrows
    DEF TerminalTypeOK, PromptReads, Routed, Handover, Receivers
  <2>3. line' \in Seq(Chars \ {"newline"}) /\ Len(line') <= LineLimit
    <3>1. CASE UNCHANGED line
      BY <3>1 DEF TerminalTypeOK
    <3>2. CASE line' = Append(line, held[1]) /\ held[1] # "newline" /\ ~LineFull
      BY <2>1, <3>2, AppendFacts DEF TerminalTypeOK, LineFull
    <3> QED BY <1>6, <3>1, <3>2 DEF PromptReads
  <2>4. /\ mux' \in {"select", "prompting"} /\ prompt' \in Calls \cup {NoCall}
        /\ reply' \in [Calls -> Replies \cup {"none"}]
    BY <1>6, <2>1 DEF TerminalTypeOK, PromptReads, ReplyWith, Parsed, Replies
  <2> QED BY <1>6, <2>2, <2>3, <2>4
      DEF TerminalTypeOK, PromptReads, controllerVars
<1>7. ASSUME PromptFails \/ PromptEnds
      PROVE  TerminalTypeOK'
  BY <1>7 DEF TerminalTypeOK, PromptFails, PromptEnds, ReplyWith, Replies,
              inputVars, controllerVars
<1>8. ASSUME NEW r \in Calls, TakeCall(r)
      PROVE  TerminalTypeOK'
  <2>1. line' \in Seq(Chars \ {"newline"}) /\ Len(line') <= LineLimit
    BY <1>8 DEF TakeCall
  <2> QED BY <1>8, <2>1 DEF TerminalTypeOK, TakeCall, inputVars, controllerVars
<1>9. ASSUME NEW r \in Calls, DecideStep(r) \/ Begin(r) \/ Expire(r)
      PROVE  TerminalTypeOK'
  <2>1. /\ decide' \in [Calls -> {"none", "offering", "waiting", "returned"}]
        /\ result' \in [Calls -> Replies \cup {"none"}]
    <3>1. CASE DecideReturns(r)
      BY <3>1 DEF TerminalTypeOK, DecideReturns
    <3>2. CASE DecideGivesUp(r)
      BY <3>2 DEF TerminalTypeOK, DecideGivesUp, Replies
    <3>3. CASE Begin(r) \/ Expire(r)
      BY <3>3 DEF TerminalTypeOK, Begin, Expire
    <3> QED BY <1>9, <3>1, <3>2, <3>3 DEF DecideStep
  <2>2. expired' \subseteq Calls /\ active' \in Calls \cup {NoCall}
    BY <1>9 DEF TerminalTypeOK, DecideStep, DecideReturns, DecideGivesUp, Begin, Expire,
                controllerVars
  <2>3. UNCHANGED <<inputVars, muxVars, reply, verdict, listening, closed>>
    BY <1>9 DEF DecideStep, DecideReturns, DecideGivesUp, Begin, Expire, controllerVars
  <2> QED BY <2>1, <2>2, <2>3 DEF TerminalTypeOK, inputVars, muxVars
<1>10. ASSUME NEW r \in Calls, Conclude(r)
       PROVE  TerminalTypeOK'
  <2>1. VerdictOn(r) \in {"granted", "denied", "expired", "unavailable"}
    BY DEF VerdictOn
  <2> QED BY <1>10, <2>1 DEF TerminalTypeOK, Conclude, inputVars, muxVars
<1>11. ASSUME AgentLeaves \/ Close \/ UNCHANGED vars
       PROVE  TerminalTypeOK'
  BY <1>11 DEF TerminalTypeOK, AgentLeaves, Close, vars, inputVars, muxVars, controllerVars
<1> QED BY <1>1, <1>2, <1>3, <1>4, <1>5, <1>6, <1>7, <1>8, <1>9, <1>10, <1>11
        DEF Next, LoopStep

-----------------------------------------------------------------------------
(* The order of the bytes.                                                 *)

LEMMA Feeding ==
    ASSUME TerminalInvariant, [Next]_vars
    PROVE  FeedSound'
<1> USE DEF TerminalInvariant, FeedSound
<1>1. ASSUME NEW b \in Chars, Type(b)
      PROVE  FeedSound'
  BY <1>1 DEF Type, muxVars
<1>2. ASSUME HangUp \/ ReadByte \/ ReadEnd \/ AgentLeaves \/ Close \/ UNCHANGED vars
      PROVE  FeedSound'
  BY <1>2 DEF HangUp, ReadByte, ReadEnd, AgentLeaves, Close, vars, muxVars
<1>3. ASSUME LoopStep \/ AgentReads
      PROVE  FeedSound'
  BY <1>3 DEF LoopStep, Forward, WriteFails, InputEnds, LoopStops, PromptReads,
              PromptFails, PromptEnds, ReplyWith, AgentReads, Byte
<1>4. ASSUME NEW r \in Calls,
             TakeCall(r) \/ DecideStep(r) \/ Begin(r) \/ Expire(r) \/ Conclude(r)
      PROVE  FeedSound'
  BY <1>4 DEF TakeCall, DecideStep, DecideReturns, DecideGivesUp, Begin, Expire, Conclude,
              muxVars
<1> QED BY <1>1, <1>2, <1>3, <1>4 DEF Next

LEMMA Ordered ==
    ASSUME TerminalInvariant, [Next]_vars
    PROVE  BytesInOrder'
<1> USE DEF TerminalInvariant
<1>t. /\ routed \in Seq(Handover) /\ feeding \in Seq(Chars) /\ tty \in Seq(Chars)
      /\ BytesIn(routed) \in Seq(Chars) /\ Waiting \in Seq(Chars) /\ <<>> \in Seq(Chars)
  <2>1. routed \in Seq(Handover) /\ tty \in Seq(Chars)
    BY DEF TerminalTypeOK, Handover, Receivers
  <2>2. feeding \in Seq(Chars)
    BY ByteSeqs, ZenonT(30) DEF TerminalTypeOK
  <2>3. "newline" \in Chars /\ "agent" \in Receivers
    BY DEF Chars, Receivers
  <2>4. BytesIn(routed) \in Seq(Chars)
    BY <2>1, <2>3, HandedGrows
  <2> QED BY <2>1, <2>2, <2>4, HeldKinds, ByteSeqs
<1>h. Byte => held[1] \in Chars /\ held = <<held[1]>>
  BY HeldKinds
<1>o. typed = BytesIn(routed) \o feeding \o Waiting \o tty
  BY DEF BytesInOrder
<1>1. ASSUME NEW b \in Chars, Type(b)
      PROVE  BytesInOrder'
  <2>1. /\ typed' = Append(typed, b) /\ tty' = Append(tty, b)
        /\ UNCHANGED <<routed, feeding, held>>
    BY <1>1 DEF Type, muxVars
  <2>2. Waiting' = Waiting
    BY <2>1 DEF Waiting, Byte
  <2>3. Append(BytesIn(routed) \o feeding \o Waiting \o tty, b)
           = BytesIn(routed) \o feeding \o Waiting \o Append(tty, b)
    <3>1. BytesIn(routed) \o feeding \o Waiting \in Seq(Chars)
      BY <1>t, ConcatProperties
    <3> QED BY <3>1, <1>t, TypedLast
  <2> QED BY <2>1, <2>2, <2>3, <1>o DEF BytesInOrder
<1>2. ASSUME UNCHANGED <<typed, routed, feeding, held, tty>>
      PROVE  BytesInOrder'
  BY <1>2, <1>o DEF BytesInOrder, Waiting, Byte
<1>3. ASSUME UNCHANGED <<typed, routed, feeding, tty>>, ~Byte, ~Byte'
      PROVE  BytesInOrder'
  BY <1>3, <1>o DEF BytesInOrder, Waiting
<1>4. ASSUME ReadByte
      PROVE  BytesInOrder'
  <2>1. /\ UNCHANGED <<typed, routed, feeding>> /\ tty' = Tail(tty) /\ tty # <<>>
        /\ held = <<>> /\ held' = <<Head(tty)>>
    BY <1>4 DEF ReadByte, muxVars
  <2>2. Head(tty) \in Chars
    BY <2>1, <1>t, HeadTailProperties
  <2>3. <<Head(tty)>> # <<"end">>
    BY <2>2 DEF Chars
  <2>4. Waiting = <<>> /\ Waiting' = <<Head(tty)>>
    BY <2>1, <2>3 DEF Waiting, Byte
  <2>5. BytesIn(routed) \o feeding \o <<>> \o tty
           = BytesIn(routed) \o feeding \o <<Head(tty)>> \o Tail(tty)
    BY <2>1, <2>2, <1>t, MovingOn, SMTT(30)
  <2> QED BY <2>1, <2>4, <2>5, <1>o DEF BytesInOrder
<1>5. ASSUME Forward
      PROVE  BytesInOrder'
  <2>1. /\ UNCHANGED <<typed, routed, tty>> /\ feeding' = held /\ held' = <<>>
        /\ Byte /\ feeding = <<>>
    BY <1>5 DEF Forward, FeedSound
  <2>2. Waiting = held /\ Waiting' = <<>>
    BY <2>1 DEF Waiting, Byte
  <2> QED BY <2>1, <2>2, <1>t, <1>o, <1>h, MovingOn, HeldKinds DEF BytesInOrder
<1>6. ASSUME AgentReads
      PROVE  BytesInOrder'
  <2>1. /\ UNCHANGED <<typed, held, tty>> /\ feeding' = <<>>
        /\ routed' = Routed(feeding[1], "agent")
        /\ feeding = <<feeding[1]>> /\ feeding[1] \in Chars
    BY <1>6 DEF AgentReads, inputVars, FeedSound, TerminalTypeOK
  <2>2. Waiting' = Waiting
    BY <2>1 DEF Waiting, Byte
  <2>3. BytesIn(routed') = BytesIn(routed) \o feeding
    BY <2>1, <1>t, HandedGrows DEF Routed, Receivers
  <2>4. BytesIn(routed) \o feeding \o Waiting \o tty
           = (BytesIn(routed) \o feeding) \o <<>> \o Waiting \o tty
    <3>1. PICK b \in Chars : feeding = <<b>>
      BY <2>1
    <3> QED BY <3>1, <1>t, MovingOn
  <2> QED BY <2>1, <2>2, <2>3, <2>4, <1>o DEF BytesInOrder
<1>7. ASSUME PromptReads
      PROVE  BytesInOrder'
  <2>1. /\ UNCHANGED <<typed, feeding, tty>> /\ held' = <<>> /\ Byte /\ feeding = <<>>
        /\ routed' = Routed(held[1], prompt) /\ prompt \in Calls
    BY <1>7 DEF PromptReads, FeedSound, PromptSound
  <2>2. Waiting = <<held[1]>> /\ Waiting' = <<>>
    BY <2>1, <1>h DEF Waiting, Byte
  <2>3. BytesIn(routed') = BytesIn(routed) \o <<held[1]>>
    BY <2>1, <1>t, <1>h, HandedGrows DEF Routed, Receivers
  <2> QED BY <2>1, <2>2, <2>3, <1>t, <1>o, <1>h, MovingOn DEF BytesInOrder
<1>8. ASSUME InputEnds \/ PromptEnds \/ ReadEnd
      PROVE  BytesInOrder'
  <2>1. UNCHANGED <<typed, routed, feeding, tty>> /\ ~Byte /\ ~Byte'
    BY <1>8 DEF InputEnds, PromptEnds, ReadEnd, ReplyWith, Byte, muxVars
  <2> QED BY <2>1, <1>3
<1>9. ASSUME \/ HangUp \/ WriteFails \/ LoopStops \/ PromptFails
             \/ AgentLeaves \/ Close \/ UNCHANGED vars
      PROVE  BytesInOrder'
  BY <1>9, <1>2 DEF HangUp, WriteFails, LoopStops, PromptFails, AgentLeaves, Close, vars,
                    inputVars, muxVars
<1>10. ASSUME NEW r \in Calls,
              TakeCall(r) \/ DecideStep(r) \/ Begin(r) \/ Expire(r) \/ Conclude(r)
       PROVE  BytesInOrder'
  BY <1>10, <1>2 DEF TakeCall, DecideStep, DecideReturns, DecideGivesUp, Begin, Expire,
                     Conclude, inputVars, muxVars
<1> QED BY <1>1, <1>4, <1>5, <1>6, <1>7, <1>8, <1>9, <1>10 DEF Next, LoopStep

-----------------------------------------------------------------------------
(* Prompts and replies.                                                    *)

\* What is handed to one leaves what the others were handed.
LEMMA HandedToOne ==
    ASSUME TerminalTypeOK, NEW b \in Chars, NEW to \in Receivers,
           routed' = Routed(b, to)
    PROVE  /\ \A r : r # to => BytesOf(r)' = BytesOf(r)
           /\ \A r \in Calls : r # to /\ AllowingLine(r) => AllowingLine(r)'
           /\ BytesOf(to)' = BytesOf(to) \cup {Len(routed) + 1}
           /\ Len(routed) + 1 \in DOMAIN routed' /\ routed'[Len(routed) + 1].byte = b
           /\ \A i \in DOMAIN routed :
                 /\ i \in DOMAIN routed' /\ routed'[i] = routed[i]
                 /\ i \in Nat /\ i < Len(routed) + 1
<1> DEFINE x == [byte |-> b, to |-> to]
<1>1. x \in Handover /\ x.byte = b /\ x.to = to
  BY DEF Handover
<1>2. routed \in Seq(Handover) /\ routed' = Append(routed, x)
  BY DEF TerminalTypeOK, Handover, Receivers, Routed
<1> HIDE DEF x
<1>3. /\ Len(routed) \in Nat
      /\ DOMAIN routed' = 1..(Len(routed) + 1) /\ DOMAIN routed = 1..Len(routed)
      /\ \A i \in 1..Len(routed) : routed'[i] = routed[i]
      /\ routed'[Len(routed) + 1] = x
  BY <1>1, <1>2, AppendFacts
<1>4. \A i \in DOMAIN routed' : i \in DOMAIN routed \/ i = Len(routed) + 1
  BY <1>3
<1>5. \A i \in DOMAIN routed :
         i \in DOMAIN routed' /\ routed'[i] = routed[i] /\ i \in Nat /\ i < Len(routed) + 1
  BY <1>3
<1>6. \A r : r # to => BytesOf(r)' = BytesOf(r)
  BY <1>1, <1>3, <1>4, <1>5 DEF BytesOf
<1>7. BytesOf(to)' = BytesOf(to) \cup {Len(routed) + 1}
  <2>1. Len(routed) + 1 \in DOMAIN routed'
    BY <1>3
  <2> QED BY <2>1, <1>1, <1>3, <1>4, <1>5 DEF BytesOf
<1>8. \A r \in Calls : r # to /\ AllowingLine(r) => AllowingLine(r)'
  BY <1>5, <1>6 DEF AllowingLine
<1>9. Len(routed) + 1 \in DOMAIN routed' /\ routed'[Len(routed) + 1].byte = b
  BY <1>1, <1>3
<1> QED BY <1>5, <1>6, <1>7, <1>8, <1>9

LEMMA HandedKept ==
    ASSUME UNCHANGED routed
    PROVE  \A r : BytesOf(r)' = BytesOf(r) /\ AllowingLine(r)' = AllowingLine(r)
BY DEF BytesOf, AllowingLine

\* What is known of the call whose prompt the loop is in, and of the others.
LEMMA Prompting ==
    ASSUME TerminalInvariant, [Next]_vars
    PROVE  PromptSound'
<1> USE TerminalAssumption DEF TerminalInvariant
<1>u. ASSUME UNCHANGED <<mux, prompt, line, routed, decide, reply>>
      PROVE  PromptSound'
  BY <1>u, HandedKept DEF PromptSound
<1>v. ASSUME UNCHANGED <<routed, decide, reply>>, mux' # "prompting"
      PROVE  PromptSound'
  BY <1>v, HandedKept DEF PromptSound
<1>1. ASSUME NEW b \in Chars, Type(b)
      PROVE  PromptSound'
  BY <1>1, <1>u DEF Type, muxVars
<1>2. ASSUME HangUp \/ ReadByte \/ ReadEnd \/ AgentLeaves \/ Close \/ UNCHANGED vars
      PROVE  PromptSound'
  BY <1>2, <1>u DEF HangUp, ReadByte, ReadEnd, AgentLeaves, Close, vars, muxVars
<1>3. ASSUME Forward \/ WriteFails \/ InputEnds \/ LoopStops
      PROVE  PromptSound'
  BY <1>3, <1>v DEF Forward, WriteFails, InputEnds, LoopStops
<1>4. ASSUME AgentReads
      PROVE  PromptSound'
  <2>1. /\ feeding[1] \in Chars /\ "agent" \in Receivers
        /\ routed' = Routed(feeding[1], "agent")
        /\ mux' = "select" /\ UNCHANGED <<decide, reply>>
    BY <1>4 DEF AgentReads, TerminalTypeOK, FeedSound, Receivers
  <2>2. \A r \in Calls : /\ BytesOf(r)' = BytesOf(r)
                         /\ AllowingLine(r) => AllowingLine(r)'
    BY <2>1, HandedToOne
  <2> QED BY <2>1, <2>2 DEF PromptSound
<1>5. ASSUME PromptReads
      PROVE  PromptSound'
  <2> DEFINE n == Len(routed) + 1
             b == held[1]
  <2>1. /\ prompt \in Calls /\ decide[prompt] \in {"waiting", "returned"}
        /\ reply[prompt] = "none" /\ prompt \in Receivers
        /\ line = <<>> => BytesOf(prompt) = {}
        /\ line = <<"y">> => \E i \in DOMAIN routed :
                                BytesOf(prompt) = {i} /\ routed[i].byte = "y"
        /\ b \in Chars /\ routed' = Routed(b, prompt) /\ UNCHANGED decide
    BY <1>5, HeldKinds DEF PromptReads, PromptSound, Receivers
  <2>a. PICK to \in Receivers : to = prompt
    BY <2>1
  <2>b. PICK c \in Chars : c = b
    BY <2>1
  <2>c. routed' = Routed(c, to)
    BY <2>1, <2>a, <2>b
  <2>d. /\ \A r \in Calls : r # to => /\ BytesOf(r)' = BytesOf(r)
                                      /\ AllowingLine(r) => AllowingLine(r)'
        /\ BytesOf(to)' = BytesOf(to) \cup {n}
        /\ n \in DOMAIN routed' /\ routed'[n].byte = c
    BY <2>c, HandedToOne
  <2>e. \A i \in DOMAIN routed :
           i \in DOMAIN routed' /\ routed'[i] = routed[i] /\ i \in Nat /\ i < n
    BY <2>c, HandedToOne
  <2>f. {i \in DOMAIN routed' : routed'[i].to = prompt} = BytesOf(prompt) \cup {n}
    <3>1. BytesOf(to)' = {i \in DOMAIN routed' : routed'[i].to = prompt}
      BY <2>a DEF BytesOf
    <3>2. BytesOf(to) = BytesOf(prompt)
      BY <2>a
    <3> QED BY <2>d, <3>1, <3>2
  <2>g. \A r \in Calls : r # prompt => /\ BytesOf(r)' = BytesOf(r)
                                       /\ AllowingLine(r) => AllowingLine(r)'
    BY <2>a, <2>d
  <2>h. n \in DOMAIN routed' /\ routed'[n].byte = b
    BY <2>b, <2>d
  <2> HIDE DEF n, b
  <2>3. \A r \in Calls : r # prompt =>
           /\ decide'[r] \in {"none", "offering"} => BytesOf(r)' = {} /\ reply[r] = "none"
           /\ reply[r] = "allow" => AllowingLine(r)'
    <3>1. \A r \in Calls :
             /\ decide[r] \in {"none", "offering"} => BytesOf(r) = {} /\ reply[r] = "none"
             /\ reply[r] = "allow" => AllowingLine(r)
      BY DEF PromptSound
    <3> QED BY <2>1, <2>g, <3>1
  <2>4. CASE /\ b # "newline" /\ ~LineFull
             /\ line' = Append(line, b) /\ UNCHANGED <<reply, mux, prompt>>
    <3>a. /\ line \in Seq(Chars) /\ Len(line') = Len(line) + 1 /\ Len(line) \in Nat
          /\ line'[Len(line) + 1] = b
      <4>1. line \in Seq(Chars)
        BY DEF TerminalTypeOK
      <4> QED BY <2>1, <2>4, <4>1, AppendFacts
    <3>1. line' # <<>>
      BY <3>a
    <3>2. ASSUME line' = <<"y">>
          PROVE  line = <<>> /\ b = "y"
      <4>1. Len(line') = 1 /\ line'[1] = "y"
        BY <3>2
      <4>2. Len(line) = 0
        BY <4>1, <3>a
      <4> QED BY <4>1, <4>2, <3>a, EmptySeq
    <3>3. line' = <<"y">> => \E i \in DOMAIN routed' :
             /\ {j \in DOMAIN routed' : routed'[j].to = prompt} = {i}
             /\ routed'[i].byte = "y"
      BY <2>1, <2>e, <2>f, <2>g, <2>h, <3>2
    <3>4. \A r \in Calls : /\ decide'[r] \in {"none", "offering"} =>
                                BytesOf(r)' = {} /\ reply'[r] = "none"
                           /\ reply'[r] = "allow" => AllowingLine(r)'
      BY <2>1, <2>3, <2>4
    <3> QED BY <2>1, <2>4, <3>1, <3>3, <3>4 DEF PromptSound, BytesOf
  <2>5. ASSUME NEW v \in Replies, ReplyWith(v),
               v = "allow" => line = <<"y">> /\ b = "newline"
        PROVE  PromptSound'
    <3>1. ASSUME v = "allow"
          PROVE  \E i, j \in DOMAIN routed' :
                    /\ {k \in DOMAIN routed' : routed'[k].to = prompt} = {i, j} /\ i < j
                    /\ routed'[i].byte = "y" /\ routed'[j].byte = "newline"
      <4>1. PICK i \in DOMAIN routed : BytesOf(prompt) = {i} /\ routed[i].byte = "y"
        BY <2>1, <2>5, <3>1
      <4>2. {k \in DOMAIN routed' : routed'[k].to = prompt} = {i, n}
        BY <2>e, <2>f, <2>g, <2>h, <4>1
      <4> QED BY <2>e, <2>f, <2>g, <2>h, <2>5, <3>1, <4>1, <4>2
    <3>2. PICK p \in Calls : p = prompt
      BY <2>1
    <3>3. v = "allow" => AllowingLine(p)'
      BY <3>1, <3>2 DEF AllowingLine, BytesOf
    <3>4. /\ reply' = [reply EXCEPT ![p] = v] /\ mux' = "select"
      BY <2>5, <3>2 DEF ReplyWith
    <3>5. reply'[p] = v /\ \A r \in Calls : r # p => reply'[r] = reply[r]
      BY <3>4 DEF TerminalTypeOK
    <3>6. \A r \in Calls : /\ decide'[r] \in {"none", "offering"} =>
                                BytesOf(r)' = {} /\ reply'[r] = "none"
                           /\ reply'[r] = "allow" => AllowingLine(r)'
      BY <2>1, <2>3, <3>2, <3>3, <3>5
    <3> QED BY <3>4, <3>6 DEF PromptSound
  <2>6. CASE b = "newline" /\ ReplyWith(Parsed)
    <3>1. Parsed \in Replies /\ (Parsed = "allow" => line = <<"y">>)
      BY DEF Parsed, Replies
    <3>2. PICK v \in Replies : v = Parsed
      BY <3>1
    <3> QED BY <2>5, <2>6, <3>1, <3>2
  <2>7. CASE ReplyWith("malformed")
    BY <2>5, <2>7 DEF Replies
  <2> QED BY <1>5, <2>4, <2>6, <2>7 DEF PromptReads, b
<1>6. ASSUME PromptFails \/ PromptEnds
      PROVE  PromptSound'
  <2>1. /\ prompt \in Calls /\ decide[prompt] \in {"waiting", "returned"}
        /\ UNCHANGED <<routed, decide>> /\ mux' = "select"
        /\ reply' = [reply EXCEPT ![prompt] = "error"]
    BY <1>6 DEF PromptFails, PromptEnds, ReplyWith, PromptSound
  <2>2. \A r \in Calls : reply'[r] = IF r = prompt THEN "error" ELSE reply[r]
    BY <2>1 DEF TerminalTypeOK
  <2> QED BY <2>1, <2>2, HandedKept DEF PromptSound
<1>7. ASSUME NEW r \in Calls, TakeCall(r)
      PROVE  PromptSound'
  <2>1. /\ prompt' = r /\ line' = <<>> /\ mux' = "prompting" /\ decide[r] = "offering"
        /\ decide' = [decide EXCEPT ![r] = "waiting"] /\ UNCHANGED <<routed, reply>>
    BY <1>7 DEF TakeCall
  <2>2. \A s \in Calls : decide'[s] = IF s = r THEN "waiting" ELSE decide[s]
    BY <2>1 DEF TerminalTypeOK
  <2>3. BytesOf(r) = {} /\ reply[r] = "none"
    BY <2>1 DEF PromptSound
  <2>4. BytesOf(r)' = {i \in DOMAIN routed' : routed'[i].to = prompt'}
    BY <2>1 DEF BytesOf
  <2>5. line' # <<"y">>
    BY <2>1
  <2> QED BY <2>1, <2>2, <2>3, <2>4, <2>5, HandedKept DEF PromptSound, BytesOf
<1>8. ASSUME NEW r \in Calls, DecideStep(r) \/ Begin(r)
      PROVE  PromptSound'
  <2>1. UNCHANGED <<mux, prompt, line, routed, reply>>
    BY <1>8 DEF DecideStep, DecideReturns, DecideGivesUp, Begin, muxVars
  <2>2. \A s \in Calls :
           \/ decide'[s] = decide[s]
           \/ decide'[s] = "returned"
           \/ decide'[s] = "offering" /\ decide[s] = "none"
    BY <1>8 DEF DecideStep, DecideReturns, DecideGivesUp, Begin, TerminalTypeOK
  <2> QED BY <2>1, <2>2, HandedKept DEF PromptSound
<1>9. ASSUME NEW r \in Calls, Expire(r) \/ Conclude(r)
      PROVE  PromptSound'
  BY <1>9, <1>u DEF Expire, Conclude, muxVars
<1> QED BY <1>1, <1>2, <1>3, <1>4, <1>5, <1>6, <1>7, <1>8, <1>9 DEF Next, LoopStep

\* A reply that has come, a result and a verdict stand.
LEMMA Judging ==
    ASSUME TerminalInvariant, [Next]_vars
    PROVE  VerdictSound'
<1> USE TerminalAssumption DEF TerminalInvariant
<1>u. ASSUME UNCHANGED <<decide, reply, result, verdict, expired, active>>
      PROVE  VerdictSound'
  BY <1>u DEF VerdictSound
<1>1. ASSUME NEW b \in Chars, Type(b)
      PROVE  VerdictSound'
  BY <1>1, <1>u DEF Type, controllerVars
<1>2. ASSUME \/ HangUp \/ ReadByte \/ ReadEnd \/ AgentLeaves \/ Close \/ UNCHANGED vars
             \/ Forward \/ WriteFails \/ InputEnds \/ LoopStops \/ AgentReads
      PROVE  VerdictSound'
  BY <1>2, <1>u DEF HangUp, ReadByte, ReadEnd, AgentLeaves, Close, vars, controllerVars,
                    Forward, WriteFails, InputEnds, LoopStops, AgentReads
<1>3. ASSUME PromptReads \/ PromptFails \/ PromptEnds
      PROVE  VerdictSound'
  <2>1. UNCHANGED <<decide, result, verdict, expired, active>>
    BY <1>3 DEF PromptReads, PromptFails, PromptEnds, controllerVars
  <2>2. reply[prompt] = "none"
    BY <1>3 DEF PromptReads, PromptFails, PromptEnds, PromptSound
  <2>3. reply' = reply \/ \E v \in Replies : reply' = [reply EXCEPT ![prompt] = v]
    BY <1>3 DEF PromptReads, PromptFails, PromptEnds, ReplyWith, Parsed, Replies
  <2>4. \A r \in Calls : reply[r] = "allow" => reply'[r] = "allow"
    BY <2>2, <2>3 DEF TerminalTypeOK
  <2> QED BY <2>1, <2>4 DEF VerdictSound
<1>4. ASSUME NEW r \in Calls, TakeCall(r) \/ Begin(r)
      PROVE  VerdictSound'
  <2>1. UNCHANGED <<reply, result, verdict, expired>>
    BY <1>4 DEF TakeCall, Begin, controllerVars
  <2>2. decide[r] # "returned" /\ \A s \in Calls : s # r => decide'[s] = decide[s]
    BY <1>4 DEF TakeCall, Begin, TerminalTypeOK
  <2>3. active' = active \/ active' = r
    BY <1>4 DEF TakeCall, Begin, controllerVars
  <2> QED BY <2>1, <2>2, <2>3 DEF VerdictSound
<1>5. ASSUME NEW r \in Calls, DecideStep(r)
      PROVE  VerdictSound'
  <2>1. UNCHANGED <<reply, verdict, expired, active>> /\ decide[r] # "returned"
    BY <1>5 DEF DecideStep, DecideReturns, DecideGivesUp, controllerVars
  <2>2. /\ decide'[r] = "returned" /\ result'[r] \in {reply[r], "error"}
        /\ \A s \in Calls : s # r => decide'[s] = decide[s] /\ result'[s] = result[s]
    BY <1>5 DEF DecideStep, DecideReturns, DecideGivesUp, TerminalTypeOK
  <2> QED BY <2>1, <2>2 DEF VerdictSound
<1>6. ASSUME NEW r \in Calls, Expire(r)
      PROVE  VerdictSound'
  BY <1>6 DEF Expire, VerdictSound, muxVars
<1>7. ASSUME NEW r \in Calls, Conclude(r)
      PROVE  VerdictSound'
  <2>1. VerdictOn(r) = "granted" => r \notin expired /\ result[r] = "allow"
    BY DEF VerdictOn
  <2>2. /\ verdict'[r] = VerdictOn(r) /\ \A s \in Calls : s # r => verdict'[s] = verdict[s]
        /\ UNCHANGED <<decide, reply, result, expired>> /\ active' = NoCall
    BY <1>7 DEF Conclude, TerminalTypeOK
  <2> QED BY <2>1, <2>2 DEF VerdictSound
<1> QED BY <1>1, <1>2, <1>3, <1>4, <1>5, <1>6, <1>7 DEF Next, LoopStep

-----------------------------------------------------------------------------
(* The theorems.                                                           *)

LEMMA TerminalStarts == Init => TerminalInvariant
<1> SUFFICES ASSUME Init PROVE TerminalInvariant
  OBVIOUS
<1> USE TerminalAssumption DEF Init
<1>1. TerminalTypeOK
  <2>1. /\ typed \in Seq(Chars) /\ tty \in Seq(Chars) /\ Len(typed) <= MaxTyped
        /\ line \in Seq(Chars \ {"newline"}) /\ Len(line) <= LineLimit
        /\ routed \in Seq([byte : Chars, to : Calls \cup {"agent"}])
    OBVIOUS
  <2>2. /\ held \in {<<>>} \cup {<<b>> : b \in Chars \cup {"end"}}
        /\ feeding \in {<<>>} \cup {<<b>> : b \in Chars}
    OBVIOUS
  <2>3. /\ decide \in [Calls -> {"none", "offering", "waiting", "returned"}]
        /\ reply \in [Calls -> Replies \cup {"none"}]
        /\ result \in [Calls -> Replies \cup {"none"}]
        /\ verdict \in [Calls -> {"none", "granted", "denied", "expired", "unavailable"}]
    OBVIOUS
  <2>4. /\ input \in {"open", "ended", "told"}
        /\ mux \in {"select", "feeding", "prompting", "ended"}
        /\ prompt \in Calls \cup {NoCall} /\ active \in Calls \cup {NoCall}
        /\ expired \subseteq Calls /\ listening \in BOOLEAN /\ closed \in BOOLEAN
    OBVIOUS
  <2> QED BY <2>1, <2>2, <2>3, <2>4 DEF TerminalTypeOK
<1>2. FeedSound
  BY DEF FeedSound
<1>3. BytesInOrder
  <2>1. BytesIn(routed) = <<>>
    BY DEF BytesIn
  <2>2. Waiting = <<>>
    BY DEF Waiting, Byte
  <2>3. <<>> \o <<>> \o <<>> \o <<>> = <<>>
    BY ByteSeqs, ConcatEmptySeq
  <2> QED BY <2>1, <2>2, <2>3 DEF BytesInOrder
<1>4. PromptSound
  BY DEF PromptSound, BytesOf
<1>5. VerdictSound
  BY DEF VerdictSound
<1> QED BY <1>1, <1>2, <1>3, <1>4, <1>5 DEF TerminalInvariant

(***************************************************************************)
(* The invariant of the terminal, its loop and its callers is inductive    *)
(* (terminal.go:45-177, model.go:196-214).                                 *)
(***************************************************************************)
THEOREM TerminalInvariance == Spec => []TerminalInvariant
<1>1. TerminalInvariant /\ [Next]_vars => TerminalInvariant'
  BY Typed, Feeding, Ordered, Prompting, Judging DEF TerminalInvariant
<1> QED BY TerminalStarts, <1>1, PTL DEF Spec

(***************************************************************************)
(* The terminal's variables keep their types: no line outgrows the bound   *)
(* (terminal.go:138-177).                                                  *)
(***************************************************************************)
THEOREM TerminalTyped == Spec => []TerminalTypeOK
<1>1. TerminalInvariant => TerminalTypeOK
  BY DEF TerminalInvariant
<1> QED BY TerminalInvariance, <1>1, PTL

(***************************************************************************)
(* Each byte typed goes to one receiver, in the order it was typed, for    *)
(* any number of prompts and bytes (terminal.go:97-136).                   *)
(***************************************************************************)
THEOREM OneReader == Spec => []BytesInOrder
<1>1. TerminalInvariant => BytesInOrder
  BY DEF TerminalInvariant
<1> QED BY TerminalInvariance, <1>1, PTL

(***************************************************************************)
(* No request is granted but on a line its own prompt read whole and in    *)
(* time (terminal.go:138-177, model.go:196-214).                           *)
(***************************************************************************)
THEOREM GrantsNeedALine == Spec => []GrantedOnOwnLine
<1>1. TerminalInvariant => GrantedOnOwnLine
  BY DEF TerminalInvariant, VerdictSound, PromptSound, GrantedOnOwnLine
<1> QED BY TerminalInvariance, <1>1, PTL
=============================================================================
