----------------------------- MODULE TerminalMux -----------------------------
(***************************************************************************)
(* The approval terminal: one goroutine reads the terminal byte by byte,   *)
(* the multiplexer's loop hands each byte to the agent's pipe or to the    *)
(* prompt it is in, and the controller calls Decide for one request after  *)
(* the other, leaving a call behind when its deadline has passed.          *)
(*                                                                         *)
(* A Go select takes any of its ready cases, so each case is an action and *)
(* nothing orders those that are ready together.                           *)
(*                                                                         *)
(* Bound: MaxTyped bytes are typed.                                        *)
(***************************************************************************)
EXTENDS Naturals, Sequences

CONSTANTS
    Calls,      \* Decide calls, one per request that needs the user
    NoCall,
    LineLimit,  \* the longest line a prompt reads on at: 32 in the code
    MaxTyped

ASSUME TerminalAssumption ==
    /\ NoCall \notin Calls /\ "agent" \notin Calls
    /\ LineLimit \in Nat \ {0} /\ MaxTyped \in Nat

VARIABLES
    typed,      \* history: every byte typed
    tty,        \* the bytes not yet read
    input,      \* the terminal is open, has ended, or the reader has learnt so
    held,       \* what the reader goroutine has read: <<>>, <<byte>> or <<"end">>
    mux,        \* where the loop is
    prompt,     \* the call being prompted for
    line,       \* the line of the prompt, or of the last one, so far
    feeding,    \* the byte in feed.Write
    routed,     \* history: the bytes handed out, with their receiver
    decide,     \* decide[r]: where Decide(r) is
    reply,      \* reply[r]: the buffered channel of the call
    result,     \* result[r]: what Decide(r) returned
    expired,    \* calls whose context is done
    active,     \* the call the controller waits for
    verdict,    \* verdict[r]: what the controller made of it
    listening,  \* the agent's end of the pipe is open
    closed      \* Close has been called

inputVars == <<typed, tty, input, held>>
muxVars == <<mux, prompt, line, feeding, routed>>
controllerVars == <<expired, active, verdict>>
vars == <<inputVars, muxVars, decide, reply, result, controllerVars, listening, closed>>

\* "y" stands for a word that allows, "x" for any other byte.
Chars == {"y", "x", "newline"}
Replies == {"allow", "deny", "malformed", "error"}

TerminalTypeOK ==
    /\ typed \in Seq(Chars) /\ Len(typed) <= MaxTyped
    /\ tty \in Seq(Chars)
    /\ input \in {"open", "ended", "told"}
    /\ held \in {<<>>} \cup {<<b>> : b \in Chars \cup {"end"}}
    /\ mux \in {"select", "feeding", "prompting", "ended"}
    /\ prompt \in Calls \cup {NoCall}
    /\ line \in Seq(Chars \ {"newline"}) /\ Len(line) <= LineLimit
    /\ feeding \in {<<>>} \cup {<<b>> : b \in Chars}
    /\ routed \in Seq([byte : Chars, to : Calls \cup {"agent"}])
    /\ decide \in [Calls -> {"none", "offering", "waiting", "returned"}]
    /\ reply \in [Calls -> Replies \cup {"none"}]
    /\ result \in [Calls -> Replies \cup {"none"}]
    /\ expired \subseteq Calls
    /\ active \in Calls \cup {NoCall}
    /\ verdict \in [Calls -> {"none", "granted", "denied", "expired", "unavailable"}]
    /\ listening \in BOOLEAN /\ closed \in BOOLEAN

Init ==
    /\ typed = <<>> /\ tty = <<>> /\ input = "open" /\ held = <<>>
    /\ mux = "select" /\ prompt = NoCall /\ line = <<>> /\ feeding = <<>>
    /\ routed = <<>>
    /\ decide = [r \in Calls |-> "none"]
    /\ reply = [r \in Calls |-> "none"]
    /\ result = [r \in Calls |-> "none"]
    /\ expired = {} /\ active = NoCall
    /\ verdict = [r \in Calls |-> "none"]
    /\ listening = TRUE /\ closed = FALSE

-----------------------------------------------------------------------------
(* The terminal and its only reader.                                       *)

Type(b) ==
    /\ Len(typed) < MaxTyped /\ input = "open"
    /\ typed' = Append(typed, b)
    /\ tty' = Append(tty, b)
    /\ UNCHANGED <<input, held, muxVars, decide, reply, result, controllerVars,
                   listening, closed>>

HangUp ==
    /\ input = "open"
    /\ input' = "ended"
    /\ UNCHANGED <<typed, tty, held, muxVars, decide, reply, result, controllerVars,
                   listening, closed>>

\* The goroutine of run, which returns after it has handed over an error.
ReadByte ==
    /\ held = <<>> /\ tty # <<>>
    /\ held' = <<Head(tty)>>
    /\ tty' = Tail(tty)
    /\ UNCHANGED <<typed, input, muxVars, decide, reply, result, controllerVars,
                   listening, closed>>

ReadEnd ==
    /\ held = <<>> /\ tty = <<>> /\ input = "ended"
    /\ held' = <<"end">>
    /\ input' = "told"
    /\ UNCHANGED <<typed, tty, muxVars, decide, reply, result, controllerVars,
                   listening, closed>>

-----------------------------------------------------------------------------
(* The multiplexer's loop.                                                 *)

Byte == held # <<>> /\ held # <<"end">>
Routed(b, to) == Append(routed, [byte |-> b, to |-> to])

\* reads, outside a prompt: on to the agent's pipe, which has no buffer.
Forward ==
    /\ mux = "select" /\ Byte
    /\ feeding' = held
    /\ held' = <<>>
    /\ mux' = "feeding"
    /\ UNCHANGED <<typed, tty, input, prompt, line, routed, decide, reply, result,
                   controllerVars, listening, closed>>

\* The agent's side reads the byte, which ends the write.
AgentReads ==
    /\ mux = "feeding" /\ listening /\ ~closed
    /\ routed' = Routed(feeding[1], "agent")
    /\ feeding' = <<>>
    /\ mux' = "select"
    /\ UNCHANGED <<inputVars, prompt, line, decide, reply, result, controllerVars,
                   listening, closed>>

\* Mutant: Close leaves the pipe to whoever reads it.
WriteFailsUnread ==
    /\ mux = "feeding" /\ ~listening
    /\ mux' = "ended"
    /\ UNCHANGED <<inputVars, prompt, line, feeding, routed, decide, reply, result,
                   controllerVars, listening, closed>>

\* Either end of the pipe was closed: run returns.
WriteFails ==
    /\ mux = "feeding" /\ (~listening \/ closed)
    /\ mux' = "ended"
    /\ UNCHANGED <<inputVars, prompt, line, feeding, routed, decide, reply, result,
                   controllerVars, listening, closed>>

\* An error outside a prompt closes the pipe and ends the loop.
InputEnds ==
    /\ mux = "select" /\ held = <<"end">>
    /\ held' = <<>>
    /\ mux' = "ended"
    /\ UNCHANGED <<typed, tty, input, prompt, line, feeding, routed, decide, reply,
                   result, controllerVars, listening, closed>>

LoopStops ==
    /\ mux = "select" /\ closed
    /\ mux' = "ended"
    /\ UNCHANGED <<inputVars, prompt, line, feeding, routed, decide, reply, result,
                   controllerVars, listening, closed>>

\* Mutant: the line of the last prompt is read on.
TakeCallReadingOn(r) ==
    /\ mux = "select" /\ decide[r] = "offering"
    /\ mux' = "prompting"
    /\ prompt' = r
    /\ decide' = [decide EXCEPT ![r] = "waiting"]
    /\ UNCHANGED <<inputVars, line, feeding, routed, reply, result, controllerVars,
                   listening, closed>>

\* Mutant: what was read ahead of the prompt is thrown away.
TakeCallDiscarding(r) ==
    /\ mux = "select" /\ decide[r] = "offering"
    /\ mux' = "prompting"
    /\ prompt' = r
    /\ line' = <<>>
    /\ held' = IF Byte THEN <<>> ELSE held
    /\ decide' = [decide EXCEPT ![r] = "waiting"]
    /\ UNCHANGED <<typed, tty, input, feeding, routed, reply, result, controllerVars,
                   listening, closed>>

\* calls: the prompt is printed and the loop is in it.
TakeCall(r) ==
    /\ mux = "select" /\ decide[r] = "offering"
    /\ mux' = "prompting"
    /\ prompt' = r
    /\ line' = <<>>
    /\ decide' = [decide EXCEPT ![r] = "waiting"]
    /\ UNCHANGED <<inputVars, feeding, routed, reply, result, controllerVars,
                   listening, closed>>

\* The prompt is over: its reply is in the call's channel.
ReplyWith(v) ==
    /\ reply' = [reply EXCEPT ![prompt] = v]
    /\ mux' = "select"
    /\ prompt' = NoCall

\* parseTerminalResponse
Parsed == IF line = <<>> THEN "deny" ELSE IF line = <<"y">> THEN "allow" ELSE "malformed"

\* Mutant: the bound is found out a byte late.
LineFullLate == Len(line) > LineLimit

\* The next byte is one too many; the rest of what was typed stays unread.
LineFull == Len(line) = LineLimit

PromptReads ==
    /\ mux = "prompting" /\ Byte
    /\ LET b == held[1]
       IN  /\ routed' = Routed(b, prompt)
           /\ IF b = "newline"
              THEN ReplyWith(Parsed) /\ UNCHANGED line
              ELSE IF LineFull
              THEN ReplyWith("malformed") /\ UNCHANGED line
              ELSE /\ line' = Append(line, b)
                   /\ UNCHANGED <<reply, mux, prompt>>
    /\ held' = <<>>
    /\ UNCHANGED <<typed, tty, input, feeding, decide, result, controllerVars,
                   listening, closed>>

\* The context of the call or Close ends the prompt.
PromptFails ==
    /\ mux = "prompting"
    /\ prompt \in expired \/ closed
    /\ ReplyWith("error")
    /\ UNCHANGED <<inputVars, line, feeding, routed, decide, result, controllerVars,
                   listening, closed>>

\* So does an error of the terminal, which nobody will hear of again.
PromptEnds ==
    /\ mux = "prompting" /\ held = <<"end">>
    /\ held' = <<>>
    /\ ReplyWith("error")
    /\ UNCHANGED <<typed, tty, input, line, feeding, routed, decide, result,
                   controllerVars, listening, closed>>

LoopStep ==
    Forward \/ WriteFails \/ InputEnds \/ LoopStops
        \/ PromptReads \/ PromptFails \/ PromptEnds

-----------------------------------------------------------------------------
(* Decide and the controller.                                              *)

DecideReturns(r) ==
    /\ decide[r] = "waiting" /\ reply[r] # "none"
    /\ decide' = [decide EXCEPT ![r] = "returned"]
    /\ result' = [result EXCEPT ![r] = reply[r]]
    /\ UNCHANGED <<inputVars, muxVars, reply, controllerVars, listening, closed>>

\* Mutant: only the wait for the reply ends with the context.
DecideGivesUpWaiting(r) ==
    /\ decide[r] = "waiting"
    /\ r \in expired \/ closed
    /\ decide' = [decide EXCEPT ![r] = "returned"]
    /\ result' = [result EXCEPT ![r] = "error"]
    /\ UNCHANGED <<inputVars, muxVars, reply, controllerVars, listening, closed>>

DecideGivesUp(r) ==
    /\ decide[r] \in {"offering", "waiting"}
    /\ r \in expired \/ closed
    /\ decide' = [decide EXCEPT ![r] = "returned"]
    /\ result' = [result EXCEPT ![r] = "error"]
    /\ UNCHANGED <<inputVars, muxVars, reply, controllerVars, listening, closed>>

\* Resolve calls the handler; the broker ends before the terminal is closed.
Begin(r) ==
    /\ active = NoCall /\ decide[r] = "none" /\ ~closed
    /\ active' = r
    /\ decide' = [decide EXCEPT ![r] = "offering"]
    /\ UNCHANGED <<inputVars, muxVars, reply, result, expired, verdict, listening, closed>>

\* The deadline of the decision, or the broker is cancelled.
Expire(r) ==
    /\ active = r /\ r \notin expired
    /\ expired' = expired \cup {r}
    /\ UNCHANGED <<inputVars, muxVars, decide, reply, result, active, verdict,
                   listening, closed>>

\* Mutant: a reply at hand counts, whatever became of the context.
VerdictOnReply(r) ==
    IF reply[r] = "allow" THEN "granted"
    ELSE IF r \in expired THEN "expired"
    ELSE IF result[r] = "deny" THEN "denied" ELSE "unavailable"

VerdictOn(r) ==
    IF r \in expired THEN "expired"
    ELSE IF result[r] = "allow" THEN "granted"
    ELSE IF result[r] = "deny" THEN "denied" ELSE "unavailable"

\* Resolve returns, without waiting for a handler whose time is up.
Conclude(r) ==
    /\ active = r
    /\ decide[r] = "returned" \/ r \in expired
    /\ verdict' = [verdict EXCEPT ![r] = VerdictOn(r)]
    /\ active' = NoCall
    /\ UNCHANGED <<inputVars, muxVars, decide, reply, result, expired, listening, closed>>

-----------------------------------------------------------------------------
(* The ends of a run.                                                      *)

\* The agent's execution is over: attachExec closes its end of the pipe.
AgentLeaves ==
    /\ listening
    /\ listening' = FALSE
    /\ UNCHANGED <<inputVars, muxVars, decide, reply, result, controllerVars, closed>>

Close ==
    /\ ~closed /\ active = NoCall
    /\ closed' = TRUE
    /\ UNCHANGED <<inputVars, muxVars, decide, reply, result, controllerVars, listening>>

DecideStep(r) == DecideReturns(r) \/ DecideGivesUp(r)

Next ==
    \/ \E b \in Chars : Type(b)
    \/ HangUp \/ ReadByte \/ ReadEnd
    \/ LoopStep \/ AgentReads
    \/ \E r \in Calls :
          \/ TakeCall(r) \/ DecideStep(r)
          \/ Begin(r) \/ Expire(r) \/ Conclude(r)
    \/ AgentLeaves \/ Close

Spec == Init /\ [][Next]_vars

\* The goroutines run and deadlines pass.  Nobody need type, the agent need
\* not read, and the run need not end.
Fairness ==
    /\ WF_vars(ReadByte \/ ReadEnd)
    /\ WF_vars(LoopStep \/ \E r \in Calls : TakeCall(r))
    /\ \A r \in Calls :
          WF_vars(DecideStep(r)) /\ WF_vars(Expire(r)) /\ WF_vars(Conclude(r))

FairSpec == Spec /\ Fairness

-----------------------------------------------------------------------------
(* Properties.                                                             *)

\* Where the bytes handed to r are among all that were handed out.
BytesOf(r) == {i \in DOMAIN routed : routed[i].to = r}

\* All that r was handed is a line that allows.
AllowingLine(r) ==
    \E i, j \in DOMAIN routed :
        /\ BytesOf(r) = {i, j} /\ i < j
        /\ routed[i].byte = "y" /\ routed[j].byte = "newline"

(***************************************************************************)
(* A request is granted on one whole line that was read by its own prompt  *)
(* and says so: neither what an earlier prompt left of a line when its     *)
(* time was up, nor a reply that comes after the deadline, grants          *)
(* (terminal.go:138-177, model.go:196-214).                                *)
(***************************************************************************)
GrantedOnOwnLine ==
    \A r \in Calls : verdict[r] = "granted" =>
        /\ AllowingLine(r)
        /\ r \notin expired

BytesIn(q) == [i \in DOMAIN q |-> q[i].byte]
Waiting == IF Byte THEN held ELSE <<>>

(***************************************************************************)
(* One reader: whatever is typed reaches the agent or a prompt, each byte  *)
(* one of them, in the order it was typed, across prompts that begin,      *)
(* time out and fail while bytes are on their way (terminal.go:97-136).    *)
(***************************************************************************)
BytesInOrder == typed = BytesIn(routed) \o feeding \o Waiting \o tty

(***************************************************************************)
(* Every Decide returns, even while the loop sits in a write to an agent   *)
(* that does not read, after the loop has ended, and with a silent user    *)
(* (terminal.go:68-85).                                                    *)
(***************************************************************************)
DecidesReturn ==
    \A r \in Calls : decide[r] \in {"offering", "waiting"} ~> decide[r] = "returned"

(***************************************************************************)
(* Close ends the loop wherever it is: in a write nobody reads, in a       *)
(* prompt, or between two bytes (terminal.go:87-95, 118-135).              *)
(***************************************************************************)
LoopEnds == closed ~> mux = "ended"

-----------------------------------------------------------------------------
(* The inductive invariant behind GrantedOnOwnLine and BytesInOrder.       *)

\* A byte is on its way into the pipe while the loop is in the write, or
\* stays there after a write that failed.
FeedSound ==
    /\ mux \in {"select", "prompting"} => feeding = <<>>
    /\ mux = "feeding" => feeding # <<>>

\* A call is handed nothing before its prompt, what its prompt has read of a
\* line is what it was handed, and a reply that allows came with the line.
PromptSound ==
    /\ mux = "prompting" => /\ prompt \in Calls
                            /\ decide[prompt] \in {"waiting", "returned"}
                            /\ reply[prompt] = "none"
                            /\ line = <<>> => BytesOf(prompt) = {}
                            /\ line = <<"y">> =>
                                 \E i \in DOMAIN routed :
                                     BytesOf(prompt) = {i} /\ routed[i].byte = "y"
    /\ \A r \in Calls :
          /\ decide[r] \in {"none", "offering"} => BytesOf(r) = {} /\ reply[r] = "none"
          /\ reply[r] = "allow" => AllowingLine(r)

\* What Decide returns is the reply, and a verdict is the last the controller
\* has to do with a call.
VerdictSound ==
    \A r \in Calls :
        /\ result[r] = "allow" => decide[r] = "returned" /\ reply[r] = "allow"
        /\ verdict[r] = "granted" => /\ result[r] = "allow"
                                     /\ r \notin expired /\ active # r

TerminalInvariant ==
    TerminalTypeOK /\ FeedSound /\ BytesInOrder /\ PromptSound /\ VerdictSound
=============================================================================
