---------------------------- MODULE SessionLedger ---------------------------
(***************************************************************************)
(* What the durable record promises a reader of a project's history, with  *)
(* no word of locks, crashes, Docker or recovery: a session is opened once *)
(* and closed once; closing fixes its verdict and publishes its end record *)
(* in the same step; containment may be noted at any time, even after the  *)
(* close, and is never withdrawn.                                          *)
(***************************************************************************)
CONSTANTS Sessions, Verdicts, NoVerdict

VARIABLES
    phase,      \* phase[s]: "none", "open" or "closed"
    verdict,    \* verdict[s]: NoVerdict until s is closed
    contained,  \* contained[s]: whether containment has been noted
    published   \* published[s]: number of end records

ledgerVars == <<phase, verdict, contained, published>>

Init ==
    /\ phase = [s \in Sessions |-> "none"]
    /\ verdict = [s \in Sessions |-> NoVerdict]
    /\ contained = [s \in Sessions |-> FALSE]
    /\ published = [s \in Sessions |-> 0]

OpenSession(s) ==
    /\ phase[s] = "none"
    /\ phase' = [phase EXCEPT ![s] = "open"]
    /\ UNCHANGED <<verdict, contained, published>>

NoteContainment(s) ==
    /\ phase[s] # "none"
    /\ contained' = [contained EXCEPT ![s] = TRUE]
    /\ UNCHANGED <<phase, verdict, published>>

CloseSession(s, v) ==
    /\ phase[s] = "open"
    /\ phase' = [phase EXCEPT ![s] = "closed"]
    /\ verdict' = [verdict EXCEPT ![s] = v]
    /\ published' = [published EXCEPT ![s] = 1]
    /\ \E c \in BOOLEAN : /\ contained[s] => c
                          /\ contained' = [contained EXCEPT ![s] = c]

Next ==
    \E s \in Sessions :
        \/ OpenSession(s)
        \/ NoteContainment(s)
        \/ \E v \in Verdicts : CloseSession(s, v)

Spec == Init /\ [][Next]_ledgerVars

=============================================================================
