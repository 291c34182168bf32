-------------------------- MODULE MCEvidenceTrail --------------------------
EXTENDS EvidenceTrail, TLC
CONSTANTS c1, c2, aws, ssh

\* Two requests for approval at once, and the session contained before or after one of them.
Asking ==
    [contain |-> TRUE, severity |-> "LOW", prompt |-> "LOW", decoys |-> <<aws>>, reached |-> {"ask"},
     limited |-> FALSE, denied |-> <<>>,
     answers |-> {<<"APPROVAL_GRANTED", "USER_DECISION">>, <<"APPROVAL_EXPIRED", "AUTOMATIC_FAIL_CLOSED">>},
     seconds |-> 0, accesses |-> 1, lines |-> 5]

\* Both of them answered and decided.
Decided == [Asking EXCEPT !.accesses = 0, !.lines = 6]

\* Every answer, and the session contained before or after it.
Answered ==
    [Asking EXCEPT !.severity = "HIGH", !.prompt = "CRITICAL", !.limited = TRUE, !.denied = <<ssh>>,
                   !.answers = Answers, !.lines = 4]

\* Decisions without approval, over two seconds.
Deciding ==
    [Asking EXCEPT !.severity = "none", !.reached = {"allowed", "other"}, !.answers = {},
                   !.seconds = 1, !.lines = 5]

\* Two decoys, contained or not.
Reading ==
    [Asking EXCEPT !.prompt = "none", !.severity = "MEDIUM", !.decoys = <<aws, ssh>>, !.reached = {"other"},
                   !.answers = {}, !.seconds = 1, !.accesses = 2, !.lines = 4]
Watching == [Reading EXCEPT !.contain = FALSE, !.seconds = 0, !.lines = 3]

Small == {Asking, Decided, Answered, Deciding, Reading, Watching}
TwoDecoys == {Watching}
Symmetric == Permutations(Connections)
=============================================================================
