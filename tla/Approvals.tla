------------------------------ MODULE Approvals -----------------------------
(***************************************************************************)
(* Human approval on the host: the broker that takes request files from    *)
(* the gateway, one goroutine per request, and the controller that decides *)
(* them one at a time, asks the user with a deadline, and keeps the grants *)
(* the user gave for the session.                                          *)
(*                                                                         *)
(* Time is counted in ticks, longer than any step of the host; `age` is    *)
(* how long the prompt in hand has been shown.                             *)
(***************************************************************************)
EXTENDS Naturals

CONSTANTS
    Requests,         \* request identities, one per gateway connection
    Keys,             \* scheme, host, port and method of a request
    NoRequest, NoKey, \* none of these
    Interactive,      \* a terminal handler is installed
    DecisionTimeout   \* DefaultTimeout, in ticks

ASSUME ApprovalsAssumption ==
    /\ NoRequest \notin Requests
    /\ NoKey \notin Keys
    /\ Interactive \in BOOLEAN
    /\ DecisionTimeout \in Nat \ {0}

VARIABLES
    posted,     \* request files in approval-requests
    wanted,     \* wanted[r]: the key of request r
    worker,     \* worker[r]: where the goroutine of r is
    owner,      \* the request whose Resolve holds the mutex and prompts
    age,        \* ticks since the owner's prompt
    answer,     \* answer[r]: what the handler returned for r, or "none"
    resolution, \* resolution[r]: what Resolve returned and Respond has yet to write
    response,   \* response[r]: the response file, or "none"
    grants,     \* sessionGrants
    cut,        \* why the broker's context is done, or "none"
    scanning    \* the broker's run loop has not returned

approvalVars == <<posted, wanted, worker, owner, age, answer, resolution,
                  response, grants, cut, scanning>>

\* Handler results: the three scopes; anything else, and an error, is invalid.
Answers == {"once", "session", "deny", "invalid"}
\* What a response file says; "matching" reuses a session grant.
Resolutions == {"once", "session", "matching", "denied", "expired", "unavailable"}
Granting == {"once", "session", "matching"}
\* A context ends once, by its deadline or because somebody cancels it.
Causes == {"cancelled", "deadline"}

Live == cut = "none"

ApprovalTypeOK ==
    /\ posted \subseteq Requests
    /\ wanted \in [Requests -> Keys \cup {NoKey}]
    /\ worker \in [Requests -> {"none", "waiting", "deciding", "resolved", "done"}]
    /\ owner \in Requests \cup {NoRequest}
    /\ age \in 0..DecisionTimeout
    /\ answer \in [Requests -> Answers \cup {"none"}]
    /\ resolution \in [Requests -> Resolutions \cup {"none"}]
    /\ response \in [Requests -> Resolutions \cup {"none"}]
    /\ grants \subseteq Keys
    /\ cut \in Causes \cup {"none"}
    /\ scanning \in BOOLEAN

ApprovalInit ==
    /\ posted = {}
    /\ wanted = [r \in Requests |-> NoKey]
    /\ worker = [r \in Requests |-> "none"]
    /\ owner = NoRequest
    /\ age = 0
    /\ answer = [r \in Requests |-> "none"]
    /\ resolution = [r \in Requests |-> "none"]
    /\ response = [r \in Requests |-> "none"]
    /\ grants = {}
    /\ cut = "none"
    /\ scanning = TRUE

\* The gateway moves its request file into approval-requests.
Post(r, k) ==
    /\ posted' = posted \cup {r}
    /\ wanted' = [wanted EXCEPT ![r] = k]
    /\ UNCHANGED <<worker, owner, age, answer, resolution, response, grants,
                   cut, scanning>>

\* The gateway gives up and removes the request file and the response, as far
\* as they are there.
Withdraw(r) ==
    /\ posted' = posted \ {r}
    /\ response' = [response EXCEPT ![r] = "none"]
    /\ UNCHANGED <<wanted, worker, owner, age, answer, resolution, grants, cut,
                   scanning>>

\* The broker finds the file, reads it and removes it.
Consume(r) ==
    /\ scanning
    /\ r \in posted
    /\ posted' = posted \ {r}
    /\ worker' = [worker EXCEPT ![r] = "waiting"]
    /\ UNCHANGED <<wanted, owner, age, answer, resolution, response, grants,
                   cut, scanning>>

\* setError: one bad artifact or failed write cancels the whole channel.
WorkerFails(r) ==
    /\ \/ scanning /\ r \in posted
       \/ worker[r] = "resolved"
    /\ posted' = posted \ {r}
    /\ worker' = [worker EXCEPT ![r] = "done"]
    /\ cut' = IF Live THEN "cancelled" ELSE cut
    /\ UNCHANGED <<wanted, owner, age, answer, resolution, response, grants, scanning>>

\* Resolve up to the prompt: what it can answer at once, it answers.
Resolve(r) ==
    /\ worker[r] = "waiting"
    /\ owner = NoRequest
    /\ IF Live /\ wanted[r] \notin grants /\ Interactive
       THEN /\ owner' = r
            /\ age' = 0
            /\ worker' = [worker EXCEPT ![r] = "deciding"]
            /\ UNCHANGED resolution
       ELSE /\ worker' = [worker EXCEPT ![r] = "resolved"]
            /\ resolution' = [resolution EXCEPT ![r] =
                   IF Live /\ wanted[r] \in grants THEN "matching" ELSE "unavailable"]
            /\ UNCHANGED <<owner, age>>
    /\ UNCHANGED <<posted, wanted, answer, response, grants, cut, scanning>>

\* The user answers, or the terminal fails.
Answer(r, a) ==
    /\ owner = r
    /\ answer[r] = "none"
    /\ answer' = [answer EXCEPT ![r] = a]
    /\ UNCHANGED <<posted, wanted, worker, owner, age, resolution, response,
                   grants, cut, scanning>>

\* Mutant: the deadline comes a tick late.
ExpiredLate == age > DecisionTimeout

Expired == age = DecisionTimeout

\* The verdicts Resolve may reach after its select.  A done context wins over
\* an answer; with both causes of it at hand, either may have come first.  The
\* deadline of the run expires its prompts like their own.
Verdicts(r) ==
    IF Expired \/ ~Live
    THEN {v \in {"expired", "unavailable"} :
             /\ v = "expired" => Expired \/ cut = "deadline"
             /\ v = "unavailable" => cut = "cancelled"}
    ELSE {CASE answer[r] = "once" -> "once"
            [] answer[r] = "session" -> "session"
            [] answer[r] = "deny" -> "denied"
            [] OTHER -> "unavailable"}

\* Mutant: a single grant is kept like one for the session.
DecideKeepingGrant(r) ==
    /\ owner = r
    /\ answer[r] # "none" \/ Expired \/ ~Live
    /\ \E v \in Verdicts(r) :
          /\ resolution' = [resolution EXCEPT ![r] = v]
          /\ grants' = IF v \in Granting THEN grants \cup {wanted[r]} ELSE grants
    /\ worker' = [worker EXCEPT ![r] = "resolved"]
    /\ owner' = NoRequest
    /\ age' = 0
    /\ UNCHANGED <<posted, wanted, answer, response, cut, scanning>>

\* Mutant: Resolve waits for the handler, whatever happens to its context.
DecideOnAnswer(r) ==
    /\ owner = r
    /\ answer[r] # "none"
    /\ \E v \in Verdicts(r) :
          /\ resolution' = [resolution EXCEPT ![r] = v]
          /\ grants' = IF v = "session" THEN grants \cup {wanted[r]} ELSE grants
    /\ worker' = [worker EXCEPT ![r] = "resolved"]
    /\ owner' = NoRequest
    /\ age' = 0
    /\ UNCHANGED <<posted, wanted, answer, response, cut, scanning>>

Decide(r) ==
    /\ owner = r
    /\ answer[r] # "none" \/ Expired \/ ~Live
    /\ \E v \in Verdicts(r) :
          /\ resolution' = [resolution EXCEPT ![r] = v]
          /\ grants' = IF v = "session" THEN grants \cup {wanted[r]} ELSE grants
    /\ worker' = [worker EXCEPT ![r] = "resolved"]
    /\ owner' = NoRequest
    /\ age' = 0
    /\ UNCHANGED <<posted, wanted, answer, response, cut, scanning>>

\* The response file is renamed into place.
Respond(r) ==
    /\ worker[r] = "resolved"
    /\ response' = [response EXCEPT ![r] = resolution[r]]
    /\ resolution' = [resolution EXCEPT ![r] = "none"]
    /\ worker' = [worker EXCEPT ![r] = "done"]
    /\ UNCHANGED <<posted, wanted, owner, age, answer, grants, cut, scanning>>

\* The run loop sees the cancelled context.
ScanEnds ==
    /\ scanning /\ ~Live
    /\ scanning' = FALSE
    /\ UNCHANGED <<posted, wanted, worker, owner, age, answer, resolution,
                   response, grants, cut>>

\* The context the broker was started with ends, ...
ContextDone(cause) ==
    /\ cut' = IF Live THEN cause ELSE cut
    /\ UNCHANGED <<posted, wanted, worker, owner, age, answer, resolution,
                   response, grants, scanning>>

\* ... and approvalBroker.stop returns.
BrokerStopped ==
    /\ ~scanning
    /\ \A r \in Requests : worker[r] \in {"none", "done"}

\* Steps of the host that are due and take no noticeable time.
BrokerDue ==
    \/ scanning /\ (posted # {} \/ ~Live)
    \/ \E r \in Requests : \/ worker[r] = "resolved"
                           \/ worker[r] = "waiting" /\ owner = NoRequest
    \/ owner # NoRequest /\ (answer[owner] # "none" \/ Expired \/ ~Live)

BrokerStep(r) == Consume(r) \/ Resolve(r) \/ Decide(r) \/ Respond(r)
=============================================================================
