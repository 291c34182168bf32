---------------------------- MODULE SessionStore ----------------------------
(***************************************************************************)
(* The durable half of Ghost: the SQLite database behind storage.Store.    *)
(* One row per session, the events counted by type, and the decoys of each *)
(* session.  Every action below is one SQLite transaction, so it either    *)
(* happens whole or not at all; a crash never shows inside one.            *)
(*                                                                         *)
(* Abstractions: created_at, command, runtime and network_mode are written *)
(* once by CreateSession and read back unchanged, so a row keeps only the  *)
(* five columns that later statements compare or change.  An event is      *)
(* counted under its type; its text and metadata are not kept.             *)
(***************************************************************************)
EXTENDS Naturals, FiniteSets

CONSTANTS
    Sessions,   \* session identifiers
    Stamps,     \* completion timestamps
    NoStamp,    \* completed_at_ns IS NULL
    ExitCodes,  \* exit codes of the agent command
    NoExit,     \* exit_code IS NULL
    EventTypes, \* event types written through AddEvent
    Decoys,     \* decoy identifiers a session may own
    MaxEvents   \* bound on the events of one type in one session

ASSUME StoreAssumption ==
    /\ NoStamp \notin Stamps
    /\ NoExit \notin ExitCodes
    /\ 0 \in ExitCodes
    /\ "SESSION_END" \notin EventTypes
    /\ MaxEvents \in Nat

VARIABLES
    rows,       \* rows[s]: the sessions row of s; status "absent" means no row
    ends,       \* ends[s]: SESSION_END events of s
    trail,      \* trail[s][t]: events of type t of s
    decoys      \* decoys[s][d]: "absent", "armed" or "triggered"

storeVars == <<rows, ends, trail, decoys>>

Open == {"created", "running"}
Terminal == {"completed", "failed"}

Columns(statuses) == [status    : statuses,
                      ended     : Stamps \cup {NoStamp},
                      exit      : ExitCodes \cup {NoExit},
                      contained : BOOLEAN,
                      cleanup   : BOOLEAN]

\* The session values a client may hand to the store.
Values == Columns(Open \cup Terminal)

\* No row with this id yet.
AbsentRow == [status |-> "absent", ended |-> NoStamp, exit |-> NoExit,
              contained |-> FALSE, cleanup |-> FALSE]

Rows == Values \cup {AbsentRow}

StoreTypeOK ==
    /\ rows \in [Sessions -> Rows]
    /\ ends \in [Sessions -> 0..1]
    /\ trail \in [Sessions -> [EventTypes -> 0..MaxEvents]]
    /\ decoys \in [Sessions -> [Decoys -> {"absent", "armed", "triggered"}]]

StoreInit ==
    /\ rows = [s \in Sessions |-> AbsentRow]
    /\ ends = [s \in Sessions |-> 0]
    /\ trail = [s \in Sessions |-> [t \in EventTypes |-> 0]]
    /\ decoys = [s \in Sessions |-> [d \in Decoys |-> "absent"]]

-----------------------------------------------------------------------------
(* Rules of the store, as predicates on a stored row and a session value.  *)

\* validStatusTransition
StatusStep(current, next) ==
    \/ current = "created" /\ next \in {"created", "running", "failed"}
    \/ current = "running" /\ next \in {"running", "completed", "failed"}
    \/ current \in Terminal /\ next = current

\* Mutant: a closed row keeps its status, but not its exit code and time.
UpdatableAfterClose(row, value) ==
    /\ row.status # "absent"
    /\ row.contained => value.contained
    /\ StatusStep(row.status, value.status)

\* What UpdateSession demands before its UPDATE.
Updatable(row, value) ==
    /\ row.status # "absent"
    /\ row.contained => value.contained
    /\ StatusStep(row.status, value.status)
    /\ row.status \in Terminal =>
           row.ended = value.ended /\ row.exit = value.exit

\* The argument check at the head of FinalizeSession.
IsVerdict(value) == value.status \in Terminal /\ value.ended # NoStamp

\* The WHERE clause of FinalizeSession's UPDATE.
Closable(row, value) ==
    /\ row.status \in Open
    /\ row.contained => value.contained

\* RecoverySessions
NeedsRecovery(row) == row.status \in Open \/ row.cleanup

-----------------------------------------------------------------------------
(* One action per writing method of the store, when it succeeds.  A method *)
(* that returns an error rolls its transaction back and changes nothing.   *)

\* INSERT INTO sessions; the id is UNIQUE.
CreateSession(s, value) ==
    /\ rows[s].status = "absent"
    /\ rows' = [rows EXCEPT ![s] = value]
    /\ UNCHANGED <<ends, trail, decoys>>

UpdateSession(s, value) ==
    /\ Updatable(rows[s], value)
    /\ rows' = [rows EXCEPT ![s] = value]
    /\ UNCHANGED <<ends, trail, decoys>>

\* Mutant: the retry inserts a SESSION_END without looking for one.
FinalizeSessionAgain(s, value) ==
    /\ IsVerdict(value)
    /\ \/ Closable(rows[s], value) /\ rows' = [rows EXCEPT ![s] = value]
       \/ rows[s] = value /\ UNCHANGED rows
    /\ ends' = [ends EXCEPT ![s] = @ + 1]
    /\ UNCHANGED <<trail, decoys>>

\* Mutant: the SESSION_END is left to a second transaction.
FinalizeRowOnly(s, value) ==
    /\ IsVerdict(value)
    /\ Closable(rows[s], value)
    /\ rows' = [rows EXCEPT ![s] = value]
    /\ UNCHANGED <<ends, trail, decoys>>

\* The terminal row and the sole SESSION_END in one transaction.  A row that
\* is already closed with this very verdict gains a missing SESSION_END, or is
\* left as it is when the retry finds it complete.
FinalizeSession(s, value) ==
    /\ IsVerdict(value)
    /\ \/ /\ Closable(rows[s], value)
          /\ ends[s] = 0
          /\ rows' = [rows EXCEPT ![s] = value]
          /\ ends' = [ends EXCEPT ![s] = 1]
       \/ /\ ~Closable(rows[s], value)
          /\ rows[s] = value
          /\ ends' = [ends EXCEPT ![s] = 1]
          /\ UNCHANGED rows
    /\ UNCHANGED <<trail, decoys>>

\* Any event but SESSION_END.  The foreign key demands the session's row.
AddEvent(s, type) ==
    /\ rows[s].status # "absent"
    /\ trail[s][type] < MaxEvents
    /\ trail' = [trail EXCEPT ![s][type] = @ + 1]
    /\ UNCHANGED <<rows, ends, decoys>>

\* A SESSION_END through AddEvent: the partial unique index admits one.
AddEndEvent(s) ==
    /\ rows[s].status # "absent"
    /\ ends[s] = 0
    /\ ends' = [ends EXCEPT ![s] = 1]
    /\ UNCHANGED <<rows, trail, decoys>>

\* A decoy is stored as the caller describes it; the manager only arms decoys.
CreateDecoy(s, d, state) ==
    /\ rows[s].status # "absent"
    /\ decoys[s][d] = "absent"
    /\ decoys' = [decoys EXCEPT ![s][d] = state]
    /\ UNCHANGED <<rows, ends, trail>>

\* TriggerDecoy answering true.  It answers false, and changes nothing, when
\* the decoy was triggered before.
TriggerDecoy(s, d) ==
    /\ decoys[s][d] = "armed"
    /\ decoys' = [decoys EXCEPT ![s][d] = "triggered"]
    /\ UNCHANGED <<rows, ends, trail>>

-----------------------------------------------------------------------------
(* The store under clients that may call any method with any valid value   *)
(* in any order: what it promises, it promises without their cooperation.  *)

StoreNext ==
    \E s \in Sessions :
        \/ \E value \in Values :
              \/ CreateSession(s, value)
              \/ UpdateSession(s, value)
              \/ FinalizeSession(s, value)
        \/ \E t \in EventTypes : AddEvent(s, t)
        \/ AddEndEvent(s)
        \/ \E d \in Decoys :
              \/ \E state \in {"armed", "triggered"} : CreateDecoy(s, d, state)
              \/ TriggerDecoy(s, d)

StoreSpec == StoreInit /\ [][StoreNext]_storeVars

(***************************************************************************)
(* History is never rewritten, whichever methods clients mix: a row is     *)
(* never deleted or reopened, a contained session stays contained, the     *)
(* status, completion time and exit code of a closed session stay as they  *)
(* were, and a SESSION_END or a triggered decoy is never taken back.       *)
(* About UpdateSession, FinalizeSession and TriggerDecoy together          *)
(* (sqlite.go:215-353, 400-424).                                           *)
(***************************************************************************)
KeepsHistory(s) ==
    /\ rows[s].status # "absent" => rows'[s].status # "absent"
    /\ rows[s].contained => rows'[s].contained
    /\ rows[s].status \in Terminal =>
           /\ rows'[s].status = rows[s].status
           /\ rows'[s].ended = rows[s].ended
           /\ rows'[s].exit = rows[s].exit
    /\ ends'[s] >= ends[s]
    /\ \A d \in Decoys : decoys[s][d] = "triggered" => decoys'[s][d] = "triggered"

HistoryOnlyGrows == [][\A s \in Sessions : KeepsHistory(s)]_storeVars

=============================================================================
