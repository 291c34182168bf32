------------------------- MODULE SessionStoreProofs -------------------------
(***************************************************************************)
(* What the store promises without the cooperation of its clients, for any *)
(* number of sessions, completion times, exit codes, event types and       *)
(* decoys.  The lemmas speak of one store action at a time and are cited   *)
(* again where the session lifecycle is proved.                            *)
(***************************************************************************)
EXTENDS SessionStore, TLAPS

\* Each store action keeps the types when it is given a row.
LEMMA CreateSessionType ==
    ASSUME StoreTypeOK, NEW s \in Sessions, NEW value \in Values,
           CreateSession(s, value)
    PROVE  StoreTypeOK'
BY DEF StoreTypeOK, CreateSession, Rows

LEMMA UpdateSessionType ==
    ASSUME StoreTypeOK, NEW s \in Sessions, NEW value \in Values,
           UpdateSession(s, value)
    PROVE  StoreTypeOK'
BY DEF StoreTypeOK, UpdateSession, Rows

LEMMA FinalizeSessionType ==
    ASSUME StoreTypeOK, NEW s \in Sessions, NEW value \in Values,
           FinalizeSession(s, value)
    PROVE  StoreTypeOK'
<1>1. rows' \in [Sessions -> Rows]
  BY DEF StoreTypeOK, FinalizeSession, Rows
<1>2. ends' = [ends EXCEPT ![s] = 1] /\ UNCHANGED <<trail, decoys>>
  BY DEF FinalizeSession
<1>3. ends' \in [Sessions -> 0..1]
  BY <1>2 DEF StoreTypeOK
<1> QED BY <1>1, <1>2, <1>3 DEF StoreTypeOK

LEMMA AddEventType ==
    ASSUME StoreTypeOK, NEW s \in Sessions, NEW t \in EventTypes,
           AddEvent(s, t)
    PROVE  StoreTypeOK'
<1>1. trail' \in [Sessions -> [EventTypes -> 0..MaxEvents]]
  <2>1. trail[s][t] + 1 \in 0..MaxEvents
    BY StoreAssumption DEF StoreTypeOK, AddEvent
  <2>2. [trail[s] EXCEPT ![t] = @ + 1] \in [EventTypes -> 0..MaxEvents]
    BY <2>1 DEF StoreTypeOK
  <2> QED BY <2>2 DEF StoreTypeOK, AddEvent
<1> QED BY <1>1 DEF StoreTypeOK, AddEvent

LEMMA AddEndEventType ==
    ASSUME StoreTypeOK, NEW s \in Sessions, AddEndEvent(s)
    PROVE  StoreTypeOK'
BY DEF StoreTypeOK, AddEndEvent

LEMMA DecoyType ==
    ASSUME StoreTypeOK, NEW s \in Sessions, NEW d \in Decoys,
           \/ \E state \in {"armed", "triggered"} : CreateDecoy(s, d, state)
           \/ TriggerDecoy(s, d)
    PROVE  StoreTypeOK'
<1>1. PICK stored \in {"armed", "triggered"} :
         decoys' = [decoys EXCEPT ![s][d] = stored]
  BY DEF CreateDecoy, TriggerDecoy
<1>2. [decoys[s] EXCEPT ![d] = stored] \in [Decoys -> {"absent", "armed", "triggered"}]
  BY DEF StoreTypeOK
<1>3. decoys' \in [Sessions -> [Decoys -> {"absent", "armed", "triggered"}]]
  BY <1>1, <1>2 DEF StoreTypeOK
<1> QED BY <1>3 DEF StoreTypeOK, CreateDecoy, TriggerDecoy

-----------------------------------------------------------------------------
(***************************************************************************)
(* Rows, event counts and decoys keep their shape, and no session ever has *)
(* two SESSION_END events, whatever clients call (sqlite.go:187).          *)
(***************************************************************************)
THEOREM StoreTypeCorrect == StoreSpec => []StoreTypeOK
<1>1. StoreInit => StoreTypeOK
  BY StoreAssumption DEF StoreInit, StoreTypeOK, Rows
<1>2. StoreTypeOK /\ [StoreNext]_storeVars => StoreTypeOK'
  <2> SUFFICES ASSUME StoreTypeOK, [StoreNext]_storeVars PROVE StoreTypeOK'
    OBVIOUS
  <2>1. CASE UNCHANGED storeVars
    BY <2>1 DEF storeVars, StoreTypeOK
  <2>2. ASSUME NEW s \in Sessions, NEW value \in Values,
               \/ CreateSession(s, value)
               \/ UpdateSession(s, value)
               \/ FinalizeSession(s, value)
        PROVE  StoreTypeOK'
    BY <2>2, CreateSessionType, UpdateSessionType, FinalizeSessionType
  <2>3. ASSUME NEW s \in Sessions, NEW t \in EventTypes, AddEvent(s, t)
        PROVE  StoreTypeOK'
    BY <2>3, AddEventType
  <2>4. ASSUME NEW s \in Sessions, AddEndEvent(s) PROVE StoreTypeOK'
    BY <2>4, AddEndEventType
  <2>5. ASSUME NEW s \in Sessions, NEW d \in Decoys,
               \/ \E state \in {"armed", "triggered"} : CreateDecoy(s, d, state)
               \/ TriggerDecoy(s, d)
        PROVE  StoreTypeOK'
    BY <2>5, DecoyType
  <2> QED BY <2>1, <2>2, <2>3, <2>4, <2>5 DEF StoreNext
<1> QED BY <1>1, <1>2, PTL DEF StoreSpec

-----------------------------------------------------------------------------
\* No store action takes anything of the record back.
LEMMA RowWriteKeepsHistory ==
    ASSUME StoreTypeOK, NEW s \in Sessions, NEW value \in Values, NEW u \in Sessions,
           \/ CreateSession(s, value)
           \/ UpdateSession(s, value)
           \/ FinalizeSession(s, value)
    PROVE  KeepsHistory(u)
<1>1. value.status # "absent"
  BY DEF Values, Columns, Open, Terminal
<1>0. ends[u] \in Nat /\ ends[u] <= 1 /\ rows \in [Sessions -> Rows]
  BY DEF StoreTypeOK
<1>2. CASE CreateSession(s, value)
  <2>1. rows[s] = AbsentRow
    BY <1>0, <1>2 DEF CreateSession, Rows, Values, Columns, Open, Terminal
  <2>2. rows[s].status \notin Terminal /\ ~rows[s].contained
    BY <2>1 DEF AbsentRow, Terminal
  <2> QED
    BY <1>0, <1>1, <1>2, <2>2 DEF CreateSession, KeepsHistory
<1>3. CASE UpdateSession(s, value)
  <2>1. rows' = [rows EXCEPT ![s] = value] /\ UNCHANGED <<ends, decoys>>
    BY <1>3 DEF UpdateSession
  <2>2. /\ rows[s].contained => value.contained
        /\ rows[s].status \in Terminal => /\ value.status = rows[s].status
                                          /\ value.ended = rows[s].ended
                                          /\ value.exit = rows[s].exit
    BY <1>3 DEF UpdateSession, Updatable, StatusStep, Terminal
  <2>3. ends'[u] >= ends[u]
    BY <1>0, <2>1
  <2>4. CASE u = s
    BY <1>0, <1>1, <2>1, <2>2, <2>3, <2>4 DEF KeepsHistory
  <2>5. CASE u # s
    BY <1>0, <2>1, <2>3, <2>5 DEF KeepsHistory
  <2> QED BY <2>4, <2>5
<1>4. CASE FinalizeSession(s, value)
  <2>1. UNCHANGED decoys /\ ends' = [ends EXCEPT ![s] = 1]
    BY <1>4 DEF FinalizeSession
  <2>6. ends'[u] = ends[u] \/ ends'[u] = 1
    BY <2>1 DEF StoreTypeOK
  <2>2. \/ Closable(rows[s], value) /\ rows' = [rows EXCEPT ![s] = value]
        \/ UNCHANGED rows
    BY <1>4 DEF FinalizeSession
  <2>3. ends'[u] >= ends[u]
    BY <1>0, <2>6
  <2>4. CASE UNCHANGED rows
    BY <2>1, <2>3, <2>4 DEF KeepsHistory
  <2>5. CASE Closable(rows[s], value) /\ rows' = [rows EXCEPT ![s] = value]
    <3>1. rows[s].status \notin Terminal /\ (rows[s].contained => value.contained)
      BY <2>5 DEF Closable, Open, Terminal
    <3> QED BY <1>1, <2>1, <2>3, <2>5, <3>1 DEF KeepsHistory, StoreTypeOK
  <2> QED BY <2>2, <2>4, <2>5
<1> QED BY <1>2, <1>3, <1>4

(***************************************************************************)
(* History is only added to.  The theorem needs no more of the clients     *)
(* than that they call the store's methods.                                *)
(***************************************************************************)
THEOREM HistoryKept == StoreSpec => HistoryOnlyGrows
<1>1. StoreTypeOK /\ [StoreNext]_storeVars =>
          [\A s \in Sessions : KeepsHistory(s)]_storeVars
  <2> SUFFICES ASSUME StoreTypeOK, StoreNext, NEW u \in Sessions
               PROVE  KeepsHistory(u)
    OBVIOUS
  <2>1. ASSUME NEW s \in Sessions, NEW value \in Values,
               \/ CreateSession(s, value)
               \/ UpdateSession(s, value)
               \/ FinalizeSession(s, value)
        PROVE  KeepsHistory(u)
    BY <2>1, RowWriteKeepsHistory
  <2>2. ASSUME NEW s \in Sessions, NEW t \in EventTypes, AddEvent(s, t)
        PROVE  KeepsHistory(u)
    BY <2>2, SMTT(30) DEF AddEvent, KeepsHistory, StoreTypeOK
  <2>3. ASSUME NEW s \in Sessions, AddEndEvent(s) PROVE KeepsHistory(u)
    BY <2>3 DEF AddEndEvent, KeepsHistory, StoreTypeOK
  <2>4. ASSUME NEW s \in Sessions, NEW d \in Decoys,
               \/ \E state \in {"armed", "triggered"} : CreateDecoy(s, d, state)
               \/ TriggerDecoy(s, d)
        PROVE  KeepsHistory(u)
    BY <2>4, SMTT(30) DEF CreateDecoy, TriggerDecoy, KeepsHistory, StoreTypeOK
  <2> QED BY <2>1, <2>2, <2>3, <2>4 DEF StoreNext
<1> QED BY <1>1, StoreTypeCorrect, PTL DEF StoreSpec, HistoryOnlyGrows

=============================================================================
