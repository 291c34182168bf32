--------------------------- MODULE MCSessionStore ---------------------------
(* Two sessions, two completion times, one decoy: enough for a retry with  *)
(* another verdict, a regression of containment and a second SESSION_END.  *)
EXTENDS SessionStore

CONSTANTS s1, s2, t1, t2, d1, none
=============================================================================
