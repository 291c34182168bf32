------------------------- MODULE MCSessionLifecycle -------------------------
(* Two invocations compete for one project.  Session identifiers are the   *)
(* numbers 1..2: RecoverySessions lists them in the order of creation.     *)
EXTENDS SessionLifecycle, TLC

CONSTANTS g1, g2, d1, d2, t1, none, free

RunEvents == {"SESSION_START", "PROCESS_START", "DECOY_ACCESS",
              "CONTAINMENT_ACTIVATED", "PROCESS_EXIT"}

Sidecar == {"agent", "sentinel"}
SidecarAndGateway == {"agent", "sentinel", "gateway"}

Invocations == Permutations({g1, g2})
=============================================================================
