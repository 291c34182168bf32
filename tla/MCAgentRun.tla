----------------------------- MODULE MCAgentRun -----------------------------
(* The TLC runs of AgentRun: 137 is also an exit code of the command's own. *)
EXTENDS AgentRun
=============================================================================
