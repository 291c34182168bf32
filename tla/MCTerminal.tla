----------------------------- MODULE MCTerminal -----------------------------
(* Constants of the TLC run of TerminalMux.                                *)
EXTENDS TerminalMux

CONSTANTS r1, r2, none
=============================================================================
