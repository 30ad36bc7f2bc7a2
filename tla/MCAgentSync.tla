---------------------------- MODULE MCAgentSync ----------------------------
(* Small instances of AgentSync for TLC.                                   *)
EXTENDS AgentSync, TLC

Symmetry == Permutations(Docs) \cup Permutations(Handlers)
=============================================================================
