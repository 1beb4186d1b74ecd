---------------------------- MODULE MCAgentRuns ----------------------------
(* Instances of AgentRuns for TLC. *)
EXTENDS AgentRuns, TLC
Sym == Permutations(Approvals) \cup Permutations(Attempts)
=============================================================================
