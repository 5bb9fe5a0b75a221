---------------------------- MODULE MCAgentRuntime ----------------------------
(* Instances of AgentRuntime for TLC: each cfg gives the constants values.  *)
EXTENDS AgentRuntime, TLC

\* Runs and callers are interchangeable.
Symmetry == Permutations(Runs) \cup Permutations(Deciders)

=============================================================================
