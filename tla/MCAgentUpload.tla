---------------------------- MODULE MCAgentUpload ----------------------------
(* Instances of AgentUpload for TLC. *)
EXTENDS AgentUpload, TLC

CONSTANTS a, b

States == Permutations(State)

=============================================================================
