---------------------------- MODULE MCAgentTask ----------------------------
(* AgentTask on a small instance: interchangeable users.                   *)
EXTENDS AgentTask, TLC

Symmetry == Permutations(Users)
=============================================================================
