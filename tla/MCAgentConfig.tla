---------------------------- MODULE MCAgentConfig ----------------------------
(* Instances of AgentConfig for TLC. *)
EXTENDS AgentConfig

\* Models 1 and 2 have the same file name but for the digest.
MCStem == [m \in Models |-> IF m = 2 THEN 1 ELSE m]
=============================================================================
