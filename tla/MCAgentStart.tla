---------------------------- MODULE MCAgentStart ----------------------------
(* Small instances of AgentStart for TLC.                                  *)
EXTENDS AgentStart, TLC

StartSymmetry == {p @@ q : p \in Permutations(Runs), q \in Permutations(Starts)}
=============================================================================
