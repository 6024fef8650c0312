---------------------------- MODULE MCWakeQueue ----------------------------
(* Wake-ups of one issue, for TLC: two for its assignee, one with a        *)
(* comment, and one for another agent that carries a comment.              *)
EXTENDS WakeQueue, TLC

CONSTANTS a1, a2, w1, w2, w3

Agent == [w \in Wakes |-> IF w = w3 THEN a2 ELSE a1]
=============================================================================
