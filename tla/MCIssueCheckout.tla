-------------------------- MODULE MCIssueCheckout --------------------------
(* Small instances of IssueCheckout for TLC.                               *)
EXTENDS IssueCheckout, TLC

CONSTANTS r1, r2, r3, a1, a2, c1, c2

(* Two runs of one agent; a second agent that can only be the assignee.    *)
TwoRuns == (r1 :> a1) @@ (r2 :> a1)

(* Three runs of one agent, as maxConcurrentRuns > 1 or retries make them. *)
OneAgent == (r1 :> a1) @@ (r2 :> a1) @@ (r3 :> a1)

(* A first claim, and the re-claim of an issue that is in progress.        *)
Expected == {{"todo"}, {"in_progress"}}

NoPatch == [status |-> Undefined, assignee |-> Undefined, user |-> Undefined]

AnyStatus == {{"todo", "in_progress"}}

(* Close or set back; start; reassign; write the status or the assignee    *)
(* the client saw back again; hand over to a user.                         *)
BoardPatches ==
  {[NoPatch EXCEPT !.status = s] : s \in Status}
    \cup {[NoPatch EXCEPT !.assignee = a] : a \in AgentOrNull}
    \cup {[NoPatch EXCEPT !.assignee = NoAgent, !.user = u] : u \in Users}

(* A checkout beside any operation, another checkout included; any two.    *)
CheckoutAndAny == (c1 :> {"checkout"}) @@ (c2 :> Ops)
AnyOperation == [c \in Calls |-> Ops]

RunSymmetry == Permutations({r1, r2})
=============================================================================
