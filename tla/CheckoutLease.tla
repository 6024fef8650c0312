--------------------------- MODULE CheckoutLease ---------------------------
(***************************************************************************)
(* What the checkout of an issue promises to the runs of the agents: a     *)
(* lease that passes from run to run, that no run can take from a live     *)
(* one, and that a live run which was told it has it keeps until the lease *)
(* is revoked.  IssueCheckout implements it.                               *)
(***************************************************************************)
CONSTANTS Runs, NoRun

VARIABLES
  lease,    \* the run that has the issue checked out, or NoRun
  live,     \* runs that are queued or running
  over,     \* runs that have ended
  holders   \* live runs that were told they have the lease

vars == <<lease, live, over, holders>>

Init == lease = NoRun /\ live = {} /\ over = {} /\ holders = {}

(* A free lease, one whose run is over, and one's own can be taken.  The   *)
(* answer may reach a run that has ended in the meantime.                  *)
Acquire(r) ==
  /\ lease \notin live \/ lease = r
  /\ lease' = r
  /\ holders' = holders \cup ({r} \cap live)
  /\ UNCHANGED <<live, over>>

(* A release, a forced release, an update that closes or reassigns.        *)
Revoke == lease' = NoRun /\ holders' = {} /\ UNCHANGED <<live, over>>

(* Runs begin and end; the lease of a run that is over may be taken back.  *)
Lifecycle ==
  /\ \E begin \in SUBSET (Runs \ (live \cup over)), end \in SUBSET live :
       /\ live' = (live \ end) \cup begin
       /\ over' = over \cup end
       /\ holders' = holders \ end
  /\ lease' = lease \/ (lease \notin live /\ lease' = NoRun)

Next == Revoke \/ Lifecycle \/ \E r \in Runs : Acquire(r)

Spec == Init /\ [][Next]_vars

(* Only the run that has the lease was told so.                            *)
Exclusive == \A r \in holders : lease = r
=============================================================================
