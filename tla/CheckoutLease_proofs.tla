------------------------ MODULE CheckoutLease_proofs ------------------------
(* The lease is exclusive, for any number of runs.                         *)
EXTENDS CheckoutLease, TLAPS

(* Only live runs are remembered as holders, and each has the lease.       *)
LInv == holders \subseteq live /\ Exclusive

(* The lease's invariant holds of every reachable state.                   *)
LEMMA LInvInductive == Spec => []LInv
<1>1. Init => LInv
  BY DEF Init, LInv, Exclusive
<1>2. LInv /\ [Next]_vars => LInv'
  <2>1. ASSUME LInv, NEW r \in Runs, Acquire(r) PROVE LInv'
    BY <2>1 DEF LInv, Exclusive, Acquire
  <2>2. ASSUME LInv, Revoke PROVE LInv'
    BY <2>2 DEF LInv, Exclusive, Revoke
  <2>3. ASSUME LInv, Lifecycle PROVE LInv'
    BY <2>3 DEF LInv, Exclusive, Lifecycle
  <2>4. ASSUME LInv, UNCHANGED vars PROVE LInv'
    BY <2>4 DEF LInv, Exclusive, vars
  <2>5. QED
    BY <2>1, <2>2, <2>3, <2>4 DEF Next
<1>3. QED
  BY <1>1, <1>2, PTL DEF Spec

(* Only the run that has the lease was told that it has it: two holders    *)
(* are one run.                                                            *)
THEOREM LeaseExclusive == Spec => []Exclusive
<1>1. LInv => Exclusive
  BY DEF LInv
<1>2. QED
  BY <1>1, LInvInductive, PTL
=============================================================================
