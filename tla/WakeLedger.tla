----------------------------- MODULE WakeLedger -----------------------------
(***************************************************************************)
(* What the queue of an issue promises for each wake-up: it is given to    *)
(* one work, a run and the retries of it, or it is parked first, or it is  *)
(* closed.  What is parked leaves for a work that nobody has had before,   *)
(* together, or is closed; what has a work keeps it.  WakeQueue implements *)
(* it.                                                                     *)
(***************************************************************************)
CONSTANTS Wakes, Works

VARIABLES
  parked,  \* the wake-ups that wait for a run to end
  closed,  \* those that were skipped or given up
  works    \* for each wake-up, the works that have it

vars == <<parked, closed, works>>

Init == parked = {} /\ closed = {} /\ works = [w \in Wakes |-> {}]

New(w) == w \notin parked \cup closed /\ works[w] = {}

Unused(k) == \A w \in Wakes : k \notin works[w]

Given(W, k) == works' = [w \in Wakes |-> IF w \in W THEN {k} ELSE works[w]]

(* A new wake-up joins a work, or starts one; it is parked; it is skipped. *)
Join(w, k) == New(w) /\ Given({w}, k) /\ UNCHANGED <<parked, closed>>
Park(w) == New(w) /\ parked' = parked \cup {w} /\ UNCHANGED <<closed, works>>
Skip(w) == New(w) /\ closed' = closed \cup {w} /\ UNCHANGED <<parked, works>>

(* A run ended: some of what is parked gets a work of its own, some is     *)
(* given up in passing.                                                    *)
GiveUp(D) ==
  /\ parked' = parked \ D /\ closed' = closed \cup D
  /\ UNCHANGED works

Promote(W, D, k) ==
  /\ W \cap D = {} /\ Unused(k)
  /\ parked' = parked \ (W \cup D) /\ closed' = closed \cup D
  /\ Given(W, k)

Next ==
  \/ \E D \in SUBSET parked : GiveUp(D)
  \/ \E W, D \in SUBSET parked, k \in Works : Promote(W, D, k)
  \/ \E w \in Wakes : Park(w) \/ Skip(w) \/ \E k \in Works : Join(w, k)

Spec == Init /\ [][Next]_vars

(* No wake-up is in two places: parked, closed, or with one work.          *)
OnePlace ==
  /\ parked \cap closed = {}
  /\ \A w \in Wakes : works[w] = {} \/ \E k \in Works : works[w] = {k}
  /\ \A w \in parked \cup closed : works[w] = {}
=============================================================================
