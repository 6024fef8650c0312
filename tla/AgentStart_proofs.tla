-------------------------- MODULE AgentStart_proofs --------------------------
(***************************************************************************)
(* What the start lock of an agent guarantees, for any number of runs and  *)
(* starts, any limit, any timing and any number of restarts.               *)
(***************************************************************************)
EXTENDS AgentStart, FiniteSetTheorems, TLAPS

----------------------------------------------------------------------------
(* The inductive invariant                                                 *)

Begun(r) == status[r] \in {"running", "terminal"}

(* Only a run that was claimed is handed over, executed or found running   *)
(* by the reaper.                                                          *)
HeldBegun ==
  /\ \A s \in Starts : \A r \in claimed[s] : Begun(r)
  /\ \A r \in launching \cup executing \cup listed : Begun(r)

(* A start that is awaited is awaited by one nested start, and a start that*)
(* awaits has no other one to wait for.                                    *)
Nested ==
  /\ \A n \in Starts : parent[n] # NoStart => pc[n] # "idle" /\ pc[parent[n]] = "nested"
  /\ \A m, n \in Starts : parent[m] = parent[n] /\ parent[m] # NoStart => m = n

(* The locals of a start are set in the order of its statements.           *)
Choosing == {"claiming", "nested"}
Fresh ==
  /\ \A s \in Starts : pc[s] \notin Choosing => todo[s] = {} /\ claimed[s] = {}
  /\ \A s \in Starts : pc[s] \in Inside => prev[s] = NoStart

(* The chain of promises: the starts that left an entry wait for each      *)
(* other one by one, at most one of them for nobody, and the map holds the *)
(* last.                                                                   *)
Registered(s) == pc[s] \notin {"idle", "called"}

Chain ==
  /\ \A s, t \in Starts : Registered(s) /\ Registered(t) /\ prev[s] = prev[t] => s = t
  /\ \A s \in Starts : Registered(s) /\ prev[s] # NoStart => Registered(prev[s])
  /\ tail = NoStart => \A s \in Starts : Registered(s) => prev[s] # NoStart
  /\ tail # NoStart => /\ Registered(tail)
                       /\ \A s \in Starts : Registered(s) => prev[s] # tail

(* The slots that a start still has are free, whatever it does with them.  *)
SlotsFree ==
  /\ Cardinality(Running) <= Max
  /\ \A s \in Starts : pc[s] \in Choosing \cup {"listing"} =>
       /\ Cardinality(Running \ claimed[s]) + slots[s] <= Max
       /\ Cardinality(claimed[s]) <= slots[s]

(* The runs a start has listed do not run, and the reaper, which lists     *)
(* running runs, has none of them.                                         *)
ListedIdle == \A s \in Starts : todo[s] \cap (Running \cup listed) = {}

(* What holds as long as no start has gone ahead of a lock that was held.  *)
(* The slots are free only if also the reaper has revived no run.          *)
Guarded == ~overtaken => Chain /\ ListedIdle /\ (~revived => SlotsFree)

IInv == TypeOK /\ HeldBegun /\ ClaimedOnce /\ Nested /\ Fresh /\ Guarded

----------------------------------------------------------------------------
(* Types                                                                   *)

(* A start that returns leaves every variable of the lock typed.           *)
LEMMA ReturnsType ==
  ASSUME TypeOK, NEW s \in Starts, Returns(s)
  PROVE  /\ tail' \in Starts \cup {NoStart}
         /\ pc' \in [Starts -> {"idle", "called", "waiting"} \cup Inside]
         /\ prev' \in [Starts -> Starts \cup {NoStart}]
         /\ aged' \in [Starts -> BOOLEAN]
         /\ slots' \in [Starts -> 0..Max]
         /\ todo' \in [Starts -> SUBSET Runs]
         /\ claimed' \in [Starts -> SUBSET Runs]
         /\ owes' \in [Starts -> 0..2]
         /\ parent' \in [Starts -> Starts \cup {NoStart}]
<1> USE StartConstants DEF TypeOK, Returns, Inside
<1>1. /\ {} \in SUBSET Runs /\ 0 \in 0..Max /\ 0 \in 0..2 /\ FALSE \in BOOLEAN
  BY SMT
<1>2. /\ tail' \in Starts \cup {NoStart}
      /\ pc' \in [Starts -> {"idle", "called", "waiting"} \cup Inside]
      /\ prev' \in [Starts -> Starts \cup {NoStart}]
      /\ aged' \in [Starts -> BOOLEAN]
  OBVIOUS
<1>3. /\ slots' \in [Starts -> 0..Max]
      /\ owes' \in [Starts -> 0..2]
  BY <1>1
<1>4. /\ todo' \in [Starts -> SUBSET Runs]
      /\ claimed' \in [Starts -> SUBSET Runs]
      /\ parent' \in [Starts -> Starts \cup {NoStart}]
  BY <1>1
<1>5. QED
  BY <1>2, <1>3, <1>4

(* The steps of the runs keep the types.                                   *)
LEMMA RunStepType ==
  ASSUME TypeOK, NEW r \in Runs, RunStep(r)
  PROVE  TypeOK'
<1> USE DEF TypeOK, runVars, lockVars, bodyVars, background
<1>1. ASSUME NEW S, NEW st \in {"queued", "terminal"}, Set(S, st)
      PROVE  status' \in [Runs -> {"absent", "queued", "running", "terminal"}]
  BY <1>1 DEF Set
<1>2. ASSUME NEW s \in Starts, Calls(s)
      PROVE  /\ pc' \in [Starts -> {"idle", "called", "waiting"} \cup Inside]
             /\ UNCHANGED <<tail, prev, aged, bodyVars>>
  BY <1>2 DEF Calls
<1>3. CASE PromoteRetry(r)
  BY <1>3, <1>1 DEF PromoteRetry
<1>4. CASE Execute(r)
  BY <1>4 DEF Execute
<1>5. CASE ExecuteFails(r)
  BY <1>5 DEF ExecuteFails
<1>6. CASE RunEnds(r)
  BY <1>6, <1>1 DEF RunEnds
<1>7. ASSUME NEW s \in Starts, Enqueue(r, s) PROVE TypeOK'
  BY <1>7, <1>1, <1>2 DEF Enqueue
<1>8. ASSUME NEW s \in Starts, RunLeaves(r, s) PROVE TypeOK'
  BY <1>8, <1>2 DEF RunLeaves
<1>9. ASSUME NEW s \in Starts, Reap(r, s) PROVE TypeOK'
  BY <1>9, <1>1, <1>2 DEF Reap
<1>10. ASSUME NEW s \in Starts \cup {NoStart}, CancelRun(r, s) PROVE TypeOK'
  BY <1>10, <1>1, <1>2 DEF CancelRun
<1>11. CASE ReapDetaches(r)
  <2>1. status' \in [Runs -> {"absent", "queued", "running", "terminal"}]
    BY <1>11 DEF ReapDetaches, Set
  <2>2. /\ listed' \in SUBSET Runs /\ orphans' \in SUBSET Runs /\ detached' \in SUBSET Runs
        /\ revived' \in BOOLEAN
    BY <1>11 DEF ReapDetaches
  <2>3. QED
    BY <1>11, <2>1, <2>2 DEF ReapDetaches
<1>12. CASE ReapList(r) \/ ReapSpares(r) \/ ProcessEnds(r)
  BY <1>12 DEF ReapList, ReapSpares, ProcessEnds
<1>13. QED
  BY <1>3, <1>4, <1>5, <1>6, <1>7, <1>8, <1>9, <1>10, <1>11, <1>12 DEF RunStep

(* Running is a finite set of runs.                                        *)
LEMMA FiniteRuns ==
  ASSUME NEW S \in SUBSET Runs
  PROVE  IsFiniteSet(S) /\ Cardinality(S) \in Nat
BY StartConstants, FS_Subset, FS_CardinalityType

(* The steps of the starts keep the types.                                 *)
LEMMA StartStepType ==
  ASSUME TypeOK, NEW s \in Starts, StartStep(s)
  PROVE  TypeOK'
<1> USE StartConstants DEF TypeOK, runVars, lockVars, bodyVars, background, Inside
<1>1. CASE Register(s)
  BY <1>1 DEF Register
<1>2. CASE Enter(s)
  BY <1>2 DEF Enter
<1>3. CASE Overtake(s)
  BY <1>3 DEF Overtake
<1>4. CASE TimePasses(s)
  BY <1>4 DEF TimePasses
<1>5. CASE Count(s)
  <2>1. Cardinality(Running) \in Nat
    BY FiniteRuns DEF Running, With
  <2>2. Max - Cardinality(Running) \in 0..Max
    BY <1>5, <2>1 DEF Count
  <2>3. QED
    BY <1>5, <2>2 DEF Count
<1>6. CASE NotInvokable(s) \/ NoSlots(s) \/ Throw(s)
  BY <1>6, ReturnsType DEF NotInvokable, NoSlots, Throw
<1>7. CASE List(s)
  <2>1. With("queued") \in SUBSET Runs
    BY DEF With
  <2>2. QED
    BY <1>7, <2>1 DEF List
<1>8. CASE Leave(s)
  <2>1. launching' \in SUBSET Runs
    BY <1>8 DEF Leave
  <2>2. QED
    BY <1>8, <2>1, ReturnsType DEF Leave
<1>9. ASSUME NEW r \in Runs, LoopAt(s, r) PROVE todo' \in [Starts -> SUBSET Runs]
  BY <1>9 DEF LoopAt
<1>10. ASSUME NEW r \in Runs, Claim(s, r) PROVE TypeOK'
  <2>1. claimed' \in [Starts -> SUBSET Runs]
    BY <1>10 DEF Claim
  <2>2. UNCHANGED pc
    BY <1>10 DEF Claim
  <2>3. QED
    BY <1>10, <1>9, <2>1, <2>2 DEF Claim, Set
<1>11. ASSUME NEW r \in Runs, ClaimLost(s, r) PROVE TypeOK'
  BY <1>11, <1>9 DEF ClaimLost
<1>12. ASSUME NEW r \in Runs, NEW p, CancelOnClaim(s, r, p) \/ SkipOnClaim(s, r, p)
       PROVE  TypeOK'
  <2>1. owes' \in [Starts -> 0..2]
    BY <1>12 DEF CancelOnClaim, SkipOnClaim
  <2>2. status' \in [Runs -> {"absent", "queued", "running", "terminal"}]
    BY <1>12 DEF CancelOnClaim, SkipOnClaim
  <2>3. QED
    BY <1>12, <1>9, <2>1, <2>2 DEF CancelOnClaim, SkipOnClaim
<1>13. ASSUME NEW n \in Starts, Nest(s, n) PROVE TypeOK'
  <2>1. owes' \in [Starts -> 0..2]
    BY <1>13 DEF Nest
  <2>2. QED
    BY <1>13, <2>1 DEF Nest
<1>14. QED
  BY <1>1, <1>2, <1>3, <1>4, <1>5, <1>6, <1>7, <1>8, <1>10, <1>11, <1>12, <1>13
    DEF StartStep, BodyStep

(* A restart keeps the types, and so does every step.                      *)
LEMMA NextType == TypeOK /\ [Next]_vars => TypeOK'
<1>1. ASSUME TypeOK, Crash PROVE TypeOK'
  <2>1. crashes' \in 0..MaxCrashes
    BY <1>1, StartConstants DEF TypeOK, Crash
  <2>2. /\ slots' \in [Starts -> 0..Max] /\ owes' \in [Starts -> 0..2]
    BY <1>1, StartConstants DEF Crash
  <2>3. /\ todo' \in [Starts -> SUBSET Runs] /\ claimed' \in [Starts -> SUBSET Runs]
        /\ launching' \in SUBSET Runs /\ executing' \in SUBSET Runs
    BY <1>1 DEF Crash
  <2>4. listed' \in SUBSET Runs /\ orphans' \in SUBSET Runs
    BY <1>1 DEF TypeOK, Crash
  <2>5. QED
    BY <1>1, <2>1, <2>2, <2>3, <2>4 DEF TypeOK, Crash
<1>2. ASSUME TypeOK, NEW s \in Starts, ResumeQueuedRuns(s) PROVE TypeOK'
  BY <1>2 DEF TypeOK, ResumeQueuedRuns, Calls, runVars, bodyVars, background
<1>3. ASSUME TypeOK, UNCHANGED vars PROVE TypeOK'
  BY <1>3 DEF TypeOK, vars, runVars, lockVars, bodyVars, background
<1>4. QED
  BY <1>1, <1>2, <1>3, RunStepType, StartStepType DEF Next

(* The server starts with nothing in memory.                               *)
LEMMA InitType == Init => TypeOK
<1>1. ASSUME Init PROVE TypeOK
  <2>1. /\ 0 \in 0..Max /\ 0 \in 0..2 /\ 0 \in 0..MaxCrashes
    BY StartConstants
  <2>2. /\ slots \in [Starts -> 0..Max] /\ owes \in [Starts -> 0..2] /\ crashes \in 0..MaxCrashes
    BY <1>1, <2>1 DEF Init
  <2>3. {} \in SUBSET Runs
    OBVIOUS
  <2>4. /\ todo \in [Starts -> SUBSET Runs] /\ claimed \in [Starts -> SUBSET Runs]
        /\ launching \in SUBSET Runs /\ executing \in SUBSET Runs
        /\ listed \in SUBSET Runs /\ orphans \in SUBSET Runs /\ detached \in SUBSET Runs
    BY <1>1, <2>3 DEF Init
  <2>5. QED
    BY <1>1, <2>2, <2>4 DEF TypeOK, Init
<1>2. QED
  BY <1>1

(* Every variable has its type, however many runs and starts there are.    *)
THEOREM TypeCorrect == Spec => []TypeOK
BY InitType, NextType, PTL DEF Spec

----------------------------------------------------------------------------
(* The runs that are claimed, handed over and executing                    *)

(* A step that claims nothing keeps them apart.                            *)
LEMMA HeldShrinks ==
  ASSUME TypeOK, HeldBegun, ClaimedOnce,
         \A q \in Runs : Begun(q) => Begun(q)',
         \A s \in Starts : claimed'[s] \subseteq claimed[s],
         listed' \subseteq listed \cup Running,
         \/ launching' \subseteq launching /\ executing' \subseteq executing
         \/ \E r \in launching : launching' = launching \ {r} /\ executing' = executing \cup {r}
         \/ /\ executing' = executing
            /\ \E s \in Starts : launching' = launching \cup claimed[s] /\ claimed'[s] = {}
  PROVE  HeldBegun' /\ ClaimedOnce'
<1>1. \A s \in Starts : claimed[s] \subseteq Runs
  BY DEF TypeOK
<1>2. launching \subseteq Runs /\ executing \subseteq Runs
  BY DEF TypeOK
<1>3. HeldBegun'
  <2>1. \A r \in listed \cup Running : r \in Runs /\ Begun(r)
    BY DEF HeldBegun, TypeOK, Running, With, Begun
  <2>2. QED
    BY <1>1, <1>2, <2>1 DEF HeldBegun
<1>4. ClaimedOnce'
  BY <1>1, <1>2 DEF ClaimedOnce
<1>5. QED
  BY <1>3, <1>4

(* A run that was claimed stays claimed or over: no step makes it queued.  *)
LEMMA BegunStays ==
  ASSUME TypeOK, [Next]_vars, NEW q \in Runs, Begun(q)
  PROVE  Begun(q)'
<1> USE DEF TypeOK, Begun, Set, Promotable, With
<1>1. ASSUME NEW s \in Starts, StartStep(s) PROVE Begun(q)'
  <2>1. ASSUME UNCHANGED status PROVE Begun(q)'
    BY <2>1
  <2>2. ASSUME NEW r \in Runs, Claim(s, r) PROVE Begun(q)'
    BY <2>2 DEF Claim
  <2>3. ASSUME NEW r \in Runs, NEW p \in Promotable, CancelOnClaim(s, r, p) \/ SkipOnClaim(s, r, p)
        PROVE  Begun(q)'
    <3>1. status' = [x \in Runs |-> IF x = r THEN "terminal"
                                    ELSE IF x = p THEN "queued" ELSE status[x]]
      BY <2>3 DEF CancelOnClaim, SkipOnClaim
    <3>2. p # q
      BY StartConstants
    <3>3. QED
      BY <3>1, <3>2
  <2>4. CASE Register(s) \/ Enter(s) \/ Overtake(s) \/ TimePasses(s) \/ Count(s) \/ List(s)
             \/ \E n \in Starts : Nest(s, n)
    BY <2>1, <2>4 DEF Register, Enter, Overtake, TimePasses, Count, List, Nest, runVars
  <2>5. CASE NotInvokable(s) \/ NoSlots(s) \/ Leave(s) \/ Throw(s) \/ \E r \in Runs : ClaimLost(s, r)
    BY <2>1, <2>5 DEF NotInvokable, NoSlots, Leave, Throw, ClaimLost, runVars
  <2>6. QED
    BY <1>1, <2>2, <2>3, <2>4, <2>5 DEF StartStep, BodyStep
<1>2. ASSUME NEW r \in Runs, RunStep(r) PROVE Begun(q)'
  BY <1>2 DEF RunStep, PromoteRetry, Execute, ExecuteFails, RunEnds, Enqueue, RunLeaves, Reap,
     CancelRun, ReapList, ReapSpares, ReapDetaches, ProcessEnds, runVars
<1>3. CASE Crash \/ UNCHANGED vars \/ \E s \in Starts : ResumeQueuedRuns(s)
  BY <1>3 DEF Crash, vars, runVars, ResumeQueuedRuns
<1>4. QED
  BY <1>1, <1>2, <1>3 DEF Next

(* A start that returns gives up its own claims and no others.             *)
LEMMA ReturnsClaims ==
  ASSUME TypeOK, NEW s \in Starts, Returns(s)
  PROVE  claimed'[s] = {} /\ \A t \in Starts : claimed'[t] \subseteq claimed[t]
BY DEF TypeOK, Returns

(* Claims, launches and executions stay apart in every step.               *)
LEMMA HeldKept ==
  ASSUME TypeOK, HeldBegun, ClaimedOnce, [Next]_vars
  PROVE  HeldBegun' /\ ClaimedOnce'
<1>0. \A q \in Runs : Begun(q) => Begun(q)'
  BY BegunStays
<1>1. ASSUME UNCHANGED <<launching, executing, claimed, listed>>
      PROVE  HeldBegun' /\ ClaimedOnce'
  BY <1>0, <1>1, HeldShrinks
<1>2. ASSUME NEW r \in Runs, RunStep(r) PROVE HeldBegun' /\ ClaimedOnce'
  <2>1. UNCHANGED claimed
    BY <1>2 DEF RunStep, PromoteRetry, Execute, ExecuteFails, RunEnds, Enqueue, RunLeaves, Reap,
     CancelRun, ReapList, ReapSpares, ReapDetaches, ProcessEnds, Calls, bodyVars
  <2>2. \/ launching' \subseteq launching /\ executing' \subseteq executing
        \/ r \in launching /\ launching' = launching \ {r} /\ executing' = executing \cup {r}
    BY <1>2 DEF RunStep, PromoteRetry, Execute, ExecuteFails, RunEnds, Enqueue, RunLeaves, Reap,
     CancelRun, ReapList, ReapSpares, ReapDetaches, ProcessEnds, runVars, Calls
  <2>3. listed' \subseteq listed \cup Running
    BY <1>2 DEF RunStep, PromoteRetry, Execute, ExecuteFails, RunEnds, Enqueue, RunLeaves, Reap,
     CancelRun, ReapList, ReapSpares, ReapDetaches, ProcessEnds, Running, With, background
  <2>4. QED
    BY <1>0, <2>1, <2>2, <2>3, HeldShrinks
<1>3. CASE \E s \in Starts : ResumeQueuedRuns(s) \/ Register(s) \/ Enter(s) \/ Overtake(s)
             \/ TimePasses(s) \/ Count(s) \/ List(s) \/ \E n \in Starts : Nest(s, n)
  BY <1>3, <1>1 DEF ResumeQueuedRuns, Calls, Register, Enter, Overtake, TimePasses, Count, List,
     Nest, runVars, bodyVars, background
<1>4. ASSUME NEW s \in Starts, NEW r \in Runs,
             ClaimLost(s, r) \/ \E p \in Promotable : CancelOnClaim(s, r, p) \/ SkipOnClaim(s, r, p)
      PROVE  HeldBegun' /\ ClaimedOnce'
  BY <1>4, <1>1 DEF ClaimLost, CancelOnClaim, SkipOnClaim, runVars, background
<1>5. ASSUME NEW s \in Starts, NotInvokable(s) \/ NoSlots(s) \/ Throw(s)
      PROVE  HeldBegun' /\ ClaimedOnce'
  <2>1. Returns(s) /\ UNCHANGED <<launching, executing, listed>>
    BY <1>5 DEF NotInvokable, NoSlots, Throw, runVars, background
  <2>2. QED
    BY <1>0, <2>1, ReturnsClaims, HeldShrinks
<1>6. ASSUME NEW s \in Starts, Leave(s) PROVE HeldBegun' /\ ClaimedOnce'
  <2>1. /\ Returns(s) /\ executing' = executing /\ launching' = launching \cup claimed[s]
        /\ listed' = listed
    BY <1>6 DEF Leave, background
  <2>2. QED
    BY <1>0, <2>1, ReturnsClaims, HeldShrinks
<1>7. ASSUME NEW s \in Starts, NEW r \in Runs, Claim(s, r) PROVE HeldBegun' /\ ClaimedOnce'
  <2>1. /\ status[r] = "queued" /\ status'[r] = "running"
        /\ claimed' = [claimed EXCEPT ![s] = @ \cup {r}]
        /\ UNCHANGED <<launching, executing, listed>>
    BY <1>7 DEF Claim, Set, background
  <2>2. r \notin launching \cup executing /\ \A t \in Starts : r \notin claimed[t]
    BY <2>1 DEF HeldBegun, Begun
  <2>3. Begun(r)'
    BY <2>1 DEF Begun
  <2>4. \A t \in Starts : claimed[t] \subseteq Runs /\ claimed'[t] \subseteq claimed[t] \cup {r}
                          /\ (t # s => claimed'[t] = claimed[t])
    BY <2>1 DEF TypeOK
  <2>5. HeldBegun'
    BY <1>0, <2>1, <2>3, <2>4 DEF HeldBegun, TypeOK
  <2>6. ClaimedOnce'
    BY <2>1, <2>2, <2>4 DEF ClaimedOnce
  <2>7. QED
    BY <2>5, <2>6
<1>8. CASE Crash
  <2>1. /\ launching' = {} /\ executing' = {} /\ listed' = {} /\ \A s \in Starts : claimed'[s] = {}
    BY <1>8 DEF Crash
  <2>2. QED
    BY <2>1 DEF HeldBegun, ClaimedOnce
<1>9. CASE UNCHANGED vars
  BY <1>9, <1>1 DEF vars, runVars, bodyVars, background
<1>10. QED
  BY <1>2, <1>3, <1>4, <1>5, <1>6, <1>7, <1>8, <1>9 DEF Next, StartStep, BodyStep

(* Whatever overtakes what, and however often the server restarts, no run  *)
(* is handed to executeRun twice.                                          *)
THEOREM ExecutedOnce == Spec => []ClaimedOnce
<1> DEFINE I == TypeOK /\ HeldBegun /\ ClaimedOnce
<1>1. ASSUME Init PROVE I
  <2>1. launching = {} /\ executing = {} /\ listed = {} /\ \A s \in Starts : claimed[s] = {}
    BY <1>1 DEF Init
  <2>2. QED
    BY <1>1, <2>1, InitType DEF HeldBegun, ClaimedOnce
<1>2. I /\ [Next]_vars => I'
  BY NextType, HeldKept
<1>3. QED
  BY <1>1, <1>2, PTL DEF Spec

----------------------------------------------------------------------------
(* The lock                                                                *)

(* The part of the invariant that is about the lock, with Chain kept by    *)
(* every step but Overtake.                                                *)
LockKept == Nested' /\ Fresh' /\ (Chain => Chain')

(* A step that moves no start.                                             *)
LEMMA StandStill ==
  ASSUME TypeOK, Nested, Fresh, UNCHANGED <<tail, pc, prev, parent>>,
         \A t \in Starts : pc[t] # "claiming" => todo'[t] = todo[t] /\ claimed'[t] = claimed[t]
  PROVE  LockKept
<1>1. Nested'
  BY DEF Nested
<1>2. Fresh'
  BY DEF Fresh, Choosing
<1>3. Chain => Chain'
  BY DEF Chain, Registered
<1>4. QED
  BY <1>1, <1>2, <1>3 DEF LockKept

(* A start is called, by no other start.                                   *)
LEMMA CallKeepsLock ==
  ASSUME TypeOK, Nested, Fresh, NEW s \in Starts, Calls(s)
  PROVE  LockKept
<1>1. /\ pc[s] = "idle" /\ pc'[s] = "called" /\ \A t \in Starts \ {s} : pc'[t] = pc[t]
      /\ UNCHANGED <<tail, prev, todo, claimed, parent>>
  BY DEF Calls, TypeOK, bodyVars
<1>2. Nested'
  BY <1>1 DEF Nested, TypeOK
<1>3. Fresh'
  BY <1>1 DEF Fresh, Choosing, Inside
<1>4. Chain => Chain'
  BY <1>1 DEF Chain, Registered, TypeOK
<1>5. QED
  BY <1>2, <1>3, <1>4 DEF LockKept

(* The new entry of the map waits for the one it replaces, which was the   *)
(* end of the chain.                                                       *)
LEMMA RegisterKeepsLock ==
  ASSUME TypeOK, Nested, Fresh, NEW s \in Starts, Register(s)
  PROVE  LockKept
<1>1. /\ pc[s] = "called" /\ pc'[s] = "waiting" /\ \A t \in Starts \ {s} : pc'[t] = pc[t]
      /\ prev'[s] = tail /\ \A t \in Starts \ {s} : prev'[t] = prev[t]
      /\ tail' = s
      /\ UNCHANGED <<todo, claimed, parent>>
  BY DEF Register, TypeOK, bodyVars
<1>2. Nested'
  BY <1>1 DEF Nested, TypeOK
<1>3. Fresh'
  BY <1>1 DEF Fresh, Choosing, Inside
<1>4. Chain => Chain'
  BY <1>1, StartConstants DEF Chain, Registered, TypeOK
<1>5. QED
  BY <1>2, <1>3, <1>4 DEF LockKept

(* A start goes from one statement to the next.                            *)
LEMMA AdvanceKeepsLock ==
  ASSUME TypeOK, Nested, Fresh, NEW s \in Starts,
         NEW l \in {"counting", "listing", "claiming"},
         pc[s] \in {"waiting", "counting", "listing"}, pc[s] = "waiting" => prev[s] = NoStart,
         pc' = [pc EXCEPT ![s] = l],
         UNCHANGED <<tail, prev, claimed, parent>>,
         \A t \in Starts \ {s} : todo'[t] = todo[t],
         l # "claiming" => todo'[s] = todo[s]
  PROVE  LockKept
<1>1. pc'[s] = l /\ \A t \in Starts \ {s} : pc'[t] = pc[t]
  BY DEF TypeOK
<1>2. Nested'
  BY <1>1 DEF Nested, TypeOK
<1>3. Fresh'
  BY <1>1 DEF Fresh, Choosing, Inside
<1>4. Chain => Chain'
  BY <1>1 DEF Chain, Registered
<1>5. QED
  BY <1>2, <1>3, <1>4 DEF LockKept

(* A start that gives up waiting still leaves the locals in order.         *)
LEMMA OvertakeKeepsOrder ==
  ASSUME TypeOK, Nested, Fresh, NEW s \in Starts, Overtake(s)
  PROVE  Nested' /\ Fresh'
<1>1. /\ pc[s] = "waiting" /\ pc'[s] = "counting" /\ \A t \in Starts \ {s} : pc'[t] = pc[t]
      /\ prev'[s] = NoStart /\ \A t \in Starts \ {s} : prev'[t] = prev[t]
      /\ UNCHANGED <<todo, claimed, parent>>
  BY DEF Overtake, TypeOK, bodyVars
<1>2. Nested'
  BY <1>1 DEF Nested, TypeOK
<1>3. Fresh'
  BY <1>1 DEF Fresh, Choosing, Inside
<1>4. QED
  BY <1>2, <1>3

(* A cancellation awaits a further start.                                  *)
LEMMA NestKeepsLock ==
  ASSUME TypeOK, Nested, Fresh, NEW s \in Starts, NEW n \in Starts, Nest(s, n)
  PROVE  LockKept
<1>1. /\ pc[s] = "claiming" /\ pc'[s] = "nested" /\ pc[n] = "idle" /\ pc'[n] = "called"
      /\ \A t \in Starts \ {s, n} : pc'[t] = pc[t]
      /\ parent'[n] = s /\ \A t \in Starts \ {n} : parent'[t] = parent[t]
      /\ UNCHANGED <<tail, prev, todo, claimed>>
  BY DEF Nest, TypeOK
<1>2. Nested'
  BY <1>1 DEF Nested, TypeOK
<1>3. Fresh'
  BY <1>1 DEF Fresh, Choosing, Inside
<1>4. Chain => Chain'
  BY <1>1 DEF Chain, Registered, TypeOK
<1>5. QED
  BY <1>2, <1>3, <1>4 DEF LockKept

(* A start that returns takes itself out of the chain.                     *)
LEMMA ReturnsKeepsLock ==
  ASSUME TypeOK, Nested, Fresh, NEW s \in Starts, Returns(s),
         pc[s] \in {"counting", "listing", "claiming"}
  PROVE  LockKept
<1>1. /\ pc'[s] = "idle"
      /\ \A t \in Starts \ {s} : pc'[t] = IF t = parent[s] THEN "claiming" ELSE pc[t]
  BY DEF Returns, TypeOK
<1>2. \A t \in Starts : prev'[t] = IF prev[t] = s THEN NoStart ELSE prev[t]
  BY DEF Returns
<1>3. tail' = IF tail = s THEN NoStart ELSE tail
  BY DEF Returns
<1>4. /\ parent'[s] = NoStart /\ \A t \in Starts \ {s} : parent'[t] = parent[t]
      /\ todo'[s] = {} /\ \A t \in Starts \ {s} : todo'[t] = todo[t]
      /\ claimed'[s] = {} /\ \A t \in Starts \ {s} : claimed'[t] = claimed[t]
  BY DEF Returns, TypeOK
<1>5. parent[s] # NoStart => pc[parent[s]] = "nested"
  BY DEF Nested
<1>6. prev[s] = NoStart
  BY DEF Fresh, Inside
<1>7. Nested'
  BY <1>1, <1>4, <1>5 DEF Nested, TypeOK
<1>8. Fresh'
  <2>1. ASSUME NEW t \in Starts PROVE pc'[t] \notin Choosing => todo'[t] = {} /\ claimed'[t] = {}
    BY <1>1, <1>4, <1>5 DEF Fresh, Choosing
  <2>2. ASSUME NEW t \in Starts, pc'[t] \in Inside PROVE prev'[t] = NoStart
    <3>1. pc[t] \in Inside
      BY <1>1, <1>5, <2>2, StartConstants DEF Inside
    <3>2. QED
      BY <1>2, <3>1 DEF Fresh
  <2>3. QED
    BY <2>1, <2>2 DEF Fresh
<1>9. \A t \in Starts : Registered(t)' <=> Registered(t) /\ t # s
  BY <1>1, <1>5, StartConstants DEF Registered, TypeOK
<1>10. Registered(s)
  BY DEF Registered
<1>11. Chain => Chain'
  BY <1>2, <1>3, <1>6, <1>9, <1>10, StartConstants DEF Chain, TypeOK
<1>12. QED
  BY <1>7, <1>8, <1>11 DEF LockKept

(* A restart leaves no entry.                                              *)
LEMMA CrashKeepsLock == Crash => LockKept
<1>1. ASSUME Crash, NEW s \in Starts
      PROVE  /\ pc'[s] = "idle" /\ parent'[s] = NoStart /\ todo'[s] = {} /\ claimed'[s] = {}
  BY <1>1 DEF Crash
<1>2. Crash => tail' = NoStart
  BY DEF Crash
<1>3. QED
  BY <1>1, <1>2 DEF LockKept, Nested, Fresh, Chain, Registered, Inside

(* The lock in a step of the runs.                                         *)
LEMMA RunStepKeepsLock ==
  ASSUME TypeOK, Nested, Fresh, NEW r \in Runs, RunStep(r)
  PROVE  LockKept
<1>1. CASE UNCHANGED <<lockVars, bodyVars>>
  BY <1>1, StandStill DEF lockVars, bodyVars
<1>2. ASSUME NEW s \in Starts, Calls(s) PROVE LockKept
  BY <1>2, CallKeepsLock
<1>3. QED
  BY <1>1, <1>2 DEF RunStep, PromoteRetry, Execute, ExecuteFails, RunEnds, Enqueue, RunLeaves, Reap,
     CancelRun, ReapList, ReapSpares, ReapDetaches, ProcessEnds

(* The lock in a step of a start.                                          *)
LEMMA StartStepKeepsLock ==
  ASSUME TypeOK, Nested, Fresh, NEW s \in Starts, StartStep(s)
  PROVE  Nested' /\ Fresh' /\ (Chain /\ ~overtaken' => Chain')
<1>1. ASSUME LockKept PROVE Nested' /\ Fresh' /\ (Chain /\ ~overtaken' => Chain')
  BY <1>1 DEF LockKept
<1>2. CASE Register(s)
  BY <1>2, <1>1, RegisterKeepsLock
<1>3. CASE Overtake(s)
  BY <1>3, OvertakeKeepsOrder DEF Overtake
<1>4. CASE Enter(s)
  <2>1. LockKept
    BY <1>4, AdvanceKeepsLock DEF Enter, bodyVars
  <2>2. QED
    BY <1>1, <2>1
<1>5. CASE Count(s)
  <2>1. LockKept
    BY <1>5, AdvanceKeepsLock DEF Count
  <2>2. QED
    BY <1>1, <2>1
<1>6. CASE List(s)
  <2>1. \A t \in Starts \ {s} : todo'[t] = todo[t]
    BY <1>6 DEF List, TypeOK
  <2>2. LockKept
    BY <1>6, <2>1, AdvanceKeepsLock DEF List
  <2>3. QED
    BY <1>1, <2>2
<1>7. CASE TimePasses(s)
  BY <1>7, <1>1, StandStill DEF TimePasses, bodyVars
<1>8. CASE NotInvokable(s) \/ NoSlots(s) \/ Leave(s) \/ Throw(s)
  <2>1. Returns(s) /\ pc[s] \in {"counting", "listing", "claiming"}
    BY <1>8 DEF NotInvokable, NoSlots, Leave, Throw
  <2>2. QED
    BY <1>1, <2>1, ReturnsKeepsLock
<1>9. ASSUME NEW r \in Runs,
             \/ Claim(s, r) \/ ClaimLost(s, r)
             \/ \E p \in Promotable : CancelOnClaim(s, r, p) \/ SkipOnClaim(s, r, p)
      PROVE  LockKept
  <2>1. /\ LoopAt(s, r) /\ UNCHANGED <<lockVars, parent>>
        /\ claimed' = claimed \/ claimed' = [claimed EXCEPT ![s] = @ \cup {r}]
    BY <1>9 DEF Claim, ClaimLost, CancelOnClaim, SkipOnClaim
  <2>2. /\ pc[s] = "claiming"
        /\ \A t \in Starts \ {s} : todo'[t] = todo[t] /\ claimed'[t] = claimed[t]
    BY <2>1 DEF LoopAt, TypeOK
  <2>3. QED
    BY <2>1, <2>2, StandStill DEF lockVars
<1>10. ASSUME NEW n \in Starts, Nest(s, n) PROVE LockKept
  BY <1>10, NestKeepsLock
<1>11. QED
  BY <1>1, <1>2, <1>3, <1>4, <1>5, <1>6, <1>7, <1>8, <1>9, <1>10 DEF StartStep, BodyStep

(* The lock in every step.                                                 *)
LEMMA NextKeepsLock ==
  ASSUME TypeOK, Nested, Fresh, [Next]_vars
  PROVE  Nested' /\ Fresh' /\ (Chain /\ ~overtaken' => Chain')
<1>1. ASSUME LockKept PROVE Nested' /\ Fresh' /\ (Chain /\ ~overtaken' => Chain')
  BY <1>1 DEF LockKept
<1>2. CASE UNCHANGED vars
  BY <1>1, <1>2, StandStill DEF vars, lockVars, bodyVars
<1>3. ASSUME NEW s \in Starts, ResumeQueuedRuns(s) PROVE LockKept
  BY <1>3, CallKeepsLock DEF ResumeQueuedRuns
<1>4. QED
  BY <1>1, <1>2, <1>3, CrashKeepsLock, RunStepKeepsLock, StartStepKeepsLock DEF Next

(* Two starts inside would both wait for nobody.                           *)
LEMMA OneInside ==
  ASSUME Fresh, Chain, NEW s \in Starts, NEW t \in Starts, pc[s] \in Inside, pc[t] \in Inside
  PROVE  s = t
<1>1. Registered(s) /\ Registered(t)
  BY DEF Registered, Inside
<1>2. prev[s] = prev[t]
  BY DEF Fresh
<1>3. QED
  BY <1>1, <1>2 DEF Chain

----------------------------------------------------------------------------
(* The slots                                                               *)

(* A set of runs with one more run, and two sets of runs together.         *)
LEMMA Counted ==
  ASSUME NEW S \in SUBSET Runs, NEW T \in SUBSET Runs, NEW r \in Runs
  PROVE  /\ Cardinality(S \cup {r}) <= Cardinality(S) + 1
         /\ Cardinality(S \cup T) <= Cardinality(S) + Cardinality(T)
<1>1. IsFiniteSet(S) /\ IsFiniteSet(T) /\ Cardinality(S) \in Nat /\ Cardinality(T) \in Nat
  BY FiniteRuns
<1>2. Cardinality(S \cup {r}) <= Cardinality(S) + 1
  <2>1. Cardinality(S \cup {r}) = IF r \in S THEN Cardinality(S) ELSE Cardinality(S) + 1
    BY <1>1, FS_AddElement, Zenon
  <2>2. QED
    BY <1>1, <2>1
<1>3. S \cap T \in SUBSET Runs
  OBVIOUS
<1>4. Cardinality(S \cap T) \in Nat
  BY <1>3, FiniteRuns
<1>5. Cardinality(S \cup T) = Cardinality(S) + Cardinality(T) - Cardinality(S \cap T)
  BY <1>1, FS_Union
<1>6. QED
  BY <1>1, <1>2, <1>4, <1>5

(* A step after which no further run is running.                           *)
LEMMA SlotsShrink ==
  ASSUME TypeOK, SlotsFree,
         Running' \subseteq Running,
         \A t \in Starts : pc'[t] \in Choosing \cup {"listing"} =>
           /\ pc[t] \in Choosing \cup {"listing"}
           /\ slots'[t] = slots[t] /\ claimed'[t] = claimed[t]
  PROVE  SlotsFree'
<1>1. Running \in SUBSET Runs
  BY DEF Running, With
<1>2. ASSUME NEW S \in SUBSET Running, NEW T \in SUBSET S
      PROVE  Cardinality(T) <= Cardinality(S) /\ Cardinality(T) \in Nat /\ Cardinality(S) \in Nat
  BY <1>1, FiniteRuns, FS_Subset
<1>3. Cardinality(Running') <= Max
  <2>1. Cardinality(Running') <= Cardinality(Running)
    BY <1>2
  <2>2. Cardinality(Running') \in Nat /\ Cardinality(Running) \in Nat
    BY <1>2
  <2>3. QED
    BY <2>1, <2>2, StartConstants DEF SlotsFree
<1>4. ASSUME NEW t \in Starts, pc'[t] \in Choosing \cup {"listing"}
      PROVE  /\ Cardinality(Running' \ claimed'[t]) + slots'[t] <= Max
             /\ Cardinality(claimed'[t]) <= slots'[t]
  <2>1. /\ Cardinality(Running \ claimed[t]) + slots[t] <= Max
        /\ Cardinality(claimed[t]) <= slots[t]
        /\ slots'[t] = slots[t] /\ claimed'[t] = claimed[t]
    BY <1>4 DEF SlotsFree
  <2>2. /\ Cardinality(Running' \ claimed[t]) <= Cardinality(Running \ claimed[t])
        /\ Cardinality(Running' \ claimed[t]) \in Nat /\ Cardinality(Running \ claimed[t]) \in Nat
    BY <1>2
  <2>3. slots[t] \in Nat
    BY StartConstants DEF TypeOK
  <2>4. QED
    BY <2>1, <2>2, <2>3, StartConstants
<1>5. QED
  BY <1>3, <1>4 DEF SlotsFree

(* The count leaves as many slots as it found free.                        *)
LEMMA CountKeepsSlots ==
  ASSUME TypeOK, Fresh, Chain, SlotsFree, NEW s \in Starts, Count(s)
  PROVE  SlotsFree'
<1>1. /\ pc[s] = "counting" /\ Cardinality(Running) < Max
      /\ slots'[s] = Max - Cardinality(Running)
      /\ \A t \in Starts \ {s} : pc'[t] = pc[t]
      /\ UNCHANGED <<status, todo, claimed>>
  BY DEF Count, TypeOK, runVars
<1>2. Running' = Running /\ Running \in SUBSET Runs
  BY <1>1 DEF Running, With
<1>3. claimed[s] = {}
  BY <1>1 DEF Fresh, Choosing
<1>4. Cardinality(Running) \in Nat
  BY <1>2, FiniteRuns
<1>5. Cardinality(claimed[s]) = 0 /\ Running \ claimed[s] = Running
  BY <1>3, FS_EmptySet
<1>6. ASSUME NEW t \in Starts, pc'[t] \in Choosing \cup {"listing"} PROVE t = s
  BY <1>1, <1>6, OneInside DEF Inside, Choosing
<1>7. SlotsFree'
  <2>1. Cardinality(Running') <= Max
    BY <1>2 DEF SlotsFree
  <2>2. /\ Cardinality(Running' \ claimed'[s]) + slots'[s] <= Max
        /\ Cardinality(claimed'[s]) <= slots'[s]
    <3>1. claimed'[s] = claimed[s]
      BY <1>1
    <3>2. Cardinality(Running' \ claimed'[s]) = Cardinality(Running)
      BY <1>2, <1>5, <3>1
    <3>3. Cardinality(claimed'[s]) = 0
      BY <1>5, <3>1
    <3>4. QED
      BY <1>1, <1>4, <3>2, <3>3, StartConstants
  <2>3. QED
    BY <1>6, <2>1, <2>2 DEF SlotsFree
<1>8. QED
  BY <1>7

(* The list takes no slot.                                                 *)
LEMMA ListKeepsSlots ==
  ASSUME TypeOK, SlotsFree, NEW s \in Starts, List(s)
  PROVE  SlotsFree'
<1>1. /\ pc[s] = "listing" /\ \A t \in Starts \ {s} : pc'[t] = pc[t]
      /\ UNCHANGED <<status, slots, claimed>>
  BY DEF List, TypeOK, runVars
<1>2. Running' = Running
  BY <1>1 DEF Running, With
<1>3. QED
  BY <1>1, <1>2 DEF SlotsFree

(* A claim takes one of the slots of the only start that chooses.          *)
LEMMA ClaimKeepsSlots ==
  ASSUME TypeOK, Fresh, Chain, SlotsFree, NEW s \in Starts, NEW r \in Runs, Claim(s, r)
  PROVE  SlotsFree'
<1>1. /\ pc[s] = "claiming" /\ Cardinality(claimed[s]) < slots[s]
      /\ claimed'[s] = claimed[s] \cup {r}
      /\ UNCHANGED <<pc, slots>>
  BY DEF Claim, LoopAt, TypeOK, lockVars
<1>2. Running' = Running \cup {r}
  BY DEF Claim, Set, Running, With
<1>3. /\ Running \in SUBSET Runs /\ claimed[s] \in SUBSET Runs /\ claimed'[s] \in SUBSET Runs
      /\ slots[s] \in Nat
  BY <1>1, StartConstants DEF Running, With, TypeOK
<1>4. /\ Cardinality(Running \ claimed[s]) + slots[s] <= Max
      /\ Cardinality(Running \ claimed[s]) \in Nat /\ Cardinality(claimed[s]) \in Nat
  BY <1>1, <1>3, FiniteRuns DEF SlotsFree, Choosing
<1>5. /\ Cardinality(claimed'[s]) <= Cardinality(claimed[s]) + 1
      /\ Cardinality(claimed'[s]) \in Nat
  BY <1>1, <1>3, FiniteRuns, Counted
<1>6. /\ Cardinality(Running' \ claimed'[s]) <= Cardinality(Running \ claimed[s])
      /\ Cardinality(Running' \ claimed'[s]) \in Nat
  <2>1. Running' \ claimed'[s] \in SUBSET (Running \ claimed[s])
    BY <1>1, <1>2
  <2>2. QED
    BY <1>3, <2>1, FiniteRuns, FS_Subset
<1>7. Cardinality(Running') <= Max
  <2> DEFINE A == Running \ claimed[s]
             B == claimed'[s]
  <2>1. A \in SUBSET Runs /\ B \in SUBSET Runs /\ A \cup B \in SUBSET Runs
    BY <1>3
  <2>2. /\ IsFiniteSet(A \cup B) /\ Cardinality(A \cup B) \in Nat
        /\ Cardinality(A \cup B) <= Cardinality(A) + Cardinality(B)
    BY <2>1, Counted, FiniteRuns
  <2>3. Running' \subseteq A \cup B
    BY <1>1, <1>2
  <2>4. Cardinality(Running') <= Cardinality(A \cup B) /\ Cardinality(Running') \in Nat
    BY <2>2, <2>3, FS_Subset, FS_CardinalityType
  <2>5. QED
    BY <1>1, <1>3, <1>4, <1>5, <2>2, <2>4, StartConstants
<1>8. ASSUME NEW t \in Starts, pc[t] \in Choosing \cup {"listing"} PROVE t = s
  BY <1>1, <1>8, OneInside DEF Inside, Choosing
<1>9. SlotsFree'
  <2>1. slots'[s] = slots[s] /\ \A t \in Starts : pc'[t] = pc[t]
    BY <1>1
  <2>2. Cardinality(claimed'[s]) <= slots'[s]
    BY <1>1, <1>3, <1>4, <1>5, <2>1
  <2>3. Cardinality(Running' \ claimed'[s]) + slots'[s] <= Max
    BY <1>3, <1>4, <1>6, <2>1, StartConstants
  <2>4. QED
    BY <1>7, <1>8, <2>1, <2>2, <2>3 DEF SlotsFree
<1>10. QED
  BY <1>9

(* A return frees slots.                                                   *)
LEMMA ReturnsKeepsSlots ==
  ASSUME TypeOK, Nested, Fresh, SlotsFree,
         NEW s \in Starts, Returns(s), UNCHANGED status
  PROVE  SlotsFree'
<1>1. Running' = Running
  BY DEF Running, With
<1>2. /\ pc'[s] = "idle"
      /\ \A t \in Starts \ {s} : pc'[t] = IF t = parent[s] THEN "claiming" ELSE pc[t]
      /\ \A t \in Starts \ {s} : slots'[t] = slots[t] /\ claimed'[t] = claimed[t]
  BY DEF Returns, TypeOK
<1>3. \A t \in Starts : t = parent[s] => pc[t] = "nested"
  BY StartConstants DEF Nested
<1>4. ASSUME NEW t \in Starts, pc'[t] \in Choosing \cup {"listing"}
      PROVE  /\ pc[t] \in Choosing \cup {"listing"}
             /\ slots'[t] = slots[t] /\ claimed'[t] = claimed[t]
  BY <1>2, <1>3, <1>4 DEF Choosing
<1>5. QED
  BY <1>1, <1>4, SlotsShrink

(* A step that leaves the locals of the starts alone frees slots, if it    *)
(* makes no run running and if no start comes to choose by it.             *)
LEMMA CalmKeepsSlots ==
  ASSUME TypeOK, SlotsFree, UNCHANGED <<slots, claimed>>,
         \A q \in Runs : status'[q] = "running" => status[q] = "running",
         \A t \in Starts : pc'[t] \in Choosing \cup {"listing"} => pc[t] \in Choosing \cup {"listing"}
  PROVE  SlotsFree'
<1>1. Running' \subseteq Running
  BY DEF Running, With
<1>2. QED
  BY <1>1, SlotsShrink

(* The slots in a step of the runs.                                        *)
LEMMA RunStepKeepsSlots ==
  ASSUME TypeOK, SlotsFree, NEW r \in Runs, RunStep(r), ~revived'
  PROVE  SlotsFree'
<1>1. UNCHANGED bodyVars
  BY DEF RunStep, PromoteRetry, Execute, ExecuteFails, RunEnds, Enqueue, RunLeaves, Reap,
     CancelRun, ReapList, ReapSpares, ReapDetaches, ProcessEnds, Calls
<1>2. \/ status' = status \/ \E st \in {"queued", "terminal"} : Set({r}, st)
      \/ Set({r}, "running") /\ status[r] = "running"
  BY DEF RunStep, PromoteRetry, Execute, ExecuteFails, RunEnds, Enqueue, RunLeaves, Reap,
     CancelRun, ReapList, ReapSpares, ReapDetaches, ProcessEnds, runVars
<1>3. \A q \in Runs : status'[q] = "running" => status[q] = "running"
  BY <1>2 DEF Set
<1>4. pc' = pc \/ \E s \in Starts : pc' = [pc EXCEPT ![s] = "called"]
  BY DEF RunStep, PromoteRetry, Execute, ExecuteFails, RunEnds, Enqueue, RunLeaves, Reap,
     CancelRun, ReapList, ReapSpares, ReapDetaches, ProcessEnds, Calls, lockVars
<1>5. \A t \in Starts : pc'[t] \in Choosing \cup {"listing"} => pc[t] \in Choosing \cup {"listing"}
  BY <1>4 DEF TypeOK, Choosing
<1>6. QED
  BY <1>1, <1>3, <1>5, CalmKeepsSlots DEF bodyVars

(* The slots in a step of a start.                                         *)
LEMMA StartStepKeepsSlots ==
  ASSUME TypeOK, Nested, Fresh, Chain, SlotsFree, NEW s \in Starts, StartStep(s),
         ~overtaken'
  PROVE  SlotsFree'
<1>1. ASSUME Register(s) \/ Enter(s) \/ TimePasses(s) PROVE SlotsFree'
  <2>1. \A t \in Starts : pc'[t] \in Choosing \cup {"listing"} => pc[t] \in Choosing \cup {"listing"}
    BY <1>1 DEF Register, Enter, TimePasses, TypeOK, Choosing
  <2>2. UNCHANGED <<status, bodyVars>>
    BY <1>1 DEF Register, Enter, TimePasses, runVars
  <2>3. QED
    BY <2>1, <2>2, CalmKeepsSlots DEF bodyVars
<1>2. ~Overtake(s)
  BY DEF Overtake
<1>3. CASE Count(s)
  BY <1>3, CountKeepsSlots
<1>4. CASE List(s)
  BY <1>4, ListKeepsSlots
<1>5. CASE NotInvokable(s) \/ NoSlots(s) \/ Leave(s) \/ Throw(s)
  <2>1. Returns(s) /\ UNCHANGED status
    BY <1>5 DEF NotInvokable, NoSlots, Leave, Throw, runVars
  <2>2. QED
    BY <2>1, ReturnsKeepsSlots
<1>6. ASSUME NEW r \in Runs, Claim(s, r) PROVE SlotsFree'
  BY <1>6, ClaimKeepsSlots
<1>7. ASSUME NEW r \in Runs,
             ClaimLost(s, r) \/ \E p \in Promotable : CancelOnClaim(s, r, p) \/ SkipOnClaim(s, r, p)
      PROVE  SlotsFree'
  <2>1. UNCHANGED <<pc, slots, claimed>>
    BY <1>7 DEF ClaimLost, CancelOnClaim, SkipOnClaim, lockVars
  <2>2. \A q \in Runs : status'[q] = "running" => status[q] = "running"
    BY <1>7 DEF ClaimLost, CancelOnClaim, SkipOnClaim, runVars
  <2>3. QED
    BY <2>1, <2>2, CalmKeepsSlots
<1>8. ASSUME NEW n \in Starts, Nest(s, n) PROVE SlotsFree'
  <2>1. \A t \in Starts : pc'[t] \in Choosing \cup {"listing"} => pc[t] \in Choosing \cup {"listing"}
    BY <1>8 DEF Nest, TypeOK, Choosing
  <2>2. UNCHANGED <<status, slots, todo, claimed>>
    BY <1>8 DEF Nest, runVars
  <2>3. QED
    BY <2>1, <2>2, CalmKeepsSlots
<1>9. QED
  BY <1>1, <1>2, <1>3, <1>4, <1>5, <1>6, <1>7, <1>8 DEF StartStep, BodyStep

(* The slots in every step that overtakes no one and revives no run.       *)
LEMMA NextKeepsSlots ==
  ASSUME TypeOK, Nested, Fresh, Chain, SlotsFree, [Next]_vars, ~overtaken', ~revived'
  PROVE  SlotsFree'
<1>1. CASE UNCHANGED vars
  BY <1>1, CalmKeepsSlots DEF vars, runVars, lockVars, bodyVars
<1>2. ASSUME NEW s \in Starts, ResumeQueuedRuns(s) PROVE SlotsFree'
  <2>1. pc' = [pc EXCEPT ![s] = "called"] /\ UNCHANGED <<status, slots, todo, claimed>>
    BY <1>2 DEF ResumeQueuedRuns, Calls, runVars, bodyVars
  <2>2. \A t \in Starts : pc'[t] \in Choosing \cup {"listing"} => pc[t] \in Choosing \cup {"listing"}
    BY <2>1 DEF TypeOK, Choosing
  <2>3. QED
    BY <2>1, <2>2, CalmKeepsSlots
<1>3. CASE Crash
  <2>1. Running' = Running
    BY <1>3 DEF Crash, Running, With
  <2>2. \A t \in Starts : pc'[t] = "idle"
    BY <1>3 DEF Crash
  <2>3. QED
    BY <2>1, <2>2, SlotsShrink DEF Choosing
<1>4. QED
  BY <1>1, <1>2, <1>3, RunStepKeepsSlots, StartStepKeepsSlots DEF Next

----------------------------------------------------------------------------
(* The listed runs                                                         *)

(* A step that lists nothing and makes no listed run running.              *)
LEMMA IdleShrinks ==
  ASSUME TypeOK, ListedIdle,
         \A t \in Starts : todo'[t] \subseteq todo[t],
         Running' \cup listed' \subseteq Running \cup listed
  PROVE  ListedIdle'
BY DEF ListedIdle

(* The listed runs in a step of the runs: the reaper makes a run running   *)
(* that it has listed itself.                                              *)
LEMMA RunStepKeepsIdle ==
  ASSUME TypeOK, ListedIdle, NEW r \in Runs, RunStep(r)
  PROVE  ListedIdle'
<1>1. UNCHANGED todo
  BY DEF RunStep, PromoteRetry, Execute, ExecuteFails, RunEnds, Enqueue, RunLeaves, Reap,
     CancelRun, ReapList, ReapSpares, ReapDetaches, ProcessEnds, Calls, bodyVars
<1>2. \/ status' = status \/ \E st \in {"queued", "terminal"} : Set({r}, st)
      \/ Set({r}, "running") /\ r \in listed
  BY DEF RunStep, PromoteRetry, Execute, ExecuteFails, RunEnds, Enqueue, RunLeaves, Reap,
     CancelRun, ReapList, ReapSpares, ReapDetaches, ProcessEnds, runVars
<1>3. listed' \subseteq listed \cup Running
  BY DEF RunStep, PromoteRetry, Execute, ExecuteFails, RunEnds, Enqueue, RunLeaves, Reap,
     CancelRun, ReapList, ReapSpares, ReapDetaches, ProcessEnds, Running, With, background
<1>4. Running' \subseteq Running \cup listed
  BY <1>2 DEF Set, Running, With
<1>5. QED
  BY <1>1, <1>3, <1>4, IdleShrinks

(* A start lists queued runs, which neither run nor are on the list of the *)
(* reaper.                                                                 *)
LEMMA ListKeepsIdle ==
  ASSUME TypeOK, HeldBegun, ListedIdle, NEW s \in Starts, List(s)
  PROVE  ListedIdle'
<1>1. /\ todo'[s] = With("queued") /\ \A t \in Starts \ {s} : todo'[t] = todo[t]
      /\ UNCHANGED <<status, listed>>
  BY DEF List, TypeOK, runVars, background
<1>2. With("queued") \cap (Running \cup listed) = {}
  BY DEF HeldBegun, Begun, Running, With
<1>3. Running' = Running
  BY <1>1 DEF Running, With
<1>4. QED
  BY <1>1, <1>2, <1>3 DEF ListedIdle

(* A claimed run has left the list of the only start that has one.         *)
LEMMA ClaimKeepsIdle ==
  ASSUME TypeOK, Fresh, Chain, ListedIdle, NEW s \in Starts, NEW r \in Runs, Claim(s, r)
  PROVE  ListedIdle'
<1>1. /\ pc[s] = "claiming"
      /\ todo'[s] = todo[s] \ {r} /\ \A t \in Starts \ {s} : todo'[t] = todo[t]
      /\ UNCHANGED listed
  BY DEF Claim, LoopAt, TypeOK, background
<1>2. Running' = Running \cup {r}
  BY DEF Claim, Set, Running, With
<1>3. ASSUME NEW t \in Starts, t # s PROVE todo'[t] = {}
  <2>1. pc[t] \notin Choosing
    BY <1>1, <1>3, OneInside DEF Inside, Choosing
  <2>2. QED
    BY <1>1, <1>3, <2>1 DEF Fresh
<1>4. todo'[s] \cap (Running' \cup listed') = {}
  BY <1>1, <1>2 DEF ListedIdle
<1>5. QED
  BY <1>3, <1>4 DEF ListedIdle

(* The listed runs in every step that overtakes no one.                    *)
LEMMA NextKeepsIdle ==
  ASSUME TypeOK, HeldBegun, Fresh, Chain, ListedIdle, [Next]_vars
  PROVE  ListedIdle'
<1>1. ASSUME UNCHANGED <<status, todo, listed>> PROVE ListedIdle'
  BY <1>1 DEF ListedIdle, Running, With
<1>2. CASE UNCHANGED vars
  BY <1>1, <1>2 DEF vars, runVars, bodyVars, background
<1>3. CASE Crash
  <2>1. \A t \in Starts : todo'[t] = {}
    BY <1>3 DEF Crash
  <2>2. QED
    BY <2>1 DEF ListedIdle
<1>4. ASSUME NEW s \in Starts,
             \/ ResumeQueuedRuns(s) \/ Register(s) \/ Enter(s) \/ Overtake(s)
             \/ TimePasses(s) \/ Count(s) \/ \E n \in Starts : Nest(s, n)
      PROVE  ListedIdle'
  BY <1>1, <1>4 DEF ResumeQueuedRuns, Calls, Register, Enter, Overtake, TimePasses, Count, Nest,
     runVars, bodyVars, background
<1>5. ASSUME NEW s \in Starts, NotInvokable(s) \/ NoSlots(s) \/ Leave(s) \/ Throw(s)
      PROVE  ListedIdle'
  <2>1. Returns(s) /\ UNCHANGED <<status, listed>>
    BY <1>5 DEF NotInvokable, NoSlots, Leave, Throw, runVars, background
  <2>2. \A t \in Starts : todo'[t] \subseteq todo[t]
    BY <2>1 DEF Returns, TypeOK
  <2>3. Running' = Running
    BY <2>1 DEF Running, With
  <2>4. QED
    BY <2>1, <2>2, <2>3, IdleShrinks
<1>6. ASSUME NEW s \in Starts, NEW r \in Runs,
             ClaimLost(s, r) \/ \E p \in Promotable : CancelOnClaim(s, r, p) \/ SkipOnClaim(s, r, p)
      PROVE  ListedIdle'
  <2>1. \A q \in Runs : status'[q] = "running" => status[q] = "running"
    BY <1>6 DEF ClaimLost, CancelOnClaim, SkipOnClaim, runVars
  <2>2. Running' \subseteq Running
    BY <2>1 DEF Running, With
  <2>3. LoopAt(s, r) /\ UNCHANGED listed
    BY <1>6 DEF ClaimLost, CancelOnClaim, SkipOnClaim, background
  <2>4. \A t \in Starts : todo'[t] \subseteq todo[t]
    BY <2>3 DEF LoopAt, TypeOK
  <2>5. QED
    BY <2>2, <2>3, <2>4, IdleShrinks
<1>7. QED
  BY <1>2, <1>3, <1>4, <1>5, <1>6, RunStepKeepsIdle, ListKeepsIdle, ClaimKeepsIdle
     DEF Next, StartStep, BodyStep

----------------------------------------------------------------------------
(* The invariant, and what follows from it                                 *)

(* The server starts with no entry, no run and every slot free.            *)
LEMMA InitIInv == Init => IInv
<1> SUFFICES ASSUME Init PROVE IInv
  OBVIOUS
<1>1. TypeOK
  BY InitType
<1>2. \A s \in Starts : /\ pc[s] = "idle" /\ parent[s] = NoStart /\ prev[s] = NoStart
                        /\ todo[s] = {} /\ claimed[s] = {}
  BY DEF Init
<1>3. launching = {} /\ executing = {} /\ listed = {} /\ tail = NoStart
  BY DEF Init
<1>4. Running = {}
  BY DEF Init, Running, With
<1>5. HeldBegun /\ ClaimedOnce
  BY <1>2, <1>3 DEF HeldBegun, ClaimedOnce
<1>6. Nested /\ Fresh /\ Chain
  BY <1>2, <1>3 DEF Nested, Fresh, Chain, Registered, Inside
<1>7. SlotsFree
  BY <1>2, <1>4, FS_EmptySet, StartConstants DEF SlotsFree, Choosing
<1>8. ListedIdle
  BY <1>2 DEF ListedIdle
<1>9. QED
  BY <1>1, <1>5, <1>6, <1>7, <1>8 DEF IInv, Guarded

(* Once a start has overtaken another, or a run was revived, that is       *)
(* remembered.                                                             *)
LEMMA HistoryStays ==
  ASSUME [Next]_vars
  PROVE  (overtaken => overtaken') /\ (revived => revived')
<1>1. ASSUME NEW s \in Starts, StartStep(s) PROVE (overtaken => overtaken') /\ revived' = revived
  <2>1. CASE Register(s) \/ Enter(s) \/ Overtake(s) \/ TimePasses(s) \/ Count(s) \/ List(s)
             \/ \E n \in Starts : Nest(s, n)
    BY <2>1 DEF Register, Enter, Overtake, TimePasses, Count, List, Nest, background
  <2>2. CASE NotInvokable(s) \/ NoSlots(s) \/ Leave(s) \/ Throw(s)
    BY <2>2 DEF NotInvokable, NoSlots, Leave, Throw, background
  <2>3. ASSUME NEW r \in Runs,
               \/ Claim(s, r) \/ ClaimLost(s, r)
               \/ \E p \in Promotable : CancelOnClaim(s, r, p) \/ SkipOnClaim(s, r, p)
        PROVE  UNCHANGED background
    BY <2>3 DEF Claim, ClaimLost, CancelOnClaim, SkipOnClaim
  <2>4. QED
    BY <1>1, <2>1, <2>2, <2>3 DEF StartStep, BodyStep, background
<1>2. ASSUME NEW r \in Runs, RunStep(r) PROVE overtaken' = overtaken /\ (revived => revived')
  <2>1. CASE ReapDetaches(r)
    <3>1. overtaken' = overtaken /\ revived' = (revived \/ status[r] # "running")
      BY <2>1 DEF ReapDetaches
    <3>2. QED
      BY <3>1
  <2>2. ASSUME UNCHANGED <<overtaken, revived>> PROVE overtaken' = overtaken /\ (revived => revived')
    BY <2>2
  <2>3. QED
    BY <1>2, <2>1, <2>2 DEF RunStep, PromoteRetry, Execute, ExecuteFails, RunEnds, Enqueue,
       RunLeaves, Reap, CancelRun, ReapList, ReapSpares, ProcessEnds, background
<1>3. Crash \/ UNCHANGED vars \/ (\E s \in Starts : ResumeQueuedRuns(s)) =>
        UNCHANGED <<overtaken, revived>>
  BY DEF Crash, vars, background, ResumeQueuedRuns
<1>4. QED
  BY <1>1, <1>2, <1>3 DEF Next

(* Every step keeps the invariant.                                         *)
LEMMA NextIInv == IInv /\ [Next]_vars => IInv'
<1> SUFFICES ASSUME IInv, [Next]_vars PROVE IInv'
  OBVIOUS
<1>1. TypeOK /\ HeldBegun /\ ClaimedOnce /\ Nested /\ Fresh /\ Guarded
  BY DEF IInv
<1>2. TypeOK' /\ HeldBegun' /\ ClaimedOnce' /\ Nested' /\ Fresh'
  BY <1>1, NextType, HeldKept, NextKeepsLock
<1>3. ASSUME ~overtaken' PROVE Chain /\ ListedIdle /\ Chain' /\ ListedIdle'
  BY <1>1, <1>3, HistoryStays, NextKeepsLock, NextKeepsIdle DEF Guarded
<1>4. ASSUME ~overtaken', ~revived' PROVE SlotsFree'
  BY <1>1, <1>3, <1>4, HistoryStays, NextKeepsSlots DEF Guarded
<1>5. Guarded'
  BY <1>3, <1>4 DEF Guarded
<1>6. QED
  BY <1>2, <1>5 DEF IInv

(* The invariant holds in every state the server reaches.                  *)
LEMMA Invariant == Spec => []IInv
BY InitIInv, NextIInv, PTL DEF Spec

(* Whatever the timing and the restarts: two starts are inside             *)
(* startNextQueuedRunForAgent together only after the 30 s of the lock     *)
(* have let one overtake another.                                          *)
THEOREM StartsExclude == Spec => []OneStartInside
<1>1. IInv => OneStartInside
  BY OneInside DEF IInv, Guarded, OneStartInside
<1>2. QED
  BY <1>1, Invariant, PTL

(* Without such an overtaking, and as long as the reaper has written no    *)
(* run running that was over, the agent never runs more than               *)
(* maxConcurrentRuns runs, although each claim is made long after the      *)
(* count it relies on.                                                     *)
THEOREM LimitKept == Spec => []LimitUnlessOvertaken
<1>1. IInv => LimitUnlessOvertaken
  BY DEF IInv, Guarded, SlotsFree, LimitUnlessOvertaken
<1>2. QED
  BY <1>1, Invariant, PTL

(* Without it the gates of claimQueuedRun, which close a run by an UPDATE  *)
(* that does not ask for its status, never close one that is running.      *)
THEOREM GatesSafe == Spec => []GatesSpareRunning
<1>1. IInv => GatesSpareRunning
  BY DEF IInv, Guarded, ListedIdle, GatesSpareRunning
<1>2. QED
  BY <1>1, Invariant, PTL

============================================================================
