------------------------ MODULE IssueCheckout_proofs ------------------------
(***************************************************************************)
(* Proofs about IssueCheckout, for any number of runs, agents, users and   *)
(* concurrent calls: its type invariant, the three safety invariants of    *)
(* the checkout lock, and that it implements CheckoutLease.                *)
(***************************************************************************)
EXTENDS IssueCheckout, TLAPS

----------------------------------------------------------------------------
(* Rows and calls                                                          *)

(* NullRow and Idle are values of the types they initialize.               *)
LEMMA NullRowType == NullRow \in IssueRow
BY DEF NullRow, IssueRow, Status, AgentOrNull, UserOrNull, RunOrNull

(* The state of a request that has not started is a request's state.       *)
LEMMA IdleType == Idle \in Call
BY NullRowType DEF Idle, Call, Pcs, Ops, AgentOrNull, RunOrNull

(* What writing both lock columns does to a row.                           *)
LEMMA LockedRow ==
  ASSUME NEW row \in IssueRow, NEW r \in RunOrNull
  PROVE  /\ Locked(row, r) \in IssueRow
         /\ Locked(row, r).checkout = r /\ Locked(row, r).exec = r
BY DEF Locked, IssueRow

(* Clearing a row (update, release, sweep) leaves no lock on it.           *)
LEMMA UnlockedRow ==
  ASSUME NEW row \in IssueRow
  PROVE  /\ Unlocked(row) \in IssueRow
         /\ Unlocked(row).checkout = NoRun /\ Unlocked(row).exec = NoRun
BY LockedRow DEF Unlocked, RunOrNull

(* Stamping a row (claimQueuedRun, retries) moves the execution lock only. *)
LEMMA StampedRow ==
  ASSUME NEW row \in IssueRow, NEW r \in RunOrNull
  PROVE  /\ Stamped(row, r) \in IssueRow
         /\ Stamped(row, r).exec = r /\ Stamped(row, r).checkout = row.checkout
BY DEF Stamped, IssueRow

(* Releasing a run takes only that run's locks off the row.                *)
LEMMA ReleasedRow ==
  ASSUME issue \in IssueRow, NEW r \in Runs
  PROVE  /\ Released(r) \in IssueRow
         /\ Released(r).exec = IF issue.exec = r THEN NoRun ELSE issue.exec
         /\ Released(r).checkout = IF issue.checkout = r THEN NoRun ELSE issue.checkout
BY DEF Released, IssueRow, RunOrNull

(* The lock columns hold a run or null.                                    *)
LEMMA RowLocks ==
  ASSUME NEW row \in IssueRow
  PROVE  row.checkout \in RunOrNull /\ row.exec \in RunOrNull
BY DEF IssueRow

(* What the other writes of a row do to its locks.                         *)
LEMMA ClaimedRow ==
  ASSUME NEW row \in IssueRow, NEW k \in Call, k.agent \in AgentOrNull
  PROVE  /\ Claimed(row, k) \in IssueRow
         /\ Claimed(row, k).checkout = k.run /\ Claimed(row, k).exec = k.run
BY DEF Claimed, Call, IssueRow, Status, UserOrNull

(* Adopting a stale execution gives the caller both locks.                 *)
LEMMA StaleExecutionTakenRow ==
  ASSUME NEW row \in IssueRow, NEW k \in Call
  PROVE  /\ StaleExecutionTaken(row, k) \in IssueRow
         /\ StaleExecutionTaken(row, k).checkout = k.run
         /\ StaleExecutionTaken(row, k).exec = k.run
<1>1. k.run \in RunOrNull /\ k.agent \in AgentOrNull
  BY DEF Call
<1>2. QED
  BY <1>1 DEF StaleExecutionTaken, Locked, IssueRow, Status

(* The fields of an update are not the locks.                              *)
LEMMA PatchedRow ==
  ASSUME NEW row \in IssueRow, NEW p \in Patches
  PROVE  /\ Patched(row, p) \in IssueRow
         /\ Patched(row, p).checkout = row.checkout /\ Patched(row, p).exec = row.exec
<1>1. p \in Patch
  BY CheckoutConstants
<1>2. /\ Given(p.status, row.status) \in Status
      /\ Given(p.assignee, row.assignee) \in AgentOrNull
      /\ Given(p.user, row.user) \in UserOrNull
  BY <1>1 DEF Patch, Given, IssueRow
<1>3. QED
  BY <1>2 DEF Patched, IssueRow

(* The candidate that the sweeper and an adoption remember.                *)
LEMMA LocksRow ==
  ASSUME NEW row \in IssueRow
  PROVE  /\ Locks(row) \in IssueRow
         /\ Locks(row).checkout = row.checkout /\ Locks(row).exec = row.exec
BY NullRowType DEF Locks, IssueRow

(* The calls that operations begin with, and how a call moves on.          *)
LEMMA NewCalls ==
  /\ \A a \in Agents, r \in RunOrNull, e \in ExpectedChoices :
       CheckoutCall(a, r, e) \in Call
  /\ \A r \in Runs : AssertCall(r) \in Call
  /\ \A row \in IssueRow : UpdateCall(row) \in Call /\ SweepCall(row) \in Call
<1>1. Idle \in Call /\ NullRow \in IssueRow
  BY IdleType, NullRowType
<1>2. \A a \in Agents, r \in RunOrNull, e \in ExpectedChoices :
        CheckoutCall(a, r, e) \in Call
  BY <1>1, CheckoutConstants DEF CheckoutCall, Call, Pcs, Ops, AgentOrNull
<1>3. \A r \in Runs : AssertCall(r) \in Call
  BY <1>1, CheckoutConstants DEF AssertCall, Call, Pcs, Ops, AgentOrNull, RunOrNull
<1>4. ASSUME NEW row \in IssueRow
      PROVE  UpdateCall(row) \in Call /\ SweepCall(row) \in Call
  <2>1. [NullRow EXCEPT !.assignee = row.assignee, !.user = row.user] \in IssueRow
    BY <1>1 DEF IssueRow
  <2>2. Locks(row) \in IssueRow
    BY LocksRow
  <2>3. QED
    BY <1>1, <2>1, <2>2 DEF UpdateCall, SweepCall, Call, Pcs, Ops
<1>5. QED
  BY <1>2, <1>3, <1>4

(* Each way a request goes on leaves it a request.                         *)
LEMMA CallMoves ==
  ASSUME NEW k \in Call, NEW pc \in Pcs
  PROVE  /\ At(k, pc) \in Call
         /\ Again(k) \in Call
         /\ \A r \in RunOrNull : Saw(At(k, pc), r) \in Call
         /\ \A row \in IssueRow, b \in BOOLEAN : Adopting(k, pc, row, b) \in Call
         /\ \A row \in IssueRow : Chosen(row, k) \in Call
<1>1. At(k, pc) \in Call /\ Again(k) \in Call
  BY DEF At, Again, Call, Pcs
<1>2. \A r \in RunOrNull : Saw(At(k, pc), r) \in Call
  BY <1>1 DEF Saw, Call, IssueRow
<1>3. ASSUME NEW row \in IssueRow, NEW b \in BOOLEAN PROVE Adopting(k, pc, row, b) \in Call
  <2>1. [At(k, pc) EXCEPT !.again = b] \in Call /\ row.checkout \in RunOrNull
    BY <1>1 DEF Call, IssueRow
  <2>2. QED
    BY <2>1 DEF Adopting, Saw, Call, IssueRow
<1>4. ASSUME NEW row \in IssueRow PROVE Chosen(row, k) \in Call
  <2> DEFINE next(q, cur) == [At(k, q) EXCEPT !.cur = cur, !.owned = Owns(row, k)]
  <2>1. ASSUME NEW q \in {"adopt", "adoptStale", "staleExec"}, NEW cur \in IssueRow
        PROVE  next(q, cur) \in Call
    BY DEF At, Call, Pcs, Owns, SameRunLock
  <2>2. /\ NullRow \in IssueRow /\ Locks(row) \in IssueRow
        /\ Stamped(NullRow, row.exec) \in IssueRow
    BY NullRowType, LocksRow, StampedRow, RowLocks
  <2>3. /\ next("adopt", NullRow) \in Call /\ next("adoptStale", Locks(row)) \in Call
        /\ next("staleExec", Stamped(NullRow, row.exec)) \in Call
    BY <2>1, <2>2
  <2> HIDE DEF next
  <2>4. Chosen(row, k) \in {next("adopt", NullRow), next("adoptStale", Locks(row)),
                            next("staleExec", Stamped(NullRow, row.exec))}
    BY DEF Chosen, next
  <2>5. QED
    BY <2>3, <2>4
<1>5. QED
  BY <1>1, <1>2, <1>3, <1>4

----------------------------------------------------------------------------
(* Type correctness                                                        *)

(* Every step of a request keeps the types.                                *)
LEMMA RequestType ==
  ASSUME TypeOK, NEW c \in Calls, Request(c)
  PROVE  TypeOK'
<1> USE DEF TypeOK
<1>0. calls[c] \in Call /\ calls[c].run \in RunOrNull /\ calls[c].agent \in AgentOrNull
  BY DEF Call
<1>b. ASSUME NEW k \in Call PROVE Become(c, k) => calls' \in [Calls -> Call]
  BY DEF Become
<1>i. Return(c) => calls' \in [Calls -> Call]
  BY <1>b, IdleType DEF Return
<1>m. ASSUME NEW pc \in Pcs PROVE Goto(c, pc) => calls' \in [Calls -> Call]
  BY <1>0, <1>b, CallMoves DEF Goto
<1>h. Grant(c) => holders' \subseteq Runs
  BY DEF Grant
<1>s. /\ Succeed(c) => calls' \in [Calls -> Call] /\ holders' \subseteq Runs
      /\ Fail(c) => calls' \in [Calls -> Call] /\ holders' \subseteq Runs
      /\ \A b : Conclude(c, b) => calls' \in [Calls -> Call] /\ holders' \subseteq Runs
  BY <1>i, <1>h DEF Succeed, Fail, Conclude
<1>p. {"clearCheckout", "claim", "read", "adopt", "adoptStale", "staleExec",
       "takeStaleExec", "adoptUnowned"} \subseteq Pcs
  BY DEF Pcs
<1>1. CASE StartCheckout(c)
  BY <1>1, <1>b, NewCalls DEF StartCheckout
<1>2. CASE StartAssert(c)
  BY <1>2, <1>b, NewCalls DEF StartAssert
<1>3. CASE CallClearExecution(c)
  <2>1. issue' \in IssueRow
    BY <1>3, StampedRow DEF CallClearExecution, ClearExecutionRunIfTerminal, RunOrNull
  <2>2. QED
    BY <1>3, <1>m, <1>p, <2>1 DEF CallClearExecution
<1>4. CASE CallClearCheckout(c)
  <2>1. issue' \in IssueRow
    BY <1>4, UnlockedRow DEF CallClearCheckout, ClearCheckoutRunIfTerminal
  <2>2. QED
    BY <1>4, <1>m, <1>p, <2>1 DEF CallClearCheckout
<1>5. CASE CheckoutBlocked(c)
  BY <1>5, <1>s DEF CheckoutBlocked
<1>6. CASE CheckoutClaim(c)
  BY <1>6, <1>0, <1>s, <1>m, <1>p, ClaimedRow DEF CheckoutClaim
<1>7. CASE CheckoutRead(c)
  BY <1>7, <1>0, <1>s, <1>b, <1>p, CallMoves DEF CheckoutRead
<1>8. CASE CheckoutAdopt(c)
  BY <1>8, <1>0, <1>s, LockedRow DEF CheckoutAdopt
<1>9. CASE CheckoutAdoptStale(c)
  <2>1. Saw(At(calls[c], "staleExec"), NoRun) \in Call
    BY <1>0, <1>p, CallMoves DEF RunOrNull
  <2>2. QED
    BY <1>9, <1>0, <1>s, <1>b, <2>1, LockedRow DEF CheckoutAdoptStale
<1>10. CASE CheckoutTestExecution(c)
  BY <1>10, <1>s, <1>m, <1>p DEF CheckoutTestExecution
<1>11. CASE CheckoutTakeStaleExecution(c)
  BY <1>11, <1>0, <1>s, StaleExecutionTakenRow DEF CheckoutTakeStaleExecution
<1>12. ASSUME NEW again \in BOOLEAN, Resolve(c, issue, again)
       PROVE  calls' \in [Calls -> Call] /\ holders' \subseteq Runs
  BY <1>12, <1>0, <1>s, <1>i, <1>b, <1>p, CallMoves DEF Resolve
<1>13. CASE AssertRead(c)
  BY <1>13, <1>12, <1>0 DEF AssertRead, Call
<1>14. CASE AssertAdoptUnowned(c)
  BY <1>14, <1>0, <1>s, <1>i, <1>b, <1>p, CallMoves, LockedRow DEF AssertAdoptUnowned
<1>15. CASE AssertAdoptStale(c)
  BY <1>15, <1>0, <1>12, <1>s, LockedRow DEF AssertAdoptStale
<1>16. CASE UpdateRead(c)
  BY <1>16, <1>b, NewCalls DEF UpdateRead
<1>17. CASE UpdatePatch(c)
  BY <1>17, <1>i, PatchedRow, UnlockedRow DEF UpdatePatch
<1>18. CASE SweepRead(c)
  BY <1>18, <1>b, NewCalls DEF SweepRead
<1>19. CASE SweepClear(c)
  BY <1>19, <1>i, UnlockedRow DEF SweepClear
<1>20. QED
  BY <1>1, <1>2, <1>3, <1>4, <1>5, <1>6, <1>7, <1>8, <1>9, <1>10, <1>11, <1>13, <1>14,
     <1>15, <1>16, <1>17, <1>18, <1>19 DEF Request

(* The rest of the steps: runs, wake-ups, releases, a crash.               *)
LEMMA OtherStepType ==
  ASSUME TypeOK, \/ \E r \in Runs : RunStep(r)
                 \/ Release(NoRun) \/ AdminForceRelease \/ Wakeup \/ Crash
  PROVE  TypeOK'
<1> USE DEF TypeOK
<1>u. Unlocked(issue) \in IssueRow
  BY UnlockedRow
<1>n. \A r \in RunOrNull : /\ Stamped(issue, r) \in IssueRow
                           /\ Stamped(Unlocked(issue), r) \in IssueRow
  BY <1>u, StampedRow
<1>q. NoRun \in RunOrNull /\ Runs \subseteq RunOrNull
  BY DEF RunOrNull
<1>s. ASSUME NEW r \in Runs, NEW st \in RunStatus
      PROVE  [runStatus EXCEPT ![r] = st] \in [Runs -> RunStatus]
  OBVIOUS
<1>t. {"queued", "running", "terminal"} \subseteq RunStatus
  BY DEF RunStatus
<1>1. ASSUME NEW r \in RunOrNull, Release(r) PROVE TypeOK'
  BY <1>1, <1>u DEF Release, IssueRow, Status, AgentOrNull
<1>2. CASE AdminForceRelease
  BY <1>2, <1>u DEF AdminForceRelease, IssueRow, AgentOrNull
<1>3. CASE Wakeup
  <2>1. issue' \in IssueRow
    BY <1>3, <1>n DEF Wakeup
  <2>2. runStatus' \in [Runs -> RunStatus]
    BY <1>3, <1>t DEF Wakeup, TypeOK
  <2>3. QED
    BY <1>3, <2>1, <2>2 DEF Wakeup
<1>4. CASE Crash
  BY <1>4, IdleType DEF Crash
<1>5. ASSUME NEW r \in Runs, RunStep(r) PROVE TypeOK'
  <2>1. CASE Release(r)
    BY <2>1, <1>1, <1>q
  <2>2. CASE WakeupWithoutIssue(r)
    BY <2>2, <1>s, <1>t DEF WakeupWithoutIssue
  <2>3. CASE ClaimQueuedRun(r)
    BY <2>3, <1>s, <1>t DEF ClaimQueuedRun
  <2>4. CASE StampClaim(r)
    BY <2>4, <1>n, <1>q DEF StampClaim
  <2>5. CASE FinishRun(r)
    BY <2>5, <1>s, <1>t DEF FinishRun
  <2>6. CASE ReleaseIssueExecution(r)
    <3>1. Released(r) \in IssueRow
      BY ReleasedRow
    <3>2. \A n \in Runs : Stamped(Released(r), n) \in IssueRow
      BY <3>1, <1>q, StampedRow
    <3>3. issue' \in IssueRow
      BY <2>6, <3>1, <3>2, CheckoutConstants DEF ReleaseIssueExecution
    <3>4. runStatus' \in [Runs -> RunStatus]
      <4>1. \A n \in IssueRuns : [runStatus EXCEPT ![n] = "queued"] \in [Runs -> RunStatus]
        BY <1>s, <1>t, CheckoutConstants
      <4>2. QED
        BY <2>6, <4>1 DEF ReleaseIssueExecution
    <3>5. QED
      BY <2>6, <3>3, <3>4 DEF ReleaseIssueExecution
  <2>7. CASE \E n \in Runs : ProcessLossRetry(r, n)
    BY <2>7, <1>n, <1>q, <1>s, <1>t DEF ProcessLossRetry
  <2>8. CASE \E n \in Runs : ScheduleBoundedRetry(r, n)
    BY <2>8, <1>n, <1>q, <1>s, <1>t DEF ScheduleBoundedRetry
  <2>9. QED
    BY <1>5, <2>1, <2>2, <2>3, <2>4, <2>5, <2>6, <2>7, <2>8 DEF RunStep
<1>6. QED
  BY <1>1, <1>2, <1>3, <1>4, <1>5, <1>q

(* The type invariant is inductive by itself.                              *)
LEMMA NextType == TypeOK /\ [Next]_vars => TypeOK'
<1>1. ASSUME TypeOK, Next PROVE TypeOK'
  BY <1>1, RequestType, OtherStepType DEF Next
<1>2. ASSUME TypeOK, UNCHANGED vars PROVE TypeOK'
  BY <1>2 DEF TypeOK, vars
<1>3. QED
  BY <1>1, <1>2

(* The initial states have their types.                                    *)
LEMMA InitType == Init => TypeOK
<1>1. \A a \in AgentOrNull, u \in UserOrNull : Created(a, u) \in IssueRow
  BY NullRowType DEF Created, IssueRow
<1>2. Init => issue \in IssueRow
  BY <1>1 DEF Init
<1>3. QED
  BY <1>2, IdleType DEF Init, TypeOK, RunStatus

(* Every variable has its type, whatever the sizes.                        *)
THEOREM TypeCorrect == Spec => []TypeOK
BY InitType, NextType, PTL DEF Spec

----------------------------------------------------------------------------
(* The inductive invariant                                                 *)

(* What is known of a run that a row, a call or a claim names: its row was *)
(* inserted, it has been running, it has ended.                            *)
Begun(r) == r \in Runs => runStatus[r] # "absent"
Ran(r) == r \in Runs => runStatus[r] \in {"running", "terminal"}
Over(r) == r \in Runs => runStatus[r] = "terminal"

LocksBegun == Begun(issue.checkout) /\ Begun(issue.exec)

RunnersRan == \A r \in holders \cup claiming : Ran(r)

EndedOver == \A r \in Runs : finalizing[r] # "none" => Over(r)

(* What a call remembers is still true of the runs when it acts on it:     *)
(* the locks it saw were of runs that had begun, a checkout that saw its   *)
(* own lock next to another execution lock belongs to a run that has       *)
(* ended, and so does the execution lock it is about to take over, and     *)
(* whatever the sweeper is about to clear.                                 *)
Remembers(k) ==
  /\ Begun(k.cur.checkout) /\ Begun(k.cur.exec)
  /\ k.owned => Over(k.run)
  /\ k.pc = "takeStaleExec" => k.cur.exec \in Runs /\ Over(k.cur.exec)
  /\ k.pc = "sweep" => Over(k.cur.checkout) /\ Over(k.cur.exec)

Sound(k) == Remembers(k) /\ Ran(k.run)
CallsSound == \A c \in Calls : Sound(calls[c])

LockInv == LocksBegun /\ CheckoutHoldsExecution /\ HolderKeepsCheckout

IInv == /\ TypeOK
        /\ RunnersRan
        /\ EndedOver
        /\ CallsSound
        /\ LockInv

(* What a wake-up may do to the runs: it cancels runs that are live but    *)
(* not running, and it leaves a live run its execution lock or cancels it. *)
WakeCancels(active, cancelled) ==
  /\ active \in RunOrNull /\ (active # NoRun => Live(active))
  /\ \A r \in cancelled : r \in Runs /\ Live(r) /\ runStatus[r] # "running"
  /\ Live(issue.exec) => active = issue.exec \/ issue.exec \in cancelled

(* A wake-up goes by no run or by a live one it did not cancel, and what   *)
(* it cancels was queued.                                                  *)
LEMMA WakeFinding ==
  ASSUME TypeOK, NEW active \in RunOrNull, NEW cancelled \in SUBSET Runs,
         WakeFinds(active, cancelled)
  PROVE  WakeCancels(active, cancelled)
<1> USE CheckoutConstants DEF WakeCancels, RunOrNull
<1>1. CASE active = issue.exec /\ cancelled = {} /\ Live(issue.exec)
  BY <1>1
<1>2. ASSUME ~Live(issue.exec) \/ StaleRetry(issue.exec)
      PROVE  \A r \in {q \in {issue.exec} : Live(q)} :
               r \in Runs /\ Live(r) /\ runStatus[r] # "running"
  BY <1>2 DEF StaleRetry, Live
<1>3. ASSUME NEW dropped, NEW r \in LegacyRuns(dropped)
      PROVE  r \in Runs /\ Live(r)
  BY <1>3 DEF LegacyRuns
<1>4. ASSUME NEW r, StaleRetry(r)
      PROVE  r \in Runs /\ Live(r) /\ runStatus[r] # "running"
  BY <1>4 DEF StaleRetry, Live
<1>5. QED
  BY <1>1, <1>2, <1>3, <1>4 DEF WakeFinds

(* Runs only go forward, so what is known of a run stays true.             *)
LEMMA RunsAdvance ==
  ASSUME TypeOK, Next, NEW r
  PROVE  (Begun(r) => Begun(r)') /\ (Ran(r) => Ran(r)') /\ (Over(r) => Over(r)')
<1> USE DEF Begun, Ran, Over
<1>1. CASE UNCHANGED runStatus
  BY <1>1
<1>2. CASE Wakeup
  <2>1. PICK active \in RunOrNull, cancelled \in SUBSET Runs, new \in IssueRuns \cup {NoRun} :
          /\ WakeFinds(active, cancelled) /\ (new # NoRun => runStatus[new] = "absent")
          /\ runStatus' = [q \in Runs |-> IF q = new THEN "queued"
                            ELSE IF q \in cancelled THEN "terminal" ELSE runStatus[q]]
    BY <1>2 DEF Wakeup, Queueable
  <2>2. \A q \in cancelled : Live(q) /\ runStatus[q] # "running"
    BY <2>1, WakeFinding DEF WakeCancels
  <2>3. QED
    BY <2>1, <2>2, CheckoutConstants DEF Live, TypeOK
<1>3. ASSUME NEW s \in Runs, RunStep(s), runStatus' # runStatus
      PROVE  (Begun(r) => Begun(r)') /\ (Ran(r) => Ran(r)') /\ (Over(r) => Over(r)')
  <2>1. CASE WakeupWithoutIssue(s)
    BY <2>1 DEF WakeupWithoutIssue, TypeOK
  <2>2. CASE ClaimQueuedRun(s)
    BY <2>2 DEF ClaimQueuedRun, TypeOK
  <2>3. CASE FinishRun(s)
    BY <2>3 DEF FinishRun, Live, TypeOK
  <2>4. CASE ReleaseIssueExecution(s)
    BY <2>4, <1>3, CheckoutConstants DEF ReleaseIssueExecution, TypeOK
  <2>5. CASE \E n \in Runs : ProcessLossRetry(s, n) \/ ScheduleBoundedRetry(s, n)
    BY <2>5 DEF ProcessLossRetry, ScheduleBoundedRetry, TypeOK
  <2>6. QED
    BY <1>3, <2>1, <2>2, <2>3, <2>4, <2>5 DEF RunStep, Release, StampClaim
<1>4. (\E c \in Calls : Request(c)) => UNCHANGED runStatus
  BY DEF Request, StartCheckout, StartAssert, CallClearExecution, CallClearCheckout,
     CheckoutBlocked, CheckoutClaim, CheckoutRead, CheckoutAdopt, CheckoutAdoptStale,
     CheckoutTestExecution, CheckoutTakeStaleExecution, AssertRead, AssertAdoptUnowned,
     AssertAdoptStale, UpdateRead, UpdatePatch, SweepRead, SweepClear
<1>5. QED
  BY <1>1, <1>2, <1>3, <1>4 DEF Next, Release, AdminForceRelease, Crash

(* The four things a request can do to the locks: leave them, and tell x,  *)
(* if it is a run, that it owns the checkout; give both to x; revoke them; *)
(* or clear the execution lock of a run that is over.                      *)
Keeps(x) == /\ issue'.checkout = issue.checkout /\ issue'.exec = issue.exec
            /\ holders' = holders \cup ({x} \cap Runs)
            /\ Live(x) => issue.checkout = x

Moves(x) == /\ issue'.checkout = x /\ issue'.exec = x
            /\ holders' = holders \cup ({x} \cap Runs)
            /\ Begun(x)
            /\ Live(issue.checkout) => issue.checkout = x

Revokes == issue'.checkout = NoRun /\ issue'.exec = NoRun /\ holders' = {}

ClearsExecution == /\ issue'.checkout = issue.checkout /\ issue'.exec = NoRun
                   /\ ~Live(issue.exec)
                   /\ holders' = holders

Effect == Revokes \/ ClearsExecution \/ \E x \in RunOrNull : Keeps(x) \/ Moves(x)

(* Each of them keeps the lock invariant.                                  *)
LEMMA EffectKeepsLockInv ==
  ASSUME TypeOK, LockInv, UNCHANGED runStatus, Effect
  PROVE  LockInv'
<1> USE CheckoutConstants DEF LockInv, LocksBegun, CheckoutHoldsExecution, HolderKeepsCheckout,
                              Live, Begun, TypeOK
<1>1. CASE Revokes
  BY <1>1 DEF Revokes
<1>2. CASE ClearsExecution
  BY <1>2 DEF ClearsExecution
<1>3. ASSUME NEW x \in RunOrNull, Keeps(x) PROVE LockInv'
  BY <1>3 DEF Keeps
<1>4. ASSUME NEW x \in RunOrNull, Moves(x) PROVE LockInv'
  BY <1>4 DEF Moves
<1>5. QED
  BY <1>1, <1>2, <1>3, <1>4 DEF Effect

(* A row that a run owns, or could adopt, says who may be live.            *)
LEMMA OwnerKeeps ==
  ASSUME LockInv, NEW k, Owns(issue, k), UNCHANGED issue,
         holders' = holders \cup ({k.run} \cap Runs)
  PROVE  Keeps(k.run)
BY DEF Owns, SameRunLock, Keeps

(* What a request's step may do to the row and to the holders: nothing,    *)
(* take a lock that is free or left over, clear it, or revoke.             *)
LEMMA RequestEffect ==
  ASSUME IInv, NEW c \in Calls, Request(c)
  PROVE  UNCHANGED <<runStatus, finalizing, claiming>> /\ Effect
<1> DEFINE k == calls[c]
<1>0. /\ k \in Call /\ k.run \in RunOrNull /\ k.agent \in AgentOrNull
      /\ issue \in IssueRow /\ issue.checkout \in RunOrNull /\ issue.exec \in RunOrNull
      /\ Ran(k.run) /\ Begun(k.run) /\ Remembers(k)
      /\ NoRun \in RunOrNull /\ NoRun \notin Runs /\ LockInv
      /\ CheckoutHoldsExecution /\ LocksBegun
  BY CheckoutConstants, RowLocks DEF IInv, TypeOK, Call, CallsSound, Sound, Ran, Begun, RunOrNull, LockInv
<1> HIDE DEF k
<1>n. UNCHANGED <<issue, holders>> => Keeps(NoRun)
  BY <1>0 DEF Keeps, Live
<1>k. ASSUME NEW x \in RunOrNull, Keeps(x) \/ Moves(x) PROVE Effect
  BY <1>k DEF Effect
<1>g. Grant(c) => holders' = holders \cup ({k.run} \cap Runs)
  BY DEF Grant, k
<1>s. /\ Succeed(c) => holders' = holders \cup ({k.run} \cap Runs)
      /\ Fail(c) => UNCHANGED holders
  BY <1>g DEF Succeed, Fail
<1>l. /\ Locked(issue, k.run).checkout = k.run /\ Locked(issue, k.run).exec = k.run
      /\ Unlocked(issue).checkout = NoRun /\ Unlocked(issue).exec = NoRun
  BY <1>0, LockedRow, UnlockedRow
<1>o. ASSUME UNCHANGED issue, NEW owned, Conclude(c, owned),
             owned => Owns(issue, k) \/ Over(k.run)
      PROVE  Effect
  <2>1. CASE ~owned
    BY <1>o, <2>1, <1>s, <1>n, <1>k, <1>0 DEF Conclude
  <2>2. CASE owned
    <3>1. holders' = holders \cup ({k.run} \cap Runs)
      BY <1>o, <2>2, <1>s DEF Conclude
    <3>2. Keeps(k.run)
      BY <1>o, <2>2, <3>1, <1>0, OwnerKeeps DEF Keeps, Over, Live
    <3>3. QED
      BY <3>2, <1>k, <1>0
  <2>3. QED
    BY <2>1, <2>2
<1>t. (UNCHANGED <<issue, holders>>) => Effect
  BY <1>n, <1>k, <1>0
<1>1. CASE StartCheckout(c) \/ StartAssert(c) \/ UpdateRead(c) \/ SweepRead(c)
  BY <1>1, <1>t DEF StartCheckout, StartAssert, UpdateRead, SweepRead
<1>2. CASE CallClearExecution(c)
  <2>1. CASE TerminalOrMissing(issue.exec)
    <3>1. ClearsExecution
      BY <1>2, <2>1, <1>0, StampedRow
         DEF CallClearExecution, ClearExecutionRunIfTerminal, ClearsExecution, TerminalOrMissing, Live
    <3>2. QED
      BY <1>2, <3>1 DEF CallClearExecution, Effect
  <2>2. CASE ~TerminalOrMissing(issue.exec)
    BY <1>2, <2>2, <1>t DEF CallClearExecution, ClearExecutionRunIfTerminal
  <2>3. QED
    BY <2>1, <2>2
<1>3. CASE CallClearCheckout(c)
  <2>1. CASE TerminalOrMissing(issue.checkout) /\ issue' = Unlocked(issue)
    <3>1. Moves(NoRun)
      BY <1>3, <2>1, <1>l, <1>0 DEF CallClearCheckout, Moves, TerminalOrMissing, Live, Begun
    <3>2. QED
      BY <1>3, <3>1, <1>k, <1>0 DEF CallClearCheckout
  <2>2. CASE issue' = issue
    BY <1>3, <2>2, <1>t DEF CallClearCheckout
  <2>3. QED
    BY <1>3, <2>1, <2>2 DEF CallClearCheckout, ClearCheckoutRunIfTerminal
<1>4. CASE CheckoutBlocked(c)
  BY <1>4, <1>s, <1>t DEF CheckoutBlocked
<1>5. CASE CheckoutClaim(c)
  <2>1. CASE Claimable(issue, k)
    <3>1. Live(issue.checkout) => issue.checkout = k.run
      BY <2>1, <1>0 DEF Claimable, CheckoutHoldsExecution, Live
    <3>2. Moves(k.run)
      BY <1>5, <2>1, <3>1, <1>0, <1>s, ClaimedRow DEF CheckoutClaim, Moves, k
    <3>3. QED
      BY <1>5, <3>2, <1>k, <1>0 DEF CheckoutClaim
  <2>2. CASE ~Claimable(issue, k)
    BY <1>5, <2>2, <1>t DEF CheckoutClaim, k
  <2>3. QED
    BY <2>1, <2>2
<1>6. CASE CheckoutRead(c)
  <2>1. CASE UNCHANGED holders
    BY <1>6, <2>1, <1>t DEF CheckoutRead
  <2>2. CASE Conclude(c, Owns(issue, k))
    BY <1>6, <2>2, <1>o DEF CheckoutRead
  <2>3. QED
    BY <1>6, <2>1, <2>2 DEF CheckoutRead, k
<1>7. ASSUME Unowned(issue, k) \/ StaleAdoptable(issue, k),
             issue' = Locked(issue, k.run), Succeed(c)
      PROVE  Effect
  <2>1. ~Live(issue.checkout)
    BY <1>7, <1>0 DEF Unowned, StaleAdoptable, TerminalOrMissing, Live
  <2>2. Moves(k.run)
    BY <1>7, <2>1, <1>l, <1>0, <1>s DEF Moves
  <2>3. QED
    BY <2>2, <1>k, <1>0
<1>8. CASE CheckoutAdopt(c)
  BY <1>8, <1>7, <1>s, <1>t DEF CheckoutAdopt, k
<1>9. CASE CheckoutAdoptStale(c)
  BY <1>9, <1>7, <1>s, <1>t DEF CheckoutAdoptStale, k
<1>10. CASE CheckoutTestExecution(c)
  <2>1. CASE UNCHANGED holders
    BY <1>10, <2>1, <1>t DEF CheckoutTestExecution
  <2>2. CASE Conclude(c, k.owned)
    BY <1>10, <2>2, <1>o, <1>0 DEF CheckoutTestExecution, Remembers
  <2>3. QED
    BY <1>10, <2>1, <2>2 DEF CheckoutTestExecution, k
<1>11. CASE CheckoutTakeStaleExecution(c)
  <2>1. CASE StaleExecutionTakeable(issue, k)
    <3>1. ~Live(issue.checkout)
      BY <1>11, <2>1, <1>0 DEF CheckoutTakeStaleExecution, StaleExecutionTakeable,
         CheckoutHoldsExecution, Remembers, Over, Live, k
    <3>2. Moves(k.run)
      BY <1>11, <2>1, <3>1, <1>0, <1>s, StaleExecutionTakenRow
         DEF CheckoutTakeStaleExecution, Moves, k
    <3>3. QED
      BY <1>11, <3>2, <1>k, <1>0 DEF CheckoutTakeStaleExecution
  <2>2. CASE ~StaleExecutionTakeable(issue, k)
    <3>1. UNCHANGED issue /\ Conclude(c, k.owned)
      BY <1>11, <2>2 DEF CheckoutTakeStaleExecution, k
    <3>2. QED
      BY <1>11, <3>1, <1>o, <1>0 DEF CheckoutTakeStaleExecution, Remembers
  <2>3. QED
    BY <2>1, <2>2
<1>12. ASSUME NEW again, Resolve(c, issue, again), UNCHANGED issue
       PROVE  Effect
  <2>1. CASE UNCHANGED holders
    BY <1>12, <2>1, <1>t
  <2>2. CASE Owns(issue, k) /\ Succeed(c)
    BY <1>12, <2>2, <1>0, <1>s, <1>k, OwnerKeeps
  <2>3. QED
    BY <1>12, <2>1, <2>2 DEF Resolve, k
<1>13. CASE AssertRead(c)
  BY <1>13, <1>12 DEF AssertRead
<1>14. CASE AssertAdoptUnowned(c)
  BY <1>14, <1>7, <1>t DEF AssertAdoptUnowned, k
<1>15. CASE AssertAdoptStale(c)
  <2>1. CASE StaleAdoptable(issue, k) /\ issue' = Locked(issue, k.run) /\ Succeed(c)
    BY <1>15, <2>1, <1>7 DEF AssertAdoptStale
  <2>2. CASE UNCHANGED issue /\ (Conclude(c, Owns(issue, k)) \/ Resolve(c, issue, TRUE))
    BY <1>15, <2>2, <1>o, <1>12 DEF AssertAdoptStale
  <2>3. QED
    BY <1>15, <2>1, <2>2 DEF AssertAdoptStale, k
<1>16. CASE UpdatePatch(c)
  <2>1. PICK p \in Patches :
          \/ issue' = Unlocked(Patched(issue, p)) /\ holders' = {}
          \/ issue' = Patched(issue, p) /\ UNCHANGED holders
    BY <1>16 DEF UpdatePatch
  <2>2. CASE issue' = Unlocked(Patched(issue, p)) /\ holders' = {}
    BY <1>16, <2>2, <1>0, PatchedRow, UnlockedRow DEF UpdatePatch, Effect, Revokes
  <2>3. CASE issue' = Patched(issue, p) /\ UNCHANGED holders
    <3>1. Keeps(NoRun)
      BY <2>3, <1>0, PatchedRow DEF Keeps, Live
    <3>2. QED
      BY <1>16, <3>1, <1>0, <1>k DEF UpdatePatch
  <2>4. QED
    BY <2>1, <2>2, <2>3
<1>17. CASE SweepClear(c)
  <2>1. CASE Locks(issue) = k.cur
    <3>1. issue.checkout = k.cur.checkout
      BY <2>1, <1>0, LocksRow
    <3>2. ~Live(issue.checkout)
      BY <1>17, <3>1, <1>0 DEF SweepClear, Remembers, Over, Live, k
    <3>3. Moves(NoRun)
      BY <1>17, <2>1, <3>2, <1>l, <1>0 DEF SweepClear, Moves, Begun, k
    <3>4. QED
      BY <1>17, <3>3, <1>k, <1>0 DEF SweepClear
  <2>2. CASE Locks(issue) # k.cur
    BY <1>17, <2>2, <1>t DEF SweepClear, k
  <2>3. QED
    BY <2>1, <2>2
<1>18. QED
  BY <1>1, <1>2, <1>3, <1>4, <1>5, <1>6, <1>8, <1>9, <1>10, <1>11, <1>13, <1>14, <1>15,
     <1>16, <1>17 DEF Request

(* What a request remembers after each of its steps.                       *)
LEMMA NewCallsSound ==
  ASSUME TypeOK, LocksBegun
  PROVE  /\ Sound(Idle)
         /\ \A a \in Agents, r \in RunOrNull, e \in ExpectedChoices :
              (r \in Runs => runStatus[r] = "running") => Sound(CheckoutCall(a, r, e))
         /\ \A r \in Runs : runStatus[r] = "running" => Sound(AssertCall(r))
         /\ Sound(UpdateCall(issue))
         /\ StaleLock => Sound(SweepCall(issue))
<1> USE CheckoutConstants DEF Sound, Remembers, Ran, Begun, Over
<1>1. /\ Idle.run = NoRun /\ Idle.pc = "idle" /\ Idle.owned = FALSE
      /\ Idle.cur.checkout = NoRun /\ Idle.cur.exec = NoRun /\ Idle \in Call
      /\ NullRow \in IssueRow
  BY IdleType, NullRowType DEF Idle, NullRow
<1>2. ASSUME NEW a \in Agents, NEW r \in RunOrNull, NEW e \in ExpectedChoices,
             r \in Runs => runStatus[r] = "running"
      PROVE  Sound(CheckoutCall(a, r, e))
  BY <1>1, <1>2 DEF CheckoutCall, Call
<1>3. ASSUME NEW r \in Runs, runStatus[r] = "running" PROVE Sound(AssertCall(r))
  BY <1>1, <1>3 DEF AssertCall, Call
<1>4. Sound(UpdateCall(issue))
  BY <1>1 DEF UpdateCall, Call, NullRow
<1>5. ASSUME StaleLock PROVE Sound(SweepCall(issue))
  <2>1. /\ SweepCall(issue).run = NoRun /\ SweepCall(issue).owned = FALSE
        /\ SweepCall(issue).pc = "sweep" /\ SweepCall(issue).cur = Locks(issue)
    BY <1>1 DEF SweepCall, Call
  <2>2. Locks(issue).checkout = issue.checkout /\ Locks(issue).exec = issue.exec
    BY LocksRow DEF TypeOK
  <2>3. QED
    BY <1>5, <2>1, <2>2 DEF StaleLock, Cleanable, TerminalOrMissing, LocksBegun
<1>6. QED
  BY <1>1, <1>2, <1>3, <1>4, <1>5

(* A request that goes on after reading the row remembers begun runs, and  *)
(* what it learnt to be over is over.                                      *)
LEMMA MovedCallsSound ==
  ASSUME NEW k \in Call, Sound(k), NEW pc \in Pcs, pc \notin {"takeStaleExec", "sweep"},
         NEW row \in IssueRow, Begun(row.checkout), Begun(row.exec)
  PROVE  /\ Sound(At(k, pc)) /\ Sound(Again(k)) /\ Sound(Saw(At(k, pc), NoRun))
         /\ k.cur.exec \in Runs /\ Over(k.cur.exec) => Sound(At(k, "takeStaleExec"))
         /\ \A b \in BOOLEAN : Sound(Adopting(k, pc, row, b))
         /\ /\ Unowned(row, k) \/ HeldByOther(row, k) \/ ExecutedByOther(row, k)
            /\ Owns(row, k) /\ ExecutedByOther(row, k) => Over(k.run)
            => Sound(Chosen(row, k))
<1> USE CheckoutConstants DEF Sound, Remembers, Ran, Begun, Over
<1>1. Sound(At(k, pc)) /\ Sound(Again(k))
  BY DEF At, Again, Call
<1>2. Sound(Saw(At(k, pc), NoRun))
  BY DEF Saw, At, Call, IssueRow
<1>3. k.cur.exec \in Runs /\ Over(k.cur.exec) => Sound(At(k, "takeStaleExec"))
  BY DEF At, Call
<1>4. ASSUME NEW b \in BOOLEAN PROVE Sound(Adopting(k, pc, row, b))
  BY DEF Adopting, Saw, At, Call, IssueRow
<1>5. ASSUME Unowned(row, k) \/ HeldByOther(row, k) \/ ExecutedByOther(row, k),
             Owns(row, k) /\ ExecutedByOther(row, k) => Over(k.run)
      PROVE  Sound(Chosen(row, k))
  <2> DEFINE next(q, cur) == [At(k, q) EXCEPT !.cur = cur, !.owned = Owns(row, k)]
  <2>1. ASSUME NEW q \in {"adopt", "adoptStale", "staleExec"}, NEW cur \in IssueRow
        PROVE  /\ next(q, cur).pc = q /\ next(q, cur).cur = cur
               /\ next(q, cur).owned = Owns(row, k) /\ next(q, cur).run = k.run
    BY DEF At, Call
  <2> HIDE DEF next
  <2>2. /\ NullRow \in IssueRow /\ Locks(row) \in IssueRow
        /\ Stamped(NullRow, row.exec) \in IssueRow
        /\ Locks(row).checkout = row.checkout /\ Locks(row).exec = row.exec
        /\ Stamped(NullRow, row.exec).checkout = NoRun
        /\ Stamped(NullRow, row.exec).exec = row.exec
        /\ NullRow.checkout = NoRun /\ NullRow.exec = NoRun
    BY NullRowType, LocksRow, StampedRow, RowLocks DEF NullRow
  <2>3. CASE Unowned(row, k)
    <3>1. ~Owns(row, k) /\ Chosen(row, k) = next("adopt", NullRow)
      BY <2>3 DEF Unowned, Owns, SameRunLock, Chosen, next
    <3>2. QED
      BY <2>1, <2>2, <3>1
  <2>4. CASE ~Unowned(row, k) /\ HeldByOther(row, k)
    <3>1. ~Owns(row, k) /\ Chosen(row, k) = next("adoptStale", Locks(row))
      BY <2>4 DEF HeldByOther, Owns, SameRunLock, Chosen, next
    <3>2. QED
      BY <2>1, <2>2, <3>1
  <2>5. CASE ~Unowned(row, k) /\ ~HeldByOther(row, k)
    <3>1. Chosen(row, k) = next("staleExec", Stamped(NullRow, row.exec))
      BY <2>5 DEF Chosen, next
    <3>2. QED
      BY <1>5, <2>1, <2>2, <2>5, <3>1
  <2>6. QED
    BY <2>3, <2>4, <2>5
<1>6. QED
  BY <1>1, <1>2, <1>3, <1>4, <1>5

(* Every step of a request keeps what requests remember sound.             *)
LEMMA RequestMemory ==
  ASSUME IInv, NEW c \in Calls, Request(c)
  PROVE  CallsSound'
<1> DEFINE k == calls[c]
<1>0. /\ k \in Call /\ Sound(k) /\ issue \in IssueRow /\ runStatus' = runStatus
      /\ Begun(issue.checkout) /\ Begun(issue.exec)
      /\ calls \in [Calls -> Call] /\ \A x \in Calls : Sound(calls[x])
  BY RequestEffect DEF IInv, TypeOK, CallsSound, LockInv, LocksBegun
<1>p. {"clearCheckout", "claim", "read", "adopt", "adoptStale", "staleExec",
       "adoptUnowned"} \subseteq Pcs \ {"takeStaleExec", "sweep"}
  BY DEF Pcs
<1>b. ASSUME NEW q, Sound(q), Become(c, q) PROVE CallsSound'
  <2>1. \A x \in Calls : calls'[x] = IF x = c THEN q ELSE calls[x]
    BY <1>b, <1>0 DEF Become
  <2>2. QED
    BY <1>b, <1>0, <2>1 DEF CallsSound, Sound, Remembers, Ran, Begun, Over
<1>n. /\ Sound(Idle)
      /\ \A a \in Agents, r \in RunOrNull, e \in ExpectedChoices :
           (r \in Runs => runStatus[r] = "running") => Sound(CheckoutCall(a, r, e))
      /\ \A r \in Runs : runStatus[r] = "running" => Sound(AssertCall(r))
      /\ Sound(UpdateCall(issue))
      /\ StaleLock => Sound(SweepCall(issue))
  BY NewCallsSound DEF IInv, LockInv
<1>o. Owns(issue, k) /\ ExecutedByOther(issue, k) => Over(k.run)
  BY <1>0 DEF Owns, SameRunLock, ExecutedByOther, IInv, LockInv, CheckoutHoldsExecution, Live,
     Sound, Ran, Over
<1>m. ASSUME NEW pc \in {"clearCheckout", "claim", "read", "adopt", "adoptStale",
                         "staleExec", "adoptUnowned"}
      PROVE  /\ Sound(At(k, pc)) /\ Sound(Again(k)) /\ Sound(Saw(At(k, pc), NoRun))
             /\ k.cur.exec \in Runs /\ Over(k.cur.exec) => Sound(At(k, "takeStaleExec"))
             /\ \A b \in BOOLEAN : Sound(Adopting(k, pc, issue, b))
             /\ Unowned(issue, k) \/ HeldByOther(issue, k) \/ ExecutedByOther(issue, k)
                => Sound(Chosen(issue, k))
  BY <1>0, <1>p, <1>o, MovedCallsSound
<1> HIDE DEF k
<1>i. Return(c) => CallsSound'
  BY <1>b, <1>n DEF Return
<1>s. /\ Succeed(c) => CallsSound'
      /\ Fail(c) => CallsSound'
      /\ \A b : Conclude(c, b) => CallsSound'
  BY <1>i DEF Succeed, Fail, Conclude
<1>g. ASSUME NEW pc \in {"clearCheckout", "claim", "read", "adopt", "adoptStale",
                         "staleExec", "adoptUnowned"}
      PROVE  Goto(c, pc) => CallsSound'
  BY <1>b, <1>m DEF Goto, k
<1>a. Become(c, Again(k)) => CallsSound'
  BY <1>b, <1>m
<1>1. CASE StartCheckout(c) \/ StartAssert(c) \/ UpdateRead(c) \/ SweepRead(c)
  BY <1>1, <1>b, <1>n, Zenon DEF StartCheckout, StartAssert, UpdateRead, SweepRead
<1>2. CASE CallClearExecution(c) \/ CallClearCheckout(c)
  BY <1>2, <1>g DEF CallClearExecution, CallClearCheckout
<1>3. CASE CheckoutBlocked(c) \/ CheckoutClaim(c) \/ CheckoutAdopt(c)
  BY <1>3, <1>s, <1>g DEF CheckoutBlocked, CheckoutClaim, CheckoutAdopt
<1>4. CASE CheckoutRead(c)
  <2>1. CASE Become(c, Chosen(issue, k)) /\ (\/ Unowned(issue, k) \/ HeldByOther(issue, k)
                                             \/ ExecutedByOther(issue, k))
    BY <2>1, <1>b, <1>m
  <2>2. CASE Conclude(c, Owns(issue, k))
    BY <2>2, <1>s
  <2>3. QED
    BY <1>4, <2>1, <2>2 DEF CheckoutRead, k
<1>5. CASE CheckoutAdoptStale(c)
  <2>1. Become(c, Saw(At(k, "staleExec"), NoRun)) => CallsSound'
    BY <1>b, <1>m
  <2>2. QED
    BY <1>5, <2>1, <1>s DEF CheckoutAdoptStale, k
<1>6. CASE CheckoutTestExecution(c)
  <2>1. CASE TerminalOrMissing(k.cur.exec)
    <3>1. k.cur.exec \in Runs /\ Over(k.cur.exec)
      BY <2>1, <1>0 DEF TerminalOrMissing, Sound, Remembers, Begun, Over
    <3>2. Become(c, At(k, "takeStaleExec"))
      BY <1>6, <2>1 DEF CheckoutTestExecution, Goto, k
    <3>3. QED
      BY <3>1, <3>2, <1>b, <1>m
  <2>2. CASE ~TerminalOrMissing(k.cur.exec)
    BY <1>6, <2>2, <1>s DEF CheckoutTestExecution, k
  <2>3. QED
    BY <2>1, <2>2
<1>7. CASE CheckoutTakeStaleExecution(c) \/ UpdatePatch(c) \/ SweepClear(c)
  BY <1>7, <1>s, <1>i DEF CheckoutTakeStaleExecution, UpdatePatch, SweepClear
<1>8. ASSUME NEW again \in BOOLEAN, Resolve(c, issue, again) PROVE CallsSound'
  <2>1. ASSUME NEW pc \in {"adoptUnowned", "adoptStale"}, Become(c, Adopting(k, pc, issue, again))
        PROVE  CallsSound'
    BY <2>1, <1>b, <1>m
  <2>2. QED
    BY <1>8, <2>1, <1>a, <1>i, <1>s DEF Resolve, k
<1>9. CASE AssertRead(c)
  BY <1>9, <1>8, <1>0 DEF AssertRead, Call, k
<1>10. CASE AssertAdoptUnowned(c)
  BY <1>10, <1>a, <1>i, <1>s DEF AssertAdoptUnowned, k
<1>11. CASE AssertAdoptStale(c)
  BY <1>11, <1>8, <1>s DEF AssertAdoptStale, k
<1>12. QED
  BY <1>1, <1>2, <1>3, <1>4, <1>5, <1>6, <1>7, <1>9, <1>10, <1>11 DEF Request

(* Whoever is told it owns the checkout has been running.                  *)
LEMMA GrantedRan ==
  ASSUME IInv, NEW c \in Calls, Request(c)
  PROVE  RunnersRan'
<1>1. UNCHANGED <<runStatus, claiming>>
  BY RequestEffect
<1>2. holders' \subseteq holders \cup {calls[c].run}
  BY DEF Request, StartCheckout, StartAssert, CallClearExecution, CallClearCheckout,
     CheckoutBlocked, CheckoutClaim, CheckoutRead, CheckoutAdopt, CheckoutAdoptStale,
     CheckoutTestExecution, CheckoutTakeStaleExecution, AssertRead, AssertAdoptUnowned,
     AssertAdoptStale, UpdateRead, UpdatePatch, SweepRead, SweepClear, Resolve, Conclude,
     Succeed, Fail, Grant
<1>3. QED
  BY <1>1, <1>2 DEF IInv, RunnersRan, CallsSound, Sound, Ran

(* The steps that are not a request's: each keeps the lock invariant.      *)
LEMMA RunStepLocks ==
  ASSUME IInv, NEW r \in Runs, RunStep(r)
  PROVE  LockInv'
<1> USE CheckoutConstants DEF LockInv, LocksBegun, CheckoutHoldsExecution, HolderKeepsCheckout,
                              Live, Begun
<1>0. /\ issue \in IssueRow /\ runStatus \in [Runs -> RunStatus] /\ holders \subseteq Runs
      /\ LockInv /\ \A h \in holders \cup claiming : h \in Runs => runStatus[h] \in {"running", "terminal"}
      /\ finalizing[r] # "none" => runStatus[r] = "terminal"
      /\ claiming \subseteq Runs
  BY DEF IInv, TypeOK, RunnersRan, Ran, EndedOver, Over
<1>1. ASSUME NEW n \in Runs
      PROVE  /\ Stamped(issue, n).exec = n /\ Stamped(issue, n).checkout = issue.checkout
             /\ Stamped(Unlocked(issue), n).exec = n
             /\ Stamped(Unlocked(issue), n).checkout = NoRun
             /\ Stamped(Released(r), n).exec = n
             /\ Stamped(Released(r), n).checkout = Released(r).checkout
  <2>1. n \in RunOrNull /\ Unlocked(issue) \in IssueRow /\ Released(r) \in IssueRow
        /\ Unlocked(issue).checkout = NoRun
    BY <1>0, UnlockedRow, ReleasedRow DEF RunOrNull
  <2>2. QED
    BY <1>0, <2>1, StampedRow
<1>2. CASE Release(r)
  BY <1>2, <1>0, UnlockedRow DEF Release
<1>3. CASE WakeupWithoutIssue(r)
  BY <1>3, <1>0 DEF WakeupWithoutIssue
<1>4. CASE ClaimQueuedRun(r)
  BY <1>4, <1>0 DEF ClaimQueuedRun
<1>5. CASE StampClaim(r)
  BY <1>5, <1>0, <1>1 DEF StampClaim
<1>6. CASE FinishRun(r)
  BY <1>6, <1>0 DEF FinishRun
<1>7. CASE ReleaseIssueExecution(r)
  <2>1. CASE issue' = Released(r) /\ UNCHANGED runStatus
    BY <1>7, <2>1, <1>0, ReleasedRow DEF ReleaseIssueExecution
  <2>2. ASSUME NEW n \in IssueRuns, issue.exec \in {NoRun, r}, runStatus[n] = "absent",
               runStatus' = [runStatus EXCEPT ![n] = "queued"],
               issue' = Stamped(Released(r), n) \/ issue' = Released(r)
        PROVE  LockInv'
    BY <1>7, <2>2, <1>0, <1>1, ReleasedRow DEF ReleaseIssueExecution
  <2>3. QED
    BY <1>7, <2>1, <2>2 DEF ReleaseIssueExecution
<1>8. ASSUME NEW n \in Runs, ProcessLossRetry(r, n) PROVE LockInv'
  BY <1>8, <1>0, <1>1 DEF ProcessLossRetry
<1>9. ASSUME NEW n \in Runs, ScheduleBoundedRetry(r, n) PROVE LockInv'
  BY <1>9, <1>0, <1>1 DEF ScheduleBoundedRetry
<1>10. QED
  BY <1>2, <1>3, <1>4, <1>5, <1>6, <1>7, <1>8, <1>9 DEF RunStep

(* A wake-up moves the execution lock off a live run only if it cancels    *)
(* that run, and none it cancels holds the checkout.                       *)
LEMMA WakeupLocks ==
  ASSUME IInv, Wakeup
  PROVE  LockInv'
<1> USE CheckoutConstants DEF LockInv, LocksBegun, CheckoutHoldsExecution, HolderKeepsCheckout,
                              Live, Begun
<1>0. /\ issue \in IssueRow /\ runStatus \in [Runs -> RunStatus] /\ holders \subseteq Runs
      /\ LockInv /\ \A h \in holders : runStatus[h] \in {"running", "terminal"}
  BY DEF IInv, TypeOK, RunnersRan, Ran
<1>1. \A n \in RunOrNull : /\ Stamped(issue, n).exec = n
                           /\ Stamped(issue, n).checkout = issue.checkout
  BY <1>0, StampedRow
<1>2. PICK active \in RunOrNull, cancelled \in SUBSET Runs, new \in IssueRuns \cup {NoRun} :
        /\ WakeFinds(active, cancelled) /\ (new # NoRun => runStatus[new] = "absent")
        /\ issue' = Stamped(issue, active)
        /\ runStatus' = [r \in Runs |-> IF r = new THEN "queued"
                          ELSE IF r \in cancelled THEN "terminal" ELSE runStatus[r]]
        /\ UNCHANGED holders
  BY DEF Wakeup, Queueable
<1>3. WakeCancels(active, cancelled)
  BY <1>0, <1>2, WakeFinding DEF IInv, TypeOK
<1>4. /\ \A r \in Runs : Live(r)' => r = new \/ (Live(r) /\ r \notin cancelled)
      /\ \A r \in Runs : runStatus'[r] = "absent" => runStatus[r] = "absent"
  BY <1>0, <1>2, <1>3 DEF WakeCancels
<1>5. issue'.exec = active /\ issue'.checkout = issue.checkout /\ holders' = holders
  BY <1>1, <1>2
<1>6. LocksBegun'
  BY <1>0, <1>3, <1>4, <1>5 DEF WakeCancels, IssueRow, RunOrNull
<1>7. (Live(issue.checkout) => issue.exec = issue.checkout)'
  BY <1>0, <1>2, <1>3, <1>4, <1>5 DEF WakeCancels, IssueRow, RunOrNull
<1>8. (\A r \in holders : Live(r) => issue.checkout = r /\ issue.exec = r)'
  BY <1>0, <1>2, <1>3, <1>4, <1>5 DEF WakeCancels, IssueRow, RunOrNull
<1>9. QED
  BY <1>6, <1>7, <1>8

(* The inductive invariant holds at first, and every step keeps it.        *)
LEMMA InitIInv == Init => IInv
<1>1. SUFFICES ASSUME Init PROVE IInv
  OBVIOUS
<1>2. TypeOK
  BY <1>1, InitType
<1>3. \A a \in AgentOrNull, u \in UserOrNull : Created(a, u).checkout = NoRun /\ Created(a, u).exec = NoRun
  BY NullRowType DEF Created, IssueRow, NullRow
<1>4. issue.checkout = NoRun /\ issue.exec = NoRun
  BY <1>1, <1>3 DEF Init
<1>5. LockInv
  BY <1>1, <1>4, CheckoutConstants DEF Init, LockInv, LocksBegun, CheckoutHoldsExecution,
     HolderKeepsCheckout, Live, Begun
<1>6. CallsSound
  BY <1>1, <1>2, <1>5, NewCallsSound DEF Init, CallsSound, LockInv
<1>7. QED
  BY <1>1, <1>2, <1>5, <1>6 DEF Init, IInv, RunnersRan, EndedOver

(* Every step keeps the inductive invariant.                               *)
LEMMA NextIInv == IInv /\ [Next]_vars => IInv'
<1>1. ASSUME IInv, Next PROVE IInv'
  <2>1. TypeOK'
    BY <1>1, NextType DEF IInv
  <2>2. \A r : (Begun(r) => Begun(r)') /\ (Ran(r) => Ran(r)') /\ (Over(r) => Over(r)')
    BY <1>1, RunsAdvance DEF IInv
  <2>3. ASSUME UNCHANGED calls PROVE CallsSound'
    BY <1>1, <2>2, <2>3 DEF IInv, CallsSound, Sound, Remembers, Begun, Ran, Over
  <2>4. ASSUME UNCHANGED <<holders, claiming>> PROVE RunnersRan'
    BY <1>1, <2>2, <2>4 DEF IInv, RunnersRan
  <2>5. ASSUME UNCHANGED finalizing PROVE EndedOver'
    BY <1>1, <2>2, <2>5 DEF IInv, EndedOver
  <2>6. ASSUME NEW c \in Calls, Request(c) PROVE IInv'
    <3>1. UNCHANGED <<runStatus, finalizing, claiming>> /\ Effect
      BY <1>1, <2>6, RequestEffect
    <3>2. LockInv'
      BY <1>1, <3>1, EffectKeepsLockInv DEF IInv
    <3>3. CallsSound'
      BY <1>1, <2>6, RequestMemory
    <3>4. RunnersRan'
      BY <1>1, <3>1, <2>6, GrantedRan
    <3>5. QED
      BY <2>1, <2>5, <3>1, <3>2, <3>3, <3>4 DEF IInv
  <2>7. ASSUME NEW r \in Runs, RunStep(r) PROVE IInv'
    <3>1. LockInv'
      BY <1>1, <2>7, RunStepLocks
    <3>2. CallsSound'
      BY <2>3, <2>7 DEF RunStep, Release, WakeupWithoutIssue, ClaimQueuedRun, StampClaim,
         FinishRun, ReleaseIssueExecution, ProcessLossRetry, ScheduleBoundedRetry
    <3>3. \A h \in holders' \cup claiming' :
            h \in holders \cup claiming \/ (h = r /\ ClaimQueuedRun(r))
      BY <2>7 DEF RunStep, Release, WakeupWithoutIssue, ClaimQueuedRun, StampClaim,
         FinishRun, ReleaseIssueExecution, ProcessLossRetry, ScheduleBoundedRetry
    <3>4. ClaimQueuedRun(r) => Ran(r)'
      BY <1>1 DEF IInv, TypeOK, ClaimQueuedRun, Ran
    <3>5. RunnersRan'
      BY <1>1, <2>2, <3>3, <3>4 DEF IInv, RunnersRan
    <3>6. \A s \in Runs : finalizing'[s] # "none" => finalizing[s] # "none" \/ (s = r /\ FinishRun(r))
      BY <1>1, <2>7 DEF IInv, TypeOK, RunStep, Release, WakeupWithoutIssue, ClaimQueuedRun,
         StampClaim, FinishRun, ReleaseIssueExecution, ProcessLossRetry, ScheduleBoundedRetry
    <3>7. FinishRun(r) => Over(r)'
      BY <1>1 DEF IInv, TypeOK, FinishRun, Over
    <3>8. EndedOver'
      BY <1>1, <2>2, <3>6, <3>7 DEF IInv, EndedOver
    <3>9. QED
      BY <2>1, <3>1, <3>2, <3>5, <3>8 DEF IInv
  <2>8. CASE Wakeup
    <3>1. UNCHANGED <<finalizing, claiming, calls, holders>>
      BY <2>8 DEF Wakeup
    <3>2. QED
      BY <1>1, <2>8, <3>1, <2>1, <2>3, <2>4, <2>5, WakeupLocks DEF IInv
  <2>9. CASE Release(NoRun) \/ AdminForceRelease
    <3>1. /\ issue' \in IssueRow /\ issue'.checkout = NoRun /\ issue'.exec = NoRun
          /\ holders' = {} /\ UNCHANGED <<runStatus, finalizing, claiming, calls>>
      <4>1. issue \in IssueRow /\ Unlocked(issue) \in IssueRow
            /\ Unlocked(issue).checkout = NoRun /\ Unlocked(issue).exec = NoRun
        BY <1>1, UnlockedRow DEF IInv, TypeOK
      <4>2. ASSUME NEW row \in IssueRow, row.checkout = NoRun, row.exec = NoRun,
                   NEW a \in AgentOrNull, NEW st \in Status
            PROVE  /\ [row EXCEPT !.assignee = a] \in IssueRow
                   /\ [row EXCEPT !.assignee = a].checkout = NoRun
                   /\ [row EXCEPT !.assignee = a].exec = NoRun
                   /\ [row EXCEPT !.status = st, !.assignee = a] \in IssueRow
                   /\ [row EXCEPT !.status = st, !.assignee = a].checkout = NoRun
                   /\ [row EXCEPT !.status = st, !.assignee = a].exec = NoRun
        BY <4>2 DEF IssueRow
      <4>3. NoAgent \in AgentOrNull /\ "todo" \in Status
        BY DEF AgentOrNull, Status
      <4>4. CASE Release(NoRun)
        BY <4>1, <4>2, <4>3, <4>4 DEF Release
      <4>5. CASE AdminForceRelease
        BY <4>1, <4>2, <4>3, <4>5 DEF AdminForceRelease
      <4>6. QED
        BY <2>9, <4>4, <4>5
    <3>2. LockInv'
      BY <1>1, <3>1, CheckoutConstants DEF LockInv, LocksBegun, CheckoutHoldsExecution,
         HolderKeepsCheckout, Live, Begun
    <3>3. RunnersRan'
      BY <1>1, <3>1, <2>2 DEF IInv, RunnersRan
    <3>4. QED
      BY <3>1, <3>2, <3>3, <2>1, <2>3, <2>5 DEF IInv
  <2>10. CASE Crash
    <3>1. Sound(Idle)
      BY <1>1, NewCallsSound DEF IInv, LockInv
    <3>2. CallsSound'
      BY <2>10, <3>1 DEF Crash, CallsSound, Sound, Remembers, Begun, Ran, Over
    <3>3. LockInv'
      BY <1>1, <2>10 DEF Crash, IInv, LockInv, LocksBegun, CheckoutHoldsExecution,
         HolderKeepsCheckout, Live, Begun
    <3>4. RunnersRan' /\ EndedOver'
      BY <1>1, <2>10, <2>2 DEF Crash, IInv, RunnersRan, EndedOver
    <3>5. QED
      BY <2>1, <3>2, <3>3, <3>4 DEF IInv
  <2>11. QED
    BY <1>1, <2>6, <2>7, <2>8, <2>9, <2>10 DEF Next
<1>2. ASSUME IInv, UNCHANGED vars PROVE IInv'
  BY <1>2 DEF vars, IInv, TypeOK, RunnersRan, EndedOver, CallsSound, Sound, Remembers, Begun,
     Ran, Over, LockInv, LocksBegun, CheckoutHoldsExecution, HolderKeepsCheckout, Live
<1>3. QED
  BY <1>1, <1>2

(* The inductive invariant holds of every reachable state.                 *)
LEMMA Inductive == Spec => []IInv
BY InitIInv, NextIInv, PTL DEF Spec

----------------------------------------------------------------------------
(* The safety of the checkout                                              *)

(* A live run that has the checkout has the execution lock.                *)
THEOREM ExecutionFollowsCheckout == Spec => []CheckoutHoldsExecution
<1>1. IInv => CheckoutHoldsExecution
  BY DEF IInv, LockInv
<1>2. QED
  BY <1>1, Inductive, PTL

(* No run loses a checkout it was told it owns while it lives, unless the  *)
(* checkout is revoked.                                                    *)
THEOREM HolderSafe == Spec => []HolderKeepsCheckout
<1>1. IInv => HolderKeepsCheckout
  BY DEF IInv, LockInv
<1>2. QED
  BY <1>1, Inductive, PTL

(* At most one live run believes that it owns the issue.                   *)
THEOREM MutualExclusion == Spec => []CheckoutExclusive
<1>1. IInv => CheckoutExclusive
  BY DEF IInv, LockInv, HolderKeepsCheckout, CheckoutExclusive
<1>2. QED
  BY <1>1, Inductive, PTL

----------------------------------------------------------------------------
(* IssueCheckout implements CheckoutLease                                  *)

(* Runs begin and end, and the lease of a run that is over is taken back.  *)
LEMMA LifecycleStep ==
  ASSUME IInv, NEW begin \in SUBSET Runs, NEW end \in SUBSET Runs,
         \A r \in begin : runStatus[r] = "absent" /\ runStatus'[r] = "queued",
         \A r \in end : Live(r) /\ runStatus'[r] = "terminal",
         \A r \in Runs \ (begin \cup end) : runStatus'[r] = runStatus[r],
         UNCHANGED holders \/ holders' = holders \ end,
         \/ issue'.checkout = issue.checkout
         \/ ~Live(issue.checkout) /\ issue'.checkout = NoRun
  PROVE  Lease!Lifecycle
<1> DEFINE live == {r \in Runs : Live(r)}
           over == {r \in Runs : runStatus[r] = "terminal"}
           told == {r \in holders : Live(r)}
<1>1. begin \in SUBSET (Runs \ (live \cup over)) /\ end \in SUBSET live
  BY DEF Live
<1>2. live' = (live \ end) \cup begin
  BY DEF Live
<1>3. over' = over \cup end
  BY DEF Live
<1>4. told' = told \ end
  BY DEF Live, IInv, TypeOK, RunnersRan, Ran
<1>5. issue'.checkout = issue.checkout \/ (issue.checkout \notin live /\ issue'.checkout = NoRun)
  OBVIOUS
<1>6. QED
  BY <1>1, <1>2, <1>3, <1>4, <1>5 DEF Lease!Lifecycle

(* A lease that stays, or is taken back from a run that is not live, while *)
(* no run begins or ends, is a step of the lease.                          *)
LEMMA TakenBack ==
  ASSUME IInv, UNCHANGED <<runStatus, holders>>,
         \/ issue'.checkout = issue.checkout
         \/ ~Live(issue.checkout) /\ issue'.checkout = NoRun
  PROVE  Lease!Next
<1>1. {} \in SUBSET Runs
  OBVIOUS
<1>2. Lease!Lifecycle
  BY <1>1, LifecycleStep
<1>3. QED
  BY <1>2 DEF Lease!Next

(* Every step of a request is a step of the lease or a stutter.            *)
LEMMA RequestRefines ==
  ASSUME IInv, NEW c \in Calls, Request(c)
  PROVE  Lease!Next \/ UNCHANGED Lease!vars
<1>1. UNCHANGED runStatus /\ Effect /\ NoRun \notin Runs /\ holders \subseteq Runs
  BY RequestEffect, CheckoutConstants DEF IInv, TypeOK
<1>2. \A r : Live(r) <=> Live(r)'
  BY <1>1 DEF Live
<1>3. /\ UNCHANGED {r \in Runs : Live(r)}
      /\ UNCHANGED {r \in Runs : runStatus[r] = "terminal"}
  BY <1>1 DEF Live
<1>4. CASE Revokes
  BY <1>3, <1>4 DEF Revokes, Lease!Next, Lease!Revoke
<1>5. CASE ClearsExecution
  BY <1>1, <1>3, <1>5 DEF ClearsExecution, Lease!vars, Live
<1>6. ASSUME NEW x \in RunOrNull, Keeps(x) PROVE Lease!Next \/ UNCHANGED Lease!vars
  <2>1. {r \in holders : Live(r)}' = {r \in holders : Live(r)} \cup ({x} \cap {r \in Runs : Live(r)})
    BY <1>1, <1>6 DEF Keeps, Live
  <2>2. CASE Live(x)
    <3>1. x \in Runs /\ issue.checkout = x /\ issue'.checkout = x
      BY <1>6, <2>2 DEF Keeps, Live
    <3>2. Lease!Acquire(x)
      BY <1>3, <2>1, <3>1 DEF Lease!Acquire
    <3>3. QED
      BY <3>1, <3>2 DEF Lease!Next
  <2>3. CASE ~Live(x)
    <3>1. {r \in holders : Live(r)}' = {r \in holders : Live(r)}
      BY <2>1, <2>3
    <3>2. QED
      BY <1>6, <1>3, <3>1 DEF Keeps, Lease!vars
  <2>4. QED
    BY <2>2, <2>3
<1>7. ASSUME NEW x \in RunOrNull, Moves(x) PROVE Lease!Next \/ UNCHANGED Lease!vars
  <2>1. {r \in holders : Live(r)}' = {r \in holders : Live(r)} \cup ({x} \cap {r \in Runs : Live(r)})
    BY <1>1, <1>7 DEF Moves, Live
  <2>2. CASE x \in Runs
    <3>1. Lease!Acquire(x)
      BY <1>3, <1>7, <2>1 DEF Lease!Acquire, Moves
    <3>2. QED
      BY <2>2, <3>1 DEF Lease!Next
  <2>3. CASE x = NoRun
    <3>1. ~Live(issue.checkout) /\ issue'.checkout = NoRun /\ UNCHANGED holders
      BY <1>1, <1>7, <2>3 DEF Moves, Live
    <3>2. QED
      BY <1>1, <3>1, TakenBack
  <2>4. QED
    BY <2>2, <2>3 DEF RunOrNull
<1>8. QED
  BY <1>1, <1>4, <1>5, <1>6, <1>7 DEF Effect

(* So is every step of a run.                                              *)
LEMMA RunStepRefines ==
  ASSUME IInv, NEW r \in Runs, RunStep(r)
  PROVE  Lease!Next \/ UNCHANGED Lease!vars
<1>0. /\ issue \in IssueRow /\ runStatus \in [Runs -> RunStatus]
      /\ NoRun \notin Runs /\ IssueRuns \subseteq Runs
      /\ finalizing[r] # "none" => runStatus[r] = "terminal"
      /\ CheckoutHoldsExecution
  BY CheckoutConstants DEF IInv, TypeOK, EndedOver, Over, LockInv
<1>q. /\ \A n \in Runs : Stamped(issue, n).checkout = issue.checkout
      /\ \A n \in Runs : Stamped(Released(r), n).checkout = Released(r).checkout
      /\ \A n \in Runs : Stamped(Unlocked(issue), n).checkout = NoRun
      /\ Unlocked(issue) \in IssueRow /\ Unlocked(issue).checkout = NoRun
      /\ Released(r).checkout = IF issue.checkout = r THEN NoRun ELSE issue.checkout
  <2>1. Unlocked(issue) \in IssueRow /\ Released(r) \in IssueRow
        /\ Unlocked(issue).checkout = NoRun
        /\ Released(r).checkout = IF issue.checkout = r THEN NoRun ELSE issue.checkout
    BY <1>0, UnlockedRow, ReleasedRow
  <2>2. QED
    BY <1>0, <2>1, StampedRow DEF RunOrNull
<1>b. ASSUME NEW n \in Runs, runStatus[n] = "absent",
             runStatus' = [runStatus EXCEPT ![n] = "queued"], UNCHANGED holders,
             \/ issue'.checkout = issue.checkout
             \/ ~Live(issue.checkout) /\ issue'.checkout = NoRun
      PROVE  Lease!Next
  <2> DEFINE begin == {n}
             end == {}
  <2>1. begin \in SUBSET Runs /\ end \in SUBSET Runs
    OBVIOUS
  <2>2. /\ \A s \in begin : runStatus[s] = "absent" /\ runStatus'[s] = "queued"
        /\ \A s \in end : Live(s) /\ runStatus'[s] = "terminal"
        /\ \A s \in Runs \ (begin \cup end) : runStatus'[s] = runStatus[s]
    BY <1>b, <1>0
  <2> HIDE DEF begin, end
  <2>3. Lease!Lifecycle
    BY <1>b, <2>1, <2>2, LifecycleStep
  <2>4. QED
    BY <2>3 DEF Lease!Next
<1>1. CASE Release(r)
  <2>1. issue'.checkout = NoRun /\ holders' = {} /\ UNCHANGED runStatus
    BY <1>1, <1>0, <1>q DEF Release, IssueRow
  <2>2. Lease!Revoke
    BY <2>1 DEF Lease!Revoke, Live
  <2>3. QED
    BY <2>2 DEF Lease!Next
<1>2. CASE WakeupWithoutIssue(r)
  BY <1>2, <1>b DEF WakeupWithoutIssue
<1>3. CASE ClaimQueuedRun(r) \/ StampClaim(r)
  <2>1. issue'.checkout = issue.checkout /\ UNCHANGED holders
    BY <1>3, <1>q DEF ClaimQueuedRun, StampClaim
  <2>2. \A s \in Runs : (Live(s) <=> Live(s)') /\ (runStatus[s] = "terminal" <=> runStatus'[s] = "terminal")
    BY <1>3, <1>0 DEF ClaimQueuedRun, StampClaim, Live
  <2>3. UNCHANGED Lease!vars
    BY <2>1, <2>2 DEF Lease!vars, IInv, TypeOK
  <2>4. QED
    BY <2>3
<1>4. CASE FinishRun(r)
  <2> DEFINE begin == {}
             end == {r}
  <2>1. begin \in SUBSET Runs /\ end \in SUBSET Runs
    OBVIOUS
  <2>2. /\ \A s \in begin : runStatus[s] = "absent" /\ runStatus'[s] = "queued"
        /\ \A s \in end : Live(s) /\ runStatus'[s] = "terminal"
        /\ \A s \in Runs \ (begin \cup end) : runStatus'[s] = runStatus[s]
        /\ holders' = holders \ end /\ UNCHANGED issue
    BY <1>4, <1>0 DEF FinishRun
  <2> HIDE DEF begin, end
  <2>3. Lease!Lifecycle
    BY <2>1, <2>2, LifecycleStep
  <2>4. QED
    BY <2>3 DEF Lease!Next
<1>5. CASE ReleaseIssueExecution(r)
  <2>1. runStatus[r] = "terminal" /\ UNCHANGED holders
    BY <1>5, <1>0 DEF ReleaseIssueExecution
  <2>2. \/ Released(r).checkout = issue.checkout
        \/ ~Live(issue.checkout) /\ Released(r).checkout = NoRun
    BY <2>1, <1>q DEF Live
  <2>3. CASE issue' = Released(r) /\ UNCHANGED runStatus
    BY <2>1, <2>2, <2>3, TakenBack
  <2>4. ASSUME NEW n \in IssueRuns, runStatus[n] = "absent",
               runStatus' = [runStatus EXCEPT ![n] = "queued"],
               issue' = Stamped(Released(r), n) \/ issue' = Released(r)
        PROVE  Lease!Next
    BY <2>1, <2>2, <2>4, <1>0, <1>b, <1>q
  <2>5. QED
    BY <1>5, <2>3, <2>4 DEF ReleaseIssueExecution
<1>6. ASSUME NEW n \in Runs, ProcessLossRetry(r, n) PROVE Lease!Next
  BY <1>6, <1>0, <1>b, <1>q DEF ProcessLossRetry, CheckoutHoldsExecution, Live
<1>7. ASSUME NEW n \in Runs, ScheduleBoundedRetry(r, n) PROVE Lease!Next
  BY <1>7, <1>0, <1>b, <1>q DEF ScheduleBoundedRetry
<1>8. QED
  BY <1>1, <1>2, <1>3, <1>4, <1>5, <1>6, <1>7 DEF RunStep

(* A wake-up begins a run and ends the ones it cancels; the lease stays.   *)
LEMMA WakeupRefines ==
  ASSUME IInv, Wakeup
  PROVE  Lease!Next
<1>0. /\ issue \in IssueRow /\ runStatus \in [Runs -> RunStatus]
      /\ IssueRuns \subseteq Runs /\ UNCHANGED holders
  BY CheckoutConstants DEF IInv, TypeOK, Wakeup
<1>1. PICK active \in RunOrNull, cancelled \in SUBSET Runs, new \in IssueRuns \cup {NoRun} :
        /\ WakeFinds(active, cancelled) /\ (new # NoRun => runStatus[new] = "absent")
        /\ issue' = Stamped(issue, active)
        /\ runStatus' = [r \in Runs |-> IF r = new THEN "queued"
                          ELSE IF r \in cancelled THEN "terminal" ELSE runStatus[r]]
  BY DEF Wakeup, Queueable
<1>2. WakeCancels(active, cancelled)
  BY <1>1, WakeFinding DEF IInv
<1>3. issue'.checkout = issue.checkout
  BY <1>0, <1>1, StampedRow
<1>4. DEFINE begin == {r \in Runs : r = new}
<1>5. begin \in SUBSET Runs
  OBVIOUS
<1>6. \A r \in begin : runStatus[r] = "absent" /\ runStatus'[r] = "queued"
  BY <1>1, CheckoutConstants
<1>7. \A r \in cancelled : Live(r) /\ runStatus'[r] = "terminal"
  BY <1>1, <1>2, CheckoutConstants DEF WakeCancels, Live
<1>8. \A r \in Runs \ (begin \cup cancelled) : runStatus'[r] = runStatus[r]
  BY <1>1
<1>9. QED
  BY <1>0, <1>3, <1>5, <1>6, <1>7, <1>8, LifecycleStep DEF Lease!Next

(* Every step of the server is a step of the lease or a stutter.           *)
LEMMA NextRefines == IInv /\ [Next]_vars => [Lease!Next]_(Lease!vars)
<1>1. ASSUME IInv, Release(NoRun) \/ AdminForceRelease PROVE Lease!Next
  <2>1. issue \in IssueRow /\ Unlocked(issue) \in IssueRow /\ Unlocked(issue).checkout = NoRun
    BY <1>1, UnlockedRow DEF IInv, TypeOK
  <2>2. issue'.checkout = NoRun /\ holders' = {} /\ UNCHANGED runStatus
    BY <1>1, <2>1 DEF Release, AdminForceRelease, IssueRow
  <2>3. Lease!Revoke
    BY <2>2 DEF Lease!Revoke, Live
  <2>4. QED
    BY <2>3 DEF Lease!Next
<1>2. ASSUME Crash \/ UNCHANGED vars PROVE UNCHANGED Lease!vars
  BY <1>2 DEF Crash, vars, Lease!vars, Live
<1>3. QED
  BY <1>1, <1>2, RequestRefines, RunStepRefines, WakeupRefines DEF Next

(* A new issue has a free lease.                                           *)
LEMMA InitRefines == Init => Lease!Init
<1>1. \A a \in AgentOrNull, u \in UserOrNull : Created(a, u).checkout = NoRun
  BY NullRowType DEF Created, IssueRow, NullRow
<1>2. Init => issue.checkout = NoRun
  BY <1>1 DEF Init
<1>3. QED
  BY <1>2 DEF Init, Lease!Init, Live

(* The requests, and everything else that writes the row, implement the    *)
(* lease: they never take it from a live run without revoking it.          *)
THEOREM Refinement == Spec => ImplementsLease
BY InitRefines, NextRefines, Inductive, PTL DEF Spec, ImplementsLease, Lease!Spec

=============================================================================
