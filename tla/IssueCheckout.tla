--------------------------- MODULE IssueCheckout ---------------------------
(***************************************************************************)
(* The checkout lock and the execution lock of ONE issue row               *)
(* (server/src/services/issues.ts): checkout, assertCheckoutOwner,         *)
(* release, adminForceRelease and update, each split at the awaits between *)
(* its SQL statements and transactions, so that requests interleave as     *)
(* they do in the server.  The writers of the two lock columns that live   *)
(* outside issues.ts are here too: the claim stamp, the repair done by a   *)
(* wake-up, finalization, retries (heartbeat.ts), and the sweeper           *)
(* (recovery/service.ts).                                                  *)
(*                                                                         *)
(* A SQL statement, and a transaction that holds the row FOR UPDATE, is    *)
(* one atomic step.                                                        *)
(***************************************************************************)
EXTENDS Naturals, FiniteSets

CONSTANTS
  Runs,             \* ids of heartbeat runs that work on the issue
  Agents,           \* agents of the company
  AgentOf,          \* the agent of each run: heartbeat_runs.agent_id
  Calls,            \* operations of the server that may be in flight together
  OpsOf,            \* bound: which operations each of them may be
  ExpectedChoices,  \* the expectedStatuses arrays clients send to checkout
  Patches,          \* the bodies clients send to update
  IssueRuns,        \* the runs whose contextSnapshot.issueId is this issue
  Users,            \* board users an issue can be assigned to
  NoRun, NoAgent, NoUser,  \* SQL null in a run, an agent, a user column
  Undefined         \* a field the body of an update does not name

(* issues.status: "todo" stands for every status but in_progress (whether  *)
(* a client expects the one the issue has is its choice of expected).      *)
Status == {"todo", "in_progress"}

(* heartbeat_runs.status: "absent" before the row is inserted, "queued"    *)
(* also for scheduled_retry, "terminal" for the five final statuses.       *)
RunStatus == {"absent", "queued", "running", "terminal"}

RunOrNull == Runs \cup {NoRun}
AgentOrNull == Agents \cup {NoAgent}
UserOrNull == Users \cup {NoUser}

(* The fields of an update that the locks depend on.                       *)
Patch == [status : Status \cup {Undefined}, assignee : AgentOrNull \cup {Undefined},
          user : UserOrNull \cup {Undefined}]

ASSUME CheckoutConstants ==
  /\ AgentOf \in [Runs -> Agents]
  /\ IssueRuns \subseteq Runs
  /\ NoRun \notin Runs /\ NoAgent \notin Agents /\ NoUser \notin Users
  /\ Undefined \notin Status \cup AgentOrNull \cup UserOrNull
  /\ ExpectedChoices \subseteq SUBSET Status
  /\ Patches \subseteq Patch

(* The columns of the issue row the lock protocol reads and writes.        *)
IssueRow == [status : Status, assignee : AgentOrNull, user : UserOrNull,
             checkout : RunOrNull, exec : RunOrNull]

Ops == {"none", "checkout", "assert", "update", "sweep"}
Pcs == {"idle", "clearExec", "clearCheckout", "claim", "read", "adopt",
        "adoptStale", "staleExec", "takeStaleExec", "adoptUnowned", "patch", "sweep"}

(* One request: its arguments, where it is, and what it still needs of the *)
(* row it read last (the const "current", "candidate" or "existing").      *)
Call == [pc : Pcs, op : Ops, agent : AgentOrNull, run : RunOrNull,
         expected : SUBSET Status, cur : IssueRow, owned : BOOLEAN,
         again : BOOLEAN]

VARIABLES
  issue,       \* the row of table issues
  runStatus,   \* heartbeat_runs.status of each run
  finalizing,  \* the finalizer of each run: "none", "ended" (it may still queue
               \* a retry, and has to release), "retried" (it has to release)
  claiming,    \* runs just made "running" whose claim still has to stamp the row
  calls,       \* the requests, and the sweeper's pass, in flight
  holders      \* runs that were told they own the checkout, until it is revoked

vars == <<issue, runStatus, finalizing, claiming, calls, holders>>

NullRow == [status |-> "todo", assignee |-> NoAgent, user |-> NoUser,
            checkout |-> NoRun, exec |-> NoRun]
Created(a, u) == [NullRow EXCEPT !.assignee = a, !.user = u]
Idle == [pc |-> "idle", op |-> "none", agent |-> NoAgent, run |-> NoRun,
         expected |-> {}, cur |-> NullRow, owned |-> FALSE, again |-> FALSE]

----------------------------------------------------------------------------
(* Predicates and row operators                                            *)

Live(r) == r \in Runs /\ runStatus[r] \in {"queued", "running"}

(* isTerminalOrMissingHeartbeatRun *)
TerminalOrMissing(r) == r \in Runs /\ runStatus[r] \in {"terminal", "absent"}

(* Mutant of SameRunLock: of the agent's own runs each may use the lock.   *)
LockedAtAll(checkout, run) == checkout # NoRun \/ run = NoRun

(* sameRunLock: a request without a run id matches a row without a lock.   *)
SameRunLock(checkout, run) == checkout = run

Owns(row, c) == /\ row.status = "in_progress"
                /\ row.assignee = c.agent
                /\ SameRunLock(row.checkout, c.run)

Locked(row, run) == [row EXCEPT !.checkout = run, !.exec = run]
Unlocked(row) == Locked(row, NoRun)
Stamped(row, run) == [row EXCEPT !.exec = run]

(* clearExecutionRunIfTerminal, one transaction *)
ClearExecutionRunIfTerminal(row) ==
  IF TerminalOrMissing(row.exec) THEN Stamped(row, NoRun) ELSE row

(* clearCheckoutRunIfTerminal, one transaction *)
ClearCheckoutRunIfTerminal(row) ==
  IF /\ TerminalOrMissing(row.checkout)
     /\ row.exec \in {NoRun, row.checkout} \/ TerminalOrMissing(row.exec)
  THEN Unlocked(row) ELSE row

(* The WHERE clause of checkout's first UPDATE.                            *)
Claimable(row, c) ==
  /\ row.status \in c.expected
  /\ \/ row.assignee = NoAgent
     \/ row.assignee = c.agent /\ row.checkout \in {NoRun, c.run}
  /\ row.exec \in {NoRun, c.run}

(* Mutant of Claimed: the claim forgets executionRunId.                    *)
ClaimedWithoutExecution(row, c) ==
  [status |-> "in_progress", assignee |-> c.agent, user |-> NoUser,
   checkout |-> c.run, exec |-> row.exec]

(* What that UPDATE sets.                                                  *)
Claimed(row, c) == [status |-> "in_progress", assignee |-> c.agent,
                    user |-> NoUser, checkout |-> c.run, exec |-> c.run]

(* The row is the caller's and nobody's lock is on it: checkout's second   *)
(* UPDATE and adoptUnownedCheckoutRun test the same thing.                 *)
Unowned(row, c) ==
  /\ c.run # NoRun
  /\ row.status = "in_progress" /\ row.assignee = c.agent
  /\ row.checkout = NoRun
  /\ row.exec \in {NoRun, c.run}

(* The row is the caller's but another run has it checked out.             *)
HeldByOther(row, c) ==
  /\ c.run # NoRun
  /\ row.status = "in_progress" /\ row.assignee = c.agent
  /\ row.checkout \notin {NoRun, c.run}

(* Another run has the execution lock of a row the caller may work on.     *)
ExecutedByOther(row, c) ==
  /\ c.run # NoRun
  /\ row.exec \notin {NoRun, c.run}
  /\ row.assignee \in {c.agent, NoAgent}

(* Mutant of StaleAdoptable: the run that has the checkout is not looked   *)
(* at again inside the transaction.                                        *)
AdoptableUnchecked(row, c) ==
  /\ row.status = "in_progress" /\ row.assignee = c.agent
  /\ row.checkout = c.cur.checkout
  /\ Live(c.run)

(* adoptStaleCheckoutRun: the transaction's tests on the row it locked and *)
(* on the two runs.  It does not look at the row's execution lock.         *)
StaleAdoptable(row, c) ==
  /\ row.status = "in_progress" /\ row.assignee = c.agent
  /\ row.checkout = c.cur.checkout
  /\ TerminalOrMissing(row.checkout)
  /\ Live(c.run)

(* The WHERE clause of checkout's last UPDATE.  It does not look at the    *)
(* row's checkout lock.                                                    *)
StaleExecutionTakeable(row, c) ==
  /\ row.status \in c.expected
  /\ row.exec = c.cur.exec
  /\ row.assignee \in {NoAgent, c.agent}

(* What it sets: unlike Claimed it keeps assigneeUserId.                   *)
StaleExecutionTaken(row, c) ==
  [Locked(row, c.run) EXCEPT !.status = "in_progress", !.assignee = c.agent]

----------------------------------------------------------------------------
(* Requests                                                                *)

Become(c, call) == calls' = [calls EXCEPT ![c] = call]
At(call, pc) == [call EXCEPT !.pc = pc]
Goto(c, pc) == Become(c, At(calls[c], pc))
Return(c) == Become(c, Idle)
Grant(c) == holders' = holders \cup ({calls[c].run} \cap Runs)

(* The request succeeds: its run is told that it owns the checkout.        *)
Succeed(c) == Return(c) /\ Grant(c)
Fail(c) == Return(c) /\ UNCHANGED holders

(* checkout's last test, on the row it read: the run owns it already.      *)
Conclude(c, owned) == IF owned THEN Succeed(c) ELSE Fail(c)

(* An agent's run, or the board without a run, sends a request.            *)
CheckoutCall(a, r, e) == [Idle EXCEPT !.pc = "clearExec", !.op = "checkout",
                                      !.agent = a, !.run = r, !.expected = e]
AssertCall(r) == [Idle EXCEPT !.pc = "clearExec", !.op = "assert",
                              !.agent = AgentOf[r], !.run = r]

StartCheckout(c) ==
  /\ calls[c].pc = "idle" /\ "checkout" \in OpsOf[c]
  /\ \E r \in RunOrNull, a \in Agents, e \in ExpectedChoices :
       /\ r \in Runs => runStatus[r] = "running" /\ a = AgentOf[r]
       /\ Become(c, CheckoutCall(a, r, e))
  /\ UNCHANGED <<issue, runStatus, finalizing, claiming, holders>>

StartAssert(c) ==
  /\ calls[c].pc = "idle" /\ "assert" \in OpsOf[c]
  /\ \E r \in Runs :
       /\ runStatus[r] = "running"
       /\ Become(c, AssertCall(r))
  /\ UNCHANGED <<issue, runStatus, finalizing, claiming, holders>>

CallClearExecution(c) ==
  /\ calls[c].pc = "clearExec"
  /\ issue' = ClearExecutionRunIfTerminal(issue)
  /\ Goto(c, "clearCheckout")
  /\ UNCHANGED <<runStatus, finalizing, claiming, holders>>

CallClearCheckout(c) ==
  /\ calls[c].pc = "clearCheckout"
  /\ issue' = ClearCheckoutRunIfTerminal(issue)
  /\ Goto(c, IF calls[c].op = "checkout" THEN "claim" ELSE "read")
  /\ UNCHANGED <<runStatus, finalizing, claiming, holders>>

(* checkout: the issue has unresolved blockers (read outside this module). *)
CheckoutBlocked(c) ==
  /\ calls[c].pc = "claim"
  /\ Fail(c)
  /\ UNCHANGED <<issue, runStatus, finalizing, claiming>>

CheckoutClaim(c) ==
  /\ calls[c].pc = "claim"
  /\ IF Claimable(issue, calls[c])
     THEN issue' = Claimed(issue, calls[c]) /\ Succeed(c)
     ELSE Goto(c, "read") /\ UNCHANGED <<issue, holders>>
  /\ UNCHANGED <<runStatus, finalizing, claiming>>

(* The lock columns of a row that an adoption will compare.                *)
Locks(row) == [NullRow EXCEPT !.checkout = row.checkout, !.exec = row.exec]

Chosen(row, call) ==
  LET next(pc, cur) == [At(call, pc) EXCEPT !.cur = cur, !.owned = Owns(row, call)]
  IN IF Unowned(row, call) THEN next("adopt", NullRow)
     ELSE IF HeldByOther(row, call) THEN next("adoptStale", Locks(row))
     ELSE next("staleExec", Stamped(NullRow, row.exec))

(* checkout reads the row it could not claim and picks its first way out.  *)
CheckoutRead(c) ==
  /\ calls[c].pc = "read" /\ calls[c].op = "checkout"
  /\ \/ /\ \/ Unowned(issue, calls[c]) \/ HeldByOther(issue, calls[c])
           \/ ExecutedByOther(issue, calls[c])
        /\ Become(c, Chosen(issue, calls[c]))
        /\ UNCHANGED holders
     \/ /\ ~Unowned(issue, calls[c]) /\ ~HeldByOther(issue, calls[c])
        /\ ~ExecutedByOther(issue, calls[c])
        /\ Conclude(c, Owns(issue, calls[c]))
  /\ UNCHANGED <<issue, runStatus, finalizing, claiming>>

(* The checkout lock that a call compares, or need not any more.           *)
Saw(call, run) == [call EXCEPT !.cur.checkout = run]

CheckoutAdopt(c) ==
  /\ calls[c].pc = "adopt"
  /\ IF Unowned(issue, calls[c])
     THEN issue' = Locked(issue, calls[c].run) /\ Succeed(c)
     ELSE Fail(c) /\ UNCHANGED issue
  /\ UNCHANGED <<runStatus, finalizing, claiming>>

CheckoutAdoptStale(c) ==
  /\ calls[c].pc = "adoptStale" /\ calls[c].op = "checkout"
  /\ \/ /\ StaleAdoptable(issue, calls[c])
        /\ issue' = Locked(issue, calls[c].run)
        /\ Succeed(c)
     \/ /\ ~StaleAdoptable(issue, calls[c])
        /\ IF calls[c].cur.exec \notin {NoRun, calls[c].run} \* ExecutedByOther
           THEN /\ Become(c, Saw(At(calls[c], "staleExec"), NoRun))
                /\ UNCHANGED holders
           ELSE Fail(c)
        /\ UNCHANGED issue
  /\ UNCHANGED <<runStatus, finalizing, claiming>>

(* checkout asks whether the run it saw executing is over...               *)
CheckoutTestExecution(c) ==
  /\ calls[c].pc = "staleExec"
  /\ IF TerminalOrMissing(calls[c].cur.exec)
     THEN Goto(c, "takeStaleExec") /\ UNCHANGED holders
     ELSE Conclude(c, calls[c].owned)
  /\ UNCHANGED <<issue, runStatus, finalizing, claiming>>

(* ... and takes the row in a later statement.                             *)
CheckoutTakeStaleExecution(c) ==
  /\ calls[c].pc = "takeStaleExec"
  /\ IF StaleExecutionTakeable(issue, calls[c])
     THEN issue' = StaleExecutionTaken(issue, calls[c]) /\ Succeed(c)
     ELSE Conclude(c, calls[c].owned) /\ UNCHANGED issue
  /\ UNCHANGED <<runStatus, finalizing, claiming>>

Adopting(call, pc, row, again) == Saw([At(call, pc) EXCEPT !.again = again], row.checkout)
Again(call) == [At(call, "read") EXCEPT !.again = TRUE]

(* assertCheckoutOwner: resolveOwnership(row).  Where the first resolution *)
(* finds nothing to do the row is read again; the second one gives up.     *)
Resolve(c, row, again) ==
  \/ Owns(row, calls[c]) /\ Succeed(c)
  \/ /\ \/ Unowned(row, calls[c]) /\ Become(c, Adopting(calls[c], "adoptUnowned", row, again))
        \/ HeldByOther(row, calls[c]) /\ Become(c, Adopting(calls[c], "adoptStale", row, again))
     /\ UNCHANGED holders
  \/ /\ ~Owns(row, calls[c]) /\ ~Unowned(row, calls[c]) /\ ~HeldByOther(row, calls[c])
     /\ IF again THEN Return(c) ELSE Become(c, Again(calls[c]))
     /\ UNCHANGED holders

AssertRead(c) ==
  /\ calls[c].pc = "read" /\ calls[c].op = "assert"
  /\ Resolve(c, issue, calls[c].again)
  /\ UNCHANGED <<issue, runStatus, finalizing, claiming>>

(* adoptUnownedCheckoutRun, one transaction that also tests the caller.    *)
AssertAdoptUnowned(c) ==
  /\ calls[c].pc = "adoptUnowned"
  /\ IF Live(calls[c].run) /\ Unowned(issue, calls[c])
     THEN issue' = Locked(issue, calls[c].run) /\ Succeed(c)
     ELSE /\ IF calls[c].again THEN Return(c)
             ELSE Become(c, Again(calls[c]))
          /\ UNCHANGED <<issue, holders>>
  /\ UNCHANGED <<runStatus, finalizing, claiming>>

(* adoptStaleCheckoutRun returns the row it locked when it does not adopt; *)
(* the request resolves that row, once more.                               *)
AssertAdoptStale(c) ==
  /\ calls[c].pc = "adoptStale" /\ calls[c].op = "assert"
  /\ \/ /\ StaleAdoptable(issue, calls[c])
        /\ issue' = Locked(issue, calls[c].run)
        /\ Succeed(c)
     \/ /\ ~StaleAdoptable(issue, calls[c])
        /\ IF calls[c].again THEN Conclude(c, Owns(issue, calls[c])) ELSE Resolve(c, issue, TRUE)
        /\ UNCHANGED issue
  /\ UNCHANGED <<runStatus, finalizing, claiming>>

(* release, one transaction.  The board (no agent) may always release; an  *)
(* agent's run may have ended while its request was on the way.            *)
ReleaseAllowed(r) ==
  \/ r = NoRun
  \/ /\ r \in Runs /\ runStatus[r] \in {"running", "terminal"}
     /\ issue.assignee \in {NoAgent, AgentOf[r]}
     /\ \/ issue.status # "in_progress" \/ issue.assignee = NoAgent
        \/ issue.checkout \in {NoRun, r} \/ TerminalOrMissing(issue.checkout)

Release(r) ==
  /\ ReleaseAllowed(r)
  /\ issue' = [Unlocked(issue) EXCEPT !.status = "todo", !.assignee = NoAgent]
  /\ holders' = {}
  /\ UNCHANGED <<runStatus, finalizing, claiming, calls>>

(* adminForceRelease, one transaction: the status stays as it is.          *)
AdminForceRelease ==
  /\ \E clearAssignee \in BOOLEAN :
       issue' = IF clearAssignee THEN [Unlocked(issue) EXCEPT !.assignee = NoAgent]
                ELSE Unlocked(issue)
  /\ holders' = {}
  /\ UNCHANGED <<runStatus, finalizing, claiming, calls>>

(* update reads the row ...                                                *)
UpdateCall(row) ==
  [Idle EXCEPT !.pc = "patch", !.op = "update",
               !.cur = [NullRow EXCEPT !.assignee = row.assignee, !.user = row.user]]

UpdateRead(c) ==
  /\ calls[c].pc = "idle" /\ "update" \in OpsOf[c]
  /\ Become(c, UpdateCall(issue))
  /\ UNCHANGED <<issue, runStatus, finalizing, claiming, holders>>

(* ... checks the patch against that row, and decides from it whether the  *)
(* locks are to be cleared ...                                             *)
Given(value, old) == IF value = Undefined THEN old ELSE value

(* Mutant of Patched: an absent field is written like any other.           *)
PatchedBlindly(row, p) ==
  [row EXCEPT !.status = p.status, !.assignee = p.assignee, !.user = p.user]

Patched(row, p) == [row EXCEPT !.status = Given(p.status, @),
                               !.assignee = Given(p.assignee, @),
                               !.user = Given(p.user, @)]

PatchValid(cur, p) ==
  LET next == Patched(cur, p)
  IN /\ next.assignee = NoAgent \/ next.user = NoUser
     /\ p.status = "in_progress" => next.assignee # NoAgent \/ next.user # NoUser

PatchUnlocks(cur, p) ==
  \/ p.status \notin {Undefined, "in_progress"}
  \/ p.assignee \notin {Undefined, cur.assignee}
  \/ p.user \notin {Undefined, cur.user}

(* ... and writes it to whatever the row has become.                       *)
UpdatePatch(c) ==
  /\ calls[c].pc = "patch"
  /\ \E p \in Patches :
       /\ PatchValid(calls[c].cur, p)
       /\ IF PatchUnlocks(calls[c].cur, p)
          THEN issue' = Unlocked(Patched(issue, p)) /\ holders' = {}
          ELSE issue' = Patched(issue, p) /\ UNCHANGED holders
  /\ Return(c)
  /\ UNCHANGED <<runStatus, finalizing, claiming>>

----------------------------------------------------------------------------
(* Writers of the row and of the runs outside issues.ts                    *)

(* The transaction of enqueueWakeup on the locked row.  The run that holds *)
(* the execution lock counts while its row is live; but a queued run is    *)
(* cancelled if the issue has another assignee, and a scheduled retry also *)
(* if the issue has none or was cancelled.                                 *)
StaleHolder(r) == /\ Live(r) /\ runStatus[r] # "running"
                  /\ issue.assignee \notin {NoAgent, AgentOf[r]}

StaleRetry(r) == /\ Live(r) /\ runStatus[r] # "running"
                 /\ issue.assignee # AgentOf[r] \/ issue.status # "in_progress"

(* The "legacy run" repair looks for a live run whose context is the issue,*)
(* a running one first.                                                    *)
LegacyRuns(cancelled) ==
  LET live == {r \in IssueRuns \ cancelled : Live(r)}
      running == {r \in live : runStatus[r] = "running"}
  IN IF running # {} THEN running ELSE live

(* The active run the wake-up goes by, and the runs cancelled on the way.  *)
WakeFinds(active, cancelled) ==
  \/ /\ Live(issue.exec) /\ ~StaleHolder(issue.exec)
     /\ active = issue.exec /\ cancelled = {}
  \/ /\ ~Live(issue.exec) \/ StaleRetry(issue.exec)
     /\ LET dropped == {r \in {issue.exec} : Live(r)}
        IN \/ active \in LegacyRuns(dropped) /\ cancelled = dropped
           \/ active = NoRun /\ LegacyRuns(dropped) = {} /\ cancelled = dropped
           \/ /\ active = NoRun
              /\ \E r \in LegacyRuns(dropped) : StaleRetry(r) /\ cancelled = dropped \cup {r}

(* A run is queued if nothing is active, or for the agent of a lost process*)
(* (filterZombieCoalesceTarget); else the wake-up is merged or deferred.   *)
Queueable(active) ==
  {n \in IssueRuns : /\ runStatus[n] = "absent"
                     /\ \/ active = NoRun
                        \/ runStatus[active] = "running" /\ AgentOf[n] = AgentOf[active]}

Wakeup ==
  /\ \E active \in RunOrNull, cancelled \in SUBSET Runs :
       /\ WakeFinds(active, cancelled)
       /\ \E new \in Queueable(active) \cup {NoRun} :
            /\ issue' = Stamped(issue, active)
            /\ runStatus' = [r \in Runs |-> IF r = new THEN "queued"
                                           ELSE IF r \in cancelled THEN "terminal"
                                           ELSE runStatus[r]]
  /\ UNCHANGED <<finalizing, claiming, calls, holders>>

(* A wake-up of an agent that names no issue.                              *)
WakeupWithoutIssue(r) ==
  /\ r \notin IssueRuns /\ runStatus[r] = "absent"
  /\ runStatus' = [runStatus EXCEPT ![r] = "queued"]
  /\ UNCHANGED <<issue, finalizing, claiming, calls, holders>>

(* claimQueuedRun: the run becomes running in one statement ...            *)
ClaimQueuedRun(r) ==
  /\ runStatus[r] = "queued"
  /\ runStatus' = [runStatus EXCEPT ![r] = "running"]
  /\ claiming' = claiming \cup {r}
  /\ UNCHANGED <<issue, finalizing, calls, holders>>

(* ... and takes the execution lock in a later one, if it is free and the   *)
(* issue is the agent's; a source-scoped recovery run leaves it alone.     *)
StampClaim(r) ==
  /\ r \in claiming
  /\ claiming' = claiming \ {r}
  /\ \/ UNCHANGED issue
     \/ /\ r \in IssueRuns /\ issue.assignee = AgentOf[r]
        /\ issue.exec \in {NoRun, r}
        /\ issue' = Stamped(issue, r)
  /\ UNCHANGED <<runStatus, finalizing, calls, holders>>

(* The run ends: its executor, a cancellation or the reaper.               *)
FinishRun(r) ==
  /\ Live(r)
  /\ runStatus' = [runStatus EXCEPT ![r] = "terminal"]
  /\ finalizing' = [finalizing EXCEPT ![r] = "ended"]
  /\ holders' = holders \ {r}
  /\ UNCHANGED <<issue, claiming, calls>>

(* enqueueProcessLossRetry: the retry takes the execution lock over; the   *)
(* lost run is not released.                                               *)
ProcessLossRetry(r, n) ==
  /\ finalizing[r] = "ended"
  /\ {r, n} \subseteq IssueRuns /\ runStatus[n] = "absent" /\ AgentOf[n] = AgentOf[r]
  /\ runStatus' = [runStatus EXCEPT ![n] = "queued"]
  /\ finalizing' = [finalizing EXCEPT ![r] = "none"]
  /\ issue' = IF issue.exec = r THEN Stamped(Unlocked(issue), n) ELSE issue
  /\ UNCHANGED <<claiming, calls, holders>>

(* scheduleBoundedRetryForRun: the retry takes the execution lock over,    *)
(* the checkout stays with the failed run until it is released.            *)
ScheduleBoundedRetry(r, n) ==
  /\ finalizing[r] = "ended"
  /\ {r, n} \subseteq IssueRuns /\ runStatus[n] = "absent" /\ AgentOf[n] = AgentOf[r]
  /\ runStatus' = [runStatus EXCEPT ![n] = "queued"]
  /\ finalizing' = [finalizing EXCEPT ![r] = "retried"]
  /\ issue' = IF issue.exec = r THEN Stamped(issue, n) ELSE issue
  /\ UNCHANGED <<claiming, calls, holders>>

(* releaseIssueExecutionAndPromote, one transaction.  A promoted wake or a *)
(* recovery run is stamped only if its agent is the assignee.              *)
Released(r) == [issue EXCEPT !.exec = IF @ = r THEN NoRun ELSE @,
                             !.checkout = IF @ = r THEN NoRun ELSE @]

ReleaseIssueExecution(r) ==
  /\ finalizing[r] # "none"
  /\ finalizing' = [finalizing EXCEPT ![r] = "none"]
  /\ \/ issue' = Released(r) /\ UNCHANGED runStatus
     \/ /\ r \in IssueRuns \/ r \in {issue.exec, issue.checkout}
        /\ issue.exec \in {NoRun, r}
        /\ \E n \in IssueRuns :
             /\ runStatus[n] = "absent"
             /\ runStatus' = [runStatus EXCEPT ![n] = "queued"]
             /\ issue' = IF issue.assignee = AgentOf[n]
                         THEN Stamped(Released(r), n) ELSE Released(r)
  /\ UNCHANGED <<claiming, calls, holders>>

(* sweepStaleIssueLocks reads the row and the runs it names ...            *)
Cleanable(r) == r = NoRun \/ TerminalOrMissing(r)

StaleLock == /\ issue.checkout # NoRun \/ issue.exec # NoRun
             /\ Cleanable(issue.checkout) /\ Cleanable(issue.exec)

(* Mutant of SweepCall: the pass remembers the checkout lock only.         *)
SweepOfCheckout(row) ==
  [Idle EXCEPT !.pc = "sweep", !.op = "sweep", !.cur.checkout = row.checkout]

SweepCall(row) == [Idle EXCEPT !.pc = "sweep", !.op = "sweep", !.cur = Locks(row)]

SweepRead(c) ==
  /\ calls[c].pc = "idle" /\ "sweep" \in OpsOf[c]
  /\ StaleLock
  /\ Become(c, SweepCall(issue))
  /\ UNCHANGED <<issue, runStatus, finalizing, claiming, holders>>

(* Mutant of SweepClear: the locks are cleared whoever has them by now.    *)
SweepBlindly(c) ==
  /\ calls[c].pc = "sweep"
  /\ issue' = Unlocked(issue)
  /\ Return(c)
  /\ UNCHANGED <<runStatus, finalizing, claiming, holders>>

(* ... and clears the locks it saw, if they are still those.               *)
SweepClear(c) ==
  /\ calls[c].pc = "sweep"
  /\ issue' = IF Locks(issue) = calls[c].cur THEN Unlocked(issue) ELSE issue
  /\ Return(c)
  /\ UNCHANGED <<runStatus, finalizing, claiming, holders>>

(* The server stops: requests and finalizers are lost, the tables stay.    *)
Crash ==
  /\ calls' = [c \in Calls |-> Idle]
  /\ finalizing' = [r \in Runs |-> "none"] /\ claiming' = {}
  /\ UNCHANGED <<issue, runStatus, holders>>

----------------------------------------------------------------------------
Init ==
  /\ \E a \in AgentOrNull, u \in UserOrNull :
       /\ a = NoAgent \/ u = NoUser
       /\ issue = Created(a, u)
  /\ runStatus = [r \in Runs |-> "absent"]
  /\ finalizing = [r \in Runs |-> "none"] /\ claiming = {}
  /\ calls = [c \in Calls |-> Idle]
  /\ holders = {}

Request(c) ==
  \/ StartCheckout(c) \/ StartAssert(c) \/ CallClearExecution(c) \/ CallClearCheckout(c)
  \/ CheckoutBlocked(c) \/ CheckoutClaim(c) \/ CheckoutRead(c) \/ CheckoutAdopt(c)
  \/ CheckoutAdoptStale(c) \/ CheckoutTestExecution(c) \/ CheckoutTakeStaleExecution(c)
  \/ AssertRead(c) \/ AssertAdoptUnowned(c) \/ AssertAdoptStale(c)
  \/ UpdateRead(c) \/ UpdatePatch(c) \/ SweepRead(c) \/ SweepClear(c)

RunStep(r) ==
  \/ Release(r) \/ WakeupWithoutIssue(r) \/ ClaimQueuedRun(r) \/ StampClaim(r)
  \/ FinishRun(r) \/ ReleaseIssueExecution(r)
  \/ \E n \in Runs : ProcessLossRetry(r, n) \/ ScheduleBoundedRetry(r, n)

Next ==
  \/ \E c \in Calls : Request(c)
  \/ \E r \in Runs : RunStep(r)
  \/ Release(NoRun) \/ AdminForceRelease
  \/ Wakeup \/ Crash

(* The steps that take an operation in flight to its end.                  *)
Advance(c) ==
  \/ CallClearExecution(c) \/ CallClearCheckout(c) \/ CheckoutClaim(c)
  \/ CheckoutRead(c) \/ CheckoutAdopt(c) \/ CheckoutAdoptStale(c)
  \/ CheckoutTestExecution(c) \/ CheckoutTakeStaleExecution(c) \/ AssertRead(c)
  \/ AssertAdoptUnowned(c) \/ AssertAdoptStale(c) \/ UpdatePatch(c)

(* An operation in flight goes on (every await is on the database); the    *)
(* sweeper, on a timer and at start-up, gets a turn however busy the server *)
(* is, and a restart does not hit every one of its passes.                 *)
Fairness == \A c \in Calls : /\ WF_vars(Advance(c))
                            /\ SF_vars(SweepRead(c)) /\ SF_vars(SweepClear(c))

Spec == Init /\ [][Next]_vars /\ Fairness

----------------------------------------------------------------------------
(* Properties                                                              *)

(* Every variable has its type.                                            *)
TypeOK ==
  /\ issue \in IssueRow
  /\ runStatus \in [Runs -> RunStatus]
  /\ finalizing \in [Runs -> {"none", "ended", "retried"}]
  /\ claiming \subseteq Runs
  /\ calls \in [Calls -> Call]
  /\ holders \subseteq Runs

(* A live run that has the checkout has the execution lock too.  Every     *)
(* path that refuses a caller because of executionRunId alone relies on it *)
(* (checkout's last adoption never looks at checkoutRunId).                *)
CheckoutHoldsExecution == Live(issue.checkout) => issue.exec = issue.checkout

(* A run that was told it owns the checkout keeps it while it lives, until *)
(* a release, a forced release or an update revokes it: no other request,  *)
(* clear, sweep, wake-up or finalizer takes it away.                       *)
HolderKeepsCheckout ==
  \A r \in holders : Live(r) => issue.checkout = r /\ issue.exec = r

(* Two live runs never both believe that they own the issue.               *)
CheckoutExclusive == \A r, s \in holders : Live(r) /\ Live(s) => r = s

(* The requests, together with everything else that writes the row,        *)
(* implement the lease.                                                    *)
Lease == INSTANCE CheckoutLease WITH
           lease <- issue.checkout,
           live <- {r \in Runs : Live(r)},
           over <- {r \in Runs : runStatus[r] = "terminal"},
           holders <- {r \in holders : Live(r)}

ImplementsLease == Lease!Spec

(* A lock left behind by runs that are all over does not stay for ever.    *)
StaleLockCleared == StaleLock ~> ~StaleLock

(* The issue has one assignee, an agent or a user, not both.               *)
SingleAssignee == issue.assignee = NoAgent \/ issue.user = NoUser

(* The execution lock never passes from a running run straight to another. *)
ExecutionLockNotStolen ==
  [][~(/\ issue.exec \in Runs /\ runStatus[issue.exec] = "running"
       /\ issue'.exec \in Runs \ {issue.exec})]_vars
=============================================================================
