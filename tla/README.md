# A TLA+ model of the Ciutatis control plane

Ciutatis (a fork of Paperclip) runs companies of software agents. A server keeps
issues, agents and *heartbeat runs* in Postgres; a wake-up of an agent queues a run,
the server starts queued runs up to the agent's concurrency limit, the run's program
calls back over HTTP to check issues out, work on them and release them. This
directory holds TLA+ modules for the parts of that server whose correctness depends on
interleavings, timeouts and restarts, the TLC configurations that check them, and
proofs that TLAPS checks.

Run everything in this directory:

    tlc -workers 2 -config IssueCheckout_safety.cfg MCIssueCheckout.tla
    tlc -workers 2 -config WakeQueue_safety.cfg MCWakeQueue.tla
    tlapm IssueCheckout_proofs.tla
    tlapm WakeQueueParked_proofs.tla
    tlapm PluginWorker_proofs.tla
    tlapm PluginWorkerSlip_proofs.tla

## 1. The system

Paths are relative to `server/src/services/` unless they say otherwise.

| Component | State | Operations | Hard behaviour | Here |
|---|---|---|---|---|
| Issue locks (`issues.ts`) | `status`, `assigneeAgentId`, `assigneeUserId`, `checkoutRunId`, `executionRunId` of an issue row | `checkout`, `assertCheckoutOwner`, `release`, `adminForceRelease`, `update`; self-healing helpers | each operation is several SQL statements; stale reads; locks of dead runs; many writers | `IssueCheckout`, `CheckoutLease` |
| Agent start lock (`agent-start-lock.ts`) | a map from agent to the last promise and its age | `withAgentStartLock` | a 30 s timeout that ignores the holder; nested calls | `AgentStart` |
| Start of runs (`heartbeat.ts`: `startNextQueuedRunForAgent`, `claimQueuedRun`, `executeRun`, `reapOrphanedRuns`, `resumeQueuedRuns`) | `heartbeat_runs.status`, `activeRunExecutions` | count, list, gates, claim, execute, finish, reap, resume | stale counts, cancellations that await further starts, failures half-way, restarts | `AgentStart` |
| Heartbeat queue (`heartbeat.ts`: `enqueueWakeup`, `releaseIssueExecutionAndPromote`, retries, drain) | wake-up requests, runs, locks | coalesce, defer, promote, retry, drain | deferred wakes, zombies, races of status writes | `WakeQueue`, `WakeLedger`; its effect on one issue's locks in `IssueCheckout` |
| Recovery (`recovery/service.ts` and its helpers) | reads issues and runs, recovery actions | stale-lock sweep, stranded-issue sweep, liveness classification | acts on old reads, beside live requests | the sweep in `IssueCheckout` |
| Budgets (`budgets.ts`, `costs.ts`; the pause in `agents.ts`) | policies, incidents, paused scopes | cost event, evaluate, pause and cancel, upsert, resolve, block | spending read before the claim, limits and pauses overwritten after a stale read | `BudgetStop` |
| Execution policy (`issue-execution-policy.ts`) | stage state of an issue | transitions on updates | a pure function with many cases | planned |
| Subtree holds (`issue-tree-control.ts`), recovery actions (`issue-recovery-actions.ts`) | holds, actions | preview, pause, resume | cancels runs of a whole tree | planned / not modelled |
| Approvals, change consent (`approvals.ts`, `change-consent-gate.ts`), board claim (`../board-claim.ts`, `../first-admin-claim.ts`) | pending records, one-time tokens | approve, reject, claim | concurrent resolution | planned |
| Routines and cron (`routines.ts`, `cron.ts`) | triggers, next fire time | dispatch, coalesce | double firing, catch-up | planned |
| Plugin workers (`plugin-lifecycle.ts`, `plugin-worker-manager.ts`, `plugin-loader.ts`) | lifecycle status, worker process and handle, timers | load, enable, disable, restart, crash, backoff | crashes with calls in flight, timers beside stops, overlapping operations | `PluginWorker` |
| Plugin jobs, events, tools (`plugin-job-*.ts`, `plugin-event-bus.ts`, ...) | jobs, subscriptions | tick, trigger, dispatch, register | overlap of ticks and unregistration | not modelled |
| Environments and workspaces (`environment-runtime.ts`, `workspace-runtime.ts`, `execution-workspaces.ts`, `local-service-supervisor.ts`) | leases, processes, directories | acquire, release, start, stop | mostly I/O | not modelled |
| Pipelines, watchdogs, secrets, live events | rows; an emitter | CRUD, classification, fan-out | little concurrency of their own | not modelled |
| Hosted workers (`workers/`), schema (`packages/db`), adapters (`packages/adapters`), UI (`apps/landing`), `cli/` | | | I/O, clients, or table definitions | not modelled |

How they interact: HTTP requests of runs and of the board call `issues.ts`; assigning
or commenting on an issue calls `enqueueWakeup`, which looks at the issue's execution
lock to decide whether to queue, merge or defer; every enqueue, cancellation, end and
reaping of a run calls `startNextQueuedRunForAgent`; a claim stamps the execution
lock; finalization clears both locks and promotes a deferred wake-up; the timer in
`server/src/index.ts` reaps lost runs, resumes queued ones and sweeps stale locks. All
of these share the rows of Postgres and run in one Node process, so that control can
change hands at every `await`.

## 2. The modules

### IssueCheckout: the two locks of one issue

`issue` is the row; `runStatus` the status of each run; `calls` the operations in
flight, each with its program counter and with what it still needs of the row it read
(`cur`); `finalizing` and `claiming` the runs that have a finalizer or a claim's stamp
outstanding; `holders` is a history variable: the runs that were told that they own
the checkout and from which nobody has revoked it.

One SQL statement, and one transaction that holds the issue row `FOR UPDATE`, is one
action; everything between two awaits can interleave.

| Code | Actions |
|---|---|
| `clearExecutionRunIfTerminal`, `clearCheckoutRunIfTerminal` | `CallClearExecution`, `CallClearCheckout` |
| `checkout` | `StartCheckout`, `CheckoutBlocked`, `CheckoutClaim`, `CheckoutRead`, `CheckoutAdopt`, `CheckoutAdoptStale`, `CheckoutTestExecution`, `CheckoutTakeStaleExecution` |
| `assertCheckoutOwner` | `StartAssert`, `AssertRead`, `AssertAdoptUnowned`, `AssertAdoptStale` (`Resolve` is `resolveOwnership`, run at most twice) |
| `release`, `adminForceRelease` | `Release`, `AdminForceRelease` |
| `update` | `UpdateRead`, `UpdatePatch` |
| `enqueueWakeup` (`heartbeat.ts`) | `Wakeup`, `WakeupWithoutIssue` |
| `claimQueuedRun` | `ClaimQueuedRun`, `StampClaim` |
| end of a run, retries, finalization | `FinishRun`, `ProcessLossRetry`, `ScheduleBoundedRetry`, `ReleaseIssueExecution` |
| `sweepStaleIssueLocks` (`recovery/service.ts`) | `SweepRead`, `SweepClear` |
| process death | `Crash` |

Abstractions. `"todo"` stands for every status but `in_progress`; queued and
scheduled_retry are one status, and so are the five final ones. Whether an issue has
blockers, whether a scheduled retry is stale because its issue was cancelled, whether
a running run is a zombie, and whether finalization promotes a wake-up are free
choices. A run that is over stays over (see section 6). The requests of a run begin
while it is running; they may finish after it has ended.

### CheckoutLease: what the locks promise

Four variables: the run with the lease, the live runs, the ended runs, and the live
runs that were told they have it. A free lease, or one whose run has ended, or one's
own, can be taken; a revocation empties it; nothing else touches it. `IssueCheckout`
implements it with `lease <- issue.checkout` (property `ImplementsLease`).

### AgentStart: starting the queued runs of one agent

A *start* is a call of `startNextQueuedRunForAgent`. The lock is a chain of promises:
`tail` is the entry in the map, `prev[s]` the start that `s` waits for, `aged[s]` the
fact that `s`'s entry is 30 s old. Under the lock `slots[s]`, `todo[s]` and
`claimed[s]` are the locals `availableSlots`, the rest of `prioritizedRuns` and
`claimedRuns`; `owes[s]` and `parent[n]` say that a cancellation made by the claim
loop awaits a nested start. `launching` holds the runs that were handed to
`executeRun`, `executing` is `activeRunExecutions`.

| Code | Actions |
|---|---|
| `withAgentStartLock`, `waitForAgentStartLock` | `Register`, `Enter`, `Overtake`, `TimePasses`, and `Returns` in every exit |
| `startNextQueuedRunForAgent` | `NotInvokable`, `Count`, `NoSlots`, `List`, `Leave`, `Throw` |
| `claimQueuedRun` and its gates | `Claim`, `ClaimLost`, `CancelOnClaim`, `SkipOnClaim`, `Nest` |
| `executeRun` | `Execute`, `ExecuteFails`, `RunEnds`, `RunLeaves` |
| `enqueueWakeup`, `promoteDueScheduledRetries`, `cancelRun`, `cancelActiveForAgentInternal`, `resumeQueuedRuns` | `Enqueue`, `PromoteRetry`, `CancelRun`, `ResumeQueuedRuns` |
| `reapOrphanedRuns` | `ReapList`, then per run `ReapSpares`, `ReapDetaches` or `Reap` |
| death of the server, of an agent's process | `Crash`, `ProcessEnds` |

The processes of agents outlive the server: `orphans` are the runs whose process did,
`detached` those of them that the reaper has marked. The reaper works on an old list
(`listed`) and writes without a condition. So a run that a pause has cancelled and whose
process is still being killed is written running again; `revived` records that, and the
limit is claimed for behaviours without it: the revived run has no slot. One pass of the
reaper goes on at a time.

`SlowSteps` chooses the timing assumption. With TRUE any step may take minutes, so
entries age at will and the reaper may find a run that was claimed and is not
executing yet. With FALSE an entry ages only if a start really is stuck: it awaits a
nested start that waits for the lock. The liveness run has it FALSE, since TRUE, with
the reaper's lists, has too many states for a liveness check; the lock is overtaken in it
all the same, by the nested starts.

### WakeQueue: the wake-ups and runs of one issue

`issue` is the row (status, assignee, `executionRunId`); `runs` the runs by creation,
each with the wake-ups its context carries (`wakes`) and whether it was begun;
`deferred` the parked requests in their order; `tx` the `enqueueWakeup` that holds the
issue row, with the run it found; `at[h][r]` where each handler (`execute`, `cancel`,
`reap`, `gate`) is with run `r`. `late` and `dropped` are history.

| Code | Actions |
|---|---|
| `enqueueWakeup`, its transaction | `Open`, then one of `Merge`, `Defer`, `Queue`, `SkipBlocked` |
| `claimQueuedRun` | `Claim`, `Stamp`, or a gate's `Reject` (the read), `GateWrites`, `Clear` |
| `executeRun` | `Begin`, `Abort`, `Finish`, then `ScheduleRetry`, `RetryForComment` or `NoRetry` |
| `promoteDueScheduledRetries` | `PromoteRetry`, `GateRetry` |
| `releaseIssueExecutionAndPromote` | `Release` (`ReleaseToOther`, `ReleasePromoting`, `ReleaseOnly`, `ReleaseRecovering`), `ReleaseBlocked` |
| `cancelRunInternal` | `Cancel` ("terminating"), `CancelWrites` |
| `cancelActiveForAgentInternal`, the daily cap | `Cancel` ("picked"), `CancelFirst`, `Kill` |
| `reapOrphanedRuns`, `enqueueProcessLossRetry` | `List`, `ReapSkips`, `ReapDetaches`, `ReapFails`, `RetryLost`, `ReleaseLost` |
| `enqueueMissingIssueCommentRetry` | `RetryForComment` |
| `drainRunningRunsForShutdown` | `Drain` |
| `issues.update`, the sweeper | `Close`, `Assign`, `Blockers`, `Sweep` |
| death of the server, of an agent's process | `Crash`, `ChildEnds` |

The transaction holds the issue row but not the rows of the runs it read: `Open` reads,
and a claim or an end of that run can come before `Merge`. `dropped` is set by the code
paths that give the lock up and promote nothing: a queued run cancelled as outdated,
a retry stopped at its gate, an issue blocked for its configuration, a lock found with
another run that is over, and a restart between the two writes of a run's end.

Most writers of a run's status have no condition in their UPDATE. Each is two actions, the
read and the write: the gates, both kinds of cancellation and the reaper. `executeRun`'s
abort before the adapter is called is one, since what it read is that the run executes.
The reaper keeps a run whose process outlived a restart (`at["execute"][r]` is
"orphan", then "detached"), and with an old list it writes "running" over a cancellation
whose kill is under way: an 11-step behaviour reaches a cancelled run that is running again.
One write is left out: an execution that finds its agent gone fails the run (11006), but
`heartbeat_runs` references `agents`, whose deletion removes the agent's runs first.

### WakeLedger: what the queue promises

Three variables: what is parked, what is closed, and for each wake-up the works that
have it. A new wake-up joins one work, is parked or is skipped; what is parked leaves for
a work that nobody has had before, the wake-ups of a request together, or is given up.
`WakeQueue` implements it (property `ImplementsLedger`): a work is a run with the retries
of it (`Work`), a wake-up is with a work when a context of that work has it. So no
interleaving of merges, parkings, retries, ends and promotions gives a wake-up to two
works, promotes a request twice, promotes or merges what was given up, or moves a
wake-up from one run to another that is no retry of it. That every wake-up accepted is
*eventually* given to an agent or given up is `WakesSettle`.

### PluginWorker: the worker process of one plugin

`row` is the plugin's status (ready or not); `workers` the manager's map; `handle[h]`
the closure variables of a `PluginWorkerHandle` (status, child, restart timer,
`intentionalStop`, consecutive crashes); `proc` the processes; `task` where each
lifecycle call, or the start a timer makes, waits. The server is one event loop: what
an event resolves is marked `go` and runs before the next event.

| Code | Actions |
|---|---|
| `startWorker`, `startInternal`, `spawnProcess` | `Activate`, `Spawn`, `InitOk`, `InitFails`, `InitKilled`, `StartEnds` |
| `stopWorker`, `stopInternal` (drain, grace, SIGTERM, SIGKILL) | `Stop`, `StopGoesOn`, `WaitEnds` |
| `handleProcessExit`, `scheduleRestart` and its timer | `Exit`, `Fire` |
| `load`/`enable`, `disable`/`unload`, `restartWorker` (both kinds), `markError` | `Enable`, `Disable`, `Reload`, `Bounce`, `BounceStarts`, `MarkError`, `Write` |
| `loadSingle`, `activatePlugin`, `unloadSingle` | `Load`, `Activate`, `Register`, `Unload` |

Abstractions: SIGKILL ends a process before the waits that follow it; two stray timers
of a handle count as one; the crash count saturates; handles and processes that are
gone are used again. `slip` is history: a start of a worker that is being stopped, an
unload that leaves a worker that is not running, a start for a plugin that is going
offline, or a status written over one that changed since it was read. After a slip the
model begins no new operation. The lifecycle is the one with a loader and a worker
manager, as `plugin-lifecycle-restart.test.ts` builds it; `Bounce` is the `restartWorker`
of one without runtime services, as `server/src/app.ts` builds it.

### BudgetStop: the monthly budget of one agent

`spent` is the sum of the month's cost events, `limit` the policy's amount (zero:
inactive), `paused` and `reason` the agent's, `incident` the rows of the hard threshold,
`run` the statuses of runs; `task` where a request, or a run's execution, stands.

| Code | Actions |
|---|---|
| `createEvent`, `evaluateCostEvent` | `Cost`, `ReadPolicy`, `Sum`, `Find`, `File`, `PauseForBudget` |
| `cancelActiveForAgentInternal` | `List`, `CancelRun`, `Cancelled` |
| `upsertPolicy` | `Upsert`, then `Sum` ... or `Unpause`, `Close` |
| `resolveIncident` | `Answer`, `Check`, `RaiseAmount`, `Unpause`, `Close`; `Refuse`, `Dismiss` |
| `pause`, `resume` (`agents.ts`) | `PauseByHand`, `ResumeByHand` |
| `claimQueuedRun`, `executeRun`, `finalizeAgentStatus` | `Enqueue`, `Offer`, `Claim`, `Start`, `Spawn`, `Finish`, `ReadAgent`, `WriteStatus` |
| soft threshold: `createIncidentIfNeeded`, an answer to it | `Warn`, `Note`; `DismissSoft` |
| death of the server, `reapOrphanedRuns` | `Crash`; `Detach`, `Leave`, `Reap` |

`slips` is history, with one name per gap between a read and its write; the header of
the module lists them, and each property names the ones it excepts. Left out: policies
of companies and projects (the same statements on other rows), policies that switch the
notification or the hard stop off, the
approval that records the answer (nothing reads it back), pending wake-ups.

The soft threshold does more than notify. Its incident is found and inserted before the
hard limit is looked at, under the same unique index, so the loser of two inserts throws:
if it was the one over the limit, nobody pauses the agent (slip `unstopped`).
A restart does not end the agents' processes: `Crash` chooses which live on, and the reaper
keeps their runs running. If that happens over the limit (slip `survived`), such a run
runs on until its process ends or the agent is stopped again. The reaper lists, looks at the
process and writes without conditions: `Detach` of a "doomed" run is the write that
follows the cancellation of a run on an old list, and a later pass ends that run. That a
pass writes "failed" over a run that is over already only repeats what an end does to the
agent's status, and is left out.

One gap concerns no row of the model: a run that is cancelled after its start and before its
process exists is executed all the same, as its execution does not look at the run's
status again; `Killed` shows it, and no property is about processes.

### MCIssueCheckout, MCAgentStart, MCWakeQueue, MCPluginWorker, MCBudgetStop

Run-to-agent maps, patches, expected statuses and symmetry sets for TLC.

### IssueCheckout_proofs, CheckoutLease_proofs, AgentStart_proofs, WakeQueue_proofs, WakeQueueParked_proofs, PluginWorker_proofs, PluginWorkerSlip_proofs, BudgetStop_proofs

The theorems of section 4.

## 3. What TLC checks

| Run | Question | Bounds | Result |
|---|---|---|---|
| `IssueCheckout_safety` | Does a live run that owns the checkout keep both locks, whatever else writes the row? Do two checkouts never give the issue to two live runs? Does all this implement the lease? | 2 runs of one agent, both with the issue as context; a checkout in flight beside any operation, a second checkout included; crashes | passes |
| `IssueCheckout_liveness` | Are locks of ended runs cleared? | 2 runs, one without the issue as context, a second agent as assignee, 1 operation of any kind in flight | passes |
| `IssueCheckout_single_assignee` | Does an issue have one assignee? | 2 operations of any kind, 1 user | violated (finding 1) |
| `IssueCheckout_execution_lock` | Does the execution lock stay with a running run? | 3 runs of one agent, of which one is woken for the issue | violated (finding 2) |
| `AgentStart_safety` | Do the start lock, the limit and the gates hold up to the lock's timeout? Is no run executed twice even beyond it? | 3 runs, 2 starts, limit 2, slow steps, 1 restart | passes, 1.5 million states |
| `AgentStart_liveness` | Does every start return, the nested ones included? Is every queued run started or closed? | 2 runs, 2 starts, limit 1, `SlowSteps = FALSE`, 2 restarts, fair scheduling and recovery | passes, 19 thousand states |
| `AgentStart_limit` | Is the concurrency limit kept when nothing is slow but what the code itself blocks? | 3 runs, 3 starts, limit 1, `SlowSteps = FALSE` | violated (finding 3) |
| `WakeQueue_safety` | Is a comment ever lost in a run that began without it? Does a parked wake-up keep somebody to promote it? Who overwrites the end of a run, and what brings one back? Has each wake-up one place? Does every wake-up settle? | 2 of 3 wake-ups (two with comments) of 2 agents, 1 retry or recovery run, one run of an agent at a time, 1 of: change of the issue, cancellation, aborted start, drain, restart | passes, 0.5 million states |
| `WakeQueue_owner` | Has an agent one run of an issue at a time? | as above, two runs of an agent at a time, no event | violated (finding 4) |
| `PluginWorker_safety` | Does a running handle have its process? Is there one worker, and none for an offline plugin? Does everything settle? | 2 operations, 2 handles, 3 processes, restarts after 1 crash | passes, 53 thousand states |
| `PluginWorker_offline` | Does a plugin taken offline have no worker? | 1 operation | violated (finding 5) |
| `BudgetStop_safety` | Over its limit, does the agent have no run running? Is it freed within the limit, asked about while paused, and left paused by hand? | 1 request beside 2 runs that end with cost events of their own, spend and limits up to 2, the soft threshold at 50 %, 2 incidents, 1 crash | passes, 2.1 million states |

Why the bounds are enough to be interesting. Two requests and two runs give every
pair of statements of two operations a chance to interleave, with crashes, sweeps,
retries and wake-ups in between; the third party of every race on the row is the run
that is over, and its rows outlive it. `OpsOf` bounds which operations the two
requests may be: a checkout beside each of the others in one run, two checkouts in
another, because every checked hazard has a checkout in it and a pair without one
enters the theorems only. Two starts are a holder and a start that waits, or a caller
and its nested start; the third start of `AgentStart_limit` is the bystander. Three runs against two slots leave
two running, or claimed by different starts, and one that must wait. The theorems of
section 4 cover the other sizes, and all operations at once.

`WakeQueue`: two wake-ups and one retry make three runs: the holder of the lock, one
that is queued or promoted behind it, and a retry that takes the lock over; of the
three wake-ups two are for one agent and one for another, so that a pair can merge or
must be parked. One event at most, since each of them alone breaks the order of the rest; but the
cancellation of a run that outlived a restart and is on the reaper's list does not count,
so that the run that comes back is within the bounds.
`PluginWorker`: two operations overlap, with a handle of each generation, and a third
process for the one that is dying; one allowed crash reaches backoff, restart and giving
up. `BudgetStop`: a limit of 1 is exceeded by one event and raised to 2, which the next
exceeds again, in the same month; the ends of the two runs evaluate their costs beside
the board's request and beside each other.

The passing runs of `AgentStart`, `WakeQueue`, `PluginWorker` and `BudgetStop`, and the
violated ones of the first two, do not check deadlock: runs and wake-ups are a finite supply, no
operation begins after a slip, and when all is over nothing is left to do. In the other
runs deadlock is checked.

The properties:

* `CheckoutHoldsExecution`: a live run with the checkout also has the execution lock.
  `checkout`'s last adoption tests the execution lock only; this makes that enough.
* `HolderKeepsCheckout`: a run that was told it owns the issue keeps both locks while
  it lives, until a release, forced release or update revokes them.
* `CheckoutExclusive`: two live runs never both hold.
* `ImplementsLease`: refinement of `CheckoutLease`.
* `StaleLockCleared`: a lock whose runs are all over does not stay for ever.
* `SingleAssignee`, `ExecutionLockNotStolen`: what documents say and the code breaks.
* `OneStartInside`, `LimitUnlessOvertaken`, `GatesSpareRunning`: mutual exclusion of
  starts, the concurrency limit, and the safety of the gates' unconditional UPDATEs,
  all as long as no start has overtaken a lock that was held (and, for the limit, the
  reaper has not brought a cancelled run back).
* `ClaimedOnce`: without that proviso, no run is handed to `executeRun` twice.
* `ConcurrencyLimit`: the limit without the proviso; violated.
* `StartsReturn`, `QueuedServed`: liveness of starts and queued runs.
* `CommentsCarried`: a wake-up with a comment is in the context of a run that was given
  it, or is parked, unless its run moved on while it was being merged.
* `OwnedUnlessDropped`: somebody is left to promote a parked wake-up, but for the five
  ways that set `dropped`.
* `OverStays`: how a run ended is overwritten only by a handler that found it alive and
  writes later, and only with its own end (`Overwrites` names them: cancellations, gates,
  the aborted start, the reaper); a run that is over comes alive again only by a reaper
  that had listed it and finds its process, which outlived a restart, alive. So the end of
  `executeRun`, the drain, retries and claims overwrite nothing, and a run without
  such a process never comes back.
* `ImplementsLedger`: refinement of `WakeLedger`.
* `WakesSettle`: liveness of wake-ups. `OneRunPerAgent`: violated.
* `RunningIsAlive`, `OneWorkerUnlessSlip`, `OfflineUnlessSlip`, `Settles`: the worker;
  `OfflineStaysDown`, without the proviso, is violated.
* `HardStopHolds`: at rest and over the limit no run is running, though limits, pauses
  and resumptions raced it, a run's end undid the pause, or the server died after a
  spend. Excepted are `overtaken`, `unstopped`, and for detached runs alone `survived`:
  every other run is stopped even then. What makes it hold is that queued runs are
  cancelled with the running ones: a claim that passed the gate before the spend finds its run cancelled.
* `FreedOnceWithin`, `PausedIsAsked`, `ManualPauseHeld`: the ways out of a pause.

### Fairness

`IssueCheckout`: an operation in flight goes on (`WF(Advance)`): every await is on the
database. The sweeper gets a turn and finishes it however busy the server is (`SF` of
`SweepRead` and `SweepClear`): it runs on a timer and at start-up; strong, because the
stale state may come and go, the model's call slots are few, and a restart may hit a
pass but not all of them.

`AgentStart`, `Scheduling`: the event loop runs what can run and timers fire. It is
strong for the body of a start only because `Nest` needs an idle member of the finite
set `Starts`. `Recovery`: adapters return, the timer
keeps resuming and reaping, and an agent is found invokable, with working queries,
again and again. Without it a paused agent would never be served, which is right.

`WakeQueue`: a transaction commits, a handler goes on with what it has begun, adapters
return or time out, and the timers of `server/src/index.ts` keep promoting, resuming
and reaping (weak: what is enabled stays so until it is done). `PluginWorker`: the event
loop takes a due timer, an answer, a microtask or the exit of a killed process sooner or
later, though other events come in between (strong). The worker itself is under no
fairness: it may never answer and never exit. `BudgetStop` states safety at rest and
needs none.

### Findings

1. `update` checks "one assignee" against the row it read, then writes the patch
   without a condition; two concurrent updates leave an agent and a user.
2. `adoptStaleCheckoutRun` looks only at the run in `checkoutRunId`. If another run
   is running with the execution lock, the adopter takes that lock from it. The
   checkout itself stays exclusive (theorem `MutualExclusion`).
3. A gate of the claim loop that cancels a run awaits another start of the same agent
   from inside the lock. That start waits 30 s for its own caller, goes ahead, and
   claims a run; the loop continues with the slots it counted before. Two runs of an
   agent with `maxConcurrentRuns = 1` are running.
4. A run is `running` in the database before it is in memory as executing. A wake-up
   that comes in between takes it for a zombie and queues a second run of the same agent.
5. `unloadSingle` stops only a worker that `isRunning`. A plugin disabled while its
   worker waits in backoff gets its worker back from the timer.

## 4. What is proved

From the assumptions on the constants: `CheckoutConstants` (runs have agents, the nulls
are not members of the sets), `StartConstants` (the runs of an agent are finitely many,
the limit is a natural number), `QueueConstants` (wake-ups are finitely many and have
agents), `WorkerConstants` and `BudgetConstants` (bounds are natural numbers, nulls are
not members). The sets may be of any size and the bounds any numbers; no value of
section 3 is used.

* `TypeCorrect`: `TypeOK` is inductive by itself.
* `ExecutionFollowsCheckout`, `HolderSafe`, `MutualExclusion` for `IssueCheckout`.
* `Refinement`: `IssueCheckout!Spec` implies `CheckoutLease!Spec` under the mapping.
* `LeaseExclusive`: the lease is exclusive.
* For `AgentStart`: `TypeCorrect`; `StartsExclude`, `LimitKept` and `GatesSafe`, which
  hold until a start overtakes (`LimitKept` also until the reaper revives a run); `ExecutedOnce`, which holds always.
* For `WakeQueue`: `TypeCorrect`, `CommentsKept`, `OverCorrect`, `OwnedCorrect`;
  `LedgerCorrect`: `WakeQueue!Spec` implies `WakeLedger!Spec` under the mapping, and
  `OnePlaceCorrect`: no wake-up is in two places.
* For `PluginWorker`: `TypeCorrect`, `RunningCorrect`, `OneWorkerCorrect`, `OfflineCorrect`.
* For `BudgetStop`: `TypeCorrect`, `ManualPauseKept`, `HardStopCorrect`, `FreedCorrect`,
  `AskedCorrect`.

The argument for `IssueCheckout`. The three lock invariants are not inductive: a request
writes on the strength of what it saw before. `IInv` therefore adds
(a) `LocksBegun`: a run named by the row has begun (a row of `heartbeat_runs` exists
once it is referenced), so that "terminal or missing" of a referenced run stays true;
(b) `CallsSound`: what a request remembers of the row is begun, and a run it found over
is over; a request about to take a stale execution lock remembers an ended run;
(c) `RunnersRan` and `EndedOver`: holders and claimers have been running, and what is
being finalized is over. Since statuses only move on (`RunsAdvance`), remembered facts
about runs are stable. `RequestEffect` then sums up all eighteen request actions in
four effects on the row and the holders (nothing or a grant, a lock taken that was free or
left over, a clearing, a revocation), and `EffectKeepsLockInv` and `RequestRefines`
treat the effects instead of the actions.

The argument for `AgentStart`. `ExecutedOnce` needs little: with `HeldBegun` (a run that
is claimed, launched or executing has been claimed in the database) and
`BegunStays` (no step makes such a run queued again) the guarded UPDATE of
`claimQueuedRun` cannot meet a run that somebody holds. The other three need `IInv`:
(a) `Nested` and `Fresh`: who awaits whom, and which locals are still empty where;
(b) `Chain`: the entries of the lock wait for each other one by one, at most one of
them for nobody, and the map holds the last one. Two starts inside would both wait
for nobody, so they are one;
(c) `SlotsFree`: for a start that has counted, the running runs it has not claimed
itself, plus all its slots, are at most `Max`. Every other step shrinks the running runs, a
claim moves one run from the slots to the claimed, and nobody else claims by (b);
(d) `ListedIdle`: what is listed is not running, since only the start that listed it
could have claimed it, and is not on the reaper's list.
(b) to (d) are guarded by `~overtaken`, (c) also by `~revived`; `IInv` was model-checked
before it was proved.

The argument for `WakeQueue`. `CommentsKept` strengthens `CommentsCarried` to name a run
that has a row (`Carried`), and needs to know that a merge hits a row that is there
and that a new run takes a row nobody has. Hence `Counting`: rows are numbered from
one, retries and recovery runs are at most `MaxAuto`, and every other run and every
parked request came from a wake-up of its own, so that together they are at most the
wake-ups that have come; `TxSound` and `ParkedCame` say the same of the transaction in
flight and of what is parked; `HandledExists`: a handler only has runs with a row.
`BegunPast` (a begun run does not wait to be started) is what makes a merge into a
waiting run safe: a run found waiting that has begun by the time of the merge has
moved on, which is what `late` records. A handler's step either edits statuses
(`CalmStep`, `HandlerStep`), adds a retry (`AutoStep`), or empties or shortens the queue
(`EmptyStep`, `PromoteStep`); the proofs of the actions only say which.

`OwnedCorrect` is the claim that what is parked is not forgotten. At rest of the issue row
`Owned` names a run that is `Kept`: one that is not over, or one with a handler that will
still release the issue. A reaper that found its run lost releases only when the run has
no retry, so the step that adds a retry passes the task on to the retry (`Promotes`);
that needs `EndedOver` and `RetriedOver`: handlers of an end, and retries, are there for
runs that are over only, so that a run that is not over has nothing to pass on. The reaper
that brings a run back could break that; `Revivable` says that a run it may bring back
has no retry and no handler that creates one: its process outlived the server, and the
handlers did not. The
transaction of `enqueueWakeup` is the hard case: it parks behind a run whose row it does
not hold. `FoundKept` says that the run it found is `Kept` until it commits, although
that run may be claimed, end or be cancelled meanwhile: whoever ends it must still take
the issue row to release it, and that row is held. Steps are taken together by whether
each `Kept` run stays so or hands over to another (`KeptStays`, `MoveKeeps`, `AddKeeps`),
or empties the queue (`LeftKeeps`).

`LedgerCorrect` rests on `PlaceInv`: what is parked was accepted and is parked in one
request (`ParkedIn`, `ParkedOnce`), what is in a context was accepted and is not parked
(`PlacedIn`), and the contexts that share a wake-up belong to one work (`OneWork`). A step
either creates no run or one that continues the work of another (`Continues`, a stutter of
the ledger: `LedgerRests`), or is one of six: a new wake-up joins a run (`JoinLedger`), is
parked or is skipped, and the queue is given up or promoted from (`GiveUpLedger`,
`PromoteLedger`). That the new run is a work nobody has had uses that a retry's `retryOf`
names a run with a row (`RetriedOver`).

The argument for `PluginWorker`. `RunningIsAlive` is not inductive: a handle becomes
running when its initialize call is answered. `AwaitedHasChild` says that a call that
can still be answered has the child that it asked, `ChildIsOwn` that a handle's child
is a process it forked, `AliveHasHandle` and `InsideHasHandle` that processes and
operations belong to a handle that exists. The two properties that hold until a slip need
`Clean` beside it, which the first slip ends for good (`SlipStays`): every process is the
child of the registered handle (`ProcsClean`); a timer is the registered handle's and that
handle has no process, a handle that stopped has none, and one that is stopping has
somebody stopping it (`HandlesClean`); who stops does so to the registered worker, alone,
waits for the process it has, and is awake when it has none (`StopsClean`, `Alone`); who is
about to write that the plugin is offline has left no worker (`OpsClean`), and a plugin that is
offline has none (`OfflineClean`). `NobodyStops` is where the event loop enters: between two
events everybody in a stop waits for a process, so a stop or a start that meets no stop
meets a clean registry. Most actions pass all of it by (`PassStep`).

The argument for `BudgetStop`. `ManualPauseHeld` is about one step: only the named
actions write the pause, and each of them but the excepted ones looks at the reason.
The other three speak of rest, when nobody is left to act; their invariants name, at every
moment, somebody who still has to. `StopsCome`: over the limit, each run that is running or
has passed the gate has an evaluation that will sum, pause or list it, or has it on the
list it is cancelling; but for rows that wait for the reaper, and runs that survived
(`Spared`). `OrphansRun`: the reaper's unconditional write finds an orphan running.
`FreesCome`: within the limit, an agent paused for its budget has the request that raised the limit still about to unpause it. `AsksCome`: over the limit, an
agent that is paused, or about to be, has an incident, or an evaluation that will find it
has none. `NewUnclaimed` and `SumPositive` are auxiliary. Actions are taken together by what they
disturb: those that change neither limit nor spend nor pause (`QuietStep`), a spend, a new limit,
and the steps of an evaluation. All parts were model-checked before they were proved.

Only model-checked: liveness (`StaleLockCleared`, `StartsReturn`, `QueuedServed`,
`WakesSettle`, `Settles`), which needs fairness and ENABLED. Every safety property of the
passing runs is a theorem.

## 5. Plan

1. `PluginJobs`: the job scheduler's tick beside `triggerJob` and `unregisterPlugin`.
2. `RoutineDispatch`, and `Cron` as pure operators against a reference definition.
3. `ExecutionPolicy` (stage transitions as a function), `Approvals`, `BoardClaim`,
   `TreeHold`; company and project policies in `BudgetStop`.
4. Abstract specifications for `AgentStart` and `BudgetStop`, proved as `WakeLedger` is.

## 6. Assumptions and limits

* In `IssueCheckout` a run that is over stays over. This is an assumption, and the lock
  proofs rest on it. The code does not guarantee it: `setRunStatus` has no condition on the
  old status, and `WakeQueue` shows a reaper that writes a cancelled run running
  again (`ReapDetaches`); a lock that was taken from that run meanwhile stays taken. In
  `AgentStart` such a run is part of the model, and the limit is proved but for it (`revived`).
* One pass of `reapOrphanedRuns` goes on at a time: timers could start a second one only
  beside a pass of more than an interval.
* A transaction is atomic once it holds the issue row; the code's own race guards
  (updates pinned to the status that was read) are then equivalent to their success.
* Writers of the lock columns left out: `issue-tree-control.ts` (cancelling a subtree),
  `access.ts` (removal of a principal), `requestService.ts` and the workspace preflight of
  `enqueueWakeup`. All but the last revoke, as `AdminForceRelease` does.
* `PluginWorker` leaves out the lifecycle's `upgrade`, which stops the worker and starts another
  version, and its `startWorker` and `stopWorker`, which call the manager without a change of
  the plugin's status; also install, `loadAll`, and `stopAll` at shutdown.
* Authorization, activity log, live events and all wording are left out.
