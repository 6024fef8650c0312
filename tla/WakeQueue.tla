------------------------------ MODULE WakeQueue ------------------------------
(***************************************************************************)
(* The wake-ups and heartbeat runs of ONE issue (services/heartbeat.ts):   *)
(* enqueueWakeup merges a wake-up into the run that has the issue, parks   *)
(* it as a deferred request, or queues a run for it; the end of a run      *)
(* releases the issue's execution lock and promotes a parked request.      *)
(*                                                                         *)
(* The database outlives the server: the issue row, the runs, the parked   *)
(* requests.  The transaction of enqueueWakeup holds the issue row from    *)
(* its first statement to its commit, but never the rows of the runs: a    *)
(* run may be claimed, read or ended between what the transaction read and *)
(* what it does.  Every handler of a run's end writes the run's status in  *)
(* one statement and releases the issue in another.                        *)
(*                                                                         *)
(* Abstracted: the issue's other columns; the statuses of requests other   *)
(* than the deferred one, which nothing here reads; succeeded, failed,     *)
(* cancelled and timed_out runs are told apart only where the code does.   *)
(* Which agent is free to claim is AgentStart's subject, checkouts are     *)
(* IssueCheckout's; a review participant's recovery is left out.           *)
(***************************************************************************)
EXTENDS Integers, Sequences, FiniteSets

CONSTANTS
  Agents, Assignee,   \* the agents, and the one the issue is first assigned to
  Wakes, AgentOf,     \* the wake-ups that may come, and the agent each is for
  Comments,           \* ... those that carry a comment
  MaxAuto,            \* bound: retries and recovery runs
  MaxConcurrent,      \* maxConcurrentRuns of every agent
  MaxWakes,           \* bound: how many of the wake-ups come
  MaxEvents,          \* bound: changes of the issue, cancellations and restarts
  NoRun, NoWake

Runs == 1..(MaxWakes + MaxAuto)

ASSUME QueueConstants ==
  /\ Assignee \in Agents
  /\ IsFiniteSet(Wakes) /\ AgentOf \in [Wakes -> Agents] /\ Comments \subseteq Wakes
  /\ MaxAuto \in Nat /\ MaxConcurrent \in Nat \ {0}
  /\ MaxWakes \in Nat /\ MaxEvents \in Nat
  /\ NoRun \notin Runs /\ NoWake \notin Wakes

VARIABLES
  issue,     \* its status, assigneeAgentId and executionRunId
  runs,      \* heartbeat_runs, by creation
  deferred,  \* requests in deferred_issue_execution, oldest first
  wake,      \* what became of each wake-up
  tx,        \* the enqueueWakeup that holds the issue row, and the run it found
  at,        \* where each handler is with each run
  late,      \* history: wake-ups merged into a run that had moved on meanwhile
  dropped,   \* history: the lock was given up and nothing promoted
  events     \* how many of the bounded events there were

vars == <<issue, runs, deferred, wake, tx, at, late, dropped, events>>

Alive == {"queued", "running", "scheduled_retry"}
Over == {"succeeded", "failed", "cancelled", "interrupted"}
Handlers == {"execute", "cancel", "reap", "gate"}
Steps == {"idle", "claimed", "launched", "executing", "finishing", "succeeding",
          "orphan", "detached", "terminating", "picked", "killing",
          "listed", "lost", "interrupted", "rejecting",
          "releasing", "closing", "clearing"}

Run == [status : Alive \cup Over \cup {"absent"}, agent : Agents, wakes : SUBSET Wakes,
        missed : SUBSET Wakes, begun : BOOLEAN, retryOf : Runs \cup {NoRun}]

(* One invariant for the types of the rows and of the handlers.            *)
TypeOK ==
  /\ issue \in [status : {"open", "waiting", "blocked", "done"},
                assignee : Agents, run : Runs \cup {NoRun}]
  /\ runs \in [Runs -> Run]
  /\ deferred \in Seq([agent : Agents, wakes : SUBSET Wakes])
  /\ wake \in [Wakes -> {"new", "in", "ended"}]
  /\ tx \in [wake : Wakes \cup {NoWake}, run : Runs \cup {NoRun}, status : Alive \cup {"absent"}]
  /\ at \in [Handlers -> [Runs -> Steps]]
  /\ late \subseteq Wakes
  /\ dropped \in BOOLEAN
  /\ events \in 0..MaxEvents

Absent == [status |-> "absent", agent |-> Assignee, wakes |-> {}, missed |-> {},
           begun |-> FALSE, retryOf |-> NoRun]
NoTx == [wake |-> NoWake, run |-> NoRun, status |-> "absent"]

Init ==
  /\ issue = [status |-> "open", assignee |-> Assignee, run |-> NoRun]
  /\ runs = [r \in Runs |-> Absent]
  /\ deferred = <<>>
  /\ wake = [w \in Wakes |-> "new"]
  /\ tx = NoTx
  /\ at = [h \in Handlers |-> [r \in Runs |-> "idle"]]
  /\ late = {}
  /\ dropped = FALSE
  /\ events = 0

IsAlive(r) == runs[r].status \in Alive
AliveRuns == {r \in Runs : IsAlive(r)}
Created == {r \in Runs : runs[r].status # "absent"}
AutoRuns == {r \in Created : runs[r].retryOf # NoRun}

(* The next row of heartbeat_runs.                                         *)
Fresh == Cardinality(Created) + 1

Row(st, a, W, of) == [status |-> st, agent |-> a, wakes |-> W, missed |-> {},
                      begun |-> FALSE, retryOf |-> of]

(* activeRunExecutions: from the start of executeRun to its finally.       *)
Live(r) == at["execute"][r] \in {"executing", "finishing", "succeeding", "releasing", "closing"}

(* The process of the run outlived the server that executed it; the reaper *)
(* has listed the run, and does not know yet.                              *)
Outlives(r) == at["execute"][r] \in {"orphan", "detached"}
Suspect(r) == at["execute"][r] = "orphan" /\ at["reap"][r] = "listed"

(* isZombieRun of the row as the caller read it.                           *)
Zombie(r, st) == st = "running" /\ ~Live(r)

RowFree == tx.wake = NoWake

Event == events < MaxEvents /\ events' = events + 1

(* Handler h goes one step on with run r.                                  *)
Moves(h, r, from, to) == at[h][r] = from /\ at' = [at EXCEPT ![h][r] = to]

(* The wake-ups in a run's context.                                        *)
Context(r) == runs[r].wakes \cup runs[r].missed

(* A retry copies the context of its run and moves the lock of the issue.  *)
Retried(r, st) ==
  /\ runs' = [runs EXCEPT ![Fresh] = Row(st, runs[r].agent, Context(r), r)]
  /\ issue' = [issue EXCEPT !.run = IF @ = r THEN Fresh ELSE @]

MayRetry(r) == runs[r].retryOf = NoRun /\ Cardinality(AutoRuns) < MaxAuto
RetriesOf(r) == {n \in Created : runs[n].retryOf = r}

-----------------------------------------------------------------------------
(* enqueueWakeup, once policy, invokability, budget and pause holds let the*)
(* wake-up through.                                                        *)

Cancelled(R, r) == IF r = NoRun THEN R ELSE [R EXCEPT ![r].status = "cancelled"]

(* A holder that is not running, of an agent that is not the assignee.     *)
StaleHolder(r) == runs[r].status # "running" /\ runs[r].agent # issue.assignee

(* Any run of the issue, a running one first, then the oldest.             *)
Legacy(R) ==
  LET alive == {r \in Runs : R[r].status \in Alive}
      running == {r \in alive : R[r].status = "running"}
      first == IF running # {} THEN running ELSE alive
  IN  IF first = {} THEN NoRun ELSE CHOOSE r \in first : \A n \in first : r <= n

(* The transaction locks the issue row, drops or repairs a stale lock, and *)
(* finds the run that has the issue.                                       *)
Open(w) ==
  /\ wake[w] = "new" /\ RowFree
  /\ Cardinality({v \in Wakes : wake[v] # "new"}) < MaxWakes
  /\ LET held == IF issue.run # NoRun /\ IsAlive(issue.run) THEN issue.run ELSE NoRun
         keeps == held # NoRun /\ ~StaleHolder(held)
         left == IF keeps THEN runs ELSE Cancelled(runs, held)
         legacy == Legacy(left)
         stale == /\ ~keeps /\ legacy # NoRun
                  /\ left[legacy].status = "scheduled_retry"
                  /\ left[legacy].agent # issue.assignee
         found == IF keeps THEN held ELSE IF stale THEN NoRun ELSE legacy
     IN  /\ runs' = IF stale THEN Cancelled(left, legacy) ELSE left
         /\ issue' = [issue EXCEPT !.run = found]
         /\ tx' = [wake |-> w, run |-> found,
                   status |-> IF found = NoRun THEN "absent" ELSE runs[found].status]
  /\ UNCHANGED <<deferred, wake, at, late, dropped, events>>

(* The rest of the transaction, on the run it found.                       *)
SameAgent(w) == tx.run # NoRun /\ runs[tx.run].agent = AgentOf[w]
Unavailable(w) == SameAgent(w) /\ Zombie(tx.run, tx.status)

(* A comment for a run that is executing already needs a run of its own.   *)
NeedsFollowup(w) == tx.status = "running" /\ w \in Comments

Commit(w) ==
  /\ tx.wake = w /\ tx' = NoTx
  /\ wake' = [wake EXCEPT ![w] = "in"]
  /\ UNCHANGED <<issue, at, dropped, events>>

(* Mutant: a run that is running is merged into although it has begun.    *)
MergeRunning(w) ==
  /\ SameAgent(w) /\ ~Unavailable(w)
  /\ Commit(w)
  /\ runs' = IF runs[tx.run].begun
             THEN [runs EXCEPT ![tx.run].missed = @ \cup {w}]
             ELSE [runs EXCEPT ![tx.run].wakes = @ \cup {w}]
  /\ late' = IF runs[tx.run].status # tx.status THEN late \cup {w} ELSE late
  /\ UNCHANGED deferred

Merge(w) ==
  /\ SameAgent(w) /\ ~NeedsFollowup(w) /\ ~Unavailable(w)
  /\ Commit(w)
  /\ runs' = IF runs[tx.run].begun
             THEN [runs EXCEPT ![tx.run].missed = @ \cup {w}]
             ELSE [runs EXCEPT ![tx.run].wakes = @ \cup {w}]
  /\ late' = IF runs[tx.run].status # tx.status THEN late \cup {w} ELSE late
  /\ UNCHANGED deferred

(* Parked, with what is parked already for the same agent.                 *)
Parked(w) ==
  LET mine == {i \in DOMAIN deferred : deferred[i].agent = AgentOf[w]}
  IN  IF mine = {}
      THEN Append(deferred, [agent |-> AgentOf[w], wakes |-> {w}])
      ELSE [deferred EXCEPT ![CHOOSE i \in mine : \A j \in mine : i <= j].wakes = @ \cup {w}]

Defer(w) ==
  /\ tx.run # NoRun /\ (SameAgent(w) => NeedsFollowup(w)) /\ ~Unavailable(w)
  /\ Commit(w)
  /\ deferred' = Parked(w)
  /\ UNCHANGED <<runs, late>>

Queue(w) ==
  /\ tx.run = NoRun \/ Unavailable(w)
  /\ tx.run = NoRun => (issue.status # "waiting" \/ w \in Comments)
  /\ Commit(w)
  /\ runs' = [runs EXCEPT ![Fresh] = Row("queued", AgentOf[w], {w}, NoRun)]
  /\ UNCHANGED <<deferred, late>>

(* Unresolved blockers, and no run to join.                                *)
SkipBlocked(w) ==
  /\ tx.wake = w /\ tx.run = NoRun
  /\ issue.status = "waiting" /\ w \notin Comments
  /\ tx' = NoTx
  /\ wake' = [wake EXCEPT ![w] = "ended"]
  /\ dropped' = (dropped \/ deferred # <<>>)
  /\ UNCHANGED <<issue, runs, deferred, at, late, events>>

-----------------------------------------------------------------------------
(* claimQueuedRun and executeRun.                                          *)

Talks(r) == Context(r) \cap Comments # {}

(* The issue moved on: another assignee, closed, or blockers came up.      *)
Outdated(r) ==
  /\ ~Talks(r)
  /\ issue.assignee # runs[r].agent \/ issue.status \in {"done", "waiting"}

RunningOf(a) == {r \in Runs : runs[r].status = "running" /\ runs[r].agent = a}

SetStatus(r, st) == runs' = [runs EXCEPT ![r].status = st]

Claim(r) ==
  /\ runs[r].status = "queued" /\ ~Outdated(r)
  /\ Cardinality(RunningOf(runs[r].agent)) < MaxConcurrent
  /\ SetStatus(r, "running")
  /\ Moves("execute", r, "idle", "claimed")
  /\ UNCHANGED <<issue, deferred, wake, tx, late, dropped, events>>

(* The lock is taken only once the run is running.                         *)
Stamp(r) ==
  /\ RowFree
  /\ Moves("execute", r, "claimed", "launched")
  /\ issue' = IF issue.assignee = runs[r].agent /\ issue.run = NoRun
              THEN [issue EXCEPT !.run = r] ELSE issue
  /\ UNCHANGED <<runs, deferred, wake, tx, late, dropped, events>>

(* The gate finds the queued run blocked or stale.  (Over the daily cap,   *)
(* without agent, invokability or budget, or below a pause hold, the run is*)
(* cancelled like any other: Cancel.)                                      *)
Reject(r) ==
  /\ runs[r].status = "queued" /\ Outdated(r)
  /\ Moves("gate", r, "idle", "rejecting")
  /\ UNCHANGED <<issue, runs, deferred, wake, tx, late, dropped, events>>

(* Mutant of GateWrites: the run gets the status of a request.             *)
GateWritesAsRequest(r) ==
  /\ Moves("gate", r, "rejecting", "clearing")
  /\ SetStatus(r, "skipped")
  /\ UNCHANGED <<issue, deferred, wake, tx, late, dropped, events>>

(* Some awaits later it writes the run's status, whatever that is by then: *)
(* cancelQueuedRunForBlockedDependencies, cancelQueuedRunForStaleIssue.    *)
GateWrites(r) ==
  /\ Moves("gate", r, "rejecting", "clearing")
  /\ SetStatus(r, "cancelled")
  /\ UNCHANGED <<issue, deferred, wake, tx, late, dropped, events>>

(* The lock is cleared; no parked request is promoted.                     *)
Clear(r) ==
  /\ RowFree
  /\ Moves("gate", r, "clearing", "idle")
  /\ issue' = IF issue.run = r THEN [issue EXCEPT !.run = NoRun] ELSE issue
  /\ dropped' = (dropped \/ deferred # <<>>)
  /\ UNCHANGED <<runs, deferred, wake, tx, late, events>>

(* executeRun reads its run: this is the context the agent is given.       *)
Begin(r) ==
  /\ IF runs[r].status = "running"
     THEN /\ Moves("execute", r, "launched", "executing")
          /\ runs' = [runs EXCEPT ![r].begun = TRUE]
     ELSE Moves("execute", r, "launched", "idle") /\ UNCHANGED runs
  /\ UNCHANGED <<issue, deferred, wake, tx, late, dropped, events>>

(* The agent is no longer invokable when its adapter would be called: the  *)
(* run is cancelled, whatever its status is by now, and not recovered.     *)
Abort(r) ==
  /\ Event
  /\ Moves("execute", r, "executing", "closing")
  /\ SetStatus(r, "cancelled")
  /\ UNCHANGED <<issue, deferred, wake, tx, late, dropped>>

(* Mutant of Finish: the end is written without setRunStatusIfRunning.     *)
FinishUnguarded(r, st) ==
  /\ Moves("execute", r, "executing", IF st = "failed" THEN "finishing" ELSE "succeeding")
  /\ SetStatus(r, st)
  /\ UNCHANGED <<issue, deferred, wake, tx, late, dropped, events>>

(* The adapter came back: setRunStatusIfRunning, or nothing at all.        *)
Finish(r, st) ==
  /\ IF runs[r].status = "running"
     THEN /\ Moves("execute", r, "executing", IF st = "failed" THEN "finishing" ELSE "succeeding")
          /\ SetStatus(r, st)
     ELSE Moves("execute", r, "executing", "idle") /\ UNCHANGED runs
  /\ UNCHANGED <<issue, deferred, wake, tx, late, dropped, events>>

(* scheduleBoundedRetryForRun: the retry takes the lock before the release.*)
ScheduleRetry(r) ==
  /\ Moves("execute", r, "finishing", "releasing")
  /\ RowFree /\ MayRetry(r)
  /\ Retried(r, "scheduled_retry")
  /\ UNCHANGED <<deferred, wake, tx, late, dropped, events>>

(* enqueueMissingIssueCommentRetry: the run left no comment, and none is   *)
(* parked for its agent; the run that is to write one takes the lock, if   *)
(* the ending run still has it.                                            *)
RetryForComment(r) ==
  /\ \/ Moves("execute", r, "finishing", "releasing")
     \/ Moves("execute", r, "succeeding", "closing")
  /\ RowFree /\ MayRetry(r) /\ issue.run = r
  /\ \A i \in DOMAIN deferred :
       deferred[i].agent = runs[r].agent => deferred[i].wakes \cap Comments = {}
  /\ Retried(r, "queued")
  /\ UNCHANGED <<deferred, wake, tx, late, dropped, events>>

NoRetry(r) ==
  /\ \/ Moves("execute", r, "finishing", "releasing")
     \/ Moves("execute", r, "succeeding", "closing")
  /\ UNCHANGED <<issue, runs, deferred, wake, tx, late, dropped, events>>

RetryAllowed(r) == issue.assignee = runs[r].agent /\ issue.status \notin {"done", "waiting"}

(* promoteScheduledRetryRun: due, and the gate lets it through or not.     *)
(* Mutant: a retry that lost the lock is never due.                       *)
PromoteRetryOfHolder(r) ==
  /\ runs[r].status = "scheduled_retry"
  /\ RetryAllowed(r) /\ issue.run = r
  /\ SetStatus(r, "queued")
  /\ UNCHANGED <<issue, deferred, wake, tx, at, late, dropped, events>>

PromoteRetry(r) ==
  /\ runs[r].status = "scheduled_retry"
  /\ RetryAllowed(r)
  /\ SetStatus(r, "queued")
  /\ UNCHANGED <<issue, deferred, wake, tx, at, late, dropped, events>>

GateRetry(r) ==
  /\ runs[r].status = "scheduled_retry"
  /\ IF RetryAllowed(r) THEN Event ELSE UNCHANGED events
  /\ SetStatus(r, "cancelled")
  /\ Moves("gate", r, "idle", "clearing")
  /\ UNCHANGED <<issue, deferred, wake, tx, late, dropped>>

-----------------------------------------------------------------------------
(* releaseIssueExecutionAndPromote, called by handler h for run r.         *)

Returns(h, r) ==
  /\ at[h][r] \in {"releasing", "closing"} /\ RowFree
  /\ at' = [at EXCEPT ![h][r] = "idle"]
  /\ UNCHANGED <<tx, late, events>>

HeldByOther(r) == issue.run \notin {NoRun, r}
Unlocked == [issue EXCEPT !.run = NoRun]

(* Another run has the issue by now: its end promotes, if it is not over.  *)
ReleaseToOther(h, r) ==
  /\ Returns(h, r)
  /\ HeldByOther(r)
  /\ dropped' = (dropped \/ (deferred # <<>> /\ ~IsAlive(issue.run)))
  /\ UNCHANGED <<issue, runs, deferred, wake>>

(* The workspace or the configuration is at fault: the issue is blocked.   *)
ReleaseBlocked(r) ==
  /\ at["execute"][r] = "releasing" /\ ~HeldByOther(r)
  /\ issue.status = "open" /\ issue.assignee = runs[r].agent
  /\ Returns("execute", r)
  /\ issue' = [Unlocked EXCEPT !.status = "blocked"]
  /\ dropped' = (dropped \/ deferred # <<>>)
  /\ UNCHANGED <<runs, deferred, wake>>

(* Requests of agents that cannot run, or held, are given up in passing.   *)
GiveUp(W) == wake' = [w \in Wakes |-> IF w \in W THEN "ended" ELSE wake[w]]
UpTo(k) == UNION {deferred[i].wakes : i \in 1..k}

(* The oldest request left is promoted; it takes the lock only if its      *)
(* agent is the assignee.  A comment reopens an issue that is done.        *)
Promoted(d) ==
  /\ runs' = [runs EXCEPT ![Fresh] = Row("queued", d.agent, d.wakes, NoRun)]
  /\ \E reopen \in {FALSE, issue.status = "done" /\ d.wakes \cap Comments # {}} :
       issue' = [issue EXCEPT !.run = IF issue.assignee = d.agent THEN Fresh ELSE NoRun,
                              !.status = IF reopen THEN "open" ELSE @]

(* Mutant: the lock is released and the parked request left.              *)
ReleaseKeeping(h, r, k) ==
  /\ ~HeldByOther(r) /\ k \in DOMAIN deferred
  /\ Returns(h, r)
  /\ issue' = Unlocked
  /\ UNCHANGED <<runs, deferred, wake, dropped>>

(* Mutant: the request that is promoted stays parked.                     *)
ReleaseLeaving(h, r, k) ==
  /\ ~HeldByOther(r) /\ k \in DOMAIN deferred
  /\ Returns(h, r)
  /\ Promoted(deferred[k])
  /\ GiveUp(UpTo(k - 1))
  /\ deferred' = SubSeq(deferred, k, Len(deferred))
  /\ UNCHANGED dropped

ReleasePromoting(h, r, k) ==
  /\ Returns(h, r)
  /\ ~HeldByOther(r) /\ k \in DOMAIN deferred
  /\ Promoted(deferred[k])
  /\ GiveUp(UpTo(k - 1))
  /\ deferred' = SubSeq(deferred, k + 1, Len(deferred))
  /\ UNCHANGED dropped

(* Nothing is parked, or nothing that can run.                             *)
Recoverable(h, r) ==
  /\ at[h][r] = "releasing"
  /\ issue.status = "open" /\ issue.assignee = runs[r].agent
  /\ AliveRuns \ {r} = {}

ReleaseOnly(h, r) ==
  /\ Returns(h, r)
  /\ ~HeldByOther(r)
  /\ issue' = Unlocked
  /\ GiveUp(UpTo(Len(deferred)))
  /\ deferred' = <<>>
  /\ UNCHANGED <<runs, dropped>>

ReleaseRecovering(h, r) ==
  /\ Returns(h, r)
  /\ ~HeldByOther(r) /\ Recoverable(h, r)
  /\ IF MayRetry(r)
     THEN /\ runs' = [runs EXCEPT ![Fresh] = Row("queued", runs[r].agent, {}, r)]
          /\ issue' = [issue EXCEPT !.run = Fresh]
     ELSE issue' = [Unlocked EXCEPT !.status = "blocked"] /\ UNCHANGED runs
  /\ GiveUp(UpTo(Len(deferred)))
  /\ deferred' = <<>>
  /\ UNCHANGED dropped

Release(h, r) ==
  \/ ReleaseToOther(h, r)
  \/ \E k \in DOMAIN deferred : ReleasePromoting(h, r, k)
  \/ ReleaseOnly(h, r)
  \/ ReleaseRecovering(h, r)

-----------------------------------------------------------------------------
(* The other ends of a run.                                                *)

(* cancelRunInternal reads the run ("terminating"); so do cancelActive-    *)
(* ForAgentInternal, for all the runs of an agent, and the daily cap       *)
(* ("picked": of a suspect, it is not counted as an event).                *)
Cancel(r) ==
  /\ IsAlive(r)
  /\ \E how \in {"terminating", "picked"} :
       /\ Moves("cancel", r, "idle", how)
       /\ IF how = "picked" /\ Suspect(r) THEN UNCHANGED events ELSE Event
  /\ UNCHANGED <<issue, runs, deferred, wake, tx, late, dropped>>

(* The first waits for the run's process to end and then writes the run's  *)
(* status, whatever that is by now ...                                     *)
CancelWrites(r) ==
  /\ ~Outlives(r)
  /\ Moves("cancel", r, "terminating", "releasing")
  /\ SetStatus(r, "cancelled")
  /\ UNCHANGED <<issue, deferred, wake, tx, late, dropped, events>>

(* ... the others write it, at the run's turn, before any process is       *)
(* killed, and recover nothing.                                            *)
CancelFirst(r) ==
  /\ Moves("cancel", r, "picked", IF Outlives(r) THEN "killing" ELSE "closing")
  /\ SetStatus(r, "cancelled")
  /\ UNCHANGED <<issue, deferred, wake, tx, late, dropped, events>>

Kill(r) ==
  /\ ~Outlives(r)
  /\ Moves("cancel", r, "killing", "closing")
  /\ UNCHANGED <<issue, runs, deferred, wake, tx, late, dropped, events>>

(* A process that outlived the server ends by itself or is killed.         *)
ChildEnds(r) ==
  /\ Outlives(r)
  /\ at' = [at EXCEPT !["execute"][r] = "idle"]
  /\ UNCHANGED <<issue, runs, deferred, wake, tx, late, dropped, events>>

(* reapOrphanedRuns lists a running run; a freshly claimed one is too      *)
(* young for it, and one that is detached already is passed over.  When    *)
(* its turn comes, only the memory and the process are looked at again.    *)
List(r) ==
  /\ runs[r].status = "running" /\ at["execute"][r] \notin {"claimed", "launched", "detached"}
  /\ IF Live(r) THEN Event ELSE UNCHANGED events
  /\ Moves("reap", r, "idle", "listed")
  /\ UNCHANGED <<issue, runs, deferred, wake, tx, late, dropped>>

ReapSkips(r) ==
  /\ Live(r)
  /\ Moves("reap", r, "listed", "idle")
  /\ UNCHANGED <<issue, runs, deferred, wake, tx, late, dropped, events>>

(* The process is alive: the run is written running and detached, even if  *)
(* it is over by now.                                                      *)
ReapDetaches(r) ==
  /\ Suspect(r)
  /\ at' = [at EXCEPT !["reap"][r] = "idle", !["execute"][r] = "detached"]
  /\ SetStatus(r, "running")
  /\ UNCHANGED <<issue, deferred, wake, tx, late, dropped, events>>

(* It is gone: the run is lost.                                            *)
ReapFails(r) ==
  /\ ~Live(r) /\ ~Outlives(r)
  /\ Moves("reap", r, "listed", "lost")
  /\ SetStatus(r, "failed")
  /\ UNCHANGED <<issue, deferred, wake, tx, late, dropped, events>>

(* drainRunningRunsForShutdown: setRunStatusIfRunning.                     *)
Drain(r) ==
  /\ runs[r].status = "running" /\ Event
  /\ Moves("reap", r, "idle", "interrupted")
  /\ SetStatus(r, "interrupted")
  /\ UNCHANGED <<issue, deferred, wake, tx, late, dropped>>

(* enqueueProcessLossRetry: one retry, that takes over the lock ...        *)
RetryLost(r) ==
  /\ at["reap"][r] \in {"lost", "interrupted"} /\ RowFree
  /\ at' = [at EXCEPT !["reap"][r] = "idle"]
  /\ IF RetriesOf(r) # {} THEN UNCHANGED <<runs, issue>>
     ELSE MayRetry(r) /\ Retried(r, "queued")
  /\ UNCHANGED <<deferred, wake, tx, late, dropped, events>>

(* ... or none, and the issue is released.                                 *)
ReleaseLost(r) ==
  /\ at["reap"][r] \in {"lost", "interrupted"} /\ RetriesOf(r) = {}
  /\ at' = [at EXCEPT !["reap"][r] =
               IF @ = "lost" THEN "releasing" ELSE "closing"]
  /\ UNCHANGED <<issue, runs, deferred, wake, tx, late, dropped, events>>

-----------------------------------------------------------------------------
(* The environment.                                                        *)

(* issues.update: the issue is closed, or given to another agent; blockers *)
(* are added to it or resolved.                                            *)
Changes == Event /\ RowFree

Close ==
  /\ Changes /\ issue.status # "done"
  /\ issue' = [Unlocked EXCEPT !.status = "done"]
  /\ UNCHANGED <<runs, deferred, wake, tx, at, late, dropped>>

Assign(a) ==
  /\ Changes /\ a # issue.assignee
  /\ issue' = [Unlocked EXCEPT !.assignee = a]
  /\ UNCHANGED <<runs, deferred, wake, tx, at, late, dropped>>

Blockers ==
  /\ Changes /\ issue.status \in {"open", "waiting"}
  /\ issue' = [issue EXCEPT !.status = IF @ = "open" THEN "waiting" ELSE "open"]
  /\ UNCHANGED <<runs, deferred, wake, tx, at, late, dropped>>

(* sweepStaleIssueLocks and the checkouts drop the lock of a run that is   *)
(* over.                                                                   *)
Sweep ==
  /\ RowFree /\ issue.run # NoRun /\ ~IsAlive(issue.run)
  /\ issue' = Unlocked
  /\ UNCHANGED <<runs, deferred, wake, tx, at, late, dropped, events>>

(* A transaction cut short is one that never began.  A handler cut short   *)
(* between its two writes never releases the issue.                        *)
Ending(r) ==
  \E h \in Handlers : at[h][r] \in {"finishing", "succeeding", "killing", "lost", "interrupted",
                                   "releasing", "closing", "clearing"}

(* Only the processes of the agents live on (if not, ChildEnds follows).   *)
Left(h, r) ==
  IF h = "execute" /\ Outlives(r) THEN at[h][r]
  ELSE IF h = "execute" /\ at[h][r] = "executing" /\ runs[r].status = "running" THEN "orphan"
  ELSE "idle"

Crash ==
  /\ Event /\ RowFree
  /\ at' = [h \in Handlers |-> [r \in Runs |-> Left(h, r)]]
  /\ dropped' = (dropped \/ \E r \in Runs : Ending(r))
  /\ UNCHANGED <<issue, runs, deferred, wake, tx, late>>

-----------------------------------------------------------------------------
WakeStep(w) == Open(w) \/ Merge(w) \/ Defer(w) \/ Queue(w) \/ SkipBlocked(w)

Releases(r) == ReleaseBlocked(r) \/ \E h \in Handlers : Release(h, r)

ExecuteStep(r) ==
  \/ Claim(r) \/ Stamp(r) \/ Begin(r) \/ \E st \in {"succeeded", "failed"} : Finish(r, st)
  \/ Abort(r) \/ ScheduleRetry(r) \/ RetryForComment(r) \/ NoRetry(r)

GateStep(r) ==
  \/ Reject(r) \/ GateWrites(r) \/ Clear(r)
  \/ PromoteRetry(r) \/ GateRetry(r)

CancelStep(r) == Cancel(r) \/ CancelWrites(r) \/ CancelFirst(r) \/ Kill(r)

ReapStep(r) ==
  \/ List(r) \/ ReapSkips(r) \/ ReapDetaches(r) \/ ReapFails(r)
  \/ RetryLost(r) \/ ReleaseLost(r) \/ Drain(r)

RunStep(r) ==
  \/ ExecuteStep(r) \/ GateStep(r) \/ CancelStep(r) \/ ReapStep(r)
  \/ ChildEnds(r) \/ Releases(r)

Next ==
  \/ \E w \in Wakes : WakeStep(w)
  \/ \E r \in Runs : RunStep(r)
  \/ Close \/ Blockers \/ \E a \in Agents : Assign(a)
  \/ Sweep \/ Crash

Spec == Init /\ [][Next]_vars

(* A transaction commits, and what a handler has begun it goes on with;    *)
(* resumeQueuedRuns, promoteDueScheduledRetries and reapOrphanedRuns run   *)
(* on timers; adapters come back or time out.                              *)
Commits(w) == Merge(w) \/ Defer(w) \/ Queue(w) \/ SkipBlocked(w)

Progress(r) ==
  \/ Claim(r) \/ Reject(r) \/ GateWrites(r) \/ Clear(r) \/ Stamp(r) \/ Begin(r)
  \/ \E st \in {"succeeded", "failed"} : Finish(r, st)
  \/ ScheduleRetry(r) \/ NoRetry(r) \/ PromoteRetry(r)
  \/ GateRetry(r) /\ ~RetryAllowed(r)
  \/ \E h \in Handlers : Release(h, r)
  \/ CancelWrites(r) \/ CancelFirst(r) \/ Kill(r) \/ ChildEnds(r)
  \/ List(r) /\ ~Live(r)
  \/ ReapSkips(r) \/ ReapDetaches(r) \/ ReapFails(r) \/ RetryLost(r) \/ ReleaseLost(r)

(* One transaction is open at a time, and every run makes finitely many of *)
(* the steps of Progress: fairness of them all is fairness of each.        *)
Fairness ==
  /\ WF_vars(\E w \in Wakes : Commits(w))
  /\ WF_vars(\E r \in Runs : Progress(r))

FairSpec == Spec /\ Fairness

-----------------------------------------------------------------------------
InHand(r) == \E h \in Handlers : at[h][r] \notin {"idle", "listed", "orphan", "detached"}

(* A parked request has somebody to promote it: a run of the issue that is *)
(* not over, or a handler of a run's end that has yet to release it.       *)
DeferredHasOwner ==
  deferred # <<>> => \/ AliveRuns # {} \/ ~RowFree
                     \/ \E r \in Runs : InHand(r)

(* The wake-ups parked for an issue are left without anybody to promote    *)
(* them only in the ways that set "dropped": a queued run found outdated,  *)
(* a retry stopped at its gate, an issue blocked for its configuration, a  *)
(* lock left by a run that is over, or a restart between the two writes of *)
(* a run's end.  No order of wake-ups, ends, retries, cancellations and    *)
(* reapings adds another.                                                  *)
OwnedUnlessDropped == dropped \/ DeferredHasOwner

Parking(w) == \E i \in DOMAIN deferred : w \in deferred[i].wakes

(* A wake-up that carries a comment is never taken for part of work that   *)
(* has begun without it: it is in the context some run is given or is      *)
(* parked, unless its run was claimed or ended while enqueueWakeup was     *)
(* about to merge it.                                                      *)
CommentsCarried ==
  \A w \in Comments : wake[w] = "in" =>
    Parking(w) \/ w \in late \/ \E r \in Runs : w \in runs[r].wakes

(* The handlers that write a status they have decided on earlier: the      *)
(* cancellations, the gates, the start of an execution, and the reaper.    *)
Overwrites(r, st) ==
  \/ /\ st = "cancelled"
     /\ \/ at["cancel"][r] \in {"terminating", "picked"}
        \/ at["gate"][r] = "rejecting"
        \/ at["execute"][r] = "executing"
  \/ st = "failed" /\ at["reap"][r] = "listed"
  \/ st = "running" /\ Suspect(r)

(* How a run ended is overwritten only by a handler that found the run     *)
(* alive and writes later, and only with that handler's own end; and a run *)
(* that is over comes alive again only if the reaper had listed it before  *)
(* and its process, which outlived a restart, is alive still.  The end of  *)
(* executeRun, the drain, the retries and the claims overwrite nothing.    *)
OverStays ==
  [][\A r \in Runs :
       runs[r].status \in Over /\ runs'[r].status # runs[r].status
         => Overwrites(r, runs'[r].status)]_vars

(* A retry belongs to the work of the run it retries.                      *)
Work(r) == IF runs[r].retryOf = NoRun THEN r ELSE runs[r].retryOf

WorksOf(w) == {Work(r) : r \in {n \in Created : w \in Context(n)}}

Ledger == INSTANCE WakeLedger WITH
  Works <- Runs,
  parked <- {w \in Wakes : Parking(w)},
  closed <- {w \in Wakes : wake[w] = "ended"},
  works <- [w \in Wakes |-> WorksOf(w)]

(* Every wake-up accepted has one place, whatever merges, retries, ends    *)
(* and promotions do at the same time: it is parked once, or in the        *)
(* contexts of one run and its retries, or given up.  What is parked is    *)
(* promoted once, into a run of its own.                                   *)
ImplementsLedger == Ledger!Spec

Pending(w) == Parking(w) \/ \E r \in AliveRuns : w \in runs[r].wakes /\ ~runs[r].begun

(* Every wake-up accepted is given to an agent or given up, in the end:    *)
(* time and again no wake-up waits for a run that has yet to begin, unless *)
(* one was dropped.                                                        *)
WakesSettle == []<>(dropped \/ \A w \in Wakes : ~Pending(w))

(* docs/agents-runtime.md: while an agent has a run of the issue, further  *)
(* wake-ups join it.                                                       *)
OneRunPerAgent ==
  \A a \in Agents :
    Cardinality({r \in Runs : runs[r].agent = a /\ runs[r].status \in {"queued", "running"}}) <= 1
=============================================================================
