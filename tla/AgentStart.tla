----------------------------- MODULE AgentStart -----------------------------
(***************************************************************************)
(* How the server starts the queued heartbeat runs of ONE agent:           *)
(* startNextQueuedRunForAgent of services/heartbeat.ts under the in-memory *)
(* lock of services/agent-start-lock.ts.                                   *)
(*                                                                         *)
(* A START is one call of startNextQueuedRunForAgent.  Every enqueue,      *)
(* cancellation, end and reaping of a run makes one, so many are in flight *)
(* at a time.  The lock is a chain of promises: the map holds the last     *)
(* start registered, and a start waits for the one it found there, but at  *)
(* most until that one is 30 s old; then it goes ahead regardless.  Under  *)
(* the lock a start counts the running runs, lists the queued ones, and    *)
(* claims as many as there are free slots.  Claiming passes gates that may *)
(* cancel the run instead, and some cancellations AWAIT a further start of *)
(* the same agent, from inside the lock.                                   *)
(*                                                                         *)
(* Abstracted: which gate rejects a run (budget, daily cap, pause hold,    *)
(* blocked or stale issue) is a free choice; so is the order of the queue; *)
(* time is the single fact that an entry of the lock is 30 s old.          *)
(***************************************************************************)
EXTENDS Integers, FiniteSets

CONSTANTS
  Runs,        \* the heartbeat runs of the agent
  Starts,      \* calls of startNextQueuedRunForAgent that may be in flight
  Max,         \* the agent's maxConcurrentRuns
  SlowSteps,   \* TRUE: any step may take minutes.  FALSE: only a stalled start does
  MaxCrashes,  \* bound: restarts of the server in one behaviour
  NoRun, NoStart

ASSUME StartConstants ==
  /\ IsFiniteSet(Runs) /\ NoRun \notin Runs
  /\ NoStart \notin Starts
  /\ Max \in Nat
  /\ SlowSteps \in BOOLEAN
  /\ MaxCrashes \in Nat

VARIABLES
  status,      \* heartbeat_runs.status; "absent": no row, or scheduled_retry
  launching,   \* runs whose executeRun was called and has not read its run yet
  executing,   \* activeRunExecutions
  tail,        \* startLocksByAgent.get(agentId), as the start that set it
  pc,          \* where each start is
  prev,        \* the start whose lock this one waits for
  aged,        \* the start's lock entry is older than AGENT_START_LOCK_STALE_MS
  slots,       \* availableSlots of the start
  todo,        \* prioritizedRuns it has not looked at yet
  claimed,     \* claimedRuns
  owes,        \* nested starts that the cancellation it awaits still has to call
  parent,      \* the start that awaits this one
  listed,      \* running runs on the list of the reaper
  orphans,     \* runs whose process outlived an earlier server process
  detached,    \* those of them that are marked: error_code "process_detached"
  overtaken,   \* history: some start went ahead of a lock that was held
  revived,     \* history: a run that was over was written running
  crashes

runVars == <<status, launching, executing>>
lockVars == <<tail, pc, prev, aged>>
bodyVars == <<slots, todo, claimed, owes, parent>>
background == <<listed, orphans, detached, overtaken, revived, crashes>>
vars == <<runVars, lockVars, bodyVars, background>>

Inside == {"counting", "listing", "claiming", "nested"}

(* One invariant for the types of the agent's runs and of the starts.      *)
TypeOK ==
  /\ status \in [Runs -> {"absent", "queued", "running", "terminal"}]
  /\ launching \in SUBSET Runs
  /\ executing \in SUBSET Runs
  /\ tail \in Starts \cup {NoStart}
  /\ pc \in [Starts -> {"idle", "called", "waiting"} \cup Inside]
  /\ prev \in [Starts -> Starts \cup {NoStart}]
  /\ aged \in [Starts -> BOOLEAN]
  /\ slots \in [Starts -> 0..Max]
  /\ todo \in [Starts -> SUBSET Runs]
  /\ claimed \in [Starts -> SUBSET Runs]
  /\ owes \in [Starts -> 0..2]
  /\ parent \in [Starts -> Starts \cup {NoStart}]
  /\ listed \in SUBSET Runs
  /\ orphans \in SUBSET Runs
  /\ detached \in SUBSET Runs
  /\ overtaken \in BOOLEAN /\ revived \in BOOLEAN
  /\ crashes \in 0..MaxCrashes

With(st) == {r \in Runs : status[r] = st}
Running == With("running")

(* Every run in S gets status st, whatever its status was: setRunStatus.   *)
Set(S, st) == status' = [r \in Runs |-> IF r \in S THEN st ELSE status[r]]

(* A call of startNextQueuedRunForAgent that nothing in the lock awaits.   *)
Calls(s) == /\ pc[s] = "idle"
            /\ pc' = [pc EXCEPT ![s] = "called"]
            /\ UNCHANGED <<tail, prev, aged, bodyVars>>

(* Promoting a deferred wake inserts its queued run; its id is new.        *)
Promotable == With("absent") \cup {NoRun}

Init ==
  /\ status = [r \in Runs |-> "absent"]
  /\ launching = {} /\ executing = {}
  /\ tail = NoStart
  /\ pc = [s \in Starts |-> "idle"]
  /\ prev = [s \in Starts |-> NoStart]
  /\ aged = [s \in Starts |-> FALSE]
  /\ slots = [s \in Starts |-> 0]
  /\ todo = [s \in Starts |-> {}]
  /\ claimed = [s \in Starts |-> {}]
  /\ owes = [s \in Starts |-> 0]
  /\ parent = [s \in Starts |-> NoStart]
  /\ listed = {} /\ orphans = {} /\ detached = {}
  /\ overtaken = FALSE /\ revived = FALSE
  /\ crashes = 0

-----------------------------------------------------------------------------
(* The runs, outside the lock.                                             *)

(* A wakeup, a retry of a lost process or a promoted wake inserts a queued *)
(* run and starts the agent's next run.                                    *)
Enqueue(r, s) ==
  /\ status[r] = "absent"
  /\ Set({r}, "queued")
  /\ Calls(s)
  /\ UNCHANGED <<launching, executing, background>>

(* A due scheduled_retry becomes queued; only resumeQueuedRuns starts it.  *)
PromoteRetry(r) ==
  /\ status[r] = "absent"
  /\ Set({r}, "queued")
  /\ UNCHANGED <<launching, executing, lockVars, bodyVars, background>>

(* executeRun reads its run: it goes on unless the run is over by now.     *)
Execute(r) ==
  /\ r \in launching
  /\ launching' = launching \ {r}
  /\ executing' = IF status[r] = "running" THEN executing \cup {r} ELSE executing
  /\ UNCHANGED <<status, lockVars, bodyVars, background>>

(* ... or that read fails, which is only logged.                           *)
ExecuteFails(r) ==
  /\ r \in launching
  /\ launching' = launching \ {r}
  /\ UNCHANGED <<status, executing, lockVars, bodyVars, background>>

(* The adapter returned or failed: setRunStatusIfRunning.                  *)
RunEnds(r) ==
  /\ r \in executing /\ status[r] = "running"
  /\ Set({r}, "terminal")
  /\ UNCHANGED <<launching, executing, lockVars, bodyVars, background>>

(* The finally block of executeRun.                                        *)
RunLeaves(r, s) ==
  /\ r \in executing /\ status[r] # "running"
  /\ executing' = executing \ {r}
  /\ Calls(s)
  /\ UNCHANGED <<status, launching, background>>

(* The board cancels a run: its process is killed, then its status is      *)
(* written.  Pausing or terminating the agent cancels its runs one by one, *)
(* each first written and then killed, and starts nothing (s = NoStart).   *)
CancelRun(r, s) ==
  /\ status[r] \in {"queued", "running"}
  /\ Set({r}, "terminal")
  /\ IF s = NoStart THEN UNCHANGED <<lockVars, bodyVars, orphans, detached>>
     ELSE Calls(s) /\ orphans' = orphans \ {r} /\ detached' = detached \ {r}
  /\ UNCHANGED <<launching, executing, listed, overtaken, revived, crashes>>

(* A run that a start has claimed and that executeRun has not taken over.  *)
InFlight(r) == r \in launching \/ \E s \in Starts : r \in claimed[s]

(* reapOrphanedRuns lists the running runs, at the start and by a timer,   *)
(* one pass at a time.  The timer spares the rows younger than five        *)
(* minutes, so it lists a run in flight only if a step is slow.  (The      *)
(* startup pass spares none; it runs beside the first requests.)  Left out *)
(* are the listed runs that have no effect: those executing now, which are *)
(* passed over or are over at their turn, and those already detached.      *)
ReapList(r) ==
  /\ status[r] = "running" /\ r \notin executing \cup listed \cup detached
  /\ InFlight(r) => SlowSteps
  /\ listed' = listed \cup {r}
  /\ UNCHANGED <<runVars, lockVars, bodyVars, orphans, detached, overtaken, revived, crashes>>

(* At its turn the run executes: it is passed over.                        *)
ReapSpares(r) ==
  /\ r \in listed \cap executing
  /\ listed' = listed \ {r}
  /\ UNCHANGED <<runVars, lockVars, bodyVars, orphans, detached, overtaken, revived, crashes>>

(* At its turn the run's process is alive: the run is written running and  *)
(* detached, whatever its status is by then.                               *)
ReapDetaches(r) ==
  /\ r \in listed \cap orphans /\ r \notin executing
  /\ Set({r}, "running")
  /\ listed' = listed \ {r}
  /\ orphans' = orphans \ {r} /\ detached' = detached \cup {r}
  /\ revived' = (revived \/ status[r] # "running")
  /\ UNCHANGED <<launching, executing, lockVars, bodyVars, overtaken, crashes>>

(* Mutant of Reap: the test for a live execution is the wrong way round.   *)
ReapExecuting(r, s) ==
  /\ r \in listed \cap executing
  /\ Set({r}, "terminal")
  /\ Calls(s)
  /\ listed' = listed \ {r}
  /\ UNCHANGED <<launching, executing, orphans, detached, overtaken, revived, crashes>>

(* At its turn the run has no process: it is lost, again whatever its      *)
(* status is, and the agent's next run is started.                         *)
Reap(r, s) ==
  /\ r \in listed /\ r \notin executing \cup orphans
  /\ Set({r}, "terminal")
  /\ Calls(s)
  /\ listed' = listed \ {r}
  /\ UNCHANGED <<launching, executing, orphans, detached, overtaken, revived, crashes>>

(* A process that outlived the server ends, with nobody to see it.         *)
ProcessEnds(r) ==
  /\ r \in orphans \cup detached
  /\ orphans' = orphans \ {r} /\ detached' = detached \ {r}
  /\ UNCHANGED <<runVars, lockVars, bodyVars, listed, overtaken, revived, crashes>>

(* resumeQueuedRuns, at startup and on the timer.                          *)
ResumeQueuedRuns(s) ==
  /\ With("queued") # {}
  /\ Calls(s)
  /\ UNCHANGED <<runVars, background>>

(* The server process ends; the rows stay, what is in memory is gone.  The *)
(* processes of the runs it executes may live on (ProcessEnds if not).     *)
Crash ==
  /\ crashes < MaxCrashes
  /\ crashes' = crashes + 1
  /\ launching' = {} /\ executing' = {}
  /\ tail' = NoStart
  /\ pc' = [s \in Starts |-> "idle"]
  /\ prev' = [s \in Starts |-> NoStart]
  /\ aged' = [s \in Starts |-> FALSE]
  /\ slots' = [s \in Starts |-> 0]
  /\ todo' = [s \in Starts |-> {}]
  /\ claimed' = [s \in Starts |-> {}]
  /\ owes' = [s \in Starts |-> 0]
  /\ parent' = [s \in Starts |-> NoStart]
  /\ listed' = {}
  /\ orphans' = orphans \cup (executing \cap Running)
  /\ UNCHANGED <<status, detached, overtaken, revived>>

-----------------------------------------------------------------------------
(* The lock.                                                               *)

(* Mutant of Register: the start leaves its entry but waits for no one.    *)
RegisterWithoutWaiting(s) ==
  /\ pc[s] = "called"
  /\ tail' = s
  /\ pc' = [pc EXCEPT ![s] = "waiting"]
  /\ UNCHANGED <<prev, aged, runVars, bodyVars, background>>

(* withAgentStartLock up to its await: take the entry found as the one to  *)
(* wait for, and leave one's own.                                          *)
Register(s) ==
  /\ pc[s] = "called"
  /\ prev' = [prev EXCEPT ![s] = tail]
  /\ tail' = s
  /\ pc' = [pc EXCEPT ![s] = "waiting"]
  /\ UNCHANGED <<aged, runVars, bodyVars, background>>

(* There was no entry, or its promise has resolved.                        *)
Enter(s) ==
  /\ pc[s] = "waiting" /\ prev[s] = NoStart
  /\ pc' = [pc EXCEPT ![s] = "counting"]
  /\ UNCHANGED <<tail, prev, aged, runVars, bodyVars, background>>

(* Mutant of Overtake: the wait has no timeout.                            *)
WaitForEver(s) == s \notin Starts /\ UNCHANGED vars

(* The entry is 30 s old: the start goes on without it.                    *)
Overtake(s) ==
  /\ pc[s] = "waiting" /\ prev[s] # NoStart /\ aged[prev[s]]
  /\ pc' = [pc EXCEPT ![s] = "counting"]
  /\ prev' = [prev EXCEPT ![s] = NoStart]
  /\ overtaken' = TRUE
  /\ UNCHANGED <<tail, aged, runVars, bodyVars, listed, orphans, detached, revived, crashes>>

(* A start awaits a nested start that waits for the lock: nothing but the  *)
(* 30 s timeout will move them.                                            *)
Stalled == \E n \in Starts : parent[n] # NoStart /\ pc[n] = "waiting"

(* Entries age in the order in which they were made.                       *)
TimePasses(s) ==
  /\ pc[s] \notin {"idle", "called"} /\ ~aged[s]
  /\ prev[s] # NoStart => aged[prev[s]]
  /\ SlowSteps \/ Stalled
  /\ aged' = [aged EXCEPT ![s] = TRUE]
  /\ UNCHANGED <<tail, pc, prev, runVars, bodyVars, background>>

(* Mutant of Returns: the entry is deleted whoever it belongs to by now.   *)
ReturnsDeleting(s) ==
  /\ tail' = NoStart
  /\ pc' = [t \in Starts |-> IF t = s THEN "idle"
                             ELSE IF t = parent[s] THEN "claiming" ELSE pc[t]]
  /\ prev' = [t \in Starts |-> IF prev[t] = s THEN NoStart ELSE prev[t]]
  /\ aged' = [aged EXCEPT ![s] = FALSE]
  /\ slots' = [slots EXCEPT ![s] = 0]
  /\ todo' = [todo EXCEPT ![s] = {}]
  /\ claimed' = [claimed EXCEPT ![s] = {}]
  /\ owes' = [owes EXCEPT ![s] = 0]
  /\ parent' = [parent EXCEPT ![s] = NoStart]

(* A start returns: its promise resolves for the start behind it and for   *)
(* the caller that awaits it, and it deletes the entry if it is still its  *)
(* own.                                                                    *)
Returns(s) ==
  /\ tail' = IF tail = s THEN NoStart ELSE tail
  /\ pc' = [t \in Starts |-> IF t = s THEN "idle"
                             ELSE IF t = parent[s] THEN "claiming" ELSE pc[t]]
  /\ prev' = [t \in Starts |-> IF prev[t] = s THEN NoStart ELSE prev[t]]
  /\ aged' = [aged EXCEPT ![s] = FALSE]
  /\ slots' = [slots EXCEPT ![s] = 0]
  /\ todo' = [todo EXCEPT ![s] = {}]
  /\ claimed' = [claimed EXCEPT ![s] = {}]
  /\ owes' = [owes EXCEPT ![s] = 0]
  /\ parent' = [parent EXCEPT ![s] = NoStart]

-----------------------------------------------------------------------------
(* The body of startNextQueuedRunForAgent, under the lock.                 *)

(* The agent is gone, paused or over budget.  (If it is terminated its     *)
(* runs are cancelled as well: CancelRun with NoStart.)                    *)
NotInvokable(s) ==
  /\ pc[s] = "counting"
  /\ Returns(s)
  /\ UNCHANGED <<runVars, background>>

(* Mutants of Count: Math.max(0, ...) is missing; the running runs are not *)
(* taken off.                                                              *)
CountUnclamped(s) ==
  /\ pc[s] = "counting"
  /\ slots' = [slots EXCEPT ![s] = Max - Cardinality(Running)]
  /\ pc' = [pc EXCEPT ![s] = "listing"]
  /\ UNCHANGED <<tail, prev, aged, todo, claimed, owes, parent, runVars, background>>

CountNothing(s) ==
  /\ pc[s] = "counting"
  /\ slots' = [slots EXCEPT ![s] = Max]
  /\ pc' = [pc EXCEPT ![s] = "listing"]
  /\ UNCHANGED <<tail, prev, aged, todo, claimed, owes, parent, runVars, background>>

Count(s) ==
  /\ pc[s] = "counting" /\ Cardinality(Running) < Max
  /\ slots' = [slots EXCEPT ![s] = Max - Cardinality(Running)]
  /\ pc' = [pc EXCEPT ![s] = "listing"]
  /\ UNCHANGED <<tail, prev, aged, todo, claimed, owes, parent, runVars, background>>

NoSlots(s) ==
  /\ pc[s] = "counting" /\ Cardinality(Running) >= Max
  /\ Returns(s)
  /\ UNCHANGED <<runVars, background>>

List(s) ==
  /\ pc[s] = "listing"
  /\ todo' = [todo EXCEPT ![s] = With("queued")]
  /\ pc' = [pc EXCEPT ![s] = "claiming"]
  /\ UNCHANGED <<tail, prev, aged, slots, claimed, owes, parent, runVars, background>>

(* The loop over prioritizedRuns is at r.                                  *)
LoopAt(s, r) ==
  /\ pc[s] = "claiming" /\ owes[s] = 0
  /\ r \in todo[s] /\ Cardinality(claimed[s]) < slots[s]
  /\ todo' = [todo EXCEPT ![s] = @ \ {r}]

(* Mutant of Claim: the UPDATE does not ask for a queued row.              *)
ClaimUnguarded(s, r) ==
  /\ LoopAt(s, r)
  /\ Set({r}, "running")
  /\ claimed' = [claimed EXCEPT ![s] = @ \cup {r}]
  /\ UNCHANGED <<launching, executing, lockVars, slots, owes, parent, background>>

(* claimQueuedRun passes its gates; the UPDATE asks for a queued row.      *)
Claim(s, r) ==
  /\ LoopAt(s, r)
  /\ status[r] = "queued"
  /\ Set({r}, "running")
  /\ claimed' = [claimed EXCEPT ![s] = @ \cup {r}]
  /\ UNCHANGED <<launching, executing, lockVars, slots, owes, parent, background>>

ClaimLost(s, r) ==
  /\ LoopAt(s, r)
  /\ status[r] # "queued"
  /\ UNCHANGED <<runVars, lockVars, slots, claimed, owes, parent, background>>

(* A gate cancels r through cancelRunInternal (no longer invokable, budget,*)
(* pause hold), which re-reads the run, may promote a deferred wake p, and *)
(* awaits a start after the promotion and another one at its end.          *)
CancelOnClaim(s, r, p) ==
  /\ LoopAt(s, r)
  /\ status[r] \in {"queued", "running"}
  /\ status' = [q \in Runs |-> IF q = r THEN "terminal"
                               ELSE IF q = p THEN "queued" ELSE status[q]]
  /\ owes' = [owes EXCEPT ![s] = IF p = NoRun THEN 1 ELSE 2]
  /\ UNCHANGED <<launching, executing, lockVars, slots, claimed, parent, background>>

(* A gate closes r by a plain UPDATE, without looking at its status again: *)
(* blocked dependencies, a stale issue (p = NoRun) or the daily cap.       *)
SkipOnClaim(s, r, p) ==
  /\ LoopAt(s, r)
  /\ status' = [q \in Runs |-> IF q = r THEN "terminal"
                               ELSE IF q = p THEN "queued" ELSE status[q]]
  /\ owes' = [owes EXCEPT ![s] = IF p = NoRun THEN 0 ELSE 1]
  /\ UNCHANGED <<launching, executing, lockVars, slots, claimed, parent, background>>

(* The cancellation calls startNextQueuedRunForAgent and awaits it.        *)
Nest(s, n) ==
  /\ pc[s] = "claiming" /\ owes[s] > 0 /\ pc[n] = "idle"
  /\ pc' = [pc EXCEPT ![s] = "nested", ![n] = "called"]
  /\ parent' = [parent EXCEPT ![n] = s]
  /\ owes' = [owes EXCEPT ![s] = @ - 1]
  /\ UNCHANGED <<tail, prev, aged, slots, todo, claimed, runVars, background>>

(* The loop is over: executeRun is called, not awaited, for what it claimed.*)
Leave(s) ==
  /\ pc[s] = "claiming" /\ owes[s] = 0
  /\ todo[s] = {} \/ Cardinality(claimed[s]) >= slots[s]
  /\ launching' = launching \cup claimed[s]
  /\ Returns(s)
  /\ UNCHANGED <<status, executing, background>>

(* A query under the lock throws: what was claimed is never executed.      *)
Throw(s) ==
  /\ pc[s] \in {"counting", "listing", "claiming"}
  /\ Returns(s)
  /\ UNCHANGED <<runVars, background>>

-----------------------------------------------------------------------------
BodyStep(s) ==
  \/ NotInvokable(s) \/ Count(s) \/ NoSlots(s) \/ List(s) \/ Leave(s) \/ Throw(s)
  \/ \E r \in Runs : Claim(s, r) \/ ClaimLost(s, r)
  \/ \E r \in Runs : \E p \in Promotable : CancelOnClaim(s, r, p) \/ SkipOnClaim(s, r, p)
  \/ \E n \in Starts : Nest(s, n)

StartStep(s) == Register(s) \/ Enter(s) \/ Overtake(s) \/ TimePasses(s) \/ BodyStep(s)

RunStep(r) ==
  \/ PromoteRetry(r) \/ Execute(r) \/ ExecuteFails(r) \/ RunEnds(r)
  \/ ReapList(r) \/ ReapSpares(r) \/ ReapDetaches(r) \/ ProcessEnds(r)
  \/ \E s \in Starts : Enqueue(r, s) \/ RunLeaves(r, s) \/ Reap(r, s)
  \/ \E s \in Starts \cup {NoStart} : CancelRun(r, s)

Next ==
  \/ \E s \in Starts : StartStep(s) \/ ResumeQueuedRuns(s)
  \/ \E r \in Runs : RunStep(r)
  \/ Crash

Spec == Init /\ [][Next]_vars

(* The event loop runs every start that can go on, and its timers fire.    *)
(* Strong fairness only because Nest needs an idle member of Starts.       *)
Scheduling ==
  \A s \in Starts :
    /\ WF_vars(Register(s)) /\ WF_vars(Enter(s) \/ Overtake(s)) /\ WF_vars(TimePasses(s))
    /\ SF_vars(BodyStep(s))

(* What happens to a run sooner or later; it makes finitely many of these  *)
(* steps, so that fairness of them all is fairness of each.                *)
RunGoesOn(r) ==
  Execute(r) \/ RunEnds(r) \/ ReapList(r) \/ ReapSpares(r) \/ ReapDetaches(r) \/ ProcessEnds(r)

(* The server does not fail for ever: adapters return, processes that      *)
(* outlived a server end, the timer resumes queued runs and reaps lost     *)
(* ones, and the agent is time and again found invokable by a start whose  *)
(* queries succeed.                                                        *)
Recovery ==
  /\ \A r \in Runs :
       /\ WF_vars(RunGoesOn(r))
       /\ SF_vars(\E s \in Starts : Reap(r, s))
  /\ SF_vars(\E s \in Starts : ResumeQueuedRuns(s))
  /\ SF_vars(\E s \in Starts : Count(s))
  /\ SF_vars(\E s \in Starts : List(s))
  /\ SF_vars(\E s \in Starts : \E r \in Runs :
       Claim(s, r) \/ \E p \in Promotable : CancelOnClaim(s, r, p) \/ SkipOnClaim(s, r, p))

FairSpec == Spec /\ Scheduling

-----------------------------------------------------------------------------
(* The lock excludes: unless a start has given up waiting, at most one     *)
(* start of the agent is inside startNextQueuedRunForAgent.                *)
OneStartInside ==
  ~overtaken => \A s, t \in Starts : pc[s] \in Inside /\ pc[t] \in Inside => s = t

(* The count a start made stays valid until it has claimed its last run:   *)
(* unless a start has given up waiting, or the reaper has written a run    *)
(* running that was over, no more than maxConcurrentRuns runs of the agent *)
(* are running.                                                            *)
LimitUnlessOvertaken == ~overtaken /\ ~revived => Cardinality(Running) <= Max

(* The limit as the documents and the tests state it, with no mention of   *)
(* the lock's timeout.                                                     *)
ConcurrencyLimit == Cardinality(Running) <= Max

(* No start hangs: although a cancellation made under the lock awaits a    *)
(* start that waits for that same lock, every start returns.               *)
StartsReturn == \A s \in Starts : pc[s] # "idle" ~> pc[s] = "idle"

(* No queued run is forgotten: though a start may fail and leave claimed   *)
(* runs that nobody executes and that hold the agent's slots, and though a *)
(* promoted retry is started by no one, the timer gets every run served, as *)
(* long as the server does not fail for ever (Recovery).                   *)
QueuedServed ==
  Recovery => \A r \in Runs : status[r] = "queued" ~> status[r] # "queued"

(* Even when starts overtake each other, no run is handed to executeRun    *)
(* twice: two starts never both claim a run, and none claims a run that is *)
(* about to execute or executing.                                          *)
ClaimedOnce ==
  /\ \A s, t \in Starts : s # t => claimed[s] \cap claimed[t] = {}
  /\ \A s \in Starts : claimed[s] \cap (launching \cup executing) = {}
  /\ launching \cap executing = {}

(* The gates of claimQueuedRun close a run by an UPDATE that does not ask  *)
(* for its status.  Unless a start has given up waiting, they never reach  *)
(* a run that is executing: a listed run is not running.                   *)
GatesSpareRunning == ~overtaken => \A s \in Starts : todo[s] \cap Running = {}

=============================================================================
