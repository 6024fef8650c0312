------------------------------ MODULE BudgetStop ------------------------------
(***************************************************************************)
(* The monthly budget of ONE agent: cost events, the hard stop with its    *)
(* incident, the board's answers (server/src/services/budgets.ts,          *)
(* costs.ts), a pause and a resumption by hand (agents.ts), and the        *)
(* agent's runs from the queue to their end (heartbeat.ts).                *)
(*                                                                         *)
(* Every step is one statement on the database, with the code around it    *)
(* up to the next await; the steps of all requests and runs interleave.    *)
(* Amounts are counted in units.  The approval of an incident only records *)
(* the answer and is left out.                                             *)
(*                                                                         *)
(* The code has gaps between a read and the write it decides.  Each is an  *)
(* entry of slips, and the properties name the ones they except:           *)
(*   undone     a run's end read the agent before it was paused and then   *)
(*              wrote it idle;                                             *)
(*   stale      an evaluation paused the agent after the limit was raised; *)
(*   overtaken  the amount checked against the spend was passed by it      *)
(*              before it was written;                                     *)
(*   silent     a hard stop found the resolved incident of the same month  *)
(*              and filed none;                                            *)
(*   swept      an answer resolved an incident filed after it, over a      *)
(*              limit that is exceeded;                                    *)
(*   cut        the server ended between two statements of a handler;      *)
(*   unstopped  an evaluation over the limit lost the insert of the soft   *)
(*              incident to another one, and threw before its hard stop;   *)
(*   survived   the server ended over the limit, and the process of a run  *)
(*              that was to be cancelled lived on.                         *)
(* Bound: no request begins after a slip.                                  *)
(***************************************************************************)
EXTENDS Naturals, FiniteSets

CONSTANTS
  Calls,      \* requests in flight together
  Runs,       \* bound: runs the agent ever has
  Incidents,  \* bound: rows of budget_incidents in use together
  MaxSpend,   \* bound on the sum of the month's cost events
  WarnPercent, \* budget_policies.warn_percent, of 1 to 99
  MaxCrashes, \* bound on the ends of the server process
  NoIncident

ASSUME BudgetConstants ==
  /\ MaxSpend \in Nat /\ MaxCrashes \in Nat /\ WarnPercent \in 1..99
  /\ Calls \cap Runs = {} /\ NoIncident \notin Incidents

VARIABLES
  spent,     \* sum of cost_events of the agent in this month
  limit,     \* budget_policies.amount; zero is an inactive policy
  paused,    \* agents.status is "paused"
  reason,    \* agents.pause_reason
  incident,  \* budget_incidents.status, of the month and the hard threshold
  soft,      \* the incident of the month and the soft threshold, if any
  run,       \* heartbeat_runs.status
  task,      \* where a request, or the execution of a run, stands
  crashes,   \* how often the server process ended
  slips      \* history: the gaps above that a behavior went through

vars == <<spent, limit, paused, reason, incident, soft, run, task, crashes, slips>>

Amounts == 0..MaxSpend
Tasks == Calls \cup Runs
Pcs == {"idle",
        "policy", "sum", "warn", "note",                        \* evaluation
        "find", "file", "pause", "list", "cancel",              \* hard stop
        "check", "amount", "unpause", "close", "dismiss",       \* answers
        "claim", "setup", "begun", "adapter", "read", "status", \* a run
        "orphan", "doomed", "detached", "lost"}                 \* after a restart

IncidentStatus == {"none", "open", "resolved", "dismissed"}
SlipNames == {"undone", "stale", "overtaken", "silent", "swept", "cut", "unstopped",
              "survived"}

(* The variables have their types, and an agent that is paused says why:   *)
(* the resumptions ask for the reason (budgets.ts, resumeScopeFromBudget). *)
TypeOK ==
  /\ spent \in Amounts /\ limit \in Amounts
  /\ paused \in BOOLEAN /\ reason \in {"none", "manual", "budget"}
  /\ paused => reason # "none"
  /\ incident \in [Incidents -> IncidentStatus]
  /\ soft \in {"none", "standing", "dismissed"}
  /\ run \in [Runs -> {"none", "queued", "running", "over"}]
  /\ task \in [Tasks -> [pc : Pcs, upserts : BOOLEAN, over : BOOLEAN, amount : Amounts,
                         on : Incidents \cup {NoIncident}, list : SUBSET Runs]]
  /\ crashes \in 0..MaxCrashes /\ slips \subseteq SlipNames

-----------------------------------------------------------------------------
Idle == [pc |-> "idle", upserts |-> FALSE, over |-> FALSE, amount |-> 0,
         on |-> NoIncident, list |-> {}]

Init ==
  /\ spent = 0 /\ limit \in Amounts
  /\ paused = FALSE /\ reason = "none"
  /\ incident = [i \in Incidents |-> "none"] /\ soft = "none"
  /\ run = [r \in Runs |-> "none"]
  /\ task = [t \in Tasks |-> Idle]
  /\ crashes = 0 /\ slips = {}

-----------------------------------------------------------------------------
At(t, pc) == task[t].pc = pc
Goto(t, pc) == [task EXCEPT ![t].pc = pc]
Onward(t, pc) == [task EXCEPT ![t] = [Idle EXCEPT !.pc = pc]]
Free(t) == task[t] = Idle /\ slips = {}

(* The request returns, or throws; the end of a run goes on to the status  *)
(* of its agent, unless it throws after the run has left running.          *)
Returns(t) == IF t \in Runs THEN Goto(t, "read") ELSE [task EXCEPT ![t] = Idle]
Throws(t) == [task EXCEPT ![t] = Idle]

Slipped(name, happened) == slips' = IF happened THEN slips \cup {name} ELSE slips

-----------------------------------------------------------------------------
(* evaluateCostEvent, after the event of a request or of a run's end.      *)

Spends == spent < MaxSpend /\ spent' = spent + 1

Cost(t) ==
  /\ Free(t) /\ Spends
  /\ task' = Onward(t, "policy")
  /\ UNCHANGED <<limit, paused, reason, incident, soft, run, crashes, slips>>

ReadPolicy(t) ==
  /\ At(t, "policy")
  /\ task' = IF limit = 0 THEN Returns(t)
             ELSE [task EXCEPT ![t] = [@ EXCEPT !.pc = "sum", !.amount = limit]]
  /\ UNCHANGED <<spent, limit, paused, reason, incident, soft, run, crashes, slips>>

(* computeObservedAmount: at the hard threshold, at the soft one (percents *)
(* of the amount, rounded up), or under both.  A policy that is written    *)
(* warns only together with its hard stop.                                 *)
Exceeded(amount) == spent >= amount
Warns(amount) == spent >= (amount * WarnPercent + 99) \div 100

Sum(t) ==
  /\ At(t, "sum")
  /\ LET amount == task[t].amount
         over == Exceeded(amount)
     IN task' = IF over \/ (~task[t].upserts /\ Warns(amount))
                THEN [task EXCEPT ![t] = [Idle EXCEPT !.pc = "warn", !.over = over]]
                ELSE IF task[t].upserts THEN Onward(t, "unpause") ELSE Returns(t)
  /\ UNCHANGED <<spent, limit, paused, reason, incident, soft, run, crashes, slips>>

(* createIncidentIfNeeded, once for the soft threshold and once for the    *)
(* hard one: it looks for the incident of the month that is not dismissed, *)
(* an open or a resolved one, and inserts it if there is none.  The unique *)
(* index lets the second of two inserts throw.                             *)
Warned(t) == IF task[t].over THEN Onward(t, "find") ELSE Returns(t)

Warn(t) ==
  /\ At(t, "warn")
  /\ task' = IF soft = "standing" THEN Warned(t) ELSE Goto(t, "note")
  /\ UNCHANGED <<spent, limit, paused, reason, incident, soft, run, crashes, slips>>

Note(t) ==
  /\ At(t, "note")
  /\ IF soft = "standing"
     THEN task' = Throws(t) /\ UNCHANGED soft
     ELSE task' = Warned(t) /\ soft' = "standing"
  /\ Slipped("unstopped", soft = "standing" /\ task[t].over)
  /\ UNCHANGED <<spent, limit, paused, reason, incident, run, crashes>>

Standing(i) == incident[i] \in {"open", "resolved"}
Vacant(i) == ~Standing(i) /\ \A t \in Tasks : task[t].on # i

Find(t) ==
  /\ At(t, "find")
  /\ task' = Goto(t, IF \E i \in Incidents : Standing(i) THEN "pause" ELSE "file")
  /\ Slipped("silent", \E i \in Incidents : incident[i] = "resolved")
  /\ UNCHANGED <<spent, limit, paused, reason, incident, soft, run, crashes>>

File(t) ==
  /\ At(t, "file")
  /\ IF \E i \in Incidents : Standing(i)
     THEN task' = Throws(t) /\ UNCHANGED incident
     ELSE LET i == CHOOSE j \in Incidents : Vacant(j)
          IN /\ \E j \in Incidents : Vacant(j)
             /\ incident' = [incident EXCEPT ![i] = "open"]
             /\ task' = Goto(t, "pause")
  /\ UNCHANGED <<spent, limit, paused, reason, soft, run, crashes, slips>>

Within == limit = 0 \/ spent < limit

(* Mutant: the pause does not say why.                                     *)
Unexplained == reason
Explained == IF paused THEN reason ELSE "budget"

(* pauseScopeForBudget: an agent that is paused already is left alone.     *)
PauseForBudget(t) ==
  /\ At(t, "pause")
  /\ paused' = TRUE
  /\ reason' = Explained
  /\ task' = Goto(t, "list")
  /\ Slipped("stale", ~paused /\ Within)
  /\ UNCHANGED <<spent, limit, incident, soft, run, crashes>>

(* Mutant: queued runs are left to their claim.                            *)
OnlyRunning == {"running"}
Cancellable == {"queued", "running"}

(* cancelActiveForAgentInternal: it lists the runs that are queued or      *)
(* running, writes cancelled on each whatever its status is by then, and   *)
(* kills its process if it has one; the execution then finds the run no    *)
(* longer running and returns.                                             *)
List(t) ==
  /\ At(t, "list")
  /\ task' = [task EXCEPT ![t] = [@ EXCEPT !.pc = "cancel",
                                          !.list = {r \in Runs : run[r] \in Cancellable}]]
  /\ UNCHANGED <<spent, limit, paused, reason, incident, soft, run, crashes, slips>>

Killed(r) == CASE task[r].pc \in {"adapter", "detached"} -> "idle"
               [] At(r, "orphan") -> "doomed"
               [] OTHER -> task[r].pc

CancelRun(t, r) ==
  /\ At(t, "cancel") /\ r \in task[t].list
  /\ run' = [run EXCEPT ![r] = "over"]
  /\ task' = [task EXCEPT ![t].list = @ \ {r}, ![r].pc = Killed(r)]
  /\ UNCHANGED <<spent, limit, paused, reason, incident, soft, crashes, slips>>

Cancelled(t) ==
  /\ At(t, "cancel") /\ task[t].list = {}
  /\ task' = Returns(t)
  /\ UNCHANGED <<spent, limit, paused, reason, incident, soft, run, crashes, slips>>

-----------------------------------------------------------------------------
(* The board.                                                              *)

(* upsertPolicy writes the amount and then looks at what was spent.        *)
Upsert(t) ==
  /\ Free(t)
  /\ \E amount \in Amounts :
       /\ limit' = amount
       /\ task' = IF amount = 0 THEN Onward(t, "unpause")
                  ELSE [task EXCEPT ![t] = [Idle EXCEPT !.pc = "sum", !.upserts = TRUE,
                                                        !.amount = amount]]
  /\ UNCHANGED <<spent, paused, reason, incident, soft, run, crashes, slips>>

(* resolveIncident reads the incident, in whatever status it is.           *)
Answer(t) ==
  /\ Free(t)
  /\ soft # "none" \/ \E i \in Incidents : incident[i] # "none"
  /\ \E amount \in Amounts \ {0} :
       task' = [task EXCEPT ![t] = [Idle EXCEPT !.pc = "check", !.amount = amount]]
  /\ UNCHANGED <<spent, limit, paused, reason, incident, soft, run, crashes, slips>>

Refuse(t) ==
  /\ Free(t)
  /\ \E i \in Incidents :
       /\ incident[i] # "none"
       /\ task' = [task EXCEPT ![t] = [Idle EXCEPT !.pc = "dismiss", !.on = i]]
  /\ UNCHANGED <<spent, limit, paused, reason, incident, soft, run, crashes, slips>>

(* keep_paused, for the soft incident: one update of its row.              *)
DismissSoft(t) ==
  /\ Free(t) /\ soft = "standing"
  /\ soft' = "dismissed"
  /\ UNCHANGED <<spent, limit, paused, reason, incident, run, task, crashes, slips>>

(* raise_budget_and_resume: the new amount must exceed what is spent.      *)
Check(t) ==
  /\ At(t, "check")
  /\ task' = IF task[t].amount > spent THEN Goto(t, "amount") ELSE Throws(t)
  /\ UNCHANGED <<spent, limit, paused, reason, incident, soft, run, crashes, slips>>

RaiseAmount(t) ==
  /\ At(t, "amount")
  /\ limit' = task[t].amount
  /\ task' = Onward(t, "unpause")
  /\ Slipped("overtaken", Exceeded(task[t].amount))
  /\ UNCHANGED <<spent, paused, reason, incident, soft, run, crashes>>

(* Mutants: a resumption that frees whoever is paused, and none at all.    *)
AnyPause == TRUE
NoPause == FALSE
ForBudget == reason = "budget"

(* resumeScopeFromBudget.                                                  *)
Unpause(t) ==
  /\ At(t, "unpause")
  /\ paused' = (paused /\ ~ForBudget)
  /\ reason' = IF ForBudget THEN "none" ELSE reason
  /\ task' = Goto(t, "close")
  /\ UNCHANGED <<spent, limit, incident, soft, run, crashes, slips>>

(* The open incidents are resolved.                                        *)
Close(t) ==
  /\ At(t, "close")
  /\ incident' = [i \in Incidents |->
                    IF incident[i] = "open" THEN "resolved" ELSE incident[i]]
  /\ task' = Returns(t)
  /\ Slipped("swept", ~Within /\ \E i \in Incidents : incident[i] = "open")
  /\ UNCHANGED <<spent, limit, paused, reason, soft, run, crashes>>

(* Mutant: an incident that was answered is resolved, whatever the answer. *)
KeptResolved == "resolved"
Kept == "dismissed"

(* keep_paused: the incident is dismissed, whatever its status is by then. *)
Dismiss(t) ==
  /\ At(t, "dismiss")
  /\ incident' = [incident EXCEPT ![task[t].on] = Kept]
  /\ task' = Returns(t)
  /\ UNCHANGED <<spent, limit, paused, reason, soft, run, crashes, slips>>

(* agents.ts: pause and resume by hand.                                    *)
PauseByHand(t) ==
  /\ Free(t)
  /\ paused' = TRUE /\ reason' = "manual"
  /\ task' = Onward(t, "list")
  /\ UNCHANGED <<spent, limit, incident, soft, run, crashes, slips>>

ResumeByHand(t) ==
  /\ Free(t) /\ reason # "none"
  /\ paused' = FALSE /\ reason' = "none"
  /\ UNCHANGED <<spent, limit, incident, soft, run, task, crashes, slips>>

-----------------------------------------------------------------------------
(* The life of a run.                                                      *)

(* enqueueWakeup adds a run.  It asks for the budget first; the claim asks *)
(* again, and the first answer is left out.                                *)
Enqueue(r) ==
  /\ run[r] = "none"
  /\ run' = [run EXCEPT ![r] = "queued"]
  /\ UNCHANGED <<spent, limit, paused, reason, incident, soft, task, crashes, slips>>

(* claimQueuedRun reads the agent and then getInvocationBlock; the two     *)
(* reads are one step, for what happens between them could happen after.   *)
Over == limit > 0 /\ Exceeded(limit)

Offer(r) ==
  /\ task[r] = Idle /\ run[r] = "queued"
  /\ IF paused \/ Over
     THEN run' = [run EXCEPT ![r] = "over"] /\ task' = Goto(r, "read")
     ELSE task' = Goto(r, "claim") /\ UNCHANGED run
  /\ UNCHANGED <<spent, limit, paused, reason, incident, soft, crashes, slips>>

(* The conditional update of the row, queued to running.                   *)
Claim(r) ==
  /\ At(r, "claim")
  /\ IF run[r] = "queued"
     THEN run' = [run EXCEPT ![r] = "running"] /\ task' = Goto(r, "setup")
     ELSE task' = Throws(r) /\ UNCHANGED run
  /\ UNCHANGED <<spent, limit, paused, reason, incident, soft, crashes, slips>>

(* executeRun: the agent becomes running unless it is paused.  The status  *)
(* of the run is not looked at again.                                      *)
Start(r) ==
  /\ At(r, "setup")
  /\ IF paused
     THEN run' = [run EXCEPT ![r] = "over"] /\ task' = Throws(r)
     ELSE task' = Goto(r, "begun") /\ UNCHANGED run
  /\ UNCHANGED <<spent, limit, paused, reason, incident, soft, crashes, slips>>

Spawn(r) ==
  /\ At(r, "begun")
  /\ task' = Goto(r, "adapter")
  /\ UNCHANGED <<spent, limit, paused, reason, incident, soft, run, crashes, slips>>

(* The process ends: setRunStatusIfRunning, then the cost event of the     *)
(* run, if it has usage.                                                   *)
Finish(r) ==
  /\ At(r, "adapter")
  /\ IF run[r] # "running"
     THEN task' = Throws(r) /\ UNCHANGED <<run, spent>>
     ELSE /\ run' = [run EXCEPT ![r] = "over"]
          /\ \/ Spends /\ task' = Goto(r, "policy")
             \/ task' = Goto(r, "read") /\ UNCHANGED spent
  /\ UNCHANGED <<limit, paused, reason, incident, soft, crashes, slips>>

(* finalizeAgentStatus reads the agent and writes idle, running or error   *)
(* unless it read a pause.                                                 *)
ReadAgent(r) ==
  /\ At(r, "read")
  /\ task' = IF paused THEN Throws(r) ELSE Goto(r, "status")
  /\ UNCHANGED <<spent, limit, paused, reason, incident, soft, run, crashes, slips>>

WriteStatus(r) ==
  /\ At(r, "status")
  /\ paused' = FALSE
  /\ task' = Throws(r)
  /\ Slipped("undone", paused)
  /\ UNCHANGED <<spent, limit, reason, incident, soft, run, crashes>>

(* A spend or a change of the policy that has not had its effects yet.     *)
Midway == {"policy", "sum", "warn", "note", "find", "file", "pause", "unpause", "close"}

(* The server process ends: handlers are cut short, and of the processes   *)
(* of running runs some live on.                                           *)
Spawned(r) == run[r] = "running" /\ task[r].pc \in {"adapter", "orphan", "detached"}
Left(r, alive) ==
  IF run[r] # "running" THEN "idle"
  ELSE IF r \notin alive THEN "lost"
  ELSE IF At(r, "detached") THEN "detached" ELSE "orphan"

Crash ==
  /\ crashes < MaxCrashes
  /\ crashes' = crashes + 1
  /\ \E alive \in SUBSET {r \in Runs : Spawned(r)} :
       /\ task' = [t \in Tasks |-> [Idle EXCEPT !.pc =
                                      IF t \in Runs THEN Left(t, alive) ELSE "idle"]]
       /\ slips' = slips
            \cup {name \in {"cut"} : \E t \in Tasks : task[t].pc \in Midway}
            \cup {name \in {"survived"} : ~Within /\ alive # {}}
  /\ UNCHANGED <<spent, limit, paused, reason, incident, soft, run>>

(* reapOrphanedRuns, which lists the running runs at the start and then by *)
(* a timer.  A process that is alive at its turn keeps its run running,    *)
(* detached: the status is written whatever it is by then, so that a run   *)
(* cancelled since the list was read, whose process is being killed, is    *)
(* running again until a later pass.                                       *)
Detach(r) ==
  /\ At(r, "orphan") \/ At(r, "doomed")
  /\ run' = [run EXCEPT ![r] = "running"]
  /\ task' = Goto(r, IF At(r, "orphan") THEN "detached" ELSE "lost")
  /\ UNCHANGED <<spent, limit, paused, reason, incident, soft, crashes, slips>>

(* The process ends, with nobody to see it.                                *)
Leave(r) ==
  /\ At(r, "orphan") \/ At(r, "detached")
  /\ task' = Goto(r, "lost")
  /\ UNCHANGED <<spent, limit, paused, reason, incident, soft, run, crashes, slips>>

(* No process is found: the run has failed, again whatever its status is,  *)
(* and the agent's status is next.                                         *)
Reap(r) ==
  /\ At(r, "lost") \/ At(r, "doomed")
  /\ run' = [run EXCEPT ![r] = "over"]
  /\ task' = Goto(r, "read")
  /\ UNCHANGED <<spent, limit, paused, reason, incident, soft, crashes, slips>>

-----------------------------------------------------------------------------
Enforces(t) == ReadPolicy(t) \/ Sum(t) \/ Warn(t) \/ Note(t) \/ Find(t) \/ File(t) \/ PauseForBudget(t) \/ List(t)
                 \/ (\E r \in Runs : CancelRun(t, r)) \/ Cancelled(t)
Answers(t) == Check(t) \/ RaiseAmount(t) \/ Unpause(t) \/ Close(t) \/ Dismiss(t)
Begins(t) == Cost(t) \/ Upsert(t) \/ Answer(t) \/ Refuse(t) \/ PauseByHand(t)
               \/ ResumeByHand(t) \/ DismissSoft(t)
Works(r) == Claim(r) \/ Start(r) \/ Spawn(r) \/ ReadAgent(r) \/ WriteStatus(r)
Recovers(r) == Detach(r) \/ Leave(r) \/ Reap(r)

Next ==
  \/ \E t \in Calls : Begins(t) \/ Answers(t)
  \/ \E t \in Tasks : Enforces(t)
  \/ \E r \in Runs : Enqueue(r) \/ Offer(r) \/ Works(r) \/ Finish(r) \/ Recovers(r)
  \/ Crash

Spec == Init /\ [][Next]_vars

-----------------------------------------------------------------------------
(* Nothing is in flight but runs that execute, here or detached.           *)
AtRest == \A t \in Tasks : task[t].pc \in {"idle", "begun", "adapter", "detached"}

(* evaluateCostEvent and claimQueuedRun together: when the spend is at or  *)
(* over the limit and no request or run is in between two statements, no   *)
(* run of the agent is running -- whatever was claimed, queued, resumed,   *)
(* undone, cut or written running again meanwhile.  Three gaps are         *)
(* excepted: a raise whose amount was passed between its check and its     *)
(* write (resolveIncident), an evaluation that the soft incident of        *)
(* another made throw before its hard stop, and, for a detached run only,  *)
(* a server that ended over the limit while the run's process lived on.    *)
HardStopHolds ==
  AtRest /\ ~Within /\ slips \cap {"overtaken", "unstopped"} = {} =>
    \A r \in Runs : run[r] = "running" => At(r, "detached") /\ "survived" \in slips

(* upsertPolicy and resolveIncident: an agent is not left paused for its   *)
(* budget while its spend is within the limit, unless an evaluation that   *)
(* had read the old limit paused it again or the server ended in between.  *)
FreedOnceWithin ==
  AtRest /\ slips \cap {"stale", "cut"} = {} /\ paused /\ reason = "budget" => ~Within

(* createIncidentIfNeeded before pauseScopeForBudget: an agent paused for  *)
(* its budget has an incident the board can answer or has answered with    *)
(* keep_paused, so that it is not paused without anyone being asked.       *)
PausedIsAsked ==
  AtRest /\ slips = {} /\ paused /\ reason = "budget" =>
    \E i \in Incidents : incident[i] \in {"open", "dismissed"}

(* A pause by hand ends only by a resumption by hand: no answer to a       *)
(* budget incident, no new limit, no hard stop and no end of a run frees   *)
(* the agent or relabels its pause, but for the write of                   *)
(* finalizeAgentStatus after a stale read.                                 *)
ByHand == paused /\ reason = "manual"
ManualPauseHeld ==
  [][ByHand /\ ~ByHand' => "undone" \in slips' \/ \E t \in Calls : ResumeByHand(t)]_vars
=============================================================================
