------------------------- MODULE BudgetStop_proofs -------------------------
(* Theorems of BudgetStop, for any sets of requests, runs and incidents.   *)
EXTENDS BudgetStop, TLAPS

(***************************************************************************)
(* A pause by hand ends by hand.  Of the writers of agents.status and      *)
(* pause_reason, the hard stop leaves an agent that is paused alone, the   *)
(* resumption asks for the reason "budget", and the stale write at a run's *)
(* end says so.  No invariant is needed.                                   *)
(***************************************************************************)
LEMMA HandStep ==
  ASSUME Next, ByHand, ~ByHand'
  PROVE  "undone" \in slips' \/ \E t \in Calls : ResumeByHand(t)
<1>1. ASSUME NEW t \in Calls, Begins(t) PROVE ResumeByHand(t)
  BY <1>1 DEF Begins, ByHand, Cost, Upsert, Answer, Refuse, PauseByHand, DismissSoft
<1>2. ASSUME NEW t \in Calls, Answers(t) PROVE FALSE
  BY <1>2 DEF Answers, ByHand, Check, RaiseAmount, Unpause, ForBudget, Close, Dismiss
<1>3. ASSUME NEW t \in Tasks, Enforces(t) PROVE FALSE
  BY <1>3 DEF Enforces, ByHand, ReadPolicy, Sum, Warn, Note, Find, File, PauseForBudget,
              Explained, List, CancelRun, Cancelled
<1>4. ASSUME NEW r \in Runs,
             Enqueue(r) \/ Offer(r) \/ Works(r) \/ Finish(r) \/ Recovers(r)
      PROVE "undone" \in slips'
  BY <1>4 DEF Works, ByHand, Enqueue, Offer, Claim, Start, Spawn, Finish, ReadAgent,
              WriteStatus, Slipped, Recovers, Detach, Leave, Reap
<1>5. ASSUME Crash PROVE FALSE
  BY <1>5 DEF Crash, ByHand
<1> QED BY <1>1, <1>2, <1>3, <1>4, <1>5 DEF Next

(* No answer to an incident, new limit, hard stop or end of a run frees or *)
(* relabels an agent that was paused by hand, but for the stale write of   *)
(* finalizeAgentStatus.                                                    *)
THEOREM ManualPauseKept == Spec => ManualPauseHeld
<1>1. ASSUME [Next]_vars
      PROVE  [ByHand /\ ~ByHand' =>
                "undone" \in slips' \/ \E t \in Calls : ResumeByHand(t)]_vars
  BY <1>1, HandStep DEF vars
<1> QED BY <1>1, PTL DEF Spec, ManualPauseHeld

-----------------------------------------------------------------------------
(* Types                                                                   *)

TaskRow == [pc : Pcs, upserts : BOOLEAN, over : BOOLEAN, amount : Amounts,
            on : Incidents \cup {NoIncident}, list : SUBSET Runs]
TaskTable == [Tasks -> TaskRow]

LEMMA IdleTyped == Idle \in TaskRow
BY BudgetConstants DEF Idle, TaskRow, Pcs, Amounts

LEMMA RowTyped ==
  ASSUME NEW row \in TaskRow, NEW pc \in Pcs
  PROVE  [row EXCEPT !.pc = pc] \in TaskRow
BY DEF TaskRow

LEMMA GotoTyped ==
  ASSUME task \in TaskTable, NEW t \in Tasks, NEW pc \in Pcs
  PROVE  /\ Goto(t, pc) \in TaskTable
         /\ Onward(t, pc) \in TaskTable
         /\ Throws(t) \in TaskTable
         /\ Returns(t) \in TaskTable
<1>1. [task[t] EXCEPT !.pc = pc] \in TaskRow /\ [Idle EXCEPT !.pc = pc] \in TaskRow
      /\ [task[t] EXCEPT !.pc = "read"] \in TaskRow
  <2>1. task[t] \in TaskRow /\ "read" \in Pcs
    BY DEF TaskTable, Pcs
  <2> QED BY <2>1, IdleTyped, RowTyped
<1> QED BY <1>1, IdleTyped DEF Goto, Onward, Throws, Returns, TaskTable

LEMMA SumTyped ==
  ASSUME task \in TaskTable, limit \in Amounts, NEW t \in Tasks
  PROVE  [task EXCEPT ![t] = [@ EXCEPT !.pc = "sum", !.amount = limit]] \in TaskTable
<1>1. [task[t] EXCEPT !.pc = "sum", !.amount = limit] \in TaskRow
  BY DEF TaskTable, TaskRow, Pcs
<1> QED BY <1>1 DEF TaskTable

LEMMA WarnTyped ==
  ASSUME task \in TaskTable, NEW t \in Tasks, NEW over \in BOOLEAN
  PROVE  /\ [task EXCEPT ![t] = [Idle EXCEPT !.pc = "warn", !.over = over]] \in TaskTable
         /\ Warned(t) \in TaskTable
<1>1. [Idle EXCEPT !.pc = "warn", !.over = over] \in TaskRow
  BY IdleTyped DEF TaskRow, Pcs
<1>2. Onward(t, "find") \in TaskTable /\ Returns(t) \in TaskTable
  BY GotoTyped DEF Pcs
<1> QED BY <1>1, <1>2 DEF TaskTable, Warned

LEMMA ListedTyped ==
  ASSUME task \in TaskTable, NEW t \in Tasks, NEW L \in SUBSET Runs
  PROVE  [task EXCEPT ![t] = [@ EXCEPT !.pc = "cancel", !.list = L]] \in TaskTable
<1>1. [task[t] EXCEPT !.pc = "cancel", !.list = L] \in TaskRow
  BY DEF TaskTable, TaskRow, Pcs
<1> QED BY <1>1 DEF TaskTable

LEMMA UpsertTyped ==
  ASSUME task \in TaskTable, NEW a \in Amounts, NEW t \in Tasks
  PROVE  [task EXCEPT ![t] = [Idle EXCEPT !.pc = "sum", !.upserts = TRUE, !.amount = a]] \in TaskTable
<1>1. [Idle EXCEPT !.pc = "sum", !.upserts = TRUE, !.amount = a] \in TaskRow
  BY IdleTyped DEF TaskRow, Pcs
<1> QED BY <1>1 DEF TaskTable

LEMMA CancelTyped ==
  ASSUME task \in TaskTable, NEW t \in Tasks, NEW r \in Runs
  PROVE  [task EXCEPT ![t].list = @ \ {r}, ![r].pc = Killed(r)] \in TaskTable
<1>1. Killed(r) \in Pcs /\ r \in Tasks /\ task[t].list \ {r} \in SUBSET Runs
  BY DEF Killed, Pcs, Tasks, TaskTable, TaskRow
<1> QED BY <1>1 DEF TaskTable, TaskRow

(* A request that asks for an amount, and one about an incident.           *)
LEMMA AskTyped ==
  ASSUME task \in TaskTable, NEW t \in Tasks, NEW a \in Amounts
  PROVE  [task EXCEPT ![t] = [Idle EXCEPT !.pc = "check", !.amount = a]] \in TaskTable
<1>1. [Idle EXCEPT !.pc = "check", !.amount = a] \in TaskRow
  BY IdleTyped DEF TaskRow, Pcs
<1> QED BY <1>1 DEF TaskTable

LEMMA RefuseTyped ==
  ASSUME task \in TaskTable, NEW t \in Tasks, NEW i \in Incidents
  PROVE  [task EXCEPT ![t] = [Idle EXCEPT !.pc = "dismiss", !.on = i]] \in TaskTable
<1>1. [Idle EXCEPT !.pc = "dismiss", !.on = i] \in TaskRow
  BY IdleTyped DEF TaskRow, Pcs
<1> QED BY <1>1 DEF TaskTable

LEMMA InitType == Init => TypeOK
<1> SUFFICES ASSUME Init PROVE TypeOK
  OBVIOUS
<1>1. task \in TaskTable
  BY IdleTyped DEF Init, TaskTable
<1>2. spent \in Amounts /\ limit \in Amounts /\ crashes \in 0..MaxCrashes
  BY BudgetConstants DEF Init, Amounts
<1>3. /\ incident \in [Incidents -> IncidentStatus]
      /\ run \in [Runs -> {"none", "queued", "running", "over"}]
  BY DEF Init, IncidentStatus
<1>4. slips \subseteq SlipNames /\ paused \in BOOLEAN
      /\ soft \in {"none", "standing", "dismissed"}
      /\ reason \in {"none", "manual", "budget"} /\ (paused => reason # "none")
  BY DEF Init
<1> QED BY <1>1, <1>2, <1>3, <1>4 DEF TypeOK, TaskTable, TaskRow

LEMMA SlipTyped ==
  ASSUME slips \subseteq SlipNames, NEW name \in SlipNames, NEW happened,
         Slipped(name, happened)
  PROVE  slips' \subseteq SlipNames
BY DEF Slipped

LEMMA EnforceType ==
  ASSUME TypeOK, NEW t \in Tasks, Enforces(t)
  PROVE  TypeOK'
<1>t. task \in TaskTable
  BY DEF TypeOK, TaskTable, TaskRow
<1> USE <1>t DEF TypeOK
<1>1. CASE ReadPolicy(t)
  <2>1. task' \in TaskTable
    BY <1>1, SumTyped, GotoTyped DEF ReadPolicy, Pcs
  <2> QED BY <1>1, <2>1 DEF TaskTable, TaskRow, ReadPolicy
<1>8. CASE Sum(t)
  <2>0. Exceeded(task[t].amount) \in BOOLEAN
    BY DEF Exceeded
  <2>1. task' \in TaskTable
    <3>1. \/ task' = [task EXCEPT ![t] = [Idle EXCEPT !.pc = "warn",
                                                    !.over = Exceeded(task[t].amount)]]
          \/ task' = Onward(t, "unpause")
          \/ task' = Returns(t)
      BY <1>8 DEF Sum
    <3> HIDE DEF TypeOK
    <3> QED BY <2>0, <3>1, WarnTyped, GotoTyped DEF Pcs
  <2> QED BY <1>8, <2>1 DEF TaskTable, TaskRow, Sum
<1>9. CASE Warn(t)
  <2>1. task' \in TaskTable
    BY <1>9, WarnTyped, GotoTyped DEF Warn, Pcs
  <2> QED BY <1>9, <2>1 DEF TaskTable, TaskRow, Warn
<1>10. CASE Note(t)
  <2>1. task' \in TaskTable
    BY <1>10, WarnTyped, GotoTyped DEF Note, Pcs
  <2>2. slips' \subseteq SlipNames
    BY <1>10, SlipTyped DEF Note, SlipNames
  <2>3. soft' \in {"none", "standing", "dismissed"}
    BY <1>10 DEF Note
  <2> QED BY <1>10, <2>1, <2>2, <2>3 DEF TaskTable, TaskRow, Note
<1>2. CASE Find(t)
  <2>1. task' \in TaskTable
    BY <1>2, GotoTyped DEF Find, Pcs
  <2>2. slips' \subseteq SlipNames
    BY <1>2, SlipTyped DEF Find, SlipNames
  <2> QED BY <1>2, <2>1, <2>2 DEF TaskTable, TaskRow, Find
<1>3. CASE File(t)
  <2>1. task' \in TaskTable
    BY <1>3, GotoTyped DEF File, Pcs
  <2>2. incident' \in [Incidents -> IncidentStatus]
    BY <1>3 DEF File, IncidentStatus
  <2> QED BY <1>3, <2>1, <2>2 DEF TaskTable, TaskRow, File
<1>4. CASE PauseForBudget(t)
  <2>1. task' \in TaskTable
    BY <1>4, GotoTyped DEF PauseForBudget, Pcs
  <2>2. slips' \subseteq SlipNames
    BY <1>4, SlipTyped DEF PauseForBudget, SlipNames
  <2> QED BY <1>4, <2>1, <2>2 DEF TaskTable, TaskRow, PauseForBudget, Explained
<1>5. CASE List(t)
  <2>1. task' \in TaskTable
    BY <1>5, ListedTyped DEF List
  <2> QED BY <1>5, <2>1 DEF TaskTable, TaskRow, List
<1>6. ASSUME NEW r \in Runs, CancelRun(t, r) PROVE TypeOK'
  <2>1. task' \in TaskTable
    BY <1>6, CancelTyped DEF CancelRun
  <2> QED BY <1>6, <2>1 DEF TaskTable, TaskRow, CancelRun
<1>7. CASE Cancelled(t)
  <2>1. task' \in TaskTable
    BY <1>7, GotoTyped DEF Cancelled, Pcs
  <2> QED BY <1>7, <2>1 DEF TaskTable, TaskRow, Cancelled
<1> QED BY <1>1, <1>2, <1>3, <1>4, <1>5, <1>6, <1>7, <1>8, <1>9, <1>10 DEF Enforces

LEMMA AnswerType ==
  ASSUME TypeOK, NEW t \in Calls, Answers(t)
  PROVE  TypeOK'
<1>t. task \in TaskTable
  BY DEF TypeOK, TaskTable, TaskRow
<1> USE <1>t DEF TypeOK
<1>1. t \in Tasks /\ task[t].amount \in Amounts /\ task[t] \in TaskRow
  BY DEF Tasks, TaskTable, TaskRow
<1>2. CASE Check(t)
  <2>1. task' \in TaskTable
    BY <1>1, <1>2, GotoTyped DEF Check, Pcs
  <2> QED BY <1>2, <2>1 DEF TaskTable, TaskRow, Check
<1>3. CASE RaiseAmount(t)
  <2>1. task' \in TaskTable
    BY <1>1, <1>3, GotoTyped DEF RaiseAmount, Pcs
  <2>2. slips' \subseteq SlipNames
    BY <1>3, SlipTyped DEF RaiseAmount, SlipNames
  <2> QED BY <1>1, <1>3, <2>1, <2>2 DEF TaskTable, TaskRow, RaiseAmount
<1>4. CASE Unpause(t)
  <2>1. task' \in TaskTable
    BY <1>1, <1>4, GotoTyped DEF Unpause, Pcs
  <2>2. paused' \in BOOLEAN /\ reason' \in {"none", "manual", "budget"}
        /\ (paused' => reason' # "none")
    BY <1>4 DEF Unpause, ForBudget
  <2> QED BY <1>4, <2>1, <2>2 DEF TaskTable, TaskRow, Unpause
<1>5. CASE Close(t)
  <2>1. task' \in TaskTable
    BY <1>1, <1>5, GotoTyped DEF Close, Pcs
  <2>2. slips' \subseteq SlipNames
    BY <1>5, SlipTyped DEF Close, SlipNames
  <2>3. incident' \in [Incidents -> IncidentStatus]
    BY <1>5 DEF Close, IncidentStatus
  <2> QED BY <1>5, <2>1, <2>2, <2>3 DEF TaskTable, TaskRow, Close
<1>6. CASE Dismiss(t)
  <2>1. task' \in TaskTable
    BY <1>1, <1>6, GotoTyped DEF Dismiss, Pcs
  <2>2. incident' \in [Incidents -> IncidentStatus]
    BY <1>6 DEF Dismiss, Kept, IncidentStatus
  <2> QED BY <1>6, <2>1, <2>2 DEF TaskTable, TaskRow, Dismiss
<1> QED BY <1>2, <1>3, <1>4, <1>5, <1>6 DEF Answers

LEMMA SpendTyped ==
  ASSUME spent \in Amounts, Spends
  PROVE  spent' \in Amounts
BY BudgetConstants DEF Spends, Amounts

LEMMA BeginType ==
  ASSUME TypeOK, NEW t \in Calls, Begins(t)
  PROVE  TypeOK'
<1>t. task \in TaskTable
  BY DEF TypeOK, TaskTable, TaskRow
<1> USE <1>t DEF TypeOK
<1>1. t \in Tasks
  BY DEF Tasks
<1>2. CASE Cost(t)
  <2>1. task' \in TaskTable /\ spent' \in Amounts
    BY <1>1, <1>2, GotoTyped, SpendTyped DEF Cost, Pcs
  <2> QED BY <1>2, <2>1 DEF TaskTable, TaskRow, Cost
<1>3. CASE Upsert(t)
  <2>1. PICK a \in Amounts :
          /\ limit' = a
          /\ task' = IF a = 0 THEN Onward(t, "unpause")
                     ELSE [task EXCEPT ![t] = [Idle EXCEPT !.pc = "sum", !.upserts = TRUE,
                                                           !.amount = a]]
    BY <1>3 DEF Upsert
  <2>2. task' \in TaskTable
    BY <1>1, <2>1, GotoTyped, UpsertTyped DEF Pcs
  <2> QED BY <1>3, <2>1, <2>2 DEF TaskTable, TaskRow, Upsert
<1>4. CASE Answer(t)
  <2>1. task' \in TaskTable
    <3>1. PICK a \in Amounts :
            task' = [task EXCEPT ![t] = [Idle EXCEPT !.pc = "check", !.amount = a]]
      BY <1>4 DEF Answer
    <3> QED BY <1>1, <3>1, AskTyped
  <2> QED BY <1>4, <2>1 DEF TaskTable, TaskRow, Answer
<1>5. CASE Refuse(t)
  <2>1. task' \in TaskTable
    <3>1. PICK i \in Incidents :
            task' = [task EXCEPT ![t] = [Idle EXCEPT !.pc = "dismiss", !.on = i]]
      BY <1>5 DEF Refuse
    <3> QED BY <1>1, <3>1, RefuseTyped
  <2> QED BY <1>5, <2>1 DEF TaskTable, TaskRow, Refuse
<1>6. CASE PauseByHand(t)
  <2>1. task' \in TaskTable
    BY <1>1, <1>6, GotoTyped DEF PauseByHand, Pcs
  <2> QED BY <1>6, <2>1 DEF TaskTable, TaskRow, PauseByHand
<1>7. CASE ResumeByHand(t)
  BY <1>7 DEF ResumeByHand, TaskTable, TaskRow
<1>8. CASE DismissSoft(t)
  BY <1>8 DEF DismissSoft, TaskTable, TaskRow
<1> QED BY <1>2, <1>3, <1>4, <1>5, <1>6, <1>7, <1>8 DEF Begins

LEMMA RunType ==
  ASSUME TypeOK, NEW r \in Runs, Enqueue(r) \/ Offer(r) \/ Works(r) \/ Finish(r)
  PROVE  TypeOK'
<1>t. task \in TaskTable
  BY DEF TypeOK, TaskTable, TaskRow
<1> USE <1>t DEF TypeOK
<1>1. r \in Tasks
  BY DEF Tasks
<1>2. CASE Enqueue(r)
  BY <1>2 DEF Enqueue, TaskTable, TaskRow
<1>3. CASE Offer(r) \/ Claim(r) \/ Start(r) \/ Spawn(r)
  <2>1. task' \in TaskTable
    BY <1>1, <1>3, GotoTyped DEF Offer, Claim, Start, Spawn, Pcs
  <2>2. run' \in [Runs -> {"none", "queued", "running", "over"}]
    BY <1>3 DEF Offer, Claim, Start, Spawn
  <2> QED BY <1>3, <2>1, <2>2 DEF TaskTable, TaskRow, Offer, Claim, Start, Spawn
<1>4. CASE Finish(r)
  <2>1. task' \in TaskTable
    BY <1>1, <1>4, GotoTyped DEF Finish, Pcs
  <2>2. run' \in [Runs -> {"none", "queued", "running", "over"}]
    BY <1>4 DEF Finish
  <2>3. spent' \in Amounts
    BY <1>4, SpendTyped DEF Finish
  <2> QED BY <1>4, <2>1, <2>2, <2>3 DEF TaskTable, TaskRow, Finish
<1>5. CASE ReadAgent(r)
  <2>1. task' \in TaskTable
    BY <1>1, <1>5, GotoTyped DEF ReadAgent, Pcs
  <2> QED BY <1>5, <2>1 DEF TaskTable, TaskRow, ReadAgent
<1>6. CASE WriteStatus(r)
  <2>1. task' \in TaskTable
    BY <1>1, <1>6, GotoTyped DEF WriteStatus, Pcs
  <2>2. slips' \subseteq SlipNames
    BY <1>6, SlipTyped DEF WriteStatus, SlipNames
  <2> QED BY <1>6, <2>1, <2>2 DEF TaskTable, TaskRow, WriteStatus
<1> QED BY <1>2, <1>3, <1>4, <1>5, <1>6 DEF Works

LEMMA RecoverType ==
  ASSUME TypeOK, NEW r \in Runs, Recovers(r)
  PROVE  TypeOK'
<1>t. task \in TaskTable
  BY DEF TypeOK, TaskTable, TaskRow
<1> USE <1>t DEF TypeOK
<1>1. r \in Tasks
  BY DEF Tasks
<1>2. task' \in TaskTable
  BY <1>1, GotoTyped DEF Recovers, Detach, Leave, Reap, Pcs
<1>3. run' \in [Runs -> {"none", "queued", "running", "over"}]
  BY DEF Recovers, Detach, Leave, Reap
<1> QED BY <1>2, <1>3 DEF Recovers, Detach, Leave, Reap, TaskTable, TaskRow

LEMMA CrashType ==
  ASSUME TypeOK, Crash
  PROVE  TypeOK'
<1>t. task \in TaskTable
  BY DEF TypeOK, TaskTable, TaskRow
<1> USE <1>t DEF TypeOK
<1>0. PICK alive \in SUBSET {r \in Runs : Spawned(r)} :
        /\ task' = [t \in Tasks |-> [Idle EXCEPT !.pc =
                                       IF t \in Runs THEN Left(t, alive) ELSE "idle"]]
        /\ slips' = slips
             \cup {name \in {"cut"} : \E t \in Tasks : task[t].pc \in Midway}
             \cup {name \in {"survived"} : ~Within /\ alive # {}}
  BY DEF Crash
<1>1. \A r \in Runs : Left(r, alive) \in Pcs
  BY DEF Left, Pcs
<1>2. task' \in TaskTable
  <2>1. "idle" \in Pcs
    BY DEF Pcs
  <2>2. \A pc \in Pcs : [Idle EXCEPT !.pc = pc] \in TaskRow
    BY IdleTyped, RowTyped
  <2> QED BY <1>0, <1>1, <2>1, <2>2 DEF TaskTable
<1>3. slips' \subseteq SlipNames
  BY <1>0 DEF SlipNames
<1>4. crashes' \in 0..MaxCrashes
  BY BudgetConstants DEF Crash
<1> QED BY <1>2, <1>3, <1>4 DEF Crash, TaskTable, TaskRow

(* Every variable keeps its type, and an agent that is paused says why.    *)
THEOREM TypeCorrect == Spec => []TypeOK
<1>1. ASSUME TypeOK, [Next]_vars PROVE TypeOK'
  <2>1. CASE UNCHANGED vars
    BY <1>1, <2>1 DEF TypeOK, vars
  <2> QED BY <1>1, <2>1, EnforceType, AnswerType, BeginType, RunType, RecoverType, CrashType
       DEF Next
<1> QED BY InitType, <1>1, PTL DEF Spec

-----------------------------------------------------------------------------
(* Each safety property at rest says that somebody was still to act.  The  *)
(* invariant names that somebody, for every moment.                        *)

(* A run that has not been queued is not being claimed, and the amount an  *)
(* evaluation has read is not that of an inactive policy.                  *)
NewUnclaimed == \A r \in Runs : run[r] = "none" => ~At(r, "claim")
SumPositive == \A u \in Tasks : At(u, "sum") => task[u].amount # 0

(* A run whose process outlived the server is running until it is killed   *)
(* or found dead.                                                          *)
OrphansRun == \A r \in Runs : At(r, "orphan") => run[r] = "running"

(* Task u is on its way to a hard stop.                                    *)
Unfiled == \A i \in Incidents : ~Standing(i)
Evaluates(u) ==
  \/ task[u].pc \in {"policy", "find"}
  \/ At(u, "sum") /\ Exceeded(task[u].amount)
  \/ task[u].pc \in {"warn", "note"} /\ task[u].over
  \/ At(u, "file") /\ Unfiled

(* Over the limit, whatever runs, or has passed the gate and waits for its *)
(* conditional update, is going to be listed or is listed; but for a row   *)
(* without a process, which a pass of the reaper ends, and a run that      *)
(* survived the hard stop with its process.                                *)
AtRisk(r) == run[r] = "running" \/ (run[r] = "queued" /\ At(r, "claim"))
Spared(r) == At(r, "lost") \/ ("survived" \in slips /\ task[r].pc \in {"orphan", "detached"})
Loose(r) == AtRisk(r) /\ ~Spared(r)
Stops(u, r) ==
  \/ Evaluates(u)
  \/ task[u].pc \in {"pause", "list"}
  \/ At(u, "cancel") /\ r \in task[u].list
StopsCome ==
  ~Within /\ slips \cap {"overtaken", "unstopped"} = {} =>
    \A r \in Runs : Loose(r) => \E u \in Tasks : Stops(u, r)

(* Within the limit, an agent paused for its budget is going to be freed   *)
(* by the request that wrote the limit.                                    *)
Budgeted == paused /\ reason = "budget"
Frees(u) ==
  \/ At(u, "unpause")
  \/ At(u, "sum") /\ task[u].upserts /\ task[u].amount = limit
FreesCome ==
  Budgeted /\ Within /\ slips \cap {"stale", "cut"} = {} => \E u \in Tasks : Frees(u)

(* Over the limit, an agent paused for its budget, or about to be, has an  *)
(* incident, or an evaluation is going to find that it has none.           *)
Asked == \E i \in Incidents : incident[i] \in {"open", "dismissed"}
AsksCome ==
  slips = {} /\ (Budgeted \/ \E u \in Tasks : At(u, "pause")) =>
    Asked \/ Within \/ \E u \in Tasks : Evaluates(u)

Inv == /\ TypeOK /\ NewUnclaimed /\ SumPositive /\ OrphansRun
       /\ StopsCome /\ FreesCome /\ AsksCome

(* What a statement of task t leaves of the tasks.                         *)
Others(t) == \A u \in Tasks \ {t} : task'[u] = task[u]

LEMMA Going ==
  ASSUME TypeOK, NEW t \in Tasks, NEW pc
  PROVE  /\ task' = Goto(t, pc) =>
              Others(t) /\ task'[t].pc = pc /\ task'[t].list = task[t].list
         /\ task' = Onward(t, pc) => Others(t) /\ task'[t].pc = pc
         /\ task' = Throws(t) => Others(t) /\ task'[t].pc = "idle"
         /\ task' = Returns(t) => Others(t) /\ task'[t].pc \in {"idle", "read"}
<1>1. task \in TaskTable /\ task[t] \in TaskRow
  BY DEF TypeOK, TaskTable, TaskRow
<1>2. [task[t] EXCEPT !.pc = pc].pc = pc /\ [task[t] EXCEPT !.pc = pc].list = task[t].list
      /\ [task[t] EXCEPT !.pc = "read"].pc = "read"
  BY <1>1 DEF TaskRow
<1>3. [Idle EXCEPT !.pc = pc].pc = pc /\ Idle.pc = "idle"
  BY DEF Idle
<1>4. task' = Goto(t, pc) => Others(t) /\ task'[t].pc = pc /\ task'[t].list = task[t].list
  BY <1>1, <1>2 DEF Goto, Others, TaskTable
<1>5. task' = Onward(t, pc) => Others(t) /\ task'[t].pc = pc
  BY <1>1, <1>3 DEF Onward, Others, TaskTable
<1>6. task' = Throws(t) => Others(t) /\ task'[t].pc = "idle"
  BY <1>1, <1>3 DEF Throws, Others, TaskTable
<1>7. task' = Returns(t) => Others(t) /\ task'[t].pc \in {"idle", "read"}
  BY <1>1, <1>2, <1>3 DEF Returns, Goto, Others, TaskTable
<1> QED BY <1>4, <1>5, <1>6, <1>7

LEMMA Numbers ==
  ASSUME TypeOK
  PROVE  /\ spent \in Nat /\ limit \in Nat
         /\ \A u \in Tasks : task[u].amount \in Nat /\ task[u].list \subseteq Runs
BY BudgetConstants DEF TypeOK, Amounts

(* A task that was left alone is still on its way.                         *)
LEMMA StillOn ==
  ASSUME TypeOK, NEW u \in Tasks, task'[u] = task[u], spent' \in Nat, spent' >= spent,
         Unfiled => Unfiled'
  PROVE  /\ Evaluates(u) => Evaluates(u)'
         /\ \A q \in Runs : Stops(u, q) => Stops(u, q)'
         /\ limit' = limit => (Frees(u) => Frees(u)')
<1>1. spent \in Nat /\ task[u].amount \in Nat
  BY Numbers
<1>2. Evaluates(u) => Evaluates(u)'
  BY <1>1 DEF Evaluates, At, Exceeded
<1>3. \A q \in Runs : Stops(u, q) => Stops(u, q)'
  BY <1>2 DEF Stops, At
<1> QED BY <1>2, <1>3 DEF Frees, At

(* A task that is neither an orphan nor detached nor lost, and does not    *)
(* become so, leaves the others what they were.                            *)
Escapes == {"orphan", "doomed", "detached", "lost"}
Stays(t) == /\ Others(t) /\ task[t].pc \notin Escapes /\ task'[t].pc \notin Escapes
            /\ \A q \in Runs \ {t} : run'[q] = run[q]

LEMMA StillSpared ==
  ASSUME Inv, NEW t \in Tasks, Stays(t), slips \subseteq slips'
  PROVE  /\ \A q \in Runs : (AtRisk(q)' => AtRisk(q)) => (Loose(q)' => Loose(q))
         /\ OrphansRun'
<1>1. \A q \in Runs : Spared(q) => Spared(q)'
  BY DEF Stays, Others, Spared, At, Tasks, Escapes
<1>2. OrphansRun'
  BY DEF Stays, Others, Inv, OrphansRun, At, Tasks, Escapes
<1> QED BY <1>1, <1>2 DEF Loose

(* Where a task that is not watched goes, nothing depends on it.           *)
Watched == {"policy", "sum", "warn", "note", "find", "file", "pause", "list", "cancel", "unpause"}

LEMMA QuietStep ==
  ASSUME Inv, TypeOK', NEW t \in Tasks, Stays(t),
         UNCHANGED <<spent, limit, incident>>, slips \subseteq slips',
         task[t].pc \notin Watched, task'[t].pc \notin {"sum", "pause"},
         \A q \in Runs : run'[q] = "none" => run[q] = "none",
         task'[t].pc = "claim" => run'[t] # "none",
         \A q \in Runs : AtRisk(q)' => AtRisk(q) \/ Within,
         Budgeted' => Budgeted
  PROVE  Inv'
<1>1. /\ spent \in Nat /\ spent >= spent /\ (Unfiled => Unfiled') /\ Within' = Within
      /\ Asked' = Asked /\ Others(t)
  BY Numbers DEF Inv, Unfiled, Standing, Within, Asked, Stays
<1>2. \A u \in Tasks \ {t} : /\ Evaluates(u) => Evaluates(u)'
                             /\ \A q \in Runs : Stops(u, q) => Stops(u, q)'
                             /\ Frees(u) => Frees(u)'
  BY <1>1, StillOn DEF Inv, Others
<1>3. ~Evaluates(t) /\ ~Frees(t) /\ \A q \in Runs : ~Stops(t, q)
  BY DEF Watched, Evaluates, Frees, Stops, At
<1>4. NewUnclaimed' /\ SumPositive'
  BY <1>1 DEF Inv, NewUnclaimed, SumPositive, Others, At, Tasks
<1>5. StopsCome'
  BY <1>1, <1>2, <1>3, StillSpared DEF Inv, StopsCome
<1>6. FreesCome'
  BY <1>1, <1>2, <1>3 DEF Inv, FreesCome
<1>7. (\E u \in Tasks : At(u, "pause"))' => \E u \in Tasks : At(u, "pause")
  BY <1>1 DEF At, Others
<1>8. AsksCome'
  BY <1>1, <1>2, <1>3, <1>7 DEF Inv, AsksCome
<1> QED BY <1>4, <1>5, <1>6, <1>8, StillSpared DEF Inv

(* A spend is followed by its evaluation.                                  *)
LEMMA SpendStep ==
  ASSUME Inv, TypeOK', NEW t \in Tasks, Stays(t), Spends,
         UNCHANGED <<limit, incident, paused, reason, slips>>,
         task[t].pc \notin Watched, task'[t].pc = "policy",
         \A q \in Runs : run'[q] = "none" => run[q] = "none"
  PROVE  Inv'
<1>1. /\ spent \in Nat /\ limit \in Nat /\ spent' \in Nat /\ spent' >= spent
      /\ (Unfiled => Unfiled') /\ (Within' => Within) /\ Asked' = Asked /\ Budgeted' = Budgeted
      /\ Others(t)
  BY Numbers DEF Inv, Unfiled, Standing, Within, Asked, Spends, Budgeted, Stays
<1>2. \A u \in Tasks \ {t} : Frees(u) => Frees(u)'
  BY <1>1, StillOn DEF Inv, Others
<1>3. ~Frees(t)
  BY DEF Watched, Frees, At
<1>4. NewUnclaimed' /\ SumPositive' /\ OrphansRun'
  BY <1>1, StillSpared DEF Inv, NewUnclaimed, SumPositive, Others, At, Tasks
<1>5. Evaluates(t)'
  BY DEF Evaluates
<1>6. StopsCome'
  BY <1>5 DEF StopsCome, Stops
<1>7. FreesCome'
  BY <1>1, <1>2, <1>3 DEF Inv, FreesCome
<1>8. AsksCome'
  BY <1>5 DEF AsksCome
<1> QED BY <1>4, <1>6, <1>7, <1>8 DEF Inv

(* What run r does.                                                        *)
LEMMA RunKeeps ==
  ASSUME Inv, NEW r \in Runs, Enqueue(r) \/ Offer(r) \/ Works(r) \/ Finish(r)
  PROVE  Inv'
<1>1. TypeOK /\ TypeOK' /\ r \in Tasks
  BY RunType DEF Inv, Tasks
<1>2. CASE Enqueue(r)
  <2>1. Others(r) /\ task'[r].pc = task[r].pc /\ \A q \in Runs \ {r} : run'[q] = run[q]
    BY <1>2 DEF Enqueue, Others, Inv, TypeOK
  <2>2. run[r] = "none" /\ run'[r] = "queued" /\ task' = task
    BY <1>1, <1>2 DEF Enqueue, TypeOK
  <2>3. \A q \in Runs : AtRisk(q)' => AtRisk(q)
    BY <2>1, <2>2 DEF Inv, NewUnclaimed, AtRisk, At
  <2>4. NewUnclaimed' /\ OrphansRun'
    BY <2>1, <2>2 DEF Inv, NewUnclaimed, OrphansRun, At
  <2>5. UNCHANGED <<spent, limit, paused, reason, incident, slips>>
    BY <1>2 DEF Enqueue
  <2>6. StopsCome' /\ SumPositive' /\ FreesCome' /\ AsksCome'
    BY <2>2, <2>3, <2>5 DEF Inv, StopsCome, SumPositive, FreesCome, AsksCome, Stops, Frees,
       Loose, Spared, Evaluates, Unfiled, Standing, Asked, Within, Budgeted, At, Exceeded
  <2> QED BY <1>1, <2>4, <2>6 DEF Inv
<1>3. CASE Offer(r)
  <2>1. /\ Others(r) /\ task[r].pc \notin Watched /\ task'[r].pc \in {"read", "claim"}
        /\ run'[r] \in {run[r], "over"} /\ Stays(r)
        /\ run[r] = "queued" /\ (task'[r].pc = "claim" => run' = run /\ ~Over)
        /\ UNCHANGED <<spent, limit, paused, reason, incident, slips>>
    <3>1. task[r].pc = "idle"
      BY <1>3 DEF Offer, Idle
    <3>2. Others(r) /\ task'[r].pc \in {"read", "claim"}
          /\ (task'[r].pc = "claim" => run' = run /\ ~Over)
      BY <1>1, <1>3, Going DEF Offer
    <3>3. /\ run[r] = "queued" /\ run'[r] \in {run[r], "over"}
          /\ \A q \in Runs \ {r} : run'[q] = run[q]
      BY <1>1, <1>3 DEF Offer, TypeOK
    <3> QED BY <1>3, <3>1, <3>2, <3>3 DEF Offer, Watched, Stays, Escapes
  <2>2. task'[r].pc = "claim" => Within
    BY <1>1, <2>1, Numbers DEF Over, Within, Exceeded
  <2>3. \A q \in Runs : AtRisk(q)' => AtRisk(q) \/ Within
    BY <2>1, <2>2 DEF AtRisk, At, Stays, Others, Tasks
  <2> QED BY <1>1, <2>1, <2>3, QuietStep DEF Budgeted, Stays
<1>4. CASE Claim(r)
  <2>1. /\ Others(r) /\ task[r].pc = "claim" /\ task'[r].pc \in {"setup", "idle"}
        /\ \A q \in Runs \ {r} : run'[q] = run[q]
        /\ run'[r] = run[r] \/ (run[r] = "queued" /\ run'[r] = "running")
        /\ UNCHANGED <<spent, limit, paused, reason, incident, slips>>
    <3>1. Others(r) /\ task'[r].pc \in {"setup", "idle"}
      BY <1>1, <1>4, Going DEF Claim
    <3>2. /\ \A q \in Runs \ {r} : run'[q] = run[q]
          /\ run'[r] = run[r] \/ (run[r] = "queued" /\ run'[r] = "running")
      BY <1>1, <1>4 DEF Claim, TypeOK
    <3> QED BY <1>4, <3>1, <3>2 DEF Claim, At
  <2>2. \A q \in Runs : AtRisk(q)' => AtRisk(q)
    BY <2>1 DEF AtRisk, At, Others, Tasks
  <2> QED BY <1>1, <2>1, <2>2, QuietStep DEF Budgeted, Watched, Stays, Escapes
<1>5. CASE Start(r) \/ Spawn(r) \/ ReadAgent(r) \/ WriteStatus(r)
  <2>1. /\ Others(r) /\ task[r].pc \in {"setup", "begun", "read", "status"}
        /\ task'[r].pc \in {"idle", "begun", "adapter", "status"}
        /\ \A q \in Runs \ {r} : run'[q] = run[q]
        /\ run'[r] \in {run[r], "over"}
        /\ UNCHANGED <<spent, limit, reason, incident>> /\ slips \subseteq slips'
        /\ (paused' => paused)
    <3>1. /\ Others(r) /\ task[r].pc \in {"setup", "begun", "read", "status"}
          /\ task'[r].pc \in {"idle", "begun", "adapter", "status"}
      BY <1>1, <1>5, Going DEF Start, Spawn, ReadAgent, WriteStatus, At
    <3>2. run'[r] \in {run[r], "over"} /\ \A q \in Runs \ {r} : run'[q] = run[q]
      BY <1>1, <1>5 DEF Start, Spawn, ReadAgent, WriteStatus, TypeOK
    <3>3. slips \subseteq slips' /\ (paused' => paused)
      BY <1>1, <1>5 DEF Start, Spawn, ReadAgent, WriteStatus, Slipped
    <3>4. UNCHANGED <<spent, limit, reason, incident>>
      BY <1>5 DEF Start, Spawn, ReadAgent, WriteStatus
    <3> QED BY <3>1, <3>2, <3>3, <3>4
  <2>2. \A q \in Runs : AtRisk(q)' => AtRisk(q)
    BY <2>1 DEF AtRisk, At, Others, Tasks
  <2> QED BY <1>1, <2>1, <2>2, QuietStep DEF Budgeted, Watched, Stays, Escapes
<1>6. CASE Finish(r)
  <2>1. /\ Others(r) /\ task[r].pc = "adapter"
        /\ \A q \in Runs \ {r} : run'[q] = run[q]
        /\ run'[r] \in {run[r], "over"}
        /\ UNCHANGED <<limit, paused, reason, incident, slips>>
    <3>1. Others(r)
      BY <1>1, <1>6, Going DEF Finish
    <3>2. run'[r] \in {run[r], "over"} /\ \A q \in Runs \ {r} : run'[q] = run[q]
      BY <1>1, <1>6 DEF Finish, TypeOK
    <3> QED BY <1>6, <3>1, <3>2 DEF Finish, At
  <2>2. \/ task'[r].pc \in {"idle", "read"} /\ spent' = spent
        \/ task'[r].pc = "policy" /\ Spends
    BY <1>1, <1>6, Going DEF Finish
  <2>3. CASE task'[r].pc = "policy" /\ Spends
    BY <1>1, <2>1, <2>3, SpendStep DEF Watched, Stays, Escapes
  <2>4. CASE task'[r].pc \in {"idle", "read"} /\ spent' = spent
    <3>1. \A q \in Runs : AtRisk(q)' => AtRisk(q)
      BY <2>1, <2>4 DEF AtRisk, At, Others, Tasks
    <3> QED BY <1>1, <2>1, <2>4, <3>1, QuietStep DEF Budgeted, Watched, Stays, Escapes
  <2> QED BY <2>2, <2>3, <2>4
<1> QED BY <1>2, <1>3, <1>4, <1>5, <1>6 DEF Works

(* A change of the limit ...                                               *)
LEMMA LimitStep ==
  ASSUME Inv, TypeOK', NEW t \in Tasks, Stays(t),
         UNCHANGED <<spent, incident, paused, reason, run>>, slips \subseteq slips',
         task[t].pc \notin Watched,
         task'[t].pc \in {"sum", "unpause"},
         task'[t].pc = "sum" => task'[t].upserts /\ task'[t].amount = limit' /\ limit' # 0,
         task'[t].pc = "unpause" => Within' \/ "overtaken" \in slips'
  PROVE  Inv'
<1>1. /\ spent \in Nat /\ spent >= spent /\ (Unfiled => Unfiled') /\ limit' \in Nat
      /\ spent' = spent /\ Others(t)
  BY Numbers DEF Inv, Unfiled, Standing, TypeOK, Amounts, Stays
<1>2. NewUnclaimed' /\ SumPositive' /\ OrphansRun'
  BY <1>1, StillSpared DEF Inv, NewUnclaimed, SumPositive, Others, At, Tasks, Watched
<1>3. Within' \/ "overtaken" \in slips' \/ Evaluates(t)'
  BY <1>1 DEF Within, Evaluates, At, Exceeded
<1>4. Frees(t)'
  BY DEF Frees, At
<1>5. StopsCome'
  BY <1>3 DEF StopsCome, Stops
<1>6. AsksCome'
  BY <1>3 DEF AsksCome
<1> QED BY <1>2, <1>4, <1>5, <1>6 DEF Inv, FreesCome

(* The requests of the board and of a run.                                 *)
LEMMA BeginKeeps ==
  ASSUME Inv, NEW t \in Calls, Begins(t)
  PROVE  Inv'
<1>1. TypeOK /\ TypeOK' /\ t \in Tasks /\ task[t] \in TaskRow
  BY BeginType DEF Inv, Tasks, TypeOK, TaskRow
<1>2. CASE Cost(t)
  <2>1. Others(t) /\ task[t].pc \notin Watched /\ task'[t].pc = "policy" /\ run' = run
    <3>1. Others(t) /\ task'[t].pc = "policy"
      BY <1>1, <1>2, Going DEF Cost
    <3>2. task[t].pc = "idle" /\ run' = run
      BY <1>2 DEF Cost, Free, Idle
    <3> QED BY <3>1, <3>2 DEF Watched
  <2>2. Stays(t)
    BY <1>2, <2>1 DEF Stays, Escapes, Cost, Free, Idle
  <2> QED BY <1>1, <1>2, <2>1, <2>2, SpendStep DEF Cost
<1>3. CASE Upsert(t)
  <2>1. PICK a \in Amounts :
          /\ limit' = a
          /\ task' = IF a = 0 THEN Onward(t, "unpause")
                     ELSE [task EXCEPT ![t] = [Idle EXCEPT !.pc = "sum", !.upserts = TRUE,
                                                           !.amount = a]]
    BY <1>3 DEF Upsert
  <2>2. /\ Others(t) /\ task[t].pc = "idle" /\ task'[t].pc \in {"sum", "unpause"}
        /\ (task'[t].pc = "unpause" => a = 0)
        /\ (task'[t].pc = "sum" => task'[t].upserts /\ task'[t].amount = a /\ a # 0)
    <3>1. task[t].pc = "idle"
      BY <1>3 DEF Upsert, Free, Idle
    <3>2. CASE a = 0
      BY <1>1, <2>1, <3>1, <3>2, Going
    <3>3. CASE a # 0
      <4> DEFINE row == [Idle EXCEPT !.pc = "sum", !.upserts = TRUE, !.amount = a]
      <4>1. row.pc = "sum" /\ row.upserts = TRUE /\ row.amount = a
        BY DEF Idle
      <4>2. task' = [task EXCEPT ![t] = row]
        BY <2>1, <3>3
      <4> HIDE DEF row
      <4>3. Others(t) /\ task'[t] = row
        BY <1>1, <4>2 DEF Others, TypeOK
      <4> QED BY <3>1, <3>3, <4>1, <4>3
    <3> QED BY <3>2, <3>3
  <2>3. Stays(t) /\ task[t].pc \notin Watched
    BY <1>3, <2>2 DEF Stays, Escapes, Watched, Upsert
  <2> QED BY <1>1, <1>3, <2>1, <2>2, <2>3, LimitStep DEF Upsert, Within
<1>4. CASE Answer(t) \/ Refuse(t) \/ PauseByHand(t) \/ ResumeByHand(t) \/ DismissSoft(t)
  <2>1. /\ Others(t) /\ task[t].pc = "idle" /\ task'[t].pc \in {"idle", "check", "dismiss", "list"}
        /\ UNCHANGED <<spent, limit, incident, run, slips>>
        /\ (Budgeted' => Budgeted)
    <3>1. task[t].pc = "idle"
      <4>1. Free(t)
        BY <1>4, Zenon DEF Answer, Refuse, PauseByHand, ResumeByHand, DismissSoft
      <4> QED BY <4>1 DEF Free, Idle
    <3>2. Others(t) /\ task'[t].pc \in {"idle", "check", "dismiss", "list"}
      <4>1. CASE Answer(t)
        <5>1. PICK a : task' = [task EXCEPT ![t] = [Idle EXCEPT !.pc = "check", !.amount = a]]
          BY <4>1 DEF Answer
        <5> QED BY <1>1, <5>1 DEF Others, TypeOK, Idle
      <4>2. CASE Refuse(t)
        <5>1. PICK i : task' = [task EXCEPT ![t] = [Idle EXCEPT !.pc = "dismiss", !.on = i]]
          BY <4>2 DEF Refuse
        <5> QED BY <1>1, <5>1 DEF Others, TypeOK, Idle
      <4>3. CASE PauseByHand(t)
        BY <1>1, <4>3, Going DEF PauseByHand
      <4>4. CASE ResumeByHand(t)
        BY <3>1, <4>4 DEF ResumeByHand, Others
      <4>5. CASE DismissSoft(t)
        BY <3>1, <4>5 DEF DismissSoft, Others
      <4> QED BY <1>4, <4>1, <4>2, <4>3, <4>4, <4>5
    <3>3. Budgeted' => Budgeted
      BY <1>4 DEF Answer, Refuse, PauseByHand, ResumeByHand, DismissSoft, Budgeted
    <3>4. UNCHANGED <<spent, limit, incident, run, slips>>
      BY <1>4 DEF Answer, Refuse, PauseByHand, ResumeByHand, DismissSoft
    <3> QED BY <3>1, <3>2, <3>3, <3>4
  <2>2. \A q \in Runs : AtRisk(q)' => AtRisk(q)
    BY <2>1 DEF AtRisk, At, Others, Tasks
  <2>3. Stays(t)
    BY <2>1 DEF Stays, Escapes
  <2> QED BY <1>1, <2>1, <2>2, <2>3, QuietStep DEF Watched
<1> QED BY <1>2, <1>3, <1>4 DEF Begins

(* A step of a task that stays where it is watched, or leaves it: the      *)
(* others are as they were.                                                *)
LEMMA Unmoved ==
  ASSUME Inv, NEW t \in Tasks, Others(t), UNCHANGED <<spent, incident>>
  PROVE  \A u \in Tasks \ {t} : /\ Evaluates(u) => Evaluates(u)'
                                /\ \A q \in Runs : Stops(u, q) => Stops(u, q)'
                                /\ limit' = limit => (Frees(u) => Frees(u)')
<1>1. spent' \in Nat /\ spent' >= spent /\ (Unfiled => Unfiled')
  BY Numbers DEF Inv, Unfiled, Standing
<1> QED BY <1>1, StillOn DEF Inv, Others

(* A step of an enforcement: a task that stops a run still does.           *)
LEMMA EnforceStep ==
  ASSUME Inv, TypeOK', NEW t \in Tasks, Others(t),
         task[t].pc \notin Escapes, task'[t].pc \notin Escapes,
         UNCHANGED <<spent, limit, incident, paused, reason, run>>, slips \subseteq slips',
         task[t].pc # "unpause", task'[t].pc \notin {"claim"},
         task'[t].pc = "sum" => task'[t].amount # 0,
         ~Within => (Evaluates(t) => Evaluates(t)') \/ slips' # {} \/ Asked,
         ~Within => \/ \A q \in Runs : AtRisk(q) => (Stops(t, q) => Stops(t, q)')
                    \/ "unstopped" \in slips',
         Within => (Frees(t) => Frees(t)'),
         task'[t].pc = "pause" => At(t, "pause") \/ slips' # {} \/ Asked
  PROVE  Inv'
<1>1. Within' = Within /\ Asked' = Asked /\ Budgeted' = Budgeted
  BY DEF Within, Asked, Budgeted
<1>2. \A u \in Tasks \ {t} : /\ Evaluates(u) => Evaluates(u)'
                             /\ \A q \in Runs : Stops(u, q) => Stops(u, q)'
                             /\ Frees(u) => Frees(u)'
  BY Unmoved
<1>3. Stays(t)
  BY DEF Stays
<1>4. NewUnclaimed' /\ SumPositive' /\ OrphansRun'
  BY <1>3, StillSpared DEF Inv, NewUnclaimed, SumPositive, Others, At, Tasks
<1>5. StopsCome'
  <2>1. \A q \in Runs : AtRisk(q)' => AtRisk(q)
    BY DEF AtRisk, At, Others, Tasks
  <2>2. \A q \in Runs : Loose(q)' => Loose(q) /\ AtRisk(q)
    BY <1>3, <2>1, StillSpared DEF Loose
  <2> QED BY <1>1, <1>2, <2>2 DEF Inv, StopsCome
<1>6. FreesCome'
  BY <1>1, <1>2 DEF Inv, FreesCome
<1>7. (\E u \in Tasks : At(u, "pause"))' =>
         (\E u \in Tasks : At(u, "pause")) \/ slips' # {} \/ Asked
  BY DEF At, Others
<1>8. AsksCome'
  <2> SUFFICES ASSUME slips' = {}, Budgeted \/ \E u \in Tasks : At(u, "pause"), ~Asked, ~Within
               PROVE  \E u \in Tasks : Evaluates(u)'
    BY <1>1, <1>7 DEF AsksCome
  <2>1. PICK u \in Tasks : Evaluates(u)
    BY DEF Inv, AsksCome
  <2>2. CASE u = t
    BY <2>1, <2>2
  <2>3. CASE u # t
    BY <1>2, <2>1, <2>3
  <2> QED BY <2>2, <2>3
<1> QED BY <1>4, <1>5, <1>6, <1>8 DEF Inv

LEMMA EvaluationKeeps ==
  ASSUME Inv, NEW t \in Tasks, ReadPolicy(t) \/ Sum(t) \/ Warn(t) \/ Note(t) \/ Find(t)
  PROVE  Inv'
<1>1. /\ TypeOK /\ TypeOK' /\ task \in TaskTable /\ task[t] \in TaskRow
      /\ spent \in Nat /\ limit \in Nat /\ task[t].amount \in Nat
  BY EnforceType, Numbers DEF Inv, Enforces, TypeOK, TaskTable, TaskRow
<1>2. CASE ReadPolicy(t)
  <2>0. task[t].pc = "policy" /\ UNCHANGED <<spent, limit, incident, paused, reason, run, slips>>
    BY <1>2 DEF ReadPolicy, At
  <2>1. CASE limit = 0
    <3>1. Within
      BY <2>1 DEF Within
    <3>2. Others(t) /\ task'[t].pc \in {"idle", "read"}
      BY <1>1, <1>2, <2>1, Going DEF ReadPolicy
    <3>3. ~Frees(t)
      BY <2>0 DEF Frees, At
    <3> QED BY <1>1, <2>0, <3>1, <3>2, <3>3, EnforceStep DEF Escapes
  <2>2. CASE limit # 0
    <3> DEFINE row == [task[t] EXCEPT !.pc = "sum", !.amount = limit]
    <3>1. row.pc = "sum" /\ row.amount = limit
      BY <1>1 DEF TaskRow
    <3>2. task' = [task EXCEPT ![t] = row]
      BY <1>1, <1>2, <2>2 DEF ReadPolicy
    <3> HIDE DEF row
    <3>3. Others(t) /\ task'[t] = row
      BY <1>1, <3>2 DEF Others, TaskTable
    <3>4. ~Within => Evaluates(t)'
      BY <1>1, <2>0, <3>1, <3>3 DEF Within, Evaluates, At, Exceeded
    <3>5. ~Within => \A q \in Runs : Stops(t, q)'
      BY <3>4 DEF Stops
    <3>6. ~Frees(t)
      BY <2>0 DEF Frees, At
    <3> QED BY <1>1, <2>0, <2>2, <3>1, <3>3, <3>4, <3>5, <3>6, EnforceStep DEF Escapes
  <2> QED BY <2>1, <2>2
<1>3. CASE Sum(t)
  <2>0. task[t].pc = "sum" /\ UNCHANGED <<spent, limit, incident, paused, reason, run, slips>>
    BY <1>3 DEF Sum, At
  <2>a. task[t].amount # 0
    BY <2>0 DEF Inv, SumPositive, At
  <2> DEFINE over == Exceeded(task[t].amount)
             row == [Idle EXCEPT !.pc = "warn", !.over = over]
  <2>b. over \in BOOLEAN /\ row.pc = "warn" /\ row.over = over
    BY DEF Idle, Exceeded
  <2>c. task' = IF over \/ (~task[t].upserts /\ Warns(task[t].amount))
                THEN [task EXCEPT ![t] = row]
                ELSE IF task[t].upserts THEN Onward(t, "unpause") ELSE Returns(t)
    BY <1>3 DEF Sum
  <2>d. over <=> Exceeded(task[t].amount)
    OBVIOUS
  <2> HIDE DEF row, over
  <2>1. CASE over
    <3>1. Others(t) /\ task'[t].pc = "warn" /\ task'[t].over = over
      BY <1>1, <2>1, <2>b, <2>c DEF Others, TaskTable
    <3>2. Evaluates(t)' /\ \A q \in Runs : Stops(t, q)'
      BY <2>1, <3>1 DEF Evaluates, Stops
    <3>3. Within => ~Frees(t)
      BY <1>1, <2>0, <2>1, <2>a, <2>d DEF Within, Exceeded, Frees, At
    <3> QED BY <1>1, <2>0, <3>1, <3>2, <3>3, EnforceStep DEF Escapes
  <2>2. CASE ~over
    <3>1. Others(t) /\ task'[t].pc \in {"warn", "unpause", "idle", "read"}
          /\ (task[t].upserts => task'[t].pc = "unpause")
      <4>1. CASE ~task[t].upserts /\ Warns(task[t].amount)
        BY <1>1, <2>2, <2>b, <2>c, <4>1 DEF Others, TaskTable
      <4>2. CASE ~(~task[t].upserts /\ Warns(task[t].amount))
        BY <1>1, <2>2, <2>c, <4>2, Going
      <4> QED BY <4>1, <4>2
    <3>2. ~Evaluates(t) /\ \A q \in Runs : ~Stops(t, q)
      BY <2>0, <2>2, <2>d DEF Evaluates, Stops, At
    <3>3. Frees(t) => Frees(t)'
      BY <2>0, <3>1 DEF Frees, At
    <3> QED BY <1>1, <2>0, <3>1, <3>2, <3>3, EnforceStep DEF Escapes
  <2> QED BY <2>1, <2>2
<1>5. CASE Warn(t) \/ Note(t)
  <2>0. /\ task[t].pc \in {"warn", "note"} /\ slips \subseteq slips'
        /\ UNCHANGED <<spent, limit, incident, paused, reason, run>>
    BY <1>5 DEF Warn, Note, At, Slipped
  <2>1. ~Frees(t)
    BY <2>0 DEF Frees, At
  <2>2. ~task[t].over => ~Evaluates(t) /\ \A q \in Runs : ~Stops(t, q)
    BY <2>0 DEF Evaluates, Stops, At
  <2>3. CASE task' = Warned(t)
    <3>1. Others(t) /\ task'[t].pc \in {"find", "idle", "read"}
          /\ (task[t].over => task'[t].pc = "find")
      BY <1>1, <2>3, Going DEF Warned
    <3>2. task[t].over => Evaluates(t)' /\ \A q \in Runs : Stops(t, q)'
      BY <3>1 DEF Evaluates, Stops
    <3> QED BY <1>1, <2>0, <2>1, <2>2, <3>1, <3>2, EnforceStep DEF Escapes
  <2>4. CASE task' = Goto(t, "note")
    <3>1. Others(t) /\ task'[t].pc = "note" /\ task'[t].over = task[t].over
      <4>1. [task[t] EXCEPT !.pc = "note"].over = task[t].over
        BY <1>1 DEF TaskRow
      <4>2. Others(t) /\ task'[t].pc = "note"
        BY <1>1, <2>4, Going
      <4> QED BY <1>1, <2>4, <4>1, <4>2 DEF Goto, TaskTable
    <3>2. task[t].over => Evaluates(t)' /\ \A q \in Runs : Stops(t, q)'
      BY <3>1 DEF Evaluates, Stops
    <3> QED BY <1>1, <2>0, <2>1, <2>2, <3>1, <3>2, EnforceStep DEF Escapes
  <2>5. CASE Note(t) /\ soft = "standing"
    <3>1. Others(t) /\ task'[t].pc = "idle"
      BY <1>1, <2>5, Going DEF Note
    <3>2. task[t].over => "unstopped" \in slips'
      BY <2>5 DEF Note, Slipped
    <3> QED BY <1>1, <2>0, <2>1, <2>2, <3>1, <3>2, EnforceStep DEF Escapes
  <2> QED BY <1>5, <2>3, <2>4, <2>5 DEF Warn, Note
<1>4. CASE Find(t)
  <2>0. task[t].pc = "find" /\ UNCHANGED <<spent, limit, incident, paused, reason, run>>
        /\ slips \subseteq slips'
    BY <1>4 DEF Find, At, Slipped
  <2>f. ~Frees(t)
    BY <2>0 DEF Frees, At
  <2>1. CASE Unfiled
    <3>1. Others(t) /\ task'[t].pc = "file"
      BY <1>1, <1>4, <2>1, Going DEF Find, Unfiled
    <3>2. Unfiled'
      BY <2>0, <2>1 DEF Unfiled, Standing
    <3>3. Evaluates(t)' /\ \A q \in Runs : Stops(t, q)'
      BY <3>1, <3>2 DEF Evaluates, Stops, At
    <3> QED BY <1>1, <2>0, <2>f, <3>1, <3>3, EnforceStep DEF Escapes
  <2>2. CASE ~Unfiled
    <3>1. Others(t) /\ task'[t].pc = "pause"
      BY <1>1, <1>4, <2>2, Going DEF Find, Unfiled
    <3>2. \A q \in Runs : Stops(t, q)'
      BY <3>1 DEF Stops
    <3>3. slips' # {} \/ Asked
      BY <1>4, <2>2 DEF Find, Slipped, Unfiled, Standing, Asked
    <3> QED BY <1>1, <2>0, <2>f, <3>1, <3>2, <3>3, EnforceStep DEF Escapes
  <2> QED BY <2>1, <2>2
<1> QED BY <1>2, <1>3, <1>4, <1>5

LEMMA FileKeeps ==
  ASSUME Inv, NEW t \in Tasks, File(t)
  PROVE  Inv'
<1>1. /\ TypeOK /\ TypeOK' /\ task[t].pc = "file" /\ spent \in Nat
      /\ UNCHANGED <<spent, limit, paused, reason, run, slips>>
  BY EnforceType, Numbers DEF Inv, Enforces, File, At
<1>2. CASE ~Unfiled
  <2>1. Others(t) /\ task'[t].pc = "idle" /\ incident' = incident
    BY <1>1, <1>2, Going DEF File, Unfiled
  <2>2. ~Evaluates(t) /\ ~Frees(t) /\ \A q \in Runs : ~Stops(t, q)
    BY <1>1, <1>2 DEF Evaluates, Stops, Frees, At
  <2> QED BY <1>1, <2>1, <2>2, EnforceStep DEF Escapes
<1>3. CASE Unfiled
  <2> DEFINE i == CHOOSE j \in Incidents : Vacant(j)
  <2>1. \E j \in Incidents : Vacant(j)
    BY <1>3 DEF File, Unfiled
  <2>2. i \in Incidents
    BY <2>1
  <2>3. incident' = [incident EXCEPT ![i] = "open"] /\ task' = Goto(t, "pause")
    BY <1>3 DEF File, Unfiled
  <2> HIDE DEF i
  <2>4. Others(t) /\ task'[t].pc = "pause"
    BY <1>1, <2>3, Going
  <2>5. Asked'
    BY <1>1, <2>2, <2>3 DEF Asked, TypeOK
  <2>6. NewUnclaimed' /\ SumPositive' /\ OrphansRun'
    BY <1>1, <2>4 DEF Inv, NewUnclaimed, SumPositive, OrphansRun, Others, At, Tasks
  <2>7. StopsCome'
    BY <2>4 DEF StopsCome, Stops
  <2>8. FreesCome'
    <3>1. \A u \in Tasks : Frees(u) => Frees(u)'
      BY <1>1, <2>4 DEF Frees, At, Others
    <3> QED BY <1>1, <3>1 DEF Inv, FreesCome, Budgeted, Within
  <2> QED BY <1>1, <2>5, <2>6, <2>7, <2>8 DEF Inv, AsksCome
<1> QED BY <1>2, <1>3

LEMMA PauseKeeps ==
  ASSUME Inv, NEW t \in Tasks, PauseForBudget(t)
  PROVE  Inv'
<1>1. /\ TypeOK /\ TypeOK' /\ task[t].pc = "pause"
      /\ UNCHANGED <<spent, limit, run, incident>>
  BY EnforceType DEF Inv, Enforces, PauseForBudget, At
<1>2. Others(t) /\ task'[t].pc = "list"
  BY <1>1, Going DEF PauseForBudget
<1>3. slips \subseteq slips' /\ (~paused /\ Within => "stale" \in slips')
  BY DEF PauseForBudget, Slipped
<1>4. paused' = TRUE /\ reason' = IF paused THEN reason ELSE "budget"
  BY DEF PauseForBudget, Explained
<1>5. \A u \in Tasks \ {t} : Evaluates(u) => Evaluates(u)'
  BY <1>1, <1>2, Unmoved
<1>6. ~Evaluates(t) /\ ~Frees(t)
  BY <1>1 DEF Evaluates, Frees, At
<1>7. NewUnclaimed' /\ SumPositive' /\ OrphansRun'
  BY <1>1, <1>2 DEF Inv, NewUnclaimed, SumPositive, OrphansRun, Others, At, Tasks
<1>8. StopsCome'
  BY <1>2 DEF StopsCome, Stops
<1>9. FreesCome'
  <2>1. \A u \in Tasks \ {t} : Frees(u) => Frees(u)'
    BY <1>1, <1>2, Unmoved
  <2>2. CASE paused
    BY <1>1, <1>3, <1>4, <1>6, <2>1, <2>2 DEF Inv, FreesCome, Budgeted, Within
  <2>3. CASE ~paused
    BY <1>1, <1>3, <2>3 DEF FreesCome, Within
  <2> QED BY <2>2, <2>3
<1>10. AsksCome'
  <2>1. \E u \in Tasks : At(u, "pause")
    BY <1>1 DEF At
  <2>2. Asked' = Asked /\ Within' = Within
    BY <1>1 DEF Asked, Within
  <2> QED BY <1>3, <1>5, <1>6, <2>1, <2>2 DEF Inv, AsksCome
<1> QED BY <1>1, <1>7, <1>8, <1>9, <1>10 DEF Inv

LEMMA CancelKeeps ==
  ASSUME Inv, NEW t \in Tasks,
         List(t) \/ Cancelled(t) \/ \E r \in Runs : CancelRun(t, r)
  PROVE  Inv'
<1>1. TypeOK /\ TypeOK' /\ task \in TaskTable /\ task[t] \in TaskRow
  BY EnforceType DEF Inv, Enforces, TypeOK, TaskTable, TaskRow
<1>2. CASE List(t)
  <2> DEFINE L == {r \in Runs : run[r] \in Cancellable}
             row == [task[t] EXCEPT !.pc = "cancel", !.list = L]
  <2>0. task[t].pc = "list" /\ UNCHANGED <<spent, limit, incident, paused, reason, run, slips>>
    BY <1>2 DEF List, At
  <2>1. row.pc = "cancel" /\ row.list = L
    BY <1>1 DEF TaskRow
  <2>2. task' = [task EXCEPT ![t] = row]
    BY <1>1, <1>2 DEF List
  <2>3. \A q \in Runs : AtRisk(q) => q \in L
    BY DEF AtRisk, Cancellable
  <2> HIDE DEF row, L
  <2>4. Others(t) /\ task'[t] = row
    BY <1>1, <2>2 DEF Others, TaskTable
  <2>5. \A q \in Runs : AtRisk(q) => Stops(t, q)'
    BY <2>1, <2>3, <2>4 DEF Stops, At
  <2>6. ~Evaluates(t) /\ ~Frees(t)
    BY <2>0 DEF Evaluates, Frees, At
  <2> QED BY <1>1, <2>0, <2>1, <2>4, <2>5, <2>6, EnforceStep DEF Escapes
<1>3. CASE Cancelled(t)
  <2>0. /\ task[t].pc = "cancel" /\ task[t].list = {}
        /\ UNCHANGED <<spent, limit, incident, paused, reason, run, slips>>
    BY <1>3 DEF Cancelled, At
  <2>1. Others(t) /\ task'[t].pc \in {"idle", "read"}
    BY <1>1, <1>3, Going DEF Cancelled
  <2>2. ~Evaluates(t) /\ ~Frees(t) /\ \A q \in Runs : ~Stops(t, q)
    BY <2>0 DEF Evaluates, Stops, Frees, At
  <2> QED BY <1>1, <2>0, <2>1, <2>2, EnforceStep DEF Escapes
<1>4. ASSUME NEW r \in Runs, CancelRun(t, r) PROVE Inv'
  <2>1. /\ task[t].pc = "cancel"
        /\ UNCHANGED <<spent, limit, incident, paused, reason, slips>>
        /\ \A q \in Runs : run'[q] = IF q = r THEN "over" ELSE run[q]
    BY <1>1, <1>4 DEF CancelRun, At, TypeOK
  <2>2. task' = [task EXCEPT ![t].list = @ \ {r}, ![r].pc = Killed(r)]
    BY <1>4 DEF CancelRun
  <2>3. \A u \in Tasks : /\ \/ task'[u].pc = task[u].pc /\ (u = r => task[u].pc # "orphan")
                            \/ /\ u = r /\ task[u].pc \in {"adapter", "detached", "orphan"}
                               /\ task'[u].pc \in {"idle", "doomed"}
                         /\ task'[u].amount = task[u].amount
                         /\ task'[u].upserts = task[u].upserts
                         /\ task'[u].over = task[u].over
                         /\ task[u].list \ {r} \subseteq task'[u].list
    <3>1. r \in Tasks /\ task[r] \in TaskRow
      BY <1>1 DEF Tasks, TaskTable
    <3> DEFINE rest == [task EXCEPT ![t].list = @ \ {r}]
    <3>2. task' = [rest EXCEPT ![r].pc = Killed(r)]
      BY <2>2
    <3>3. rest \in TaskTable
          /\ \A u \in Tasks : /\ rest[u].pc = task[u].pc /\ rest[u].amount = task[u].amount
                             /\ rest[u].upserts = task[u].upserts
                             /\ rest[u].over = task[u].over
                             /\ task[u].list \ {r} \subseteq rest[u].list
      <4>1. [task[t] EXCEPT !.list = @ \ {r}] \in TaskRow
        BY <1>1 DEF TaskRow
      <4> QED BY <1>1, <4>1 DEF TaskTable, TaskRow
    <3> HIDE DEF rest
    <3>4. \/ Killed(r) = task[r].pc /\ task[r].pc # "orphan"
          \/ /\ task[r].pc \in {"adapter", "detached", "orphan"}
             /\ Killed(r) \in {"idle", "doomed"}
      BY DEF Killed, At
    <3>5. \A u \in Tasks \ {r} : task'[u] = rest[u]
      BY <3>2, <3>3 DEF TaskTable
    <3>6. task'[r].pc = Killed(r) /\ task'[r].amount = rest[r].amount
          /\ task'[r].upserts = rest[r].upserts /\ task'[r].list = rest[r].list
          /\ task'[r].over = rest[r].over
      BY <3>1, <3>2, <3>3 DEF TaskTable, TaskRow
    <3> SUFFICES ASSUME NEW u \in Tasks
                 PROVE  /\ \/ /\ task'[u].pc = task[u].pc
                              /\ u = r => task[u].pc # "orphan"
                           \/ /\ u = r /\ task[u].pc \in {"adapter", "detached", "orphan"}
                              /\ task'[u].pc \in {"idle", "doomed"}
                        /\ task'[u].amount = task[u].amount
                        /\ task'[u].upserts = task[u].upserts
                        /\ task'[u].over = task[u].over
                        /\ task[u].list \ {r} \subseteq task'[u].list
      OBVIOUS
    <3>7. CASE u = r
      BY <3>3, <3>4, <3>6, <3>7
    <3>8. CASE u # r
      BY <3>3, <3>5, <3>8
    <3> QED BY <3>7, <3>8
  <2>4. \A u \in Tasks : (Evaluates(u) => Evaluates(u)') /\ (Frees(u) => Frees(u)')
    BY <2>1, <2>3 DEF Evaluates, Frees, At, Exceeded, Unfiled, Standing
  <2>5. \A u \in Tasks, q \in Runs : q # r /\ Stops(u, q) => Stops(u, q)'
    BY <2>3, <2>4 DEF Stops, At
  <2>a. r \in Tasks /\ task'[r].pc # "orphan"
    BY <2>3 DEF Tasks
  <2>6. \A q \in Runs : Loose(q)' => Loose(q) /\ q # r
    BY <2>1, <2>3 DEF Loose, Spared, AtRisk, At, Tasks
  <2>7. NewUnclaimed' /\ SumPositive' /\ OrphansRun'
    BY <2>1, <2>3, <2>a DEF Inv, NewUnclaimed, SumPositive, OrphansRun, At, Tasks
  <2>8. Within' = Within /\ Asked' = Asked /\ Budgeted' = Budgeted
    BY <2>1 DEF Within, Asked, Budgeted
  <2>9. StopsCome'
    BY <2>1, <2>5, <2>6, <2>8 DEF Inv, StopsCome
  <2>10. FreesCome'
    BY <2>1, <2>4, <2>8 DEF Inv, FreesCome
  <2>11. AsksCome'
    BY <2>1, <2>3, <2>4, <2>8 DEF Inv, AsksCome, At
  <2> QED BY <1>1, <2>7, <2>9, <2>10, <2>11 DEF Inv
<1> QED BY <1>2, <1>3, <1>4

LEMMA AnswerKeeps ==
  ASSUME Inv, NEW t \in Calls, Answers(t)
  PROVE  Inv'
<1>1. /\ TypeOK /\ TypeOK' /\ t \in Tasks /\ task[t] \in TaskRow
      /\ spent \in Nat /\ limit \in Nat /\ task[t].amount \in Nat
  BY AnswerType, Numbers DEF Inv, Tasks, TypeOK, TaskRow
<1>2. CASE Check(t)
  <2>1. Others(t) /\ task'[t].pc \in {"amount", "idle"}
    BY <1>1, <1>2, Going DEF Check
  <2>2. task[t].pc = "check" /\ UNCHANGED <<spent, limit, incident, run, slips, paused, reason>>
    BY <1>2 DEF Check, At
  <2>3. \A q \in Runs : AtRisk(q)' => AtRisk(q)
    BY <2>1, <2>2 DEF AtRisk, At, Others, Tasks
  <2>4. Stays(t)
    BY <2>1, <2>2 DEF Stays, Escapes
  <2> QED BY <1>1, <2>1, <2>2, <2>3, <2>4, QuietStep DEF Watched, Budgeted
<1>3. CASE RaiseAmount(t)
  <2>1. Others(t) /\ task'[t].pc = "unpause"
    BY <1>1, <1>3, Going DEF RaiseAmount
  <2>2. /\ task[t].pc = "amount" /\ UNCHANGED <<spent, incident, run, paused, reason>>
        /\ limit' = task[t].amount /\ slips \subseteq slips'
        /\ (Exceeded(task[t].amount) => "overtaken" \in slips')
    BY <1>3 DEF RaiseAmount, At, Slipped
  <2>3. Within' \/ "overtaken" \in slips'
    BY <1>1, <2>2 DEF Within, Exceeded
  <2>4. Stays(t)
    BY <2>1, <2>2 DEF Stays, Escapes
  <2> QED BY <1>1, <2>1, <2>2, <2>3, <2>4, LimitStep DEF Watched
<1>4. CASE Unpause(t)
  <2>1. Others(t) /\ task'[t].pc = "close"
    BY <1>1, <1>4, Going DEF Unpause
  <2>2. task[t].pc = "unpause" /\ UNCHANGED <<spent, limit, incident, run, slips>> /\ ~Budgeted'
    BY <1>4 DEF Unpause, At, Budgeted, ForBudget
  <2>3. Within' = Within /\ Asked' = Asked
    BY <2>2 DEF Within, Asked
  <2>4. \A u \in Tasks \ {t} : /\ Evaluates(u) => Evaluates(u)'
                               /\ \A q \in Runs : Stops(u, q) => Stops(u, q)'
    BY <1>1, <2>1, <2>2, Unmoved
  <2>5. ~Evaluates(t) /\ \A q \in Runs : ~Stops(t, q)
    BY <2>2 DEF Evaluates, Stops, At
  <2>s. Stays(t)
    BY <2>1, <2>2 DEF Stays, Escapes
  <2>6. NewUnclaimed' /\ SumPositive' /\ OrphansRun'
    BY <2>1, <2>2, <2>s, StillSpared DEF Inv, NewUnclaimed, SumPositive, Others, At, Tasks
  <2>7. \A q \in Runs : Loose(q)' => Loose(q)
    <3>1. \A q \in Runs : AtRisk(q)' => AtRisk(q)
      BY <2>1, <2>2 DEF AtRisk, At, Others, Tasks
    <3> QED BY <1>1, <2>2, <2>s, <3>1, StillSpared
  <2>8. StopsCome'
    BY <2>2, <2>3, <2>4, <2>5, <2>7 DEF Inv, StopsCome
  <2>9. AsksCome'
    <3>1. (\E u \in Tasks : At(u, "pause"))' => \E u \in Tasks : At(u, "pause")
      BY <2>1 DEF At, Others
    <3> QED BY <2>2, <2>3, <2>4, <2>5, <3>1 DEF Inv, AsksCome
  <2> QED BY <1>1, <2>2, <2>6, <2>8, <2>9 DEF Inv, FreesCome
<1>5. CASE Close(t) \/ Dismiss(t)
  <2>1. Others(t) /\ task'[t].pc \in {"idle", "read"}
    BY <1>1, <1>5, Going DEF Close, Dismiss
  <2>2. task[t].pc \in {"close", "dismiss"} /\ UNCHANGED <<spent, limit, run, paused, reason>>
    BY <1>5 DEF Close, Dismiss, At
  <2>3. slips \subseteq slips'
    BY <1>5 DEF Close, Dismiss, Slipped
  <2>4. Within' = Within /\ Budgeted' = Budgeted
    BY <2>2 DEF Within, Budgeted
  <2>5. Unfiled => Unfiled'
    BY <1>1, <1>5 DEF Close, Dismiss, Kept, Unfiled, Standing, TypeOK
  <2>6. \A u \in Tasks \ {t} : /\ Evaluates(u) => Evaluates(u)'
                               /\ \A q \in Runs : Stops(u, q) => Stops(u, q)'
                               /\ Frees(u) => Frees(u)'
    <3>1. spent' \in Nat /\ spent' >= spent /\ limit' = limit
      BY <1>1, <2>2
    <3> QED BY <1>1, <2>1, <2>5, <3>1, StillOn DEF Others
  <2>7. ~Evaluates(t) /\ ~Frees(t) /\ \A q \in Runs : ~Stops(t, q)
    BY <2>2 DEF Evaluates, Stops, Frees, At
  <2>s. Stays(t)
    BY <2>1, <2>2 DEF Stays, Escapes
  <2>8. NewUnclaimed' /\ SumPositive' /\ OrphansRun'
    BY <2>1, <2>2, <2>3, <2>s, StillSpared DEF Inv, NewUnclaimed, SumPositive, Others, At, Tasks
  <2>9. \A q \in Runs : Loose(q)' => Loose(q)
    <3>1. \A q \in Runs : AtRisk(q)' => AtRisk(q)
      BY <2>1, <2>2 DEF AtRisk, At, Others, Tasks
    <3> QED BY <1>1, <2>3, <2>s, <3>1, StillSpared
  <2>10. StopsCome'
    BY <2>3, <2>4, <2>6, <2>7, <2>9 DEF Inv, StopsCome
  <2>11. FreesCome'
    BY <2>3, <2>4, <2>6, <2>7 DEF Inv, FreesCome
  <2>12. Asked => Asked' \/ Within \/ slips' # {}
    <3>1. CASE Close(t)
      <4>1. ~Within /\ (\E i \in Incidents : incident[i] = "open") => slips' # {}
        BY <3>1 DEF Close, Slipped
      <4>2. \A i \in Incidents : incident[i] = "dismissed" => incident'[i] = "dismissed"
        BY <1>1, <3>1 DEF Close, TypeOK
      <4> QED BY <4>1, <4>2 DEF Asked
    <3>2. CASE Dismiss(t)
      <4>1. \A i \in Incidents : incident'[i] \in {incident[i], "dismissed"}
        BY <1>1, <3>2 DEF Dismiss, Kept, TypeOK
      <4> QED BY <4>1 DEF Asked
    <3> QED BY <1>5, <3>1, <3>2
  <2>13. AsksCome'
    <3>1. (\E u \in Tasks : At(u, "pause"))' => \E u \in Tasks : At(u, "pause")
      BY <2>1 DEF At, Others
    <3> QED BY <2>3, <2>4, <2>6, <2>7, <2>12, <3>1 DEF Inv, AsksCome
  <2> QED BY <1>1, <2>8, <2>10, <2>11, <2>13 DEF Inv
<1> QED BY <1>2, <1>3, <1>4, <1>5 DEF Answers

(* What the reaper, or a process on its own, does to run r: a run that is  *)
(* written running again has no process, or had been running.              *)
LEMMA RecoverKeeps ==
  ASSUME Inv, NEW r \in Runs, Recovers(r)
  PROVE  Inv'
<1>1. TypeOK /\ TypeOK' /\ r \in Tasks
  BY RecoverType DEF Inv, Tasks
<1>2. UNCHANGED <<spent, limit, paused, reason, incident, slips>>
  BY DEF Recovers, Detach, Leave, Reap
<1>3. /\ Others(r) /\ task[r].pc \in Escapes /\ task'[r].pc \in {"detached", "lost", "read"}
      /\ (task'[r].pc = "detached" => At(r, "orphan"))
  BY <1>1, Going DEF Recovers, Detach, Leave, Reap, At, Escapes
<1>4. /\ \A q \in Runs \ {r} : run'[q] = run[q]
      /\ (task'[r].pc = "read" => run'[r] = "over")
      /\ run'[r] \in {run[r], "running", "over"}
  <2>1. CASE Detach(r)
    BY <1>1, <1>3, <2>1, Going DEF Detach, TypeOK
  <2>2. CASE Leave(r)
    BY <1>1, <1>3, <2>2, Going DEF Leave, TypeOK
  <2>3. CASE Reap(r)
    BY <1>1, <1>3, <2>3 DEF Reap, TypeOK
  <2> QED BY <2>1, <2>2, <2>3 DEF Recovers
<1>5. /\ Within' = Within /\ Asked' = Asked /\ Budgeted' = Budgeted
      /\ spent \in Nat /\ spent >= spent /\ (Unfiled => Unfiled')
  BY <1>1, <1>2, Numbers DEF Within, Asked, Budgeted, Unfiled, Standing
<1>6. \A u \in Tasks \ {r} : /\ Evaluates(u) => Evaluates(u)'
                             /\ \A q \in Runs : Stops(u, q) => Stops(u, q)'
                             /\ Frees(u) => Frees(u)'
  BY <1>1, <1>2, <1>3, <1>5, StillOn DEF Others
<1>7. ~Evaluates(r) /\ ~Frees(r) /\ \A q \in Runs : ~Stops(r, q)
  BY <1>3 DEF Evaluates, Frees, Stops, At, Escapes
<1>8. \A q \in Runs : Loose(q)' => Loose(q)
  <2> SUFFICES ASSUME NEW q \in Runs, Loose(q)' PROVE Loose(q)
    OBVIOUS
  <2>1. CASE q # r
    BY <1>2, <1>3, <1>4, <2>1 DEF Loose, AtRisk, Spared, At, Others, Tasks
  <2>2. CASE q = r
    <3>1. task'[r].pc = "detached" /\ "survived" \notin slips
      BY <1>2, <1>3, <1>4, <2>2 DEF Loose, AtRisk, Spared, At
    <3>2. At(r, "orphan") /\ run[r] = "running"
      BY <1>3, <3>1 DEF Inv, OrphansRun
    <3> QED BY <2>2, <3>1, <3>2 DEF Loose, AtRisk, Spared, At
  <2> QED BY <2>1, <2>2
<1>9. NewUnclaimed' /\ SumPositive' /\ OrphansRun'
  BY <1>3, <1>4 DEF Inv, NewUnclaimed, SumPositive, OrphansRun, Others, At, Tasks
<1>10. StopsCome'
  BY <1>2, <1>5, <1>6, <1>7, <1>8 DEF Inv, StopsCome
<1>11. FreesCome'
  BY <1>2, <1>5, <1>6, <1>7 DEF Inv, FreesCome
<1>12. AsksCome'
  <2>1. (\E u \in Tasks : At(u, "pause"))' => \E u \in Tasks : At(u, "pause")
    BY <1>3 DEF At, Others
  <2> QED BY <1>2, <1>5, <1>6, <1>7, <2>1 DEF Inv, AsksCome
<1> QED BY <1>1, <1>9, <1>10, <1>11, <1>12 DEF Inv

LEMMA CrashKeeps ==
  ASSUME Inv, Crash
  PROVE  Inv'
<1>1. TypeOK /\ TypeOK'
  BY CrashType DEF Inv
<1>2. UNCHANGED <<spent, limit, paused, reason, incident, run>>
  BY DEF Crash
<1>0. PICK alive \in SUBSET {r \in Runs : Spawned(r)} :
        /\ task' = [t \in Tasks |-> [Idle EXCEPT !.pc =
                                       IF t \in Runs THEN Left(t, alive) ELSE "idle"]]
        /\ slips' = slips
             \cup {name \in {"cut"} : \E t \in Tasks : task[t].pc \in Midway}
             \cup {name \in {"survived"} : ~Within /\ alive # {}}
  BY DEF Crash
<1>a. /\ slips \subseteq slips'
      /\ ((\E u \in Tasks : task[u].pc \in Midway) => "cut" \in slips')
      /\ (~Within /\ alive # {} => "survived" \in slips')
  BY <1>0
<1>b. \A u \in Tasks : task'[u].pc = IF u \in Runs THEN Left(u, alive) ELSE "idle"
  BY <1>0 DEF Idle
<1>3. \A u \in Tasks : task'[u].pc \in {"idle", "lost", "detached", "orphan"}
  BY <1>b DEF Left
<1>5. NewUnclaimed' /\ SumPositive'
  BY <1>3 DEF NewUnclaimed, SumPositive, At, Tasks
<1>c. OrphansRun'
  BY <1>2, <1>b DEF OrphansRun, At, Tasks, Left
<1>7. Within' = Within /\ Asked' = Asked /\ Budgeted' = Budgeted
  BY <1>2 DEF Within, Asked, Budgeted
<1>6. StopsCome'
  <2> SUFFICES ASSUME ~Within, NEW q \in Runs, AtRisk(q)' PROVE Spared(q)'
    BY <1>7 DEF StopsCome, Loose
  <2>1. run[q] = "running" /\ q \in Tasks
    BY <1>2, <1>3 DEF AtRisk, At, Tasks
  <2>2. CASE q \in alive
    BY <1>a, <1>b, <2>1, <2>2 DEF Left, Spared
  <2>3. CASE q \notin alive
    BY <1>b, <2>1, <2>3 DEF Left, Spared, At
  <2> QED BY <2>2, <2>3
<1>8. \A u \in Tasks : Frees(u) \/ Evaluates(u) \/ At(u, "pause") => "cut" \in slips'
  BY <1>a DEF Frees, Evaluates, At, Midway
<1>9. FreesCome'
  BY <1>a, <1>7, <1>8 DEF Inv, FreesCome
<1>10. AsksCome'
  <2>1. ~(\E u \in Tasks : At(u, "pause"))'
    BY <1>3 DEF At
  <2> QED BY <1>a, <1>7, <1>8, <2>1 DEF Inv, AsksCome
<1> QED BY <1>1, <1>5, <1>6, <1>9, <1>10, <1>c DEF Inv

LEMMA InvHolds == Spec => []Inv
<1>1. Init => Inv
  <2> SUFFICES ASSUME Init PROVE Inv
    OBVIOUS
  <2>1. \A u \in Tasks : task[u].pc = "idle"
    BY DEF Init, Idle
  <2>2. NewUnclaimed /\ SumPositive /\ OrphansRun
    BY <2>1 DEF NewUnclaimed, SumPositive, OrphansRun, At, Tasks
  <2>3. StopsCome
    BY <2>1 DEF Init, StopsCome, Loose, AtRisk
  <2>4. ~Budgeted /\ \A u \in Tasks : ~At(u, "pause")
    BY <2>1 DEF Init, Budgeted, At
  <2> QED BY InitType, <2>2, <2>3, <2>4 DEF Inv, FreesCome, AsksCome
<1>2. ASSUME Inv, [Next]_vars PROVE Inv'
  <2>1. CASE UNCHANGED vars
    <3>1. UNCHANGED <<spent, limit, paused, reason, incident, soft, run, task, crashes, slips>>
      BY <2>1 DEF vars
    <3>2. TypeOK'
      BY <1>2, <3>1 DEF Inv, TypeOK
    <3>4. NewUnclaimed' /\ SumPositive' /\ OrphansRun'
      BY <1>2, <3>1 DEF Inv, NewUnclaimed, SumPositive, OrphansRun, At
    <3>3. StopsCome' /\ FreesCome' /\ AsksCome'
      BY <1>2, <3>1 DEF Inv, StopsCome, FreesCome, AsksCome, Stops, Frees, Evaluates, AtRisk,
         Loose, Spared, Unfiled, Standing, Asked, Within, Budgeted, At, Exceeded
    <3> QED BY <3>2, <3>3, <3>4 DEF Inv
  <2>2. ASSUME NEW t \in Tasks, Enforces(t) PROVE Inv'
    BY <1>2, <2>2, EvaluationKeeps, FileKeeps, PauseKeeps, CancelKeeps DEF Enforces
  <2> QED BY <1>2, <2>1, <2>2, BeginKeeps, AnswerKeeps, RunKeeps, RecoverKeeps,
       CrashKeeps DEF Next
<1> QED BY <1>1, <1>2, PTL DEF Spec

(* Over the limit and at rest, no run of the agent is running, whatever    *)
(* was claimed, queued, resumed, lowered, cut or written running again     *)
(* meanwhile, but for the three gaps of HardStopHolds: each run that       *)
(* passed the gate before the spend is on the list of a hard stop still in *)
(* flight, or has no process.  For any number of requests, runs, incidents *)
(* and crashes, and any soft threshold.                                    *)
THEOREM HardStopCorrect == Spec => []HardStopHolds
<1>1. Inv => HardStopHolds
  <2> SUFFICES ASSUME Inv, AtRest, ~Within, slips \cap {"overtaken", "unstopped"} = {},
                      NEW r \in Runs, run[r] = "running"
               PROVE  At(r, "detached") /\ "survived" \in slips
    BY DEF HardStopHolds
  <2>1. r \in Tasks /\ \A u \in Tasks : task[u].pc \in {"idle", "begun", "adapter", "detached"}
    BY DEF AtRest, Tasks
  <2>2. \A u \in Tasks : ~Stops(u, r)
    BY <2>1 DEF Stops, Evaluates, At
  <2>3. Spared(r)
    BY <2>2 DEF Inv, StopsCome, Loose, AtRisk
  <2> QED BY <2>1, <2>3 DEF Spared, At
<1> QED BY InvHolds, <1>1, PTL

(* Within the limit and at rest, the agent is not paused for its budget,   *)
(* but for a stale evaluation and a server that ended in between.          *)
THEOREM FreedCorrect == Spec => []FreedOnceWithin
<1>1. Inv => FreedOnceWithin
  <2> SUFFICES ASSUME Inv, AtRest, slips \cap {"stale", "cut"} = {}, Budgeted, Within
               PROVE  FALSE
    BY DEF FreedOnceWithin, Budgeted
  <2>1. PICK u \in Tasks : Frees(u)
    BY DEF Inv, FreesCome
  <2>2. task[u].pc \in {"idle", "begun", "adapter", "detached"}
    BY DEF AtRest
  <2> QED BY <2>1, <2>2 DEF Frees, At
<1> QED BY InvHolds, <1>1, PTL

(* An agent that is paused for its budget, with no gap gone through, has   *)
(* an incident the board can answer or has answered with keep_paused.      *)
THEOREM AskedCorrect == Spec => []PausedIsAsked
<1>1. Inv => PausedIsAsked
  <2> SUFFICES ASSUME Inv, AtRest, slips = {}, Budgeted PROVE Asked
    BY DEF PausedIsAsked, Budgeted, Asked
  <2>1. \A u \in Tasks : task[u].pc \in {"idle", "begun", "adapter", "detached"}
    BY DEF AtRest
  <2>2. \A u \in Tasks : ~Frees(u) /\ ~Evaluates(u)
    BY <2>1 DEF Frees, Evaluates, At
  <2>3. ~Within
    BY <2>2 DEF Inv, FreesCome
  <2> QED BY <2>2, <2>3 DEF Inv, AsksCome
<1> QED BY InvHolds, <1>1, PTL
=============================================================================
