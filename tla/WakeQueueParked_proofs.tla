------------------- MODULE WakeQueueParked_proofs ---------------------------
(* What is parked: somebody is left to promote it (OwnedUnlessDropped of   *)
(* WakeQueue), and it has one place (ImplementsLedger).                    *)
EXTENDS WakeQueue_proofs

(* A handler of the end of a run, between the two writes of it; and one    *)
(* that may still create a retry or a recovery run.                        *)
Lost == {"lost", "interrupted"}
Recovering == Lost \cup {"finishing", "succeeding", "releasing"}
Ends == Recovering \cup {"killing", "closing", "clearing"}

(* These are there for runs that are over only, and so is a retry.         *)
EndedOver == \A h \in Handlers, r \in Runs : at[h][r] \in Recovering => runs[r].status \in Over

RetriedOver ==
  \A n \in Created : runs[n].retryOf # NoRun =>
    runs[n].retryOf \in Runs /\ runs[runs[n].retryOf].status \in Over

(* A run that the reaper may bring back has no retry, and no handler that  *)
(* creates one.                                                            *)
Revivable ==
  \A r \in Runs :
    /\ at["gate"][r] \in {"idle", "rejecting", "clearing"}
    /\ at["execute"][r] = "orphan" => at["cancel"][r] \notin Recovering
    /\ Suspect(r) => RetriesOf(r) = {}

(* The handler has still to release the issue: one that found its run lost *)
(* will not, when it finds a retry of it.                                  *)
Promotes(h, r) == at[h][r] \in Ends /\ (at[h][r] \in Lost => RetriesOf(r) = {})

Kept(r) == IsAlive(r) \/ \E h \in Handlers : Promotes(h, r)

(* The run enqueueWakeup found, and is about to merge into or to park      *)
(* behind, has its end still to come.                                      *)
FoundKept == tx.wake # NoWake /\ tx.run # NoRun => tx.run \in Runs /\ Kept(tx.run)

Owned == RowFree /\ deferred # <<>> /\ ~dropped => \E r \in Runs : Kept(r)

OwnInv == EndedOver /\ RetriedOver /\ FoundKept /\ Owned /\ Revivable

-----------------------------------------------------------------------------
(* Steps that neither create a run nor touch a request                     *)

LEMMA EndsAreSteps ==
  /\ Lost \subseteq Recovering /\ Recovering \subseteq Ends /\ Lost \subseteq Ends
  /\ Ends \subseteq Steps /\ {"idle", "orphan", "detached"} \cap Ends = {}
BY DEF Lost, Recovering, Ends, Steps

LEMMA StatusKinds ==
  /\ Alive \cap Over = {} /\ "absent" \notin Alive \cup Over
  /\ {"queued", "running", "scheduled_retry"} \subseteq Alive
  /\ {"succeeded", "failed", "cancelled", "interrupted"} \subseteq Over
BY DEF Alive, Over

LEMMA NoRunIsNone == NoRun \notin Runs /\ NoWake \notin Wakes
BY QueueConstants

(* What no such step may do: bring a run back, lose a handler that has yet *)
(* to release, or end a run with no handler of its end.                    *)
SameRows ==
  \A q \in Runs : /\ runs'[q].retryOf = runs[q].retryOf
                  /\ (runs'[q].status = "absent") <=> (runs[q].status = "absent")
                  /\ runs[q].status \in Over => runs'[q].status \in Over

LEMMA SameRetries ==
  ASSUME SameRows
  PROVE  Created' = Created /\ \A q \in Runs : RetriesOf(q)' = RetriesOf(q)
<1>1. Created' = Created
  BY DEF SameRows, Created
<1>2. \A n \in Created : runs'[n].retryOf = runs[n].retryOf
  BY DEF SameRows, Created
<1> QED BY <1>1, <1>2 DEF RetriesOf

LEMMA OverSaved ==
  ASSUME OwnInv, SameRows,
         \A h \in Handlers, q \in Runs :
           at'[h][q] \in Recovering => at[h][q] \in Recovering \/ runs'[q].status \in Over
  PROVE  EndedOver' /\ RetriedOver'
<1>1. EndedOver'
  BY DEF OwnInv, EndedOver, SameRows
<1>2. RetriedOver'
  <2> SUFFICES ASSUME NEW n \in Created', runs'[n].retryOf # NoRun
               PROVE  runs'[n].retryOf \in Runs /\ runs'[runs'[n].retryOf].status \in Over
    BY DEF RetriedOver
  <2>1. n \in Created /\ n \in Runs /\ runs'[n].retryOf = runs[n].retryOf
    BY SameRetries DEF SameRows, Created
  <2>2. runs[n].retryOf \in Runs /\ runs[runs[n].retryOf].status \in Over
    BY <2>1 DEF OwnInv, RetriedOver
  <2> QED BY <2>1, <2>2 DEF SameRows
<1> QED BY <1>1, <1>2

(* A run that is not over has no retry.                                    *)
LEMMA AliveUnretried ==
  ASSUME OwnInv, NEW r \in Runs, IsAlive(r)
  PROVE  RetriesOf(r) = {}
<1> SUFFICES ASSUME NEW n \in RetriesOf(r) PROVE FALSE
  OBVIOUS
<1>1. n \in Created /\ runs[n].retryOf = r /\ r # NoRun
  BY NoRunIsNone DEF RetriesOf
<1>2. runs[r].status \in Over
  BY <1>1 DEF OwnInv, RetriedOver
<1> QED BY <1>2, StatusKinds DEF IsAlive

LEMMA KeptStays ==
  ASSUME OwnInv, SameRows, NEW r \in Runs, Kept(r),
         IsAlive(r) => runs'[r].status \in Alive \/ \E h \in Handlers : at'[h][r] \in Ends,
         \A h \in Handlers : at[h][r] \in Ends =>
           at'[h][r] \in Ends /\ (at'[h][r] \in Lost => at[h][r] \in Lost)
  PROVE  Kept(r)'
<1>1. RetriesOf(r)' = RetriesOf(r)
  BY SameRetries
<1>2. CASE IsAlive(r)
  <2>1. RetriesOf(r)' = {}
    BY <1>1, <1>2, AliveUnretried
  <2>2. runs'[r].status \in Alive \/ \E h \in Handlers : at'[h][r] \in Ends
    BY <1>2
  <2> QED BY <2>1, <2>2 DEF Kept, Promotes, IsAlive
<1>3. ASSUME NEW h \in Handlers, Promotes(h, r) PROVE Kept(r)'
  BY <1>1, <1>3 DEF Promotes, Kept
<1> QED BY <1>2, <1>3 DEF Kept

LEMMA Keeps ==
  ASSUME OwnInv, SameRows, UNCHANGED <<deferred, tx, dropped>>, Revivable',
         \A h \in Handlers, q \in Runs :
           /\ at'[h][q] \in Recovering => at[h][q] \in Recovering \/ runs'[q].status \in Over
           /\ at[h][q] \in Ends =>
                at'[h][q] \in Ends /\ (at'[h][q] \in Lost => at[h][q] \in Lost),
         \A q \in Runs : IsAlive(q) =>
           runs'[q].status \in Alive \/ \E h \in Handlers : at'[h][q] \in Ends
  PROVE  OwnInv'
<1>1. EndedOver' /\ RetriedOver'
  BY OverSaved
<1>2. \A q \in Runs : Kept(q) => Kept(q)'
  BY KeptStays
<1>3. FoundKept'
  BY <1>2 DEF OwnInv, FoundKept
<1>4. Owned'
  BY <1>2 DEF OwnInv, Owned, RowFree
<1> QED BY <1>1, <1>3, <1>4 DEF OwnInv

(* No move makes an orphan of a run, lists one that is not running, or     *)
(* releases an orphan.                                                     *)
Steady(h, r, to) ==
  /\ h = "execute" => to # "orphan"
  /\ h = "gate" => to \in {"idle", "rejecting", "clearing"}
  /\ h = "cancel" => to \notin Recovering \/ at["execute"][r] # "orphan"
  /\ h = "reap" => to # "listed" \/ runs[r].status = "running"

LEMMA SteadyRevives ==
  ASSUME Inv, OwnInv, NEW h \in Handlers, NEW r \in Runs, NEW to,
         at' = [at EXCEPT ![h][r] = to], Steady(h, r, to), SameRows
  PROVE  Revivable'
<1>t. Handlers = {"execute", "cancel", "reap", "gate"}
  BY DEF Handlers
<1>1. \A g \in Handlers, q \in Runs :
        at'[g][q] = IF g = h /\ q = r THEN to ELSE at[g][q]
  BY DEF Inv, TypeInv
<1>2. ASSUME NEW q \in Runs PROVE at'["gate"][q] \in {"idle", "rejecting", "clearing"}
  BY <1>t, <1>1 DEF OwnInv, Revivable, Steady
<1>3. ASSUME NEW q \in Runs, at'["execute"][q] = "orphan"
      PROVE  at["execute"][q] = "orphan" /\ at'["cancel"][q] \notin Recovering
  <2>1. at["execute"][q] = "orphan"
    BY <1>t, <1>1, <1>3 DEF Steady
  <2> QED BY <1>t, <1>1, <2>1 DEF OwnInv, Revivable, Steady
<1>4. ASSUME NEW q \in Runs, Suspect(q)' PROVE RetriesOf(q)' = {}
  <2>1. at["execute"][q] = "orphan" /\ at'["reap"][q] = "listed"
    BY <1>3, <1>4 DEF Suspect
  <2>2. CASE at["reap"][q] = "listed"
    BY <2>1, <2>2, SameRetries DEF OwnInv, Revivable, Suspect
  <2>3. CASE at["reap"][q] # "listed"
    <3>1. runs[q].status = "running"
      BY <1>t, <1>1, <2>1, <2>3 DEF Steady
    <3> QED BY <3>1, StatusKinds, AliveUnretried, SameRetries DEF IsAlive
  <2> QED BY <2>2, <2>3
<1> QED BY <1>2, <1>3, <1>4 DEF Revivable

(* One handler goes on with one run, whose status it may write.            *)
Turns(r) ==
  /\ SameRows
  /\ \A q \in Runs : q # r => runs'[q].status = runs[q].status

LEMMA TurnsSame == UNCHANGED runs => \A r \in Runs : Turns(r)
BY DEF Turns, SameRows

LEMMA TurnsStatus ==
  ASSUME Inv, NEW r \in Created, NEW st \in Alive \cup Over, SetStatus(r, st),
         runs[r].status \in Over => st \in Over
  PROVE  Turns(r) /\ runs'[r].status = st
<1>1. /\ runs' = [runs EXCEPT ![r].status = st] /\ runs \in [Runs -> Run]
      /\ r \in Runs /\ runs[r].status # "absent" /\ st # "absent"
  BY StatusKinds DEF SetStatus, Inv, TypeInv, Created
<1>2. \A q \in Runs : /\ runs'[q].retryOf = runs[q].retryOf
                      /\ runs'[q].status = IF q = r THEN st ELSE runs[q].status
  BY <1>1 DEF Run
<1> QED BY <1>1, <1>2 DEF Turns, SameRows

LEMMA MoveKeeps ==
  ASSUME Inv, OwnInv, NEW h \in Handlers, NEW r \in Runs, NEW to,
         at' = [at EXCEPT ![h][r] = to], Turns(r), UNCHANGED <<deferred, tx, dropped>>,
         Steady(h, r, to),
         at[h][r] \in Ends => to \in Ends /\ (to \in Lost => at[h][r] \in Lost),
         to \in Recovering => at[h][r] \in Recovering \/ runs'[r].status \in Over,
         IsAlive(r) => runs'[r].status \in Alive \/ to \in Ends
  PROVE  OwnInv'
<1>1. \A g \in Handlers, q \in Runs :
        at'[g][q] = IF g = h /\ q = r THEN to ELSE at[g][q]
  BY DEF Inv, TypeInv
<1>2. \A g \in Handlers, q \in Runs :
        /\ at'[g][q] \in Recovering => at[g][q] \in Recovering \/ runs'[q].status \in Over
        /\ at[g][q] \in Ends =>
             at'[g][q] \in Ends /\ (at'[g][q] \in Lost => at[g][q] \in Lost)
  BY <1>1
<1>3. \A q \in Runs : IsAlive(q) =>
        runs'[q].status \in Alive \/ \E g \in Handlers : at'[g][q] \in Ends
  BY <1>1 DEF Turns, IsAlive
<1>4. Revivable'
  BY SteadyRevives DEF Turns
<1> QED BY <1>2, <1>3, <1>4, Keeps DEF Turns

(* No handler moves.                                                       *)
LEMMA RestKeeps ==
  ASSUME OwnInv, UNCHANGED <<at, deferred, tx, dropped>>, SameRows,
         \A q \in Runs : IsAlive(q) => runs'[q].status \in Alive
  PROVE  OwnInv'
<1>1. Revivable'
  BY SameRetries DEF OwnInv, Revivable, Suspect
<1> QED BY <1>1, Keeps

(* Claims, refusals and starts.                                            *)
LEMMA ClaimKeeps ==
  ASSUME Inv, OwnInv, NEW r \in Runs, Claim(r) \/ Stamp(r) \/ Reject(r) \/ GateWrites(r)
  PROVE  OwnInv'
<1>t. {"execute", "gate"} \subseteq Handlers
  BY DEF Handlers
<1>e. /\ {"idle", "claimed", "launched", "rejecting"} \cap Ends = {}
      /\ "clearing" \in Ends \ Recovering
  BY DEF Ends, Recovering, Lost
<1>1. CASE Claim(r)
  <2>1. /\ SetStatus(r, "running") /\ runs[r].status = "queued" /\ at["execute"][r] = "idle"
        /\ at' = [at EXCEPT !["execute"][r] = "claimed"]
        /\ UNCHANGED <<deferred, tx, dropped>>
    BY <1>1 DEF Claim, Moves
  <2>2. Turns(r) /\ runs'[r].status = "running"
    BY <2>1, StatusKinds, TurnsStatus DEF Created
  <2>3. Steady("execute", r, "claimed")
    BY DEF Steady
  <2> QED BY <1>t, <1>e, <2>1, <2>2, <2>3, StatusKinds, EndsAreSteps, MoveKeeps
<1>2. CASE Stamp(r)
  <2>1. /\ UNCHANGED runs /\ at["execute"][r] = "claimed"
        /\ at' = [at EXCEPT !["execute"][r] = "launched"]
        /\ UNCHANGED <<deferred, tx, dropped>>
    BY <1>2 DEF Stamp, Moves
  <2>2. Steady("execute", r, "launched")
    BY DEF Steady
  <2> QED BY <1>t, <1>e, <2>1, <2>2, TurnsSame, EndsAreSteps, MoveKeeps DEF IsAlive
<1>3. CASE Reject(r)
  <2>1. /\ UNCHANGED runs /\ at["gate"][r] = "idle"
        /\ at' = [at EXCEPT !["gate"][r] = "rejecting"]
        /\ UNCHANGED <<deferred, tx, dropped>>
    BY <1>3 DEF Reject, Moves
  <2>2. Steady("gate", r, "rejecting")
    BY DEF Steady
  <2> QED BY <1>t, <1>e, <2>1, <2>2, TurnsSame, EndsAreSteps, MoveKeeps DEF IsAlive
<1>4. CASE GateWrites(r)
  <2>1. /\ SetStatus(r, "cancelled") /\ at["gate"][r] = "rejecting"
        /\ at' = [at EXCEPT !["gate"][r] = "clearing"]
        /\ UNCHANGED <<deferred, tx, dropped>>
    BY <1>4 DEF GateWrites, Moves
  <2>2. r \in Created
    BY <1>t, <2>1 DEF Inv, HandledExists
  <2>3. Turns(r) /\ runs'[r].status = "cancelled"
    BY <2>1, <2>2, StatusKinds, TurnsStatus
  <2>4. Steady("gate", r, "clearing")
    BY DEF Steady
  <2> QED BY <1>t, <1>e, <2>1, <2>3, <2>4, StatusKinds, MoveKeeps
<1> QED BY <1>1, <1>2, <1>3, <1>4

(* The execution of a run, and the timer of its retry.                     *)
LEMMA ExecuteKeeps ==
  ASSUME Inv, OwnInv, NEW r \in Runs,
         \/ Begin(r) \/ \E st \in {"succeeded", "failed"} : Finish(r, st)
         \/ Abort(r) \/ NoRetry(r) \/ PromoteRetry(r) \/ GateRetry(r)
  PROVE  OwnInv'
<1>t. {"execute", "gate"} \subseteq Handlers
  BY DEF Handlers
<1>e. /\ {"idle", "launched", "executing"} \cap Ends = {} /\ Lost \subseteq Recovering
      /\ {"finishing", "succeeding", "releasing"} \subseteq Recovering \ Lost
      /\ Recovering \subseteq Ends /\ {"closing", "clearing"} \subseteq Ends \ Recovering
  BY DEF Ends, Recovering, Lost
<1>s. /\ \A to \in {"idle", "executing", "finishing", "succeeding", "releasing", "closing"} :
           Steady("execute", r, to)
      /\ Steady("gate", r, "clearing")
  BY DEF Steady
<1>c. ASSUME NEW st \in {"running", "scheduled_retry"}, runs[r].status = st
      PROVE  r \in Created /\ runs[r].status \notin Over /\ IsAlive(r)
  BY <1>c, StatusKinds DEF Created, IsAlive
<1>1. CASE Begin(r)
  <2>1. PICK to \in {"executing", "idle"} :
          /\ at["execute"][r] = "launched" /\ UNCHANGED <<deferred, tx, dropped>>
          /\ at' = [at EXCEPT !["execute"][r] = to]
          /\ UNCHANGED runs \/ runs' = [runs EXCEPT ![r].begun = TRUE]
    BY <1>1 DEF Begin, Moves
  <2>2. \A q \in Runs : runs'[q].status = runs[q].status /\ runs'[q].retryOf = runs[q].retryOf
    BY <2>1 DEF Inv, TypeInv, Run
  <2>3. Turns(r)
    BY <2>2 DEF Turns, SameRows
  <2> QED BY <1>t, <1>e, <1>s, <2>1, <2>2, <2>3, MoveKeeps DEF IsAlive
<1>2. ASSUME NEW st \in {"succeeded", "failed"}, Finish(r, st) PROVE OwnInv'
  <2>1. at["execute"][r] = "executing" /\ UNCHANGED <<deferred, tx, dropped>>
    BY <1>2 DEF Finish, Moves
  <2>2. CASE runs[r].status = "running"
    <3>1. PICK to \in {"finishing", "succeeding"} :
            at' = [at EXCEPT !["execute"][r] = to] /\ SetStatus(r, st)
      BY <1>2, <2>2 DEF Finish, Moves
    <3>2. Turns(r) /\ runs'[r].status = st /\ st \in Over
      BY <1>c, <2>2, <3>1, StatusKinds, TurnsStatus
    <3> QED BY <1>t, <1>e, <1>s, <2>1, <3>1, <3>2, MoveKeeps
  <2>3. CASE runs[r].status # "running"
    <3>1. at' = [at EXCEPT !["execute"][r] = "idle"] /\ UNCHANGED runs
      BY <1>2, <2>3 DEF Finish, Moves
    <3> QED BY <1>t, <1>e, <1>s, <2>1, <3>1, TurnsSame, MoveKeeps DEF IsAlive
  <2> QED BY <2>2, <2>3
<1>3. CASE NoRetry(r)
  <2>1. PICK to \in {"releasing", "closing"} :
          /\ at["execute"][r] \in {"finishing", "succeeding"}
          /\ at' = [at EXCEPT !["execute"][r] = to]
          /\ UNCHANGED <<runs, deferred, tx, dropped>>
    BY <1>3 DEF NoRetry, Moves
  <2> QED BY <1>t, <1>e, <1>s, <2>1, TurnsSame, MoveKeeps DEF IsAlive
<1>4. CASE PromoteRetry(r)
  <2>1. /\ runs[r].status = "scheduled_retry" /\ SetStatus(r, "queued")
        /\ UNCHANGED <<at, deferred, tx, dropped>>
    BY <1>4 DEF PromoteRetry
  <2>2. Turns(r) /\ runs'[r].status = "queued"
    BY <1>c, <2>1, StatusKinds, TurnsStatus
  <2>3. \A q \in Runs : IsAlive(q) => runs'[q].status \in Alive
    BY <2>2, StatusKinds DEF Turns, IsAlive
  <2> QED BY <2>1, <2>2, <2>3, RestKeeps DEF Turns
<1>5. CASE GateRetry(r)
  <2>1. /\ runs[r].status = "scheduled_retry" /\ SetStatus(r, "cancelled")
        /\ at["gate"][r] = "idle" /\ at' = [at EXCEPT !["gate"][r] = "clearing"]
        /\ UNCHANGED <<deferred, tx, dropped>>
    BY <1>5 DEF GateRetry, Moves
  <2>2. Turns(r) /\ runs'[r].status = "cancelled"
    BY <1>c, <2>1, StatusKinds, TurnsStatus
  <2> QED BY <1>t, <1>e, <1>s, <2>1, <2>2, StatusKinds, MoveKeeps
<1>6. CASE Abort(r)
  <2>1. /\ SetStatus(r, "cancelled") /\ at["execute"][r] = "executing"
        /\ at' = [at EXCEPT !["execute"][r] = "closing"]
        /\ UNCHANGED <<deferred, tx, dropped>>
    BY <1>6 DEF Abort, Moves
  <2>2. r \in Created
    BY <1>t, <2>1 DEF Inv, HandledExists
  <2>3. Turns(r) /\ runs'[r].status = "cancelled"
    BY <2>1, <2>2, StatusKinds, TurnsStatus
  <2> QED BY <1>t, <1>e, <1>s, <2>1, <2>3, StatusKinds, MoveKeeps
<1> QED BY <1>1, <1>2, <1>3, <1>4, <1>5, <1>6

(* Cancellations, the reaper and the drain.                                *)
LEMMA EndKeeps ==
  ASSUME Inv, OwnInv, NEW r \in Runs,
         \/ Cancel(r) \/ CancelWrites(r) \/ CancelFirst(r) \/ Kill(r) \/ ChildEnds(r)
         \/ Drain(r) \/ List(r) \/ ReapSkips(r) \/ ReapFails(r) \/ ReleaseLost(r)
  PROVE  OwnInv'
<1>t. {"execute", "cancel", "reap"} \subseteq Handlers
  BY DEF Handlers
<1>e. /\ {"idle", "terminating", "picked", "listed", "orphan", "detached"} \cap Ends = {}
      /\ {"lost", "interrupted"} \subseteq Ends /\ "releasing" \in Ends \ Lost
      /\ Recovering \subseteq Ends /\ {"killing", "closing"} \subseteq Ends \ Recovering
      /\ Lost \subseteq Recovering /\ {"lost", "interrupted"} = Lost
  BY DEF Ends, Recovering, Lost
<1>h. ASSUME NEW h \in Handlers, at[h][r] # "idle" PROVE r \in Created
  BY <1>h DEF Inv, HandledExists
<1>1. ASSUME NEW h \in Handlers, NEW to \in {"idle", "terminating", "picked", "listed"},
             UNCHANGED runs, Steady(h, r, to), at[h][r] \notin Ends,
             at' = [at EXCEPT ![h][r] = to],
             UNCHANGED <<deferred, tx, dropped>>
      PROVE  OwnInv'
  BY <1>1, <1>e, TurnsSame, MoveKeeps DEF IsAlive
<1>2. ASSUME NEW h \in Handlers, at[h][r] \notin Ends, Steady(h, r, "idle"),
             NEW to \in Ends, Steady(h, r, to),
             NEW st \in Over, SetStatus(r, st), at' = [at EXCEPT ![h][r] = to],
             r \in Created, UNCHANGED <<deferred, tx, dropped>>
      PROVE  OwnInv'
  <2>1. Turns(r) /\ runs'[r].status = st
    BY <1>2, TurnsStatus
  <2> QED BY <1>2, <2>1, MoveKeeps
<1>s. /\ \A to \in {"idle", "terminating", "picked", "killing", "closing"} :
           Steady("cancel", r, to)
      /\ \A to \in {"idle", "lost", "interrupted", "releasing", "closing"} : Steady("reap", r, to)
      /\ Steady("execute", r, "idle")
  BY DEF Steady, Recovering, Lost
<1>3. CASE Cancel(r) \/ ReapSkips(r) \/ List(r)
  <2>1. CASE Cancel(r)
    <3>1. PICK to \in {"terminating", "picked"} :
            /\ at["cancel"][r] = "idle" /\ at' = [at EXCEPT !["cancel"][r] = to]
            /\ UNCHANGED <<runs, deferred, tx, dropped>>
      BY <2>1 DEF Cancel, Moves
    <3> QED BY <1>1, <1>e, <1>s, <1>t, <3>1
  <2>2. CASE ReapSkips(r)
    BY <1>1, <1>e, <1>s, <1>t, <2>2 DEF ReapSkips, Moves
  <2>3. CASE List(r)
    <3>1. Steady("reap", r, "listed")
      BY <2>3 DEF Steady, List
    <3> QED BY <1>1, <1>e, <1>t, <2>3, <3>1 DEF List, Moves
  <2> QED BY <1>3, <2>1, <2>2, <2>3
<1>4. CASE CancelWrites(r)
  <2>1. Steady("cancel", r, "releasing")
    BY <1>4 DEF CancelWrites, Outlives, Steady
  <2> QED BY <1>2, <1>4, <1>e, <1>s, <1>t, <1>h, <2>1, StatusKinds DEF CancelWrites, Moves
<1>5. CASE ReapFails(r)
  BY <1>2, <1>5, <1>e, <1>s, <1>t, <1>h, StatusKinds DEF ReapFails, Moves
<1>6. CASE Drain(r)
  BY <1>2, <1>6, <1>e, <1>s, <1>t, StatusKinds DEF Drain, Moves, Created
<1>7. CASE ReleaseLost(r)
  <2>1. PICK to \in {"releasing", "closing"} :
          /\ at["reap"][r] \in {"lost", "interrupted"} /\ UNCHANGED <<runs, deferred, tx, dropped>>
          /\ at' = [at EXCEPT !["reap"][r] = to]
    BY <1>7 DEF ReleaseLost, Inv, TypeInv
  <2>2. to \in Ends /\ to \notin Lost
    BY <1>e
  <2> QED BY <1>t, <1>e, <1>s, <2>1, <2>2, TurnsSame, MoveKeeps DEF IsAlive
<1>8. CASE CancelFirst(r)
  <2>1. PICK to \in {"killing", "closing"} :
          /\ at["cancel"][r] = "picked" /\ SetStatus(r, "cancelled")
          /\ at' = [at EXCEPT !["cancel"][r] = to] /\ UNCHANGED <<deferred, tx, dropped>>
    BY <1>8 DEF CancelFirst, Moves
  <2> QED BY <1>2, <1>e, <1>s, <1>t, <1>h, <2>1, StatusKinds
<1>9. CASE Kill(r)
  <2>1. /\ at["cancel"][r] = "killing" /\ at' = [at EXCEPT !["cancel"][r] = "closing"]
        /\ UNCHANGED <<runs, deferred, tx, dropped>>
    BY <1>9 DEF Kill, Moves
  <2>2. "closing" \in Ends /\ "closing" \notin Lost
    BY <1>e
  <2> QED BY <1>t, <1>e, <1>s, <2>1, <2>2, TurnsSame, MoveKeeps DEF IsAlive
<1>10. CASE ChildEnds(r)
  <2>1. /\ at["execute"][r] \in {"orphan", "detached"}
        /\ at' = [at EXCEPT !["execute"][r] = "idle"]
        /\ UNCHANGED <<runs, deferred, tx, dropped>>
    BY <1>10 DEF ChildEnds, Outlives
  <2> QED BY <1>1, <1>e, <1>s, <1>t, <2>1
<1> QED BY <1>3, <1>4, <1>5, <1>6, <1>7, <1>8, <1>9, <1>10

(* The reaper brings a run back: nothing had been created for its end.     *)
LEMMA DetachKeeps ==
  ASSUME Inv, OwnInv, NEW r \in Runs, ReapDetaches(r)
  PROVE  OwnInv'
<1>t. Handlers = {"execute", "cancel", "reap", "gate"}
  BY DEF Handlers
<1>1. /\ Suspect(r) /\ SetStatus(r, "running") /\ UNCHANGED <<deferred, tx, dropped>>
      /\ at' = [at EXCEPT !["reap"][r] = "idle", !["execute"][r] = "detached"]
  BY DEF ReapDetaches
<1>2. r \in Created
  BY <1>t, <1>1 DEF Suspect, Inv, HandledExists
<1>3. /\ \A q \in Runs : /\ runs'[q].retryOf = runs[q].retryOf
                          /\ runs'[q].status = IF q = r THEN "running" ELSE runs[q].status
      /\ runs[r].status # "absent"
  BY <1>1, <1>2 DEF SetStatus, Inv, TypeInv, Run, Created
<1>4. \A h \in Handlers, q \in Runs :
        at'[h][q] = IF q = r /\ h = "reap" THEN "idle"
                    ELSE IF q = r /\ h = "execute" THEN "detached" ELSE at[h][q]
  BY <1>t, <1>1 DEF Inv, TypeInv
<1>5. Created' = Created /\ \A q \in Runs : RetriesOf(q)' = RetriesOf(q)
  <2>1. Created' = Created
    BY <1>3 DEF Created
  <2>2. \A n \in Created : runs'[n].retryOf = runs[n].retryOf
    BY <1>3 DEF Created
  <2> QED BY <2>1, <2>2 DEF RetriesOf
<1>6. /\ RetriesOf(r) = {} /\ at["gate"][r] \in {"idle", "rejecting", "clearing"}
      /\ at["cancel"][r] \notin Recovering
  BY <1>1 DEF OwnInv, Revivable, Suspect
<1>7. EndedOver'
  <2> SUFFICES ASSUME NEW h \in Handlers, NEW q \in Runs, at'[h][q] \in Recovering
               PROVE  runs'[q].status \in Over
    BY DEF EndedOver
  <2>1. q # r
    BY <1>t, <1>4, <1>6 DEF Recovering, Lost
  <2> QED BY <1>3, <1>4, <2>1 DEF OwnInv, EndedOver
<1>8. RetriedOver'
  <2> SUFFICES ASSUME NEW n \in Created', runs'[n].retryOf # NoRun
               PROVE  runs'[n].retryOf \in Runs /\ runs'[runs'[n].retryOf].status \in Over
    BY DEF RetriedOver
  <2>1. n \in Created /\ n \in Runs /\ runs'[n].retryOf = runs[n].retryOf
    BY <1>3, <1>5 DEF Created
  <2>2. runs[n].retryOf \in Runs /\ runs[runs[n].retryOf].status \in Over
    BY <2>1 DEF OwnInv, RetriedOver
  <2>3. runs[n].retryOf # r
    BY <1>6, <2>1 DEF RetriesOf
  <2> QED BY <1>3, <2>1, <2>2, <2>3
<1>9. Revivable'
  <2>1. \A q \in Runs : Suspect(q)' => q # r /\ Suspect(q)
    BY <1>t, <1>4 DEF Suspect
  <2> QED BY <1>t, <1>4, <1>5, <2>1 DEF OwnInv, Revivable
<1>10. ASSUME NEW q \in Runs, Kept(q) PROVE Kept(q)'
  <2>1. CASE q = r
    BY <1>3, <2>1, StatusKinds DEF Kept, IsAlive
  <2>2. CASE q # r
    <3>1. /\ runs'[q].status = runs[q].status /\ RetriesOf(q)' = RetriesOf(q)
          /\ \A h \in Handlers : at'[h][q] = at[h][q]
      BY <1>3, <1>4, <1>5, <2>2
    <3> QED BY <1>10, <3>1 DEF Kept, Promotes, IsAlive
  <2> QED BY <2>1, <2>2
<1>11. FoundKept' /\ Owned'
  BY <1>1, <1>10 DEF OwnInv, FoundKept, Owned, RowFree
<1> QED BY <1>7, <1>8, <1>9, <1>11 DEF OwnInv

(* Changes of the issue.                                                   *)
LEMMA ChangeKeeps ==
  ASSUME OwnInv, Close \/ Blockers \/ Sweep \/ \E a \in Agents : Assign(a)
  PROVE  OwnInv'
<1>1. UNCHANGED <<runs, at, deferred, tx, dropped>>
  BY DEF Close, Blockers, Sweep, Assign
<1> QED BY <1>1, RestKeeps DEF SameRows, IsAlive

-----------------------------------------------------------------------------
(* Steps that create a run: a run that is to come is kept                  *)

(* Handlers return, or have yet to release the issue.                      *)
Subsides ==
  \A h \in Handlers, q \in Runs :
    \/ at'[h][q] \in {"idle", at[h][q]}
    \/ h \in {"execute", "reap"} /\ at[h][q] \in Recovering /\ at'[h][q] \in {"releasing", "closing"}

LEMMA SubsidesEnds ==
  ASSUME Subsides
  PROVE  \A h \in Handlers, q \in Runs :
           /\ at'[h][q] \in Ends => at[h][q] \in Ends
           /\ at'[h][q] \in Recovering => at[h][q] \in Recovering
BY DEF Subsides, Ends, Recovering, Lost

LEMMA SubsidesRevives ==
  ASSUME OwnInv, Subsides, \A q \in Runs : Suspect(q)' => RetriesOf(q)' = RetriesOf(q)
  PROVE  Revivable'
<1>t. Handlers = {"execute", "cancel", "reap", "gate"}
  BY DEF Handlers
<1>1. ASSUME NEW q \in Runs
      PROVE  /\ at'["gate"][q] \in {"idle", at["gate"][q]}
             /\ at'["cancel"][q] \in {"idle", at["cancel"][q]}
             /\ at'["execute"][q] = "orphan" => at["execute"][q] = "orphan"
             /\ at'["reap"][q] = "listed" => at["reap"][q] = "listed"
  BY <1>t DEF Subsides
<1>2. "idle" \notin Recovering
  BY DEF Recovering, Lost
<1> QED BY <1>1, <1>2 DEF OwnInv, Revivable, Suspect

LEMMA AddKeeps ==
  ASSUME Inv, OwnInv, NEW st, NEW a, NEW W, NEW of, Added(st, a, W, of), Room(of),
         of # NoRun => runs[of].status \in Over /\ ~Suspect(of)', RowFree', Subsides
  PROVE  OwnInv'
<1>1. /\ Fresh \in Runs /\ runs'[Fresh] = Row(st, a, W, of)
      /\ Created' = Created \cup {Fresh} /\ \A q \in Created : runs'[q] = runs[q]
  BY AddedRows
<1>2. /\ runs'[Fresh].status = st /\ runs'[Fresh].retryOf = of
      /\ st \in Alive /\ of \in Runs \cup {NoRun}
  BY <1>1, StatusKinds DEF Added, Row
<1>3. \A q \in Runs : runs[q].status \in Over => runs'[q].status \in Over
  BY <1>1, StatusKinds DEF Created
<1>4. EndedOver'
  BY <1>3, SubsidesEnds DEF OwnInv, EndedOver
<1>5. RetriedOver'
  <2> SUFFICES ASSUME NEW n \in Created', runs'[n].retryOf # NoRun
               PROVE  runs'[n].retryOf \in Runs /\ runs'[runs'[n].retryOf].status \in Over
    BY DEF RetriedOver
  <2>1. CASE n = Fresh
    BY <1>2, <1>3, <2>1
  <2>2. CASE n # Fresh
    <3>1. n \in Created /\ runs'[n] = runs[n]
      BY <1>1, <2>2
    <3>2. runs[n].retryOf \in Runs /\ runs[runs[n].retryOf].status \in Over
      BY <3>1 DEF OwnInv, RetriedOver
    <3> QED BY <1>3, <3>1, <3>2
  <2> QED BY <2>1, <2>2
<1>6. FoundKept'
  BY DEF FoundKept, RowFree
<1>7. Owned'
  BY <1>1, <1>2 DEF Owned, Kept, IsAlive
<1>8. Revivable'
  <2>1. ASSUME NEW q \in Runs, q # of PROVE RetriesOf(q)' = RetriesOf(q)
    <3>1. \A n : n \in RetriesOf(q)' <=> n \in RetriesOf(q)
      BY <1>1, <1>2, <2>1, FreshIsNew, PlainBounded, Finite, RunsFinite DEF RetriesOf
    <3> QED BY <3>1
  <2>2. \A q \in Runs : Suspect(q)' => q # of
    BY NoRunIsNone
  <2> QED BY <2>1, <2>2, SubsidesRevives
<1> QED BY <1>4, <1>5, <1>6, <1>7, <1>8 DEF OwnInv

LEMMA RetryKeeps ==
  ASSUME Inv, OwnInv, NEW r \in Runs,
         ScheduleRetry(r) \/ RetryForComment(r) \/ RetryLost(r)
  PROVE  OwnInv'
<1>t. {"execute", "reap"} \subseteq Handlers
  BY DEF Handlers
<1>e. /\ "idle" \notin Ends /\ {"lost", "interrupted"} = Lost /\ Lost \subseteq Recovering
      /\ {"finishing", "succeeding", "releasing"} \subseteq Recovering /\ Recovering \subseteq Ends
  BY DEF Ends, Recovering, Lost
<1>1. ASSUME NEW st \in {"scheduled_retry", "queued"}, NEW h \in {"execute", "reap"},
             NEW to \in {"releasing", "closing", "idle"}, at[h][r] \in Recovering,
             at' = [at EXCEPT ![h][r] = to], MayRetry(r), Retried(r, st), RowFree, UNCHANGED tx
      PROVE  OwnInv'
  <2>1. Added(st, runs[r].agent, Context(r), r)
    <3>1. runs[r] \in Run
      BY DEF Inv, TypeInv
    <3> QED BY <1>1, <3>1 DEF Added, Retried, Context, Run
  <2>2. Room(r) /\ r # NoRun
    BY <1>1, NoRunIsNone DEF Room, MayRetry
  <2>3. runs[r].status \in Over
    BY <1>1, <1>t DEF OwnInv, EndedOver
  <2>4. \A g \in Handlers, q \in Runs :
          at'[g][q] = IF g = h /\ q = r THEN to ELSE at[g][q]
    BY <1>1, <1>t DEF Inv, TypeInv
  <2>5. Subsides
    BY <1>1, <2>4 DEF Subsides
  <2>6. ~Suspect(r)'
    BY <1>t, <2>4 DEF Suspect
  <2>7. RowFree'
    BY <1>1 DEF RowFree
  <2> QED BY <2>1, <2>2, <2>3, <2>5, <2>6, <2>7, AddKeeps
<1>2. CASE ScheduleRetry(r)
  BY <1>1, <1>2, <1>e DEF ScheduleRetry, Moves
<1>5. CASE RetryForComment(r)
  <2>1. PICK to \in {"releasing", "closing"} :
          /\ at["execute"][r] \in {"finishing", "succeeding"}
          /\ at' = [at EXCEPT !["execute"][r] = to]
    BY <1>5 DEF RetryForComment, Moves
  <2>2. MayRetry(r) /\ Retried(r, "queued") /\ RowFree /\ UNCHANGED tx
    BY <1>5 DEF RetryForComment
  <2> QED BY <1>1, <1>e, <2>1, <2>2
<1>3. CASE RetryLost(r) /\ RetriesOf(r) = {}
  BY <1>1, <1>3, <1>e DEF RetryLost
<1>4. CASE RetryLost(r) /\ RetriesOf(r) # {}
  <2>1. /\ at' = [at EXCEPT !["reap"][r] = "idle"] /\ at["reap"][r] \in Lost
        /\ UNCHANGED <<runs, deferred, tx, dropped>> /\ RowFree
    BY <1>4, <1>e DEF RetryLost
  <2>2. \A g \in Handlers, q \in Runs :
          at'[g][q] = IF g = "reap" /\ q = r THEN "idle" ELSE at[g][q]
    BY <1>t, <2>1 DEF Inv, TypeInv
  <2>3. SameRows
    BY <2>1 DEF SameRows
  <2>4. EndedOver' /\ RetriedOver'
    BY <1>e, <2>2, <2>3, OverSaved
  <2>8. Revivable'
    <3>1. Subsides
      BY <2>2 DEF Subsides
    <3> QED BY <2>3, <3>1, SameRetries, SubsidesRevives
  <2>5. \A q \in Runs : RetriesOf(q)' = RetriesOf(q)
    BY <2>3, SameRetries
  <2>6. ASSUME NEW q \in Runs, Kept(q) PROVE Kept(q)'
    <3>1. CASE IsAlive(q)
      BY <2>1, <3>1 DEF Kept, IsAlive
    <3>2. ASSUME NEW g \in Handlers, Promotes(g, q) PROVE Kept(q)'
      <4>1. ~(g = "reap" /\ q = r)
        BY <1>4, <2>1, <3>2 DEF Promotes
      <4>2. at'[g][q] = at[g][q]
        BY <2>2, <4>1
      <4> QED BY <2>5, <3>2, <4>2 DEF Promotes, Kept
    <3> QED BY <2>6, <3>1, <3>2 DEF Kept
  <2>7. FoundKept' /\ Owned'
    BY <2>1, <2>6 DEF OwnInv, FoundKept, Owned, RowFree
  <2> QED BY <2>4, <2>7, <2>8 DEF OwnInv
<1> QED BY <1>2, <1>3, <1>4, <1>5

-----------------------------------------------------------------------------
(* Releases: promoted, emptied, left to a run that is not over, or dropped *)

(* No row changes its status, and no handler comes to an end of a run.     *)
LEMMA RowsRest ==
  ASSUME OwnInv,
         \A q \in Runs : runs'[q].status = runs[q].status /\ runs'[q].retryOf = runs[q].retryOf,
         \A h \in Handlers, q \in Runs : at'[h][q] \in Recovering => at[h][q] \in Recovering
  PROVE  EndedOver' /\ RetriedOver' /\ SameRows
<1>1. SameRows
  BY DEF SameRows
<1> QED BY <1>1, OverSaved

LEMMA LeftKeeps ==
  ASSUME Inv, OwnInv, UNCHANGED runs, RowFree', Revivable',
         \A h \in Handlers, q \in Runs : at'[h][q] \in Recovering => at[h][q] \in Recovering,
         deferred' = <<>> \/ dropped' \/ \E q \in Runs : IsAlive(q)
  PROVE  OwnInv'
<1>1. EndedOver' /\ RetriedOver'
  BY RowsRest
<1>2. FoundKept'
  BY DEF FoundKept, RowFree
<1>3. Owned'
  BY DEF Owned, Kept, IsAlive
<1> QED BY <1>1, <1>2, <1>3 DEF OwnInv

LEMMA SubsidesKeeps ==
  ASSUME Inv, OwnInv, UNCHANGED runs, RowFree', Subsides,
         deferred' = <<>> \/ dropped' \/ \E q \in Runs : IsAlive(q)
  PROVE  OwnInv'
<1>1. \A q \in Runs : RetriesOf(q)' = RetriesOf(q)
  BY DEF RetriesOf, Created
<1>2. Revivable'
  BY <1>1, SubsidesRevives
<1> QED BY <1>2, SubsidesEnds, LeftKeeps

LEMMA ReturnsRest ==
  ASSUME Inv, OwnInv, NEW h \in Handlers, NEW r \in Runs, Returns(h, r)
  PROVE  /\ RowFree' /\ Subsides
         /\ at[h][r] = "releasing" => runs[r].status \in Over /\ ~Suspect(r)'
<1>1. /\ at' = [at EXCEPT ![h][r] = "idle"] /\ RowFree /\ UNCHANGED tx
  BY DEF Returns
<1>2. \A g \in Handlers, q \in Runs :
        at'[g][q] = IF g = h /\ q = r THEN "idle" ELSE at[g][q]
  BY <1>1 DEF Inv, TypeInv
<1>3. Subsides
  BY <1>2 DEF Subsides
<1>4. ASSUME at[h][r] = "releasing" PROVE runs[r].status \in Over /\ ~Suspect(r)'
  <2>1. at[h][r] \in Recovering /\ Handlers = {"execute", "cancel", "reap", "gate"}
    BY <1>4 DEF Recovering, Handlers
  <2>2. runs[r].status \in Over
    BY <2>1 DEF OwnInv, EndedOver
  <2>3. h # "gate"
    BY <1>4 DEF OwnInv, Revivable
  <2>4. h = "cancel" => at["execute"][r] # "orphan"
    BY <2>1 DEF OwnInv, Revivable
  <2>5. ~Suspect(r)'
    BY <1>2, <2>1, <2>3, <2>4 DEF Suspect
  <2> QED BY <2>2, <2>5
<1> QED BY <1>1, <1>3, <1>4 DEF RowFree

LEMMA ReleaseKeeps ==
  ASSUME Inv, OwnInv, NEW r \in Runs, Releases(r)
  PROVE  OwnInv'
<1>t. "execute" \in Handlers
  BY DEF Handlers
<1>1. CASE ReleaseBlocked(r)
  <2>1. Returns("execute", r) /\ UNCHANGED <<runs, deferred>>
    BY <1>1 DEF ReleaseBlocked
  <2>2. deferred' = <<>> \/ dropped'
    BY <1>1, Zenon DEF ReleaseBlocked
  <2> QED BY <1>t, <2>1, <2>2, ReturnsRest, SubsidesKeeps
<1>2. ASSUME NEW h \in Handlers, ReleaseToOther(h, r) PROVE OwnInv'
  <2>1. /\ Returns(h, r) /\ UNCHANGED <<runs, deferred>> /\ issue.run # NoRun
        /\ issue.run \in Runs \cup {NoRun}
    BY <1>2 DEF ReleaseToOther, HeldByOther, Inv, TypeInv, IssueRow
  <2>2. deferred' = <<>> \/ dropped' \/ IsAlive(issue.run)
    BY <1>2, Zenon DEF ReleaseToOther
  <2>3. deferred' = <<>> \/ dropped' \/ \E q \in Runs : IsAlive(q)
    BY <2>1, <2>2
  <2> QED BY <2>1, <2>3, ReturnsRest, SubsidesKeeps
<1>3. ASSUME NEW h \in Handlers, NEW k \in DOMAIN deferred, ReleasePromoting(h, r, k)
      PROVE  OwnInv'
  <2>1. Returns(h, r) /\ Promoted(deferred[k])
    BY <1>3 DEF ReleasePromoting
  <2>2. DOMAIN deferred = 1..Len(deferred) /\ deferred[k] \in Request
    BY LenProperties, ElementOfSeq DEF Inv, TypeInv
  <2>3. Added("queued", deferred[k].agent, deferred[k].wakes, NoRun)
    BY <2>1, <2>2 DEF Added, Promoted, Request
  <2>4. Room(NoRun)
    BY <2>2, PlainBounded, Finite, RunsFinite DEF Room
  <2> QED BY <2>1, <2>3, <2>4, ReturnsRest, AddKeeps
<1>4. ASSUME NEW h \in Handlers, ReleaseOnly(h, r) PROVE OwnInv'
  <2>1. Returns(h, r) /\ UNCHANGED runs /\ deferred' = <<>>
    BY <1>4 DEF ReleaseOnly
  <2> QED BY <2>1, ReturnsRest, SubsidesKeeps
<1>5. ASSUME NEW h \in Handlers, ReleaseRecovering(h, r) PROVE OwnInv'
  <2>1. Returns(h, r) /\ deferred' = <<>>
    BY <1>5 DEF ReleaseRecovering
  <2>2. CASE MayRetry(r)
    <3>1. runs' = [runs EXCEPT ![Fresh] = Row("queued", runs[r].agent, {}, r)]
      BY <1>5, <2>2 DEF ReleaseRecovering
    <3>2. Added("queued", runs[r].agent, {}, r)
      BY <3>1 DEF Added, Inv, TypeInv, Run
    <3>3. at[h][r] = "releasing"
      BY <1>5 DEF ReleaseRecovering, Recoverable
    <3>4. Room(r)
      BY <2>2, NoRunIsNone DEF Room, MayRetry
    <3> QED BY <2>1, <3>2, <3>3, <3>4, ReturnsRest, AddKeeps
  <2>3. CASE ~MayRetry(r)
    <3>1. UNCHANGED runs
      BY <1>5, <2>3 DEF ReleaseRecovering
    <3> QED BY <2>1, <3>1, ReturnsRest, SubsidesKeeps
  <2> QED BY <2>2, <2>3
<1> QED BY <1>1, <1>2, <1>3, <1>4, <1>5 DEF Releases, Release

(* A gate that promotes nothing.                                           *)
LEMMA ClearKeeps ==
  ASSUME Inv, OwnInv, NEW r \in Runs, Clear(r)
  PROVE  OwnInv'
<1>1. /\ RowFree' /\ UNCHANGED <<runs, deferred>>
      /\ at' = [at EXCEPT !["gate"][r] = "idle"] /\ "gate" \in Handlers
  BY DEF Clear, Moves, RowFree, Handlers
<1>2. deferred' = <<>> \/ dropped'
  BY Zenon DEF Clear
<1>3. Subsides
  BY <1>1 DEF Subsides, Inv, TypeInv
<1> QED BY <1>1, <1>2, <1>3, SubsidesKeeps

(* A restart drops what a handler of a run's end had still to release; a   *)
(* run that is not over outlives it.                                       *)
LEMMA CrashKeeps ==
  ASSUME Inv, OwnInv, Crash
  PROVE  OwnInv'
<1>1. RowFree /\ RowFree' /\ UNCHANGED <<runs, deferred>>
  BY DEF Crash, RowFree
<1>2. \A h \in Handlers, q \in Runs : at'[h][q] = Left(h, q)
  BY DEF Crash
<1>6. \A h \in Handlers, q \in Runs :
        Left(h, q) = "idle" \/ (h = "execute" /\ Left(h, q) \in {"orphan", "detached"})
  BY DEF Left, Outlives
<1>7. Handlers = {"execute", "cancel", "reap", "gate"} /\ "idle" \notin Recovering
  BY EndsAreSteps DEF Handlers
<1>8. Revivable'
  BY <1>2, <1>6, <1>7 DEF Revivable, Suspect
<1>9. \A h \in Handlers, q \in Runs : at'[h][q] \notin Recovering
  BY <1>2, <1>6, EndsAreSteps
<1>3. dropped' <=> (dropped \/ \E q \in Runs : Ending(q))
  BY Zenon DEF Crash
<1>4. ASSUME NEW q \in Runs, Kept(q), ~IsAlive(q) PROVE Ending(q)
  BY <1>4 DEF Kept, Promotes, Ending, Ends, Recovering, Lost
<1>5. deferred' = <<>> \/ dropped' \/ \E q \in Runs : IsAlive(q)
  <2>1. CASE deferred = <<>> \/ dropped
    BY <1>1, <1>3, <2>1
  <2>2. CASE \E q \in Runs : Kept(q)
    BY <1>3, <1>4, <2>2
  <2> QED BY <1>1, <2>1, <2>2 DEF OwnInv, Owned
<1> QED BY <1>1, <1>5, <1>8, <1>9, LeftKeeps

-----------------------------------------------------------------------------
(* enqueueWakeup: what it parks, it parks behind a run that is kept        *)

LEMMA OpenKeeps ==
  ASSUME Inv, OwnInv, NEW w \in Wakes, Open(w)
  PROVE  OwnInv'
<1> DEFINE held == IF issue.run # NoRun /\ IsAlive(issue.run) THEN issue.run ELSE NoRun
           keeps == held # NoRun /\ ~StaleHolder(held)
           left == IF keeps THEN runs ELSE Cancelled(runs, held)
           legacy == Legacy(left)
           stale == /\ ~keeps /\ legacy # NoRun
                    /\ left[legacy].status = "scheduled_retry"
                    /\ left[legacy].agent # issue.assignee
           found == IF keeps THEN held ELSE IF stale THEN NoRun ELSE legacy
<1>1. /\ runs' = IF stale THEN Cancelled(left, legacy) ELSE left
      /\ tx' = [wake |-> w, run |-> found,
                status |-> IF found = NoRun THEN "absent" ELSE runs[found].status]
      /\ UNCHANGED at
  BY DEF Open
<1>2. issue.run \in Runs \cup {NoRun}
  BY DEF Inv, TypeInv, IssueRow
<1>3. held \in Runs \cup {NoRun} /\ (held # NoRun => runs[held].status \in Alive)
  BY <1>2 DEF IsAlive
<1>4. Cut(runs)
  BY DEF Cut, Inv, TypeInv
<1>5. Cut(left)
  BY <1>3, <1>4, CancelledCut
<1>6. legacy = NoRun \/ (legacy \in Runs /\ left[legacy].status \in Alive)
  BY LegacyFinds
<1>7. Cut(runs')
  BY <1>1, <1>5, <1>6, CancelledCut
<1>8. found # NoRun => found \in Runs /\ runs'[found].status \in Alive
  BY <1>1, <1>3, <1>6
<1> HIDE DEF found, stale, legacy, left, keeps, held
<1>9. SameRows
  BY <1>7, StatusKinds DEF Cut, SameRows
<1>10. EndedOver' /\ RetriedOver'
  BY <1>1, <1>9, OverSaved
<1>11. FoundKept'
  BY <1>1, <1>8 DEF FoundKept, Kept, IsAlive
<1>12. Owned'
  BY <1>1, NoRunIsNone DEF Owned, RowFree
<1>13. Revivable'
  BY <1>1, <1>9, SameRetries DEF OwnInv, Revivable, Suspect
<1> QED BY <1>10, <1>11, <1>12, <1>13 DEF OwnInv

(* The run a transaction found is kept when it commits.                    *)
LEMMA CommitKeeps ==
  ASSUME Inv, OwnInv, NEW w \in Wakes, Commit(w), tx.run # NoRun,
         \A q \in Runs : runs'[q].status = runs[q].status /\ runs'[q].retryOf = runs[q].retryOf
  PROVE  OwnInv'
<1>1. tx.wake = w /\ w # NoWake /\ tx' = NoTx /\ UNCHANGED <<at, dropped>>
  BY NoRunIsNone DEF Commit
<1>2. EndedOver' /\ RetriedOver' /\ SameRows
  BY <1>1, RowsRest
<1>3. FoundKept' 
  BY <1>1 DEF FoundKept, NoTx
<1>4. tx.run \in Runs /\ Kept(tx.run)
  BY <1>1 DEF OwnInv, FoundKept
<1>5. ASSUME NEW q \in Runs, Kept(q) PROVE Kept(q)'
  <2>1. IsAlive(q) => runs'[q].status \in Alive
    BY DEF IsAlive
  <2> QED BY <1>1, <1>2, <1>5, <2>1, KeptStays
<1>6. Owned'
  BY <1>4, <1>5 DEF Owned
<1>7. Revivable'
  BY <1>1, <1>2, SameRetries DEF OwnInv, Revivable, Suspect
<1> QED BY <1>2, <1>3, <1>6, <1>7 DEF OwnInv

LEMMA WakeKeeps ==
  ASSUME Inv, OwnInv, NEW w \in Wakes, WakeStep(w)
  PROVE  OwnInv'
<1>1. CASE Merge(w)
  <2>1. /\ Commit(w) /\ tx.run # NoRun
        /\ runs' = IF runs[tx.run].begun
                   THEN [runs EXCEPT ![tx.run].missed = @ \cup {w}]
                   ELSE [runs EXCEPT ![tx.run].wakes = @ \cup {w}]
    BY <1>1 DEF Merge, SameAgent
  <2>2. \A q \in Runs : runs'[q].status = runs[q].status /\ runs'[q].retryOf = runs[q].retryOf
    BY <2>1 DEF Inv, TypeInv, Run
  <2> QED BY <2>1, <2>2, CommitKeeps
<1>2. CASE Defer(w)
  BY <1>2, CommitKeeps DEF Defer
<1>3. CASE Queue(w)
  <2>1. /\ tx.wake = w /\ tx' = NoTx /\ UNCHANGED at
        /\ runs' = [runs EXCEPT ![Fresh] = Row("queued", AgentOf[w], {w}, NoRun)]
    BY <1>3 DEF Queue, Commit
  <2>2. Added("queued", AgentOf[w], {w}, NoRun)
    BY <2>1, QueueConstants DEF Added
  <2>3. Room(NoRun)
    BY <2>1, TxFacts, RunsFinite DEF Room
  <2>4. RowFree'
    BY <2>1 DEF RowFree, NoTx
  <2>5. Subsides
    BY <2>1 DEF Subsides
  <2> QED BY <2>2, <2>3, <2>4, <2>5, AddKeeps
<1>4. CASE SkipBlocked(w)
  <2>1. tx' = NoTx /\ UNCHANGED <<runs, deferred, at>>
    BY <1>4 DEF SkipBlocked
  <2>2. deferred' = <<>> \/ dropped'
    BY <1>4, Zenon DEF SkipBlocked
  <2>3. RowFree' /\ Subsides
    BY <2>1 DEF RowFree, NoTx, Subsides
  <2> QED BY <2>1, <2>2, <2>3, SubsidesKeeps
<1> QED BY <1>1, <1>2, <1>3, <1>4, OpenKeeps DEF WakeStep

-----------------------------------------------------------------------------
LEMMA OwnInit == Init => OwnInv
<1> SUFFICES ASSUME Init PROVE OwnInv
  OBVIOUS
<1>1. \A h \in Handlers, r \in Runs : at[h][r] = "idle"
  BY DEF Init
<1>2. \A r \in Runs : runs[r] = Absent
  BY DEF Init
<1>3. EndedOver
  BY <1>1, EndsAreSteps DEF EndedOver
<1>4. RetriedOver
  BY <1>2 DEF RetriedOver, Created, Absent
<1>5. FoundKept /\ Owned
  BY DEF Init, FoundKept, Owned, NoTx
<1>6. Revivable
  BY <1>1, EndsAreSteps DEF Revivable, Suspect, Handlers
<1> QED BY <1>3, <1>4, <1>5, <1>6 DEF OwnInv

LEMMA OwnInductive == Inv /\ OwnInv /\ [Next]_vars => OwnInv'
<1> SUFFICES ASSUME Inv, OwnInv, [Next]_vars PROVE OwnInv'
  OBVIOUS
<1>1. CASE UNCHANGED vars
  BY <1>1, RestKeeps DEF vars, SameRows, IsAlive
<1>2. ASSUME NEW r \in Runs, RunStep(r) PROVE OwnInv'
  <2>1. CASE ExecuteStep(r)
    BY <2>1, ClaimKeeps, ExecuteKeeps, RetryKeeps DEF ExecuteStep
  <2>2. CASE GateStep(r)
    BY <2>2, ClaimKeeps, ClearKeeps, ExecuteKeeps DEF GateStep
  <2>3. CASE CancelStep(r)
    BY <2>3, EndKeeps DEF CancelStep
  <2>4. CASE ReapStep(r)
    BY <2>4, EndKeeps, DetachKeeps, RetryKeeps DEF ReapStep
  <2>5. CASE ChildEnds(r) \/ Releases(r)
    BY <2>5, EndKeeps, ReleaseKeeps
  <2> QED BY <1>2, <2>1, <2>2, <2>3, <2>4, <2>5 DEF RunStep
<1> QED BY <1>1, <1>2, WakeKeeps, ChangeKeeps, CrashKeeps DEF Next

(* A parked request is left without a run or a handler that will promote   *)
(* it only in the ways that set "dropped", for any number of wake-ups,     *)
(* agents and retries and in every order of their steps: what              *)
(* enqueueWakeup parks, it parks behind a run whose end is still to come,  *)
(* although it holds the issue row only and not the row of that run.       *)
THEOREM OwnedCorrect == Spec => []OwnedUnlessDropped
<1>1. OwnInv => OwnedUnlessDropped
  <2> SUFFICES ASSUME OwnInv, ~dropped, deferred # <<>>, RowFree
               PROVE  AliveRuns # {} \/ \E r \in Runs : InHand(r)
    BY DEF OwnedUnlessDropped, DeferredHasOwner
  <2>1. PICK r \in Runs : Kept(r)
    BY DEF OwnInv, Owned
  <2>2. CASE IsAlive(r)
    BY <2>2 DEF AliveRuns
  <2>3. ASSUME NEW h \in Handlers, Promotes(h, r) PROVE InHand(r)
    BY <2>3 DEF Promotes, Ends, Recovering, Lost, InHand
  <2> QED BY <2>1, <2>2, <2>3 DEF Kept
<1>2. Init => Inv /\ OwnInv
  BY InitTrue, OwnInit
<1>3. Inv /\ OwnInv /\ [Next]_vars => (Inv /\ OwnInv)'
  BY InvInductive, OwnInductive
<1> QED BY <1>1, <1>2, <1>3, PTL DEF Spec

-----------------------------------------------------------------------------
(* What is parked, closed or in a context has one place                   *)

(* Only what has been accepted is parked, in one request.                  *)
ParkedIn == \A i \in DOMAIN deferred : \A w \in deferred[i].wakes : w \in Wakes /\ wake[w] = "in"

ParkedOnce ==
  \A i, j \in DOMAIN deferred : i # j => deferred[i].wakes \cap deferred[j].wakes = {}

(* Only what has been accepted and is not parked is in a context, and in   *)
(* the contexts of one work.                                               *)
PlacedIn == \A r \in Created : \A w \in Context(r) : wake[w] = "in" /\ ~Parking(w)

OneWork == \A r, n \in Created : \A w \in Context(r) \cap Context(n) : Work(r) = Work(n)

PlaceInv == ParkedIn /\ ParkedOnce /\ PlacedIn /\ OneWork

LEMMA WorksOfIs ==
  \A w, k : k \in WorksOf(w) <=> \E n \in Created : w \in Context(n) /\ k = Work(n)
BY DEF WorksOf

LEMMA WorkTyped ==
  ASSUME Inv, OwnInv, NEW r \in Created
  PROVE  Work(r) \in Created /\ Work(r) \in Runs
<1>1. r \in Runs /\ Created \subseteq Runs
  BY Finite
<1>2. runs[r].retryOf # NoRun => runs[r].retryOf \in Created
  BY StatusKinds DEF OwnInv, RetriedOver, Created
<1> QED BY <1>1, <1>2 DEF Work

(* What the contexts and works of the rows become.                         *)
SameContexts == \A q \in Created : Context(q)' = Context(q) /\ Work(q)' = Work(q)

-----------------------------------------------------------------------------
(* Steps that leave wake-ups, requests and contexts alone                  *)

Quiet ==
  /\ UNCHANGED <<deferred, wake>>
  /\ \A q \in Runs : /\ (runs'[q].status = "absent") <=> (runs[q].status = "absent")
                     /\ runs'[q].retryOf = runs[q].retryOf
                     /\ runs'[q].wakes = runs[q].wakes /\ runs'[q].missed = runs[q].missed

(* No run is created, or one that continues the work of another.           *)
Continues ==
  /\ Created \subseteq Created' /\ SameContexts
  /\ \A f \in Created' \ Created : \E r \in Created :
       Context(f)' \subseteq Context(r) /\ Work(f)' = Work(r)

LEMMA QuietContinues == Quiet => Continues
<1> SUFFICES ASSUME Quiet PROVE Continues
  OBVIOUS
<1>1. Created' = Created
  BY DEF Quiet, Created
<1>2. SameContexts
  BY DEF Quiet, SameContexts, Context, Work, Created
<1> QED BY <1>1, <1>2 DEF Continues

LEMMA ContinuesWorks ==
  ASSUME PlaceInv, Continues
  PROVE  /\ \A w : WorksOf(w)' = WorksOf(w)
         /\ OneWork'
         /\ \A r \in Created' : \A w \in Context(r)' : \E q \in Created : w \in Context(q)
<1>1. \A r \in Created' : \E q \in Created :
        Context(r)' \subseteq Context(q) /\ Work(r)' = Work(q)
  <2> SUFFICES ASSUME NEW r \in Created'
               PROVE  \E q \in Created : Context(r)' \subseteq Context(q) /\ Work(r)' = Work(q)
    OBVIOUS
  <2>1. CASE r \in Created
    BY <2>1 DEF Continues, SameContexts
  <2>2. CASE r \notin Created
    BY <2>2 DEF Continues
  <2> QED BY <2>1, <2>2
<1>2. ASSUME NEW w PROVE WorksOf(w)' = WorksOf(w)
  <2>1. ASSUME NEW k \in WorksOf(w) PROVE k \in WorksOf(w)'
    <3>1. PICK n \in Created : w \in Context(n) /\ k = Work(n)
      BY <2>1, WorksOfIs
    <3>2. n \in Created' /\ w \in Context(n)' /\ k = Work(n)'
      BY <3>1 DEF Continues, SameContexts
    <3> QED BY <3>2 DEF WorksOf
  <2>2. ASSUME NEW k \in WorksOf(w)' PROVE k \in WorksOf(w)
    <3>1. PICK n \in Created' : w \in Context(n)' /\ k = Work(n)'
      BY <2>2 DEF WorksOf
    <3>2. PICK q \in Created : Context(n)' \subseteq Context(q) /\ Work(n)' = Work(q)
      BY <1>1
    <3> QED BY <3>1, <3>2, WorksOfIs
  <2> QED BY <2>1, <2>2
<1>3. OneWork'
  <2> SUFFICES ASSUME NEW r \in Created', NEW n \in Created', NEW w \in Context(r)',
                      w \in Context(n)'
               PROVE  Work(r)' = Work(n)'
    BY DEF OneWork
  <2>1. PICK q \in Created : Context(r)' \subseteq Context(q) /\ Work(r)' = Work(q)
    BY <1>1
  <2>2. PICK p \in Created : Context(n)' \subseteq Context(p) /\ Work(n)' = Work(p)
    BY <1>1
  <2>3. Work(q) = Work(p)
    BY <2>1, <2>2 DEF PlaceInv, OneWork
  <2> QED BY <2>1, <2>2, <2>3
<1>4. \A r \in Created' : \A w \in Context(r)' : \E q \in Created : w \in Context(q)
  BY <1>1
<1> QED BY <1>2, <1>3, <1>4

LEMMA LedgerRests ==
  ASSUME PlaceInv, Continues, UNCHANGED <<deferred, wake>>
  PROVE  PlaceInv' /\ UNCHANGED Ledger!vars
<1>1. /\ \A w : WorksOf(w)' = WorksOf(w) /\ Parking(w)' = Parking(w)
      /\ OneWork'
      /\ \A r \in Created' : \A w \in Context(r)' : \E q \in Created : w \in Context(q)
  BY ContinuesWorks DEF Parking
<1>2. ParkedIn' /\ ParkedOnce'
  BY DEF PlaceInv, ParkedIn, ParkedOnce
<1>3. PlacedIn'
  BY <1>1 DEF PlaceInv, PlacedIn
<1>4. UNCHANGED Ledger!vars
  BY <1>1 DEF Ledger!vars
<1> QED BY <1>1, <1>2, <1>3, <1>4 DEF PlaceInv

LEMMA StatusContinues ==
  ASSUME Inv, NEW r \in Created, NEW st \in Alive \cup Over, SetStatus(r, st),
         UNCHANGED <<deferred, wake>>
  PROVE  Continues
<1>1. /\ runs' = [runs EXCEPT ![r].status = st] /\ runs \in [Runs -> Run]
      /\ r \in Runs /\ runs[r].status # "absent" /\ st # "absent"
  BY StatusKinds DEF SetStatus, Inv, TypeInv, Created
<1>2. \A q \in Runs : /\ runs'[q].retryOf = runs[q].retryOf
                      /\ runs'[q].wakes = runs[q].wakes /\ runs'[q].missed = runs[q].missed
                      /\ runs'[q].status = IF q = r THEN st ELSE runs[q].status
  BY <1>1 DEF Run
<1>3. Quiet
  BY <1>1, <1>2 DEF Quiet
<1> QED BY <1>3, QuietContinues

LEMMA SameContinues == UNCHANGED <<runs, deferred, wake>> => Continues
BY QuietContinues DEF Quiet

(* Claims, starts, ends: a status at most.                                 *)
LEMMA StatusSteps ==
  ASSUME Inv, NEW r \in Runs,
         \/ Claim(r) \/ Stamp(r) \/ Reject(r) \/ GateWrites(r) \/ Clear(r)
         \/ Begin(r) \/ \E st \in {"succeeded", "failed"} : Finish(r, st)
         \/ Abort(r) \/ NoRetry(r) \/ PromoteRetry(r) \/ GateRetry(r)
         \/ Cancel(r) \/ CancelWrites(r) \/ CancelFirst(r) \/ Kill(r) \/ ChildEnds(r)
         \/ Drain(r) \/ List(r) \/ ReapSkips(r) \/ ReapDetaches(r) \/ ReapFails(r)
         \/ ReleaseLost(r)
  PROVE  Continues /\ UNCHANGED <<deferred, wake>>
<1>1. ASSUME Stamp(r) \/ Reject(r) \/ Clear(r) \/ NoRetry(r) \/ Cancel(r) \/ List(r)
             \/ Kill(r) \/ ChildEnds(r) \/ ReapSkips(r) \/ ReleaseLost(r)
      PROVE  Continues /\ UNCHANGED <<deferred, wake>>
  <2>1. UNCHANGED <<runs, deferred, wake>>
    BY <1>1 DEF Stamp, Reject, Clear, NoRetry, Cancel, List, Kill, ChildEnds, ReapSkips,
                ReleaseLost
  <2> QED BY <2>1, SameContinues
<1>2. ASSUME NEW st \in {"queued", "running", "cancelled", "succeeded", "failed", "interrupted"},
             SetStatus(r, st), UNCHANGED <<deferred, wake>>,
             \/ runs[r].status \in {"queued", "running", "scheduled_retry"}
             \/ \E h \in Handlers : at[h][r] # "idle"
      PROVE  Continues /\ UNCHANGED <<deferred, wake>>
  <2>1. r \in Created
    BY <1>2 DEF Inv, HandledExists, Created
  <2>2. st \in Alive \cup Over
    BY <1>2 DEF Alive, Over
  <2> QED BY <1>2, <2>1, <2>2, StatusContinues
<1>3. CASE Claim(r)
  BY <1>2, <1>3 DEF Claim
<1>4. CASE PromoteRetry(r) \/ GateRetry(r) \/ Drain(r)
  BY <1>2, <1>4 DEF PromoteRetry, GateRetry, Drain
<1>5. CASE CancelWrites(r) \/ CancelFirst(r) \/ ReapDetaches(r) \/ ReapFails(r)
           \/ GateWrites(r) \/ Abort(r)
  <2>1. {"cancel", "reap", "gate", "execute"} \subseteq Handlers
    BY DEF Handlers
  <2>2. CASE CancelWrites(r) \/ CancelFirst(r)
    BY <1>2, <2>1, <2>2 DEF CancelWrites, CancelFirst, Moves
  <2>3. CASE ReapDetaches(r) \/ ReapFails(r)
    BY <1>2, <2>1, <2>3 DEF ReapDetaches, ReapFails, Suspect, Moves
  <2>4. CASE GateWrites(r) \/ Abort(r)
    BY <1>2, <2>1, <2>4 DEF GateWrites, Abort, Moves
  <2> QED BY <1>5, <2>2, <2>3, <2>4
<1>6. ASSUME NEW st \in {"succeeded", "failed"}, Finish(r, st)
      PROVE  Continues /\ UNCHANGED <<deferred, wake>>
  BY <1>2, <1>6, SameContinues DEF Finish
<1>7. CASE Begin(r)
  <2>1. UNCHANGED <<deferred, wake>>
        /\ (UNCHANGED runs \/ runs' = [runs EXCEPT ![r].begun = TRUE])
    BY <1>7 DEF Begin
  <2>2. Quiet
    BY <2>1 DEF Quiet, Inv, TypeInv, Run
  <2> QED BY <2>1, <2>2, QuietContinues
<1> QED BY <1>1, <1>3, <1>4, <1>5, <1>6, <1>7

LEMMA ChangeSteps ==
  ASSUME Close \/ Blockers \/ Sweep \/ Crash \/ \E a \in Agents : Assign(a)
  PROVE  Continues /\ UNCHANGED <<deferred, wake>>
<1>1. UNCHANGED <<runs, deferred, wake>>
  BY DEF Close, Blockers, Sweep, Crash, Assign
<1> QED BY <1>1, SameContinues

LEMMA OpenContinues ==
  ASSUME Inv, NEW w \in Wakes, Open(w)
  PROVE  Continues /\ UNCHANGED <<deferred, wake>>
<1> DEFINE held == IF issue.run # NoRun /\ IsAlive(issue.run) THEN issue.run ELSE NoRun
           keeps == held # NoRun /\ ~StaleHolder(held)
           left == IF keeps THEN runs ELSE Cancelled(runs, held)
           legacy == Legacy(left)
           stale == /\ ~keeps /\ legacy # NoRun
                    /\ left[legacy].status = "scheduled_retry"
                    /\ left[legacy].agent # issue.assignee
<1>1. /\ runs' = IF stale THEN Cancelled(left, legacy) ELSE left
      /\ UNCHANGED <<deferred, wake>>
  BY DEF Open
<1>2. issue.run \in Runs \cup {NoRun}
  BY DEF Inv, TypeInv, IssueRow
<1>3. held \in Runs \cup {NoRun} /\ (held # NoRun => runs[held].status \in Alive)
  BY <1>2 DEF IsAlive
<1>4. Cut(runs)
  BY DEF Cut, Inv, TypeInv
<1>5. Cut(left)
  BY <1>3, <1>4, CancelledCut
<1>6. legacy = NoRun \/ (legacy \in Runs /\ left[legacy].status \in Alive)
  BY LegacyFinds
<1>7. Cut(runs')
  BY <1>1, <1>5, <1>6, CancelledCut
<1> HIDE DEF stale, legacy, left, keeps, held
<1>8. Quiet
  BY <1>1, <1>7, StatusKinds DEF Quiet, Cut
<1> QED BY <1>1, <1>8, QuietContinues

(* A retry, or a recovery run, continues the work of its run.              *)
LEMMA RetryContinues ==
  ASSUME Inv, OwnInv, NEW r \in Created, NEW st, NEW W,
         Added(st, runs[r].agent, W, r), W \subseteq Context(r), MayRetry(r)
  PROVE  Continues
<1>0. r \in Runs /\ r # NoRun /\ runs[r].retryOf = NoRun /\ Room(r)
  BY Finite, NoRunIsNone DEF MayRetry, Room
<1>1. /\ Fresh \notin Created /\ runs'[Fresh] = Row(st, runs[r].agent, W, r)
      /\ Created' = Created \cup {Fresh} /\ \A q \in Created : runs'[q] = runs[q]
  BY <1>0, AddedRows
<1>2. SameContexts
  BY <1>1 DEF SameContexts, Context, Work
<1>3. /\ runs'[Fresh].wakes = W /\ runs'[Fresh].missed = {} /\ runs'[Fresh].retryOf = r
  BY <1>1 DEF Row
<1>4. ASSUME NEW f \in Created' \ Created
      PROVE  Context(f)' \subseteq Context(r) /\ Work(f)' = Work(r)
  <2>1. f = Fresh
    BY <1>1
  <2>2. Context(f)' = W
    BY <1>3, <2>1 DEF Context
  <2> QED BY <1>0, <1>3, <2>1, <2>2 DEF Work
<1> QED BY <1>1, <1>2, <1>4 DEF Continues

LEMMA RetriesContinue ==
  ASSUME Inv, OwnInv, NEW r \in Runs,
         ScheduleRetry(r) \/ RetryForComment(r) \/ RetryLost(r)
  PROVE  Continues /\ UNCHANGED <<deferred, wake>>
<1>1. r \in Created
  <2>1. at["execute"][r] # "idle" \/ at["reap"][r] # "idle"
    BY DEF ScheduleRetry, RetryForComment, RetryLost, Moves
  <2>2. {"execute", "reap"} \subseteq Handlers
    BY DEF Handlers
  <2> QED BY <2>1, <2>2 DEF Inv, HandledExists
<1>2. /\ UNCHANGED <<deferred, wake>>
      /\ \/ UNCHANGED runs
         \/ \E st \in {"scheduled_retry", "queued"} : MayRetry(r) /\ Retried(r, st)
  BY DEF ScheduleRetry, RetryForComment, RetryLost
<1>3. ASSUME NEW st \in {"scheduled_retry", "queued"}, MayRetry(r), Retried(r, st)
      PROVE  Continues
  <2>1. Added(st, runs[r].agent, Context(r), r)
    <3>1. runs[r] \in Run
      BY DEF Inv, TypeInv
    <3> QED BY <1>3, <3>1 DEF Added, Retried, Context, Run
  <2> QED BY <1>1, <1>3, <2>1, RetryContinues
<1> QED BY <1>2, <1>3, SameContinues

-----------------------------------------------------------------------------
(* A wake-up is accepted                                                   *)

(* It has no place yet.                                                    *)
LEMMA NewHasNone ==
  ASSUME PlaceInv, NEW w \in Wakes, wake[w] = "new"
  PROVE  ~Parking(w) /\ WorksOf(w) = {} /\ (\A n \in Created : w \notin Context(n))
         /\ Ledger!New(w)
<1>1. ~Parking(w)
  BY DEF PlaceInv, ParkedIn, Parking
<1>2. \A n \in Created : w \notin Context(n)
  BY DEF PlaceInv, PlacedIn
<1>3. WorksOf(w) = {}
  BY <1>2 DEF WorksOf
<1>4. [v \in Wakes |-> WorksOf(v)][w] = {}
  BY <1>3
<1> QED BY <1>1, <1>2, <1>3, <1>4 DEF Ledger!New

Accepts(w, st) ==
  /\ wake \in [Wakes -> {"new", "in", "ended"}] /\ wake[w] = "new"
  /\ wake' = [wake EXCEPT ![w] = st]

(* Run r, there already or new, takes w into its context.                  *)
LEMMA JoinLedger ==
  ASSUME PlaceInv, NEW w \in Wakes, Accepts(w, "in"), UNCHANGED deferred,
         NEW r \in Created', Work(r)' \in Runs,
         Created \subseteq Created', Created' \subseteq Created \cup {r},
         \A n \in Created : /\ Context(n)' = IF n = r THEN Context(n) \cup {w} ELSE Context(n)
                            /\ Work(n)' = Work(n),
         r \notin Created => Context(r)' = {w}
  PROVE  PlaceInv' /\ Ledger!Next
<1>1. ~Parking(w) /\ WorksOf(w) = {} /\ Ledger!New(w)
      /\ \A n \in Created : w \notin Context(n)
  BY NewHasNone DEF Accepts
<1>2. /\ \A v \in Wakes : wake'[v] = IF v = w THEN "in" ELSE wake[v]
      /\ \A v : Parking(v)' = Parking(v)
  BY DEF Accepts, Parking
<1>3. ASSUME NEW n \in Created', NEW v, v # w
      PROVE  v \in Context(n)' <=> n \in Created /\ v \in Context(n)
  BY <1>3
<1>4. ASSUME NEW n \in Created' PROVE w \in Context(n)' <=> n = r
  BY <1>1
<1>5. ASSUME NEW v, v # w PROVE WorksOf(v)' = WorksOf(v)
  <2>1. ASSUME NEW k PROVE k \in WorksOf(v)' <=> k \in WorksOf(v)
    <3>1. k \in WorksOf(v)' <=> \E n \in Created' : v \in Context(n)' /\ k = Work(n)'
      BY DEF WorksOf
    <3>2. k \in WorksOf(v) <=> \E n \in Created : v \in Context(n) /\ k = Work(n)
      BY DEF WorksOf
    <3> QED BY <1>3, <1>5, <3>1, <3>2
  <2> QED BY <2>1
<1>6. WorksOf(w)' = {Work(r)'}
  <2>1. ASSUME NEW k PROVE k \in WorksOf(w)' <=> k = Work(r)'
    <3>1. k \in WorksOf(w)' <=> \E n \in Created' : w \in Context(n)' /\ k = Work(n)'
      BY DEF WorksOf
    <3> QED BY <1>4, <3>1
  <2> QED BY <2>1
<1>7. ParkedIn'
  BY <1>1, <1>2 DEF PlaceInv, ParkedIn, Parking
<1>8. ParkedOnce'
  BY DEF PlaceInv, ParkedOnce
<1>9. PlacedIn'
  <2> SUFFICES ASSUME NEW n \in Created', NEW v \in Context(n)'
               PROVE  wake'[v] = "in" /\ ~Parking(v)'
    BY DEF PlacedIn
  <2>1. CASE v = w
    BY <1>1, <1>2, <2>1
  <2>2. CASE v # w
    <3>1. n \in Created /\ v \in Context(n)
      BY <1>3, <2>2
    <3>2. wake[v] = "in" /\ ~Parking(v)
      BY <3>1 DEF PlaceInv, PlacedIn
    <3> QED BY <1>2, <2>2, <3>2 DEF Accepts
  <2> QED BY <2>1, <2>2
<1>10. OneWork'
  <2> SUFFICES ASSUME NEW n \in Created', NEW m \in Created', NEW v \in Context(n)',
                      v \in Context(m)'
               PROVE  Work(n)' = Work(m)'
    BY DEF OneWork
  <2>1. CASE v = w
    BY <1>4, <2>1
  <2>2. CASE v # w
    <3>1. n \in Created /\ m \in Created /\ v \in Context(n) /\ v \in Context(m)
      BY <1>3, <2>2
    <3> QED BY <3>1 DEF PlaceInv, OneWork
  <2> QED BY <2>1, <2>2
<1>11. Ledger!Join(w, Work(r)')
  <2>1. UNCHANGED {v \in Wakes : Parking(v)}
    BY <1>2
  <2>2. UNCHANGED {v \in Wakes : wake[v] = "ended"}
    BY <1>2 DEF Accepts
  <2>3. [v \in Wakes |-> WorksOf(v)]' =
          [v \in Wakes |-> IF v \in {w} THEN {Work(r)'} ELSE [u \in Wakes |-> WorksOf(u)][v]]
    BY <1>5, <1>6
  <2> QED BY <1>1, <2>1, <2>2, <2>3 DEF Ledger!Join, Ledger!Given
<1> QED BY <1>7, <1>8, <1>9, <1>10, <1>11 DEF PlaceInv, Ledger!Next

LEMMA MergeLedger ==
  ASSUME Inv, OwnInv, PlaceInv, NEW w \in Wakes, Merge(w)
  PROVE  PlaceInv' /\ Ledger!Next
<1>1. /\ tx.wake = w /\ wake' = [wake EXCEPT ![w] = "in"] /\ UNCHANGED deferred
      /\ tx.run # NoRun
      /\ runs' = IF runs[tx.run].begun
                 THEN [runs EXCEPT ![tx.run].missed = @ \cup {w}]
                 ELSE [runs EXCEPT ![tx.run].wakes = @ \cup {w}]
  BY DEF Merge, Commit, SameAgent
<1>2. Accepts(w, "in")
  BY <1>1, TxFacts DEF Accepts
<1>3. tx.run \in Created /\ tx.run \in Runs /\ runs \in [Runs -> Run]
  BY <1>1, Finite DEF Inv, TypeInv, TxSound
<1>4. \A q \in Runs : /\ runs'[q].status = runs[q].status
                      /\ runs'[q].retryOf = runs[q].retryOf
                      /\ Context(q)' = IF q = tx.run THEN Context(q) \cup {w} ELSE Context(q)
  BY <1>1, <1>3 DEF Run, Context
<1>5. Created' = Created /\ \A q \in Created : Work(q)' = Work(q)
  BY <1>4 DEF Created, Work
<1>6. Work(tx.run) \in Runs
  BY <1>3, WorkTyped
<1>7. \A n \in Created : n \in Runs
  BY Finite
<1> HIDE DEF Accepts
<1> QED BY <1>1, <1>2, <1>3, <1>4, <1>5, <1>6, <1>7, JoinLedger

LEMMA QueueLedger ==
  ASSUME Inv, OwnInv, PlaceInv, NEW w \in Wakes, Queue(w)
  PROVE  PlaceInv' /\ Ledger!Next
<1>1. /\ tx.wake = w /\ wake' = [wake EXCEPT ![w] = "in"] /\ UNCHANGED deferred
      /\ runs' = [runs EXCEPT ![Fresh] = Row("queued", AgentOf[w], {w}, NoRun)]
  BY DEF Queue, Commit
<1>2. Accepts(w, "in")
  BY <1>1, TxFacts DEF Accepts
<1>3. Added("queued", AgentOf[w], {w}, NoRun) /\ Room(NoRun)
  BY <1>1, QueueConstants, TxFacts, RunsFinite DEF Added, Room
<1>4. /\ Fresh \in Runs /\ Fresh \notin Created
      /\ runs'[Fresh] = Row("queued", AgentOf[w], {w}, NoRun)
      /\ Created' = Created \cup {Fresh} /\ \A q \in Created : runs'[q] = runs[q]
  BY <1>3, AddedRows
<1>5. \A n \in Created : Context(n)' = Context(n) /\ Work(n)' = Work(n)
  BY <1>4 DEF Context, Work
<1>6. \A g \in Runs : runs'[g] = Row("queued", AgentOf[w], {w}, NoRun) =>
        Context(g)' = {w} /\ Work(g)' = g
  BY DEF Row, Context, Work
<1>7. PICK g \in Runs : g = Fresh
  BY <1>4
<1>8. Context(g)' = {w} /\ Work(g)' = g
  BY <1>4, <1>6, <1>7
<1> QED BY <1>1, <1>2, <1>4, <1>5, <1>7, <1>8, JoinLedger

LEMMA DeferLedger ==
  ASSUME Inv, PlaceInv, NEW w \in Wakes, Defer(w)
  PROVE  PlaceInv' /\ Ledger!Next
<1>1. /\ tx.wake = w /\ wake' = [wake EXCEPT ![w] = "in"] /\ UNCHANGED runs
      /\ deferred' = Parked(w)
  BY DEF Defer, Commit
<1>2. Accepts(w, "in")
  BY <1>1, TxFacts DEF Accepts
<1>3. ~Parking(w) /\ WorksOf(w) = {} /\ Ledger!New(w)
      /\ \A n \in Created : w \notin Context(n)
  BY <1>2, NewHasNone DEF Accepts
<1>4. \A v \in Wakes : wake'[v] = IF v = w THEN "in" ELSE wake[v]
  BY <1>2 DEF Accepts
<1>5. PICK k \in DOMAIN deferred' : ParkedAt(w, k)
  BY <1>1, ParkedShape
<1>6. \A i \in DOMAIN deferred' :
        IF i = k
        THEN deferred'[i].wakes = {w} \/ (i \in DOMAIN deferred
                                          /\ deferred'[i].wakes = deferred[i].wakes \cup {w})
        ELSE i \in DOMAIN deferred /\ deferred'[i].wakes = deferred[i].wakes
  BY <1>5 DEF ParkedAt
<1>7. \A i \in DOMAIN deferred :
        i \in DOMAIN deferred' /\ deferred[i].wakes \subseteq deferred'[i].wakes
  BY <1>1, <1>5, ParkedGrows
<1>8. \A v : Parking(v)' <=> Parking(v) \/ v = w
  <2>1. ASSUME NEW v, Parking(v)' PROVE Parking(v) \/ v = w
    BY <1>6, <2>1 DEF Parking
  <2>2. w \in deferred'[k].wakes
    BY <1>6
  <2> QED BY <1>7, <2>1, <2>2 DEF Parking
<1>9. ParkedIn'
  BY <1>4, <1>6 DEF PlaceInv, ParkedIn
<1>10. ParkedOnce'
  <2> SUFFICES ASSUME NEW i \in DOMAIN deferred', NEW j \in DOMAIN deferred', i # j,
                      NEW v \in deferred'[i].wakes, v \in deferred'[j].wakes
               PROVE  FALSE
    BY DEF ParkedOnce
  <2>1. CASE v = w
    BY <1>3, <1>6, <2>1 DEF Parking
  <2>2. CASE v # w
    <3>1. i \in DOMAIN deferred /\ j \in DOMAIN deferred
          /\ v \in deferred[i].wakes /\ v \in deferred[j].wakes
      BY <1>6, <2>2
    <3> QED BY <3>1 DEF PlaceInv, ParkedOnce
  <2> QED BY <2>1, <2>2
<1>11. Created' = Created /\ \A n \in Created : Context(n)' = Context(n) /\ Work(n)' = Work(n)
  BY <1>1 DEF Created, Context, Work
<1>12. PlacedIn'
  <2> SUFFICES ASSUME NEW n \in Created, NEW v \in Context(n)
               PROVE  wake'[v] = "in" /\ ~Parking(v)'
    BY <1>11 DEF PlacedIn
  <2>1. v # w /\ wake[v] = "in" /\ ~Parking(v)
    BY <1>3 DEF PlaceInv, PlacedIn
  <2> QED BY <1>2, <1>8, <2>1 DEF Accepts
<1>13. OneWork'
  BY <1>11 DEF PlaceInv, OneWork
<1>14. Ledger!Park(w)
  <2>1. {v \in Wakes : Parking(v)}' = {v \in Wakes : Parking(v)} \cup {w}
    BY <1>8
  <2>2. UNCHANGED {v \in Wakes : wake[v] = "ended"}
    BY <1>2, <1>4 DEF Accepts
  <2>3. \A v : WorksOf(v)' = WorksOf(v)
    BY <1>11 DEF WorksOf
  <2> QED BY <1>3, <2>1, <2>2, <2>3 DEF Ledger!Park
<1> QED BY <1>9, <1>10, <1>12, <1>13, <1>14 DEF PlaceInv, Ledger!Next

LEMMA SkipLedger ==
  ASSUME Inv, PlaceInv, NEW w \in Wakes, SkipBlocked(w)
  PROVE  PlaceInv' /\ Ledger!Next
<1>1. tx.wake = w /\ wake' = [wake EXCEPT ![w] = "ended"] /\ UNCHANGED <<runs, deferred>>
  BY DEF SkipBlocked
<1>2. Accepts(w, "ended")
  BY <1>1, TxFacts DEF Accepts
<1>3. ~Parking(w) /\ WorksOf(w) = {} /\ Ledger!New(w)
      /\ \A n \in Created : w \notin Context(n)
  BY <1>2, NewHasNone DEF Accepts
<1>4. \A v \in Wakes : wake'[v] = IF v = w THEN "ended" ELSE wake[v]
  BY <1>2 DEF Accepts
<1>5. /\ Created' = Created /\ \A n \in Created : Context(n)' = Context(n) /\ Work(n)' = Work(n)
      /\ \A v : Parking(v)' = Parking(v)
  BY <1>1 DEF Created, Context, Work, Parking
<1>6. ParkedIn'
  BY <1>1, <1>3, <1>4 DEF PlaceInv, ParkedIn, Parking
<1>7. PlacedIn'
  <2> SUFFICES ASSUME NEW n \in Created, NEW v \in Context(n)
               PROVE  wake'[v] = "in" /\ ~Parking(v)
    BY <1>5 DEF PlacedIn
  <2>1. v # w /\ wake[v] = "in" /\ ~Parking(v)
    BY <1>3 DEF PlaceInv, PlacedIn
  <2> QED BY <1>2, <2>1 DEF Accepts
<1>8. ParkedOnce' /\ OneWork'
  BY <1>1, <1>5 DEF PlaceInv, ParkedOnce, OneWork
<1>9. Ledger!Skip(w)
  <2>1. UNCHANGED {v \in Wakes : Parking(v)}
    BY <1>5
  <2>2. {v \in Wakes : wake[v] = "ended"}' = {v \in Wakes : wake[v] = "ended"} \cup {w}
    BY <1>4
  <2>3. \A v : WorksOf(v)' = WorksOf(v)
    BY <1>5 DEF WorksOf
  <2> QED BY <1>3, <2>1, <2>2, <2>3 DEF Ledger!Skip
<1> QED BY <1>6, <1>7, <1>8, <1>9 DEF PlaceInv, Ledger!Next

-----------------------------------------------------------------------------
(* The end of a run gives up or promotes what is parked                    *)

LEMMA UpToIs ==
  ASSUME Inv, NEW k \in 0..Len(deferred)
  PROVE  \A w : w \in UpTo(k) <=> \E i \in DOMAIN deferred : i <= k /\ w \in deferred[i].wakes
<1>1. DOMAIN deferred = 1..Len(deferred) /\ Len(deferred) \in Nat
  BY LenProperties DEF Inv, TypeInv
<1>2. \A i : i \in 1..k <=> i \in DOMAIN deferred /\ i <= k
  BY <1>1
<1> QED BY <1>2 DEF UpTo

LEMMA GiveUpLedger ==
  ASSUME Inv, PlaceInv, Continues, GiveUp(UpTo(Len(deferred))), deferred' = <<>>
  PROVE  PlaceInv' /\ Ledger!Next
<1> DEFINE P == {w \in Wakes : Parking(w)}
           C == {w \in Wakes : wake[w] = "ended"}
<1>1. DOMAIN deferred = 1..Len(deferred) /\ Len(deferred) \in Nat
      /\ Len(deferred) \in 0..Len(deferred)
  BY LenProperties DEF Inv, TypeInv
<1>2. \A i \in DOMAIN deferred : i <= Len(deferred)
  BY <1>1
<1>3. \A w : w \in UpTo(Len(deferred)) <=> Parking(w)
  BY <1>1, <1>2, UpToIs DEF Parking
<1>4. \A w \in Wakes : wake'[w] = IF Parking(w) THEN "ended" ELSE wake[w]
  BY <1>3 DEF GiveUp
<1>5. DOMAIN deferred' = {} /\ \A w : ~Parking(w)'
  BY EmptySeq DEF Parking
<1>6. /\ \A w : WorksOf(w)' = WorksOf(w)
      /\ OneWork'
      /\ \A r \in Created' : \A w \in Context(r)' : \E q \in Created : w \in Context(q)
  BY ContinuesWorks
<1>7. ParkedIn' /\ ParkedOnce'
  BY <1>5 DEF ParkedIn, ParkedOnce
<1>8. \A q \in Created : \A w \in Context(q) : w \in Wakes
  BY Finite DEF Inv, TypeInv, Run, Context
<1>9. PlacedIn'
  <2> SUFFICES ASSUME NEW r \in Created', NEW w \in Context(r)' PROVE wake'[w] = "in"
    BY <1>5 DEF PlacedIn
  <2>1. w \in Wakes /\ wake[w] = "in" /\ ~Parking(w)
    BY <1>6, <1>8 DEF PlaceInv, PlacedIn
  <2> QED BY <1>4, <2>1
<1>10. PICK D \in SUBSET P : D = P
  OBVIOUS
<1>11. Ledger!GiveUp(D)
  <2>1. P' = P \ D
    BY <1>5, <1>10
  <2>2. C' = C \cup D
    BY <1>4, <1>10
  <2>3. UNCHANGED [w \in Wakes |-> WorksOf(w)]
    BY <1>6
  <2> QED BY <2>1, <2>2, <2>3 DEF Ledger!GiveUp
<1>12. Ledger!Next
  BY <1>11 DEF Ledger!Next
<1> QED BY <1>6, <1>7, <1>9, <1>12 DEF PlaceInv

LEMMA PromoteLedger ==
  ASSUME Inv, OwnInv, PlaceInv, NEW h \in Handlers, NEW r \in Runs, NEW k \in DOMAIN deferred,
         ReleasePromoting(h, r, k)
  PROVE  PlaceInv' /\ Ledger!Next
<1> DEFINE d == deferred[k]
           P == {w \in Wakes : Parking(w)}
           C == {w \in Wakes : wake[w] = "ended"}
           D == UpTo(k - 1)
<1>0. /\ DOMAIN deferred = 1..Len(deferred) /\ Len(deferred) \in Nat
      /\ k \in 1..Len(deferred) /\ d \in Request
  BY LenProperties, ElementOfSeq DEF Inv, TypeInv
<1>1. /\ Promoted(d) /\ GiveUp(D)
      /\ deferred' = SubSeq(deferred, k + 1, Len(deferred))
  BY DEF ReleasePromoting
<1>2. /\ DOMAIN deferred' = 1..(Len(deferred) - k)
      /\ \A i \in 1..(Len(deferred) - k) : deferred'[i] = deferred[k + i]
  BY <1>1, RestIs
<1>3. \A i \in DOMAIN deferred' : k + i \in DOMAIN deferred /\ k + i > k
                                  /\ deferred'[i] = deferred[k + i]
  BY <1>0, <1>2
<1>4. \A j \in DOMAIN deferred : j > k =>
        j - k \in DOMAIN deferred' /\ deferred'[j - k] = deferred[j]
  <2> SUFFICES ASSUME NEW j \in 1..Len(deferred), j > k
               PROVE  j - k \in DOMAIN deferred' /\ deferred'[j - k] = deferred[j]
    BY <1>0
  <2>1. j - k \in 1..(Len(deferred) - k) /\ k + (j - k) = j
    BY <1>0
  <2> QED BY <1>2, <2>1
<1>5. \A w : Parking(w)' <=> \E j \in DOMAIN deferred : j > k /\ w \in deferred[j].wakes
  BY <1>3, <1>4 DEF Parking
<1>6. \A w : w \in D <=> \E j \in DOMAIN deferred : j < k /\ w \in deferred[j].wakes
  <2>1. k - 1 \in 0..Len(deferred) /\ \A j \in DOMAIN deferred : j <= k - 1 <=> j < k
    BY <1>0
  <2> QED BY <2>1, UpToIs
<1>7. \A j \in DOMAIN deferred : j < k \/ j = k \/ j > k
  BY <1>0
<1>8. \A w : Parking(w) <=> w \in D \/ w \in d.wakes \/ Parking(w)'
  BY <1>5, <1>6, <1>7 DEF Parking
<1>9. \A w : /\ ~(w \in D /\ w \in d.wakes) /\ ~(w \in D /\ Parking(w)')
             /\ ~(w \in d.wakes /\ Parking(w)')
  <2>1. \A i, j \in DOMAIN deferred : \A w :
          w \in deferred[i].wakes /\ w \in deferred[j].wakes => i = j
    BY DEF PlaceInv, ParkedOnce
  <2>2. \A i, j \in DOMAIN deferred : i < k /\ j > k => i # j
    BY <1>0
  <2>3. \A j \in DOMAIN deferred : j < k \/ j > k => j # k
    BY <1>0
  <2> QED BY <1>5, <1>6, <2>1, <2>2, <2>3
<1> HIDE DEF D, d
<1>10. \A w : Parking(w) => w \in Wakes /\ wake[w] = "in"
  BY DEF PlaceInv, ParkedIn, Parking
<1>11. \A w \in Wakes : wake'[w] = IF w \in D THEN "ended" ELSE wake[w]
  BY <1>1 DEF GiveUp
<1>12. /\ Fresh \in Runs /\ Fresh \notin Created /\ Created' = Created \cup {Fresh}
       /\ runs'[Fresh] = Row("queued", d.agent, d.wakes, NoRun)
       /\ \A q \in Created : runs'[q] = runs[q]
  <2>1. Added("queued", d.agent, d.wakes, NoRun)
    BY <1>0, <1>1 DEF Added, Promoted, Request
  <2>2. Room(NoRun)
    BY <1>0, PlainBounded, Finite, RunsFinite DEF Room
  <2> QED BY <2>1, <2>2, AddedRows
<1>13. PICK f \in Runs : f = Fresh
  BY <1>12
<1>14. Context(f)' = d.wakes /\ Work(f)' = f
  BY <1>12, <1>13 DEF Context, Work, Row
<1>15. \A q \in Created : Context(q)' = Context(q) /\ Work(q)' = Work(q)
  BY <1>12 DEF Context, Work
<1>16. \A q \in Created : \A w \in Context(q) : w \in Wakes /\ wake[w] = "in" /\ ~Parking(w)
  <2>1. \A q \in Created : Context(q) \subseteq Wakes
    BY Finite DEF Inv, TypeInv, Run, Context
  <2> QED BY <2>1 DEF PlaceInv, PlacedIn
<1>17. ParkedIn'
  <2> SUFFICES ASSUME NEW i \in DOMAIN deferred', NEW w \in deferred'[i].wakes
               PROVE  w \in Wakes /\ wake'[w] = "in"
    BY DEF ParkedIn
  <2>1. Parking(w)'
    BY DEF Parking
  <2> QED BY <1>8, <1>9, <1>10, <1>11, <2>1
<1>18. ParkedOnce'
  <2> SUFFICES ASSUME NEW i \in DOMAIN deferred', NEW j \in DOMAIN deferred', i # j
               PROVE  deferred'[i].wakes \cap deferred'[j].wakes = {}
    BY DEF ParkedOnce
  <2>1. k + i # k + j
    BY <1>0, <1>2
  <2> QED BY <1>3, <2>1 DEF PlaceInv, ParkedOnce
<1>19. PlacedIn'
  <2> SUFFICES ASSUME NEW q \in Created', NEW w \in Context(q)'
               PROVE  wake'[w] = "in" /\ ~Parking(w)'
    BY DEF PlacedIn
  <2>1. CASE q \in Created
    BY <1>8, <1>11, <1>15, <1>16, <2>1
  <2>2. CASE q = f
    BY <1>8, <1>9, <1>10, <1>11, <1>14, <2>2
  <2> QED BY <1>12, <1>13, <2>1, <2>2
<1>20. \A q \in Created : \A w \in d.wakes : w \notin Context(q)
  BY <1>8, <1>16
<1>21. OneWork'
  <2> SUFFICES ASSUME NEW q \in Created', NEW p \in Created', NEW w \in Context(q)',
                      w \in Context(p)'
               PROVE  Work(q)' = Work(p)'
    BY DEF OneWork
  <2>1. CASE q \in Created /\ p \in Created
    BY <1>15, <2>1 DEF PlaceInv, OneWork
  <2>2. CASE q = f /\ p = f
    BY <2>2
  <2>3. CASE (q = f /\ p \in Created) \/ (q \in Created /\ p = f)
    BY <1>14, <1>15, <1>20, <2>3
  <2> QED BY <1>12, <1>13, <2>1, <2>2, <2>3
<1>22. /\ \A w \in d.wakes : WorksOf(w)' = {f} /\ WorksOf(w) = {}
       /\ \A w : w \notin d.wakes => WorksOf(w)' = WorksOf(w)
  <2>1. \A w, x : x \in WorksOf(w)' <=> \E n \in Created' : w \in Context(n)' /\ x = Work(n)'
    BY DEF WorksOf
  <2>2. \A w, x : x \in WorksOf(w) <=> \E n \in Created : w \in Context(n) /\ x = Work(n)
    BY DEF WorksOf
  <2>3. ASSUME NEW w, NEW x
        PROVE  x \in WorksOf(w)' <=> (w \in d.wakes /\ x = f) \/ x \in WorksOf(w)
    BY <1>12, <1>13, <1>14, <1>15, <2>1, <2>2
  <2>4. \A w \in d.wakes : WorksOf(w) = {}
    BY <1>20, <2>2
  <2>5. ASSUME NEW w, w \notin d.wakes PROVE WorksOf(w)' = WorksOf(w)
    <3>1. \A x : x \in WorksOf(w)' <=> x \in WorksOf(w)
      BY <2>3, <2>5
    <3> QED BY <3>1
  <2>6. ASSUME NEW w \in d.wakes PROVE WorksOf(w)' = {f}
    <3>1. \A x : x \in WorksOf(w)' <=> x = f
      BY <2>3, <2>4
    <3> QED BY <3>1
  <2> QED BY <2>4, <2>5, <2>6
<1>23. \A w : f \notin WorksOf(w)
  <2>1. \A n \in Created : Work(n) # f
    BY <1>12, <1>13, WorkTyped
  <2> QED BY <2>1 DEF WorksOf
<1>24. d.wakes \in SUBSET P /\ D \in SUBSET P
  BY <1>8, <1>10
<1>25. Ledger!Promote(d.wakes, D, f)
  <2>1. d.wakes \cap D = {}
    BY <1>9
  <2>2. Ledger!Unused(f)
    BY <1>23 DEF Ledger!Unused
  <2>3. P' = P \ (d.wakes \cup D)
    BY <1>8, <1>9
  <2>4. C' = C \cup D
    BY <1>8, <1>10, <1>11
  <2>5. [w \in Wakes |-> WorksOf(w)]' =
          [w \in Wakes |-> IF w \in d.wakes THEN {f} ELSE [v \in Wakes |-> WorksOf(v)][w]]
    BY <1>22
  <2> QED BY <2>1, <2>2, <2>3, <2>4, <2>5 DEF Ledger!Promote, Ledger!Given
<1>26. Ledger!Next
  BY <1>24, <1>25 DEF Ledger!Next
<1> QED BY <1>17, <1>18, <1>19, <1>21, <1>26 DEF PlaceInv

LEMMA ReleaseLedger ==
  ASSUME Inv, OwnInv, PlaceInv, NEW r \in Runs, Releases(r)
  PROVE  PlaceInv' /\ [Ledger!Next]_(Ledger!vars)
<1>1. UNCHANGED runs => Continues
  <2> SUFFICES ASSUME UNCHANGED runs PROVE Continues
    OBVIOUS
  <2>1. Created' = Created /\ SameContexts
    BY DEF Created, SameContexts, Context, Work
  <2> QED BY <2>1 DEF Continues
<1>2. ASSUME ReleaseBlocked(r) \/ \E h \in Handlers : ReleaseToOther(h, r)
      PROVE  PlaceInv' /\ [Ledger!Next]_(Ledger!vars)
  <2>1. UNCHANGED <<runs, deferred, wake>>
    BY <1>2 DEF ReleaseBlocked, ReleaseToOther
  <2> QED BY <1>1, <2>1, LedgerRests
<1>3. ASSUME NEW h \in Handlers, ReleaseOnly(h, r) \/ ReleaseRecovering(h, r)
      PROVE  PlaceInv' /\ [Ledger!Next]_(Ledger!vars)
  <2>1. /\ Returns(h, r) /\ GiveUp(UpTo(Len(deferred))) /\ deferred' = <<>>
        /\ \/ UNCHANGED runs
           \/ MayRetry(r) /\ runs' = [runs EXCEPT ![Fresh] = Row("queued", runs[r].agent, {}, r)]
    BY <1>3 DEF ReleaseOnly, ReleaseRecovering
  <2>2. r \in Created
    <3>1. at[h][r] # "idle"
      BY <2>1 DEF Returns
    <3> QED BY <3>1 DEF Inv, HandledExists
  <2>3. ASSUME MayRetry(r), runs' = [runs EXCEPT ![Fresh] = Row("queued", runs[r].agent, {}, r)]
        PROVE  Continues
    <3>1. Added("queued", runs[r].agent, {}, r)
      BY <2>3 DEF Added, Inv, TypeInv, Run
    <3> QED BY <2>2, <2>3, <3>1, RetryContinues
  <2> QED BY <1>1, <2>1, <2>3, GiveUpLedger
<1> QED BY <1>2, <1>3, PromoteLedger DEF Releases, Release

-----------------------------------------------------------------------------
LEMMA PlaceInit == Init => PlaceInv /\ Ledger!Init
<1> SUFFICES ASSUME Init PROVE PlaceInv /\ Ledger!Init
  OBVIOUS
<1>1. deferred = <<>> /\ DOMAIN deferred = {} /\ Created = {} /\ \A w \in Wakes : wake[w] = "new"
  BY EmptySeq DEF Init, Created, Absent
<1>2. \A w : ~Parking(w) /\ WorksOf(w) = {}
  BY <1>1 DEF Parking, WorksOf
<1>3. PlaceInv
  BY <1>1 DEF PlaceInv, ParkedIn, ParkedOnce, PlacedIn, OneWork
<1>4. Ledger!Init
  BY <1>1, <1>2 DEF Ledger!Init
<1> QED BY <1>3, <1>4

LEMMA PlaceInductive ==
  Inv /\ OwnInv /\ PlaceInv /\ [Next]_vars => PlaceInv' /\ [Ledger!Next]_(Ledger!vars)
<1> SUFFICES ASSUME Inv, OwnInv, PlaceInv, [Next]_vars
             PROVE  PlaceInv' /\ [Ledger!Next]_(Ledger!vars)
  OBVIOUS
<1>1. CASE UNCHANGED vars
  BY <1>1, SameContinues, LedgerRests DEF vars
<1>2. ASSUME NEW w \in Wakes, WakeStep(w)
      PROVE  PlaceInv' /\ [Ledger!Next]_(Ledger!vars)
  <2>1. CASE Open(w)
    BY <2>1, OpenContinues, LedgerRests
  <2>2. CASE ~Open(w)
    BY <1>2, <2>2, MergeLedger, DeferLedger, QueueLedger, SkipLedger DEF WakeStep
  <2> QED BY <2>1, <2>2
<1>3. ASSUME NEW r \in Runs, RunStep(r)
      PROVE  PlaceInv' /\ [Ledger!Next]_(Ledger!vars)
  <2>1. CASE Releases(r)
    BY <2>1, ReleaseLedger
  <2>2. CASE ScheduleRetry(r) \/ RetryForComment(r) \/ RetryLost(r)
    BY <2>2, RetriesContinue, LedgerRests
  <2>3. CASE ~Releases(r) /\ ~ScheduleRetry(r) /\ ~RetryForComment(r) /\ ~RetryLost(r)
    BY <1>3, <2>3, StatusSteps, LedgerRests
       DEF RunStep, ExecuteStep, GateStep, CancelStep, ReapStep
  <2> QED BY <2>1, <2>2, <2>3
<1>4. CASE Close \/ Blockers \/ Sweep \/ Crash \/ \E a \in Agents : Assign(a)
  BY <1>4, ChangeSteps, LedgerRests
<1> QED BY <1>1, <1>2, <1>3, <1>4 DEF Next

(* Each wake-up has at most one place: it waits in one parked request, or  *)
(* is closed, or is in the contexts of one run and its retries.            *)
THEOREM OnePlaceCorrect == Spec => []Ledger!OnePlace
<1>1. Inv /\ OwnInv /\ PlaceInv => Ledger!OnePlace
  <2> SUFFICES ASSUME Inv, OwnInv, PlaceInv PROVE Ledger!OnePlace
    OBVIOUS
  <2>1. \A w : Parking(w) => w \in Wakes /\ wake[w] = "in"
    BY DEF PlaceInv, ParkedIn, Parking
  <2>2. ASSUME NEW w, Parking(w) \/ (w \in Wakes /\ wake[w] = "ended") PROVE WorksOf(w) = {}
    BY <2>1, <2>2 DEF PlaceInv, PlacedIn, WorksOf
  <2>3. ASSUME NEW w PROVE WorksOf(w) = {} \/ \E k \in Runs : WorksOf(w) = {k}
    <3>1. CASE \A n \in Created : w \notin Context(n)
      BY <3>1 DEF WorksOf
    <3>2. ASSUME NEW n \in Created, w \in Context(n)
          PROVE  WorksOf(w) = {Work(n)}
      BY <3>2 DEF PlaceInv, OneWork, WorksOf
    <3>3. \A n \in Created : Work(n) \in Runs
      BY WorkTyped
    <3> QED BY <3>1, <3>2, <3>3
  <2> QED BY <2>1, <2>2, <2>3 DEF Ledger!OnePlace
<1>2. Init => Inv /\ OwnInv /\ PlaceInv
  BY InitTrue, OwnInit, PlaceInit
<1>3. Inv /\ OwnInv /\ PlaceInv /\ [Next]_vars => (Inv /\ OwnInv /\ PlaceInv)'
  BY InvInductive, OwnInductive, PlaceInductive
<1> QED BY <1>1, <1>2, <1>3, PTL DEF Spec

(* Every step of the queue is a step of the ledger: a wake-up is joined to *)
(* one run, parked, promoted with its request into a run of its own, or    *)
(* closed, whichever transactions, ends, retries and restarts interleave.  *)
THEOREM LedgerCorrect == Spec => ImplementsLedger
<1>1. Init => Inv /\ OwnInv /\ PlaceInv /\ Ledger!Init
  BY InitTrue, OwnInit, PlaceInit
<1>2. Inv /\ OwnInv /\ PlaceInv /\ [Next]_vars
        => (Inv /\ OwnInv /\ PlaceInv)' /\ [Ledger!Next]_(Ledger!vars)
  BY InvInductive, OwnInductive, PlaceInductive
<1> QED BY <1>1, <1>2, PTL DEF Spec, ImplementsLedger, Ledger!Spec
=============================================================================
