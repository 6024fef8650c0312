-------------------------- MODULE WakeQueue_proofs --------------------------
(* Theorems of WakeQueue, for any wake-ups, agents and bounds.             *)
EXTENDS WakeQueue, FiniteSetTheorems, SequenceTheorems, WellFoundedInduction, TLAPS

IssueRow == [status : {"open", "waiting", "blocked", "done"},
             assignee : Agents, run : Runs \cup {NoRun}]
Request == [agent : Agents, wakes : SUBSET Wakes]
TxRow == [wake : Wakes \cup {NoWake}, run : Runs \cup {NoRun}, status : Alive \cup {"absent"}]

TypeInv ==
  /\ issue \in IssueRow /\ runs \in [Runs -> Run] /\ deferred \in Seq(Request)
  /\ wake \in [Wakes -> {"new", "in", "ended"}] /\ tx \in TxRow
  /\ at \in [Handlers -> [Runs -> Steps]] /\ late \in SUBSET Wakes
  /\ dropped \in BOOLEAN /\ events \in 0..MaxEvents

(* A run some handler is with has a row.                                   *)
HandledExists == \A h \in Handlers, r \in Runs : at[h][r] # "idle" => r \in Created

(* A run that has begun does not wait to be started.                       *)
Waiting == {"queued", "scheduled_retry", "absent"}
BegunPast == \A r \in Runs : runs[r].begun => runs[r].status \notin Waiting

(* Rows are numbered from one, retries and recovery runs stay within their *)
(* bound, and every other run, and every parked request, has come from a   *)
(* wake-up of its own: there is always a row left.                         *)
Plain == Created \ AutoRuns
Came == {w \in Wakes : wake[w] # "new"}
Counting ==
  /\ Created = 1..Cardinality(Created)
  /\ Cardinality(AutoRuns) <= MaxAuto
  /\ Cardinality(Plain) + Len(deferred) <= Cardinality(Came)

(* What is parked has come.                                                *)
ParkedCame == \A i \in DOMAIN deferred : deferred[i].wakes \subseteq Came

(* The transaction in flight is that of a wake-up yet to come, and a run it *)
(* found has a row.                                                        *)
Due == IF tx.wake = NoWake THEN 0 ELSE 1
TxSound ==
  /\ Cardinality(Came) + Due <= MaxWakes
  /\ tx.wake # NoWake => wake[tx.wake] = "new"
  /\ tx.run # NoRun => tx.run \in Created

Carried ==
  \A w \in Comments : wake[w] = "in" =>
    Parking(w) \/ w \in late \/ \E r \in Created : w \in runs[r].wakes

Inv == /\ TypeInv /\ HandledExists /\ BegunPast /\ Counting /\ ParkedCame
       /\ TxSound /\ Carried

(* What is over stays as it ended but for the late writers.                *)
OverKept ==
  \A r \in Runs : runs[r].status \in Over /\ runs'[r].status # runs[r].status
                    => Overwrites(r, runs'[r].status)

-----------------------------------------------------------------------------
(* Counting rows                                                           *)

LEMMA LeastExists ==
  ASSUME NEW S, S \subseteq Nat, S # {}
  PROVE  \E m \in S : \A n \in S : m <= n
<1> DEFINE R == {ss \in Nat \X Nat : ss[1] < ss[2]}
<1>1. OpToRel(<, Nat) = R
  BY DEF OpToRel
<1>2. IsWellFoundedOn(R, Nat)
  BY <1>1, NatLessThanWellFounded
<1> HIDE DEF R
<1>3. PICK m \in S : \A n \in S : ~(<<n, m>> \in R)
  BY <1>2, WFMin
<1>4. ASSUME NEW n \in S PROVE m <= n
  <2>1. m \in Nat /\ n \in Nat /\ <<n, m>> \notin R
    BY <1>3
  <2>2. <<n, m>> \in R <=> n < m
    BY <2>1 DEF R
  <2> QED BY <2>1, <2>2
<1> QED BY <1>4

LEMMA RunsFinite == IsFiniteSet(Runs) /\ Runs \subseteq Nat /\ MaxWakes \in Nat /\ MaxAuto \in Nat
<1>1. MaxWakes \in Nat /\ MaxAuto \in Nat
  BY QueueConstants
<1>2. IsFiniteSet(1..(MaxWakes + MaxAuto))
  BY <1>1, FS_Interval
<1> QED BY <1>1, <1>2 DEF Runs

LEMMA Finite ==
  /\ IsFiniteSet(Created) /\ IsFiniteSet(AutoRuns) /\ IsFiniteSet(Plain) /\ IsFiniteSet(Came)
  /\ Cardinality(Created) \in Nat /\ Cardinality(AutoRuns) \in Nat
  /\ Cardinality(Plain) \in Nat /\ Cardinality(Came) \in Nat
  /\ Cardinality(Created) = Cardinality(AutoRuns) + Cardinality(Plain)
  /\ Created \subseteq Runs /\ AutoRuns \subseteq Created
<1>1. Created \in SUBSET Runs /\ AutoRuns \in SUBSET Created /\ AutoRuns \in SUBSET Runs
      /\ Came \in SUBSET Wakes
  BY DEF Created, AutoRuns, Came
<1>2. IsFiniteSet(Created) /\ IsFiniteSet(AutoRuns) /\ IsFiniteSet(Came)
  BY <1>1, RunsFinite, FS_Subset, QueueConstants
<1>3. /\ IsFiniteSet(Plain)
      /\ Cardinality(Plain) = Cardinality(Created) - Cardinality(Created \cap AutoRuns)
  BY <1>2, FS_Difference DEF Plain
<1>4. Created \cap AutoRuns = AutoRuns
  BY <1>1
<1>5. /\ Cardinality(Created) \in Nat /\ Cardinality(AutoRuns) \in Nat
      /\ Cardinality(Plain) \in Nat /\ Cardinality(Came) \in Nat
  BY <1>2, <1>3, FS_CardinalityType
<1>6. Cardinality(Plain) = Cardinality(Created) - Cardinality(AutoRuns)
  BY <1>3, <1>4
<1>7. Cardinality(Created) = Cardinality(AutoRuns) + Cardinality(Plain)
  BY <1>5, <1>6
<1> QED BY <1>1, <1>2, <1>3, <1>5, <1>7

(* Rows that are edited and not created.                                   *)
Edited ==
  /\ runs' \in [Runs -> Run]
  /\ \A r \in Runs : /\ runs'[r].retryOf = runs[r].retryOf
                     /\ (runs'[r].status = "absent") <=> (runs[r].status = "absent")
                     /\ runs[r].wakes \subseteq runs'[r].wakes
                     /\ runs'[r].begun => runs'[r].status \notin Waiting
  /\ OverKept

LEMMA EditedRows ==
  ASSUME Edited
  PROVE  /\ Created' = Created /\ AutoRuns' = AutoRuns /\ Plain' = Plain
         /\ BegunPast'
<1>1. Created' = Created
  BY DEF Edited, Created
<1>2. AutoRuns' = AutoRuns
  BY <1>1 DEF Edited, AutoRuns, Created
<1>3. Plain' = Plain
  BY <1>1, <1>2 DEF Plain
<1>4. BegunPast'
  BY DEF Edited, BegunPast
<1> QED BY <1>1, <1>2, <1>3, <1>4

LEMMA NoEdit ==
  ASSUME Inv, UNCHANGED runs
  PROVE  Edited
BY DEF Inv, TypeInv, Edited, BegunPast, OverKept

(* A new row, of a wake-up or of a parked request, or of a retry.          *)
Added(st, a, W, of) ==
  /\ st \in {"queued", "scheduled_retry"} /\ a \in Agents /\ W \subseteq Wakes
  /\ of \in Runs \cup {NoRun}
  /\ runs' = [runs EXCEPT ![Fresh] = Row(st, a, W, of)]

Room(of) ==
  IF of = NoRun THEN Cardinality(Plain) < MaxWakes ELSE Cardinality(AutoRuns) < MaxAuto

LEMMA FreshIsNew ==
  ASSUME Inv, NEW of, Room(of), Cardinality(Plain) <= MaxWakes
  PROVE  Fresh \in Runs /\ Fresh \notin Created
<1>1. Cardinality(AutoRuns) <= MaxAuto /\ Created = 1..Cardinality(Created)
  BY DEF Inv, Counting
<1>2. Cardinality(Created) < MaxWakes + MaxAuto
  BY <1>1, Finite, RunsFinite DEF Room
<1> QED BY <1>1, <1>2, Finite, RunsFinite DEF Fresh, Runs

LEMMA PlainBounded ==
  ASSUME Inv
  PROVE  Cardinality(Plain) + Len(deferred) <= MaxWakes /\ Len(deferred) \in Nat
<1>1. Len(deferred) \in Nat
  BY LenProperties DEF Inv, TypeInv
<1>2. Cardinality(Plain) + Len(deferred) <= Cardinality(Came)
      /\ Cardinality(Came) + Due <= MaxWakes /\ Due \in {0, 1}
  BY DEF Inv, Counting, TxSound, Due
<1> QED BY <1>1, <1>2, Finite, RunsFinite

LEMMA AddedRows ==
  ASSUME Inv, NEW st, NEW a, NEW W, NEW of, Added(st, a, W, of), Room(of)
  PROVE  /\ Fresh \in Runs /\ Fresh \notin Created
         /\ runs' \in [Runs -> Run] /\ runs'[Fresh] = Row(st, a, W, of)
         /\ Created' = Created \cup {Fresh}
         /\ Created' = 1..Cardinality(Created')
         /\ Cardinality(AutoRuns') =
              IF of = NoRun THEN Cardinality(AutoRuns) ELSE Cardinality(AutoRuns) + 1
         /\ Cardinality(Plain') =
              IF of = NoRun THEN Cardinality(Plain) + 1 ELSE Cardinality(Plain)
         /\ BegunPast' /\ OverKept
         /\ \A r \in Created : runs'[r] = runs[r]
<1>1. Fresh \in Runs /\ Fresh \notin Created
  BY FreshIsNew, PlainBounded, Finite, RunsFinite
<1>2. Row(st, a, W, of) \in Run /\ Row(st, a, W, of).status # "absent"
      /\ Row(st, a, W, of).retryOf = of /\ ~Row(st, a, W, of).begun
  BY DEF Added, Row, Run, Alive, Over
<1>3. runs' = [runs EXCEPT ![Fresh] = Row(st, a, W, of)] /\ runs \in [Runs -> Run]
  BY DEF Added, Inv, TypeInv
<1>4. /\ runs' \in [Runs -> Run] /\ runs'[Fresh] = Row(st, a, W, of)
      /\ \A r \in Runs \ {Fresh} : runs'[r] = runs[r]
  BY <1>1, <1>2, <1>3
<1>5. Created' = Created \cup {Fresh}
  BY <1>1, <1>2, <1>4 DEF Created
<1>6. Created' = 1..Cardinality(Created')
  <2>1. Cardinality(Created') = Cardinality(Created) + 1
    BY <1>1, <1>5, Finite, FS_AddElement
  <2>2. Created = 1..Cardinality(Created)
    BY DEF Inv, Counting
  <2> QED BY <1>5, <2>1, <2>2, Finite DEF Fresh
<1>7. AutoRuns' = IF of = NoRun THEN AutoRuns ELSE AutoRuns \cup {Fresh}
  BY <1>1, <1>2, <1>4, <1>5, Finite DEF AutoRuns
<1>8. Plain' = IF of = NoRun THEN Plain \cup {Fresh} ELSE Plain
  BY <1>1, <1>5, <1>7, Finite DEF Plain
<1>9. Fresh \notin AutoRuns /\ Fresh \notin Plain
  BY <1>1, Finite DEF Plain
<1>10. BegunPast'
  BY <1>1, <1>2, <1>4 DEF BegunPast, Inv
<1>11. OverKept
  BY <1>1, <1>4 DEF OverKept, Created, Over
<1>12. \A r \in Created : runs'[r] = runs[r]
  BY <1>1, <1>4, Finite
<1>13. Cardinality(AutoRuns') =
         IF of = NoRun THEN Cardinality(AutoRuns) ELSE Cardinality(AutoRuns) + 1
  BY <1>7, <1>9, Finite, FS_AddElement
<1>14. Cardinality(Plain') =
         IF of = NoRun THEN Cardinality(Plain) + 1 ELSE Cardinality(Plain)
  BY <1>8, <1>9, Finite, FS_AddElement
<1> QED BY <1>1, <1>4, <1>5, <1>6, <1>10, <1>11, <1>12, <1>13, <1>14

-----------------------------------------------------------------------------
(* Steps that edit rows and leave wake-ups and parked requests alone       *)

Calm == UNCHANGED <<deferred, wake, tx, late>>

LEMMA CalmStep ==
  ASSUME Inv, TypeInv', HandledExists', Edited, Calm
  PROVE  Inv' /\ OverKept
<1>1. Created' = Created /\ AutoRuns' = AutoRuns /\ Plain' = Plain /\ BegunPast'
  BY EditedRows
<1>2. Came' = Came /\ Due' = Due
  BY DEF Calm, Came, Due
<1>3. Counting'
  BY <1>1, <1>2 DEF Calm, Inv, Counting
<1>4. ParkedCame'
  BY <1>2 DEF Calm, Inv, ParkedCame
<1>5. TxSound'
  BY <1>1, <1>2 DEF Calm, Inv, TxSound
<1>6. Carried'
  <2> SUFFICES ASSUME NEW w \in Comments, wake'[w] = "in"
               PROVE  Parking(w)' \/ w \in late' \/ \E r \in Created' : w \in runs'[r].wakes
    BY DEF Carried
  <2>1. Parking(w) \/ w \in late \/ \E r \in Created : w \in runs[r].wakes
    BY DEF Calm, Inv, Carried
  <2> QED BY <1>1, <2>1, Finite DEF Calm, Parking, Edited
<1> QED BY <1>1, <1>3, <1>4, <1>5, <1>6 DEF Inv, Edited

LEMMA Moved ==
  ASSUME Inv, NEW h \in Handlers, NEW r \in Created, NEW to \in Steps,
         at' = [at EXCEPT ![h][r] = to], Created \subseteq Created'
  PROVE  at' \in [Handlers -> [Runs -> Steps]] /\ HandledExists'
<1>1. r \in Runs /\ at \in [Handlers -> [Runs -> Steps]] /\ HandledExists
  BY Finite DEF Inv, TypeInv
<1>2. at' \in [Handlers -> [Runs -> Steps]]
  BY <1>1
<1>3. ASSUME NEW g \in Handlers, NEW q \in Runs, at'[g][q] # "idle" PROVE q \in Created'
  <2>1. q = r \/ at'[g][q] = at[g][q]
    BY <1>1
  <2> QED BY <1>1, <1>3, <2>1 DEF HandledExists
<1> QED BY <1>2, <1>3 DEF HandledExists

(* A handler goes on with a run.                                           *)
LEMMA HandlerStep ==
  ASSUME Inv, NEW h \in Handlers, NEW r \in Created, NEW to \in Steps,
         at' = [at EXCEPT ![h][r] = to], Edited, Calm,
         issue' \in IssueRow, dropped' \in BOOLEAN, events' \in 0..MaxEvents
  PROVE  Inv' /\ OverKept
<1>1. Created \subseteq Created'
  BY EditedRows
<1>2. at' \in [Handlers -> [Runs -> Steps]] /\ HandledExists'
  BY <1>1, Moved
<1>3. TypeInv'
  BY <1>2 DEF Calm, Edited, Inv, TypeInv
<1> QED BY <1>2, <1>3, CalmStep

(* No handler moves.                                                       *)
LEMMA RestStep ==
  ASSUME Inv, UNCHANGED at, Edited, Calm,
         issue' \in IssueRow, dropped' \in BOOLEAN, events' \in 0..MaxEvents
  PROVE  Inv' /\ OverKept
<1>1. HandledExists'
  BY EditedRows DEF Inv, HandledExists
<1>2. TypeInv'
  BY DEF Calm, Edited, Inv, TypeInv
<1> QED BY <1>1, <1>2, CalmStep

LEMMA StatusEdit ==
  ASSUME Inv, NEW r \in Created, NEW st \in Alive \cup Over, SetStatus(r, st),
         st \in Waiting => ~runs[r].begun,
         runs[r].status \notin Over \/ Overwrites(r, st)
  PROVE  Edited
<1>1. /\ runs' = [runs EXCEPT ![r].status = st] /\ runs \in [Runs -> Run]
      /\ r \in Runs /\ runs[r].status # "absent" /\ st # "absent"
  BY DEF SetStatus, Inv, TypeInv, Created, Alive, Over
<1>2. /\ runs' \in [Runs -> Run]
      /\ \A q \in Runs : /\ runs'[q].retryOf = runs[q].retryOf
                         /\ runs'[q].wakes = runs[q].wakes
                         /\ runs'[q].begun = runs[q].begun
                         /\ runs'[q].status = IF q = r THEN st ELSE runs[q].status
  BY <1>1 DEF Run
<1>3. \A q \in Runs : runs'[q].begun => runs'[q].status \notin Waiting
  BY <1>2 DEF Inv, BegunPast
<1>4. OverKept
  BY <1>2 DEF OverKept
<1> QED BY <1>1, <1>2, <1>3, <1>4 DEF Edited

LEMMA Events == Inv => /\ Event => events' \in 0..MaxEvents
                       /\ UNCHANGED events => events' \in 0..MaxEvents
<1>1. MaxEvents \in Nat
  BY QueueConstants
<1> QED BY <1>1 DEF Inv, TypeInv, Event

LEMMA UnlockedTyped == Inv => /\ Unlocked \in IssueRow
                              /\ [Unlocked EXCEPT !.status = "blocked"] \in IssueRow
                              /\ [Unlocked EXCEPT !.status = "done"] \in IssueRow
                              /\ \A a \in Agents : [Unlocked EXCEPT !.assignee = a] \in IssueRow
BY DEF Inv, TypeInv, Unlocked, IssueRow

(* Claims, refusals and starts.                                            *)
LEMMA ClaimSteps ==
  ASSUME Inv, NEW r \in Runs,
         Claim(r) \/ Stamp(r) \/ Reject(r) \/ GateWrites(r) \/ Clear(r)
  PROVE  Inv' /\ OverKept
<1>t. issue \in IssueRow /\ dropped \in BOOLEAN /\ {"execute", "gate"} \subseteq Handlers
  BY DEF Inv, TypeInv, Handlers
<1>q. ASSUME runs[r].status = "queued" PROVE r \in Created /\ ~runs[r].begun
  BY <1>q DEF Created, Inv, BegunPast, Waiting
<1>1. CASE Claim(r)
  <2>1. /\ SetStatus(r, "running") /\ runs[r].status = "queued" /\ Calm
        /\ at' = [at EXCEPT !["execute"][r] = "claimed"]
        /\ UNCHANGED <<issue, dropped, events>>
    BY <1>1 DEF Claim, Moves, Calm
  <2>2. Edited
    BY <1>q, <2>1, StatusEdit DEF Alive, Over, Waiting
  <2> QED BY <1>t, <1>q, <2>1, <2>2, Events, HandlerStep DEF Steps
<1>2. CASE Stamp(r)
  <2>1. /\ UNCHANGED runs /\ Calm /\ at["execute"][r] = "claimed"
        /\ at' = [at EXCEPT !["execute"][r] = "launched"]
        /\ issue' = issue \/ issue' = [issue EXCEPT !.run = r]
        /\ UNCHANGED <<dropped, events>>
    BY <1>2 DEF Stamp, Moves, Calm
  <2>2. r \in Created
    BY <1>t, <2>1 DEF Inv, HandledExists
  <2>3. issue' \in IssueRow
    BY <1>t, <2>1 DEF IssueRow
  <2> QED BY <1>t, <2>1, <2>2, <2>3, NoEdit, Events, HandlerStep DEF Steps
<1>3. CASE Reject(r)
  <2>1. /\ UNCHANGED runs /\ runs[r].status = "queued" /\ Calm
        /\ at' = [at EXCEPT !["gate"][r] = "rejecting"]
        /\ UNCHANGED <<issue, dropped, events>>
    BY <1>3 DEF Reject, Moves, Calm
  <2> QED BY <1>t, <1>q, <2>1, NoEdit, Events, HandlerStep DEF Steps
<1>4. CASE Clear(r)
  <2>1. /\ UNCHANGED runs /\ Calm /\ at["gate"][r] = "clearing"
        /\ at' = [at EXCEPT !["gate"][r] = "idle"]
        /\ issue' = issue \/ issue' = [issue EXCEPT !.run = NoRun]
        /\ UNCHANGED events
    BY <1>4 DEF Clear, Moves, Calm
  <2>2. r \in Created
    BY <1>t, <2>1 DEF Inv, HandledExists
  <2>3. issue' \in IssueRow
    BY <1>t, <2>1 DEF IssueRow
  <2>4. dropped' \in BOOLEAN
    BY <1>4, <1>t DEF Clear
  <2> QED BY <1>t, <2>1, <2>2, <2>3, <2>4, NoEdit, Events, HandlerStep DEF Steps
<1>5. CASE GateWrites(r)
  <2>1. /\ SetStatus(r, "cancelled") /\ at["gate"][r] = "rejecting" /\ Calm
        /\ at' = [at EXCEPT !["gate"][r] = "clearing"]
        /\ UNCHANGED <<issue, dropped, events>>
    BY <1>5 DEF GateWrites, Moves, Calm
  <2>2. r \in Created
    BY <1>t, <2>1 DEF Inv, HandledExists
  <2>3. Edited
    BY <2>1, <2>2, StatusEdit DEF Overwrites, Over, Waiting
  <2> QED BY <1>t, <2>1, <2>2, <2>3, Events, HandlerStep DEF Steps
<1> QED BY <1>1, <1>2, <1>3, <1>4, <1>5

(* The execution of a run, and the timer of its retry.                     *)
LEMMA ExecuteSteps ==
  ASSUME Inv, NEW r \in Runs,
         \/ Begin(r) \/ \E st \in {"succeeded", "failed"} : Finish(r, st)
         \/ Abort(r) \/ NoRetry(r) \/ PromoteRetry(r) \/ GateRetry(r)
  PROVE  Inv' /\ OverKept
<1>t. /\ issue \in IssueRow /\ dropped \in BOOLEAN /\ {"execute", "gate"} \subseteq Handlers
      /\ {"idle", "executing", "finishing", "succeeding", "closing", "releasing", "clearing"}
           \subseteq Steps
  BY DEF Inv, TypeInv, Handlers, Steps
<1>h. ASSUME at["execute"][r] # "idle" PROVE r \in Created
  BY <1>t, <1>h DEF Inv, HandledExists
<1>1. CASE Begin(r)
  <2>1. /\ Calm /\ at["execute"][r] = "launched" /\ UNCHANGED <<issue, dropped, events>>
        /\ \E to \in {"executing", "idle"} : at' = [at EXCEPT !["execute"][r] = to]
        /\ \/ UNCHANGED runs
           \/ runs[r].status = "running" /\ runs' = [runs EXCEPT ![r].begun = TRUE]
    BY <1>1 DEF Begin, Moves, Calm
  <2>2. Edited
    <3>1. CASE UNCHANGED runs
      BY <3>1, NoEdit
    <3>2. CASE runs[r].status = "running" /\ runs' = [runs EXCEPT ![r].begun = TRUE]
      <4>1. /\ runs' \in [Runs -> Run]
            /\ \A q \in Runs : /\ runs'[q].retryOf = runs[q].retryOf
                               /\ runs'[q].wakes = runs[q].wakes
                               /\ runs'[q].begun = (q = r \/ runs[q].begun)
                               /\ runs'[q].status = runs[q].status
        BY <3>2 DEF Inv, TypeInv, Run
      <4>2. \A q \in Runs : runs'[q].begun => runs'[q].status \notin Waiting
        BY <3>2, <4>1 DEF Inv, BegunPast, Waiting
      <4> QED BY <4>1, <4>2 DEF Edited, OverKept
    <3> QED BY <2>1, <3>1, <3>2
  <2>3. r \in Created
    BY <1>h, <2>1
  <2>4. PICK to \in {"executing", "idle"} : at' = [at EXCEPT !["execute"][r] = to]
    BY <2>1
  <2>5. events' \in 0..MaxEvents
    BY <2>1, Events
  <2> QED BY <1>t, <2>1, <2>2, <2>3, <2>4, <2>5, HandlerStep
<1>2. ASSUME NEW st \in {"succeeded", "failed"}, Finish(r, st) PROVE Inv' /\ OverKept
  <2>1. /\ Calm /\ at["execute"][r] = "executing" /\ UNCHANGED <<issue, dropped, events>>
        /\ \E to \in {"finishing", "succeeding", "idle"} : at' = [at EXCEPT !["execute"][r] = to]
        /\ UNCHANGED runs \/ (runs[r].status = "running" /\ SetStatus(r, st))
    BY <1>2 DEF Finish, Moves, Calm
  <2>2. r \in Created
    BY <1>h, <2>1
  <2>3. st \in Alive \cup Over /\ st \notin Waiting /\ "running" \notin Over
    BY DEF Alive, Over, Waiting
  <2>4. Edited
    BY <2>1, <2>2, <2>3, NoEdit, StatusEdit
  <2>5. PICK to \in {"finishing", "succeeding", "idle"} : at' = [at EXCEPT !["execute"][r] = to]
    BY <2>1
  <2>6. events' \in 0..MaxEvents
    BY <2>1, Events
  <2> QED BY <1>t, <2>1, <2>2, <2>4, <2>5, <2>6, HandlerStep
<1>3. CASE NoRetry(r)
  <2>1. /\ UNCHANGED runs /\ Calm /\ at["execute"][r] # "idle"
        /\ \E to \in {"releasing", "closing"} : at' = [at EXCEPT !["execute"][r] = to]
        /\ UNCHANGED <<issue, dropped, events>>
    BY <1>3 DEF NoRetry, Moves, Calm
  <2>2. PICK to \in {"releasing", "closing"} : at' = [at EXCEPT !["execute"][r] = to]
    BY <2>1
  <2> QED BY <1>t, <1>h, <2>1, <2>2, NoEdit, Events, HandlerStep
<1>r. ASSUME runs[r].status = "scheduled_retry"
      PROVE  r \in Created /\ ~runs[r].begun /\ runs[r].status \notin Over
  BY <1>r DEF Created, Inv, BegunPast, Waiting, Over
<1>4. CASE PromoteRetry(r)
  <2>1. /\ runs[r].status = "scheduled_retry" /\ SetStatus(r, "queued") /\ Calm
        /\ UNCHANGED <<at, issue, dropped, events>>
    BY <1>4 DEF PromoteRetry, Calm
  <2>2. Edited
    BY <1>r, <2>1, StatusEdit DEF Alive
  <2> QED BY <1>t, <2>1, <2>2, Events, RestStep
<1>5. CASE GateRetry(r)
  <2>1. /\ runs[r].status = "scheduled_retry" /\ SetStatus(r, "cancelled") /\ Calm
        /\ at' = [at EXCEPT !["gate"][r] = "clearing"]
        /\ Event \/ UNCHANGED events
        /\ UNCHANGED <<issue, dropped>>
    BY <1>5 DEF GateRetry, Moves, Calm
  <2>2. Edited
    BY <1>r, <2>1, StatusEdit DEF Over, Waiting
  <2> QED BY <1>t, <1>r, <2>1, <2>2, Events, HandlerStep
<1>6. CASE Abort(r)
  <2>1. /\ SetStatus(r, "cancelled") /\ at["execute"][r] = "executing" /\ Calm /\ Event
        /\ at' = [at EXCEPT !["execute"][r] = "closing"]
        /\ UNCHANGED <<issue, dropped>>
    BY <1>6 DEF Abort, Moves, Calm
  <2>2. r \in Created
    BY <1>h, <2>1
  <2>3. Edited
    BY <2>1, <2>2, StatusEdit DEF Overwrites, Over, Waiting
  <2> QED BY <1>t, <2>1, <2>2, <2>3, Events, HandlerStep
<1> QED BY <1>1, <1>2, <1>3, <1>4, <1>5, <1>6

(* Cancellations, the reaper and the drain.                                *)
LEMMA EndSteps ==
  ASSUME Inv, NEW r \in Runs,
         \/ Cancel(r) \/ CancelWrites(r) \/ CancelFirst(r) \/ Kill(r) \/ Drain(r)
         \/ List(r) \/ ReapSkips(r) \/ ReapFails(r) \/ ReleaseLost(r)
  PROVE  Inv' /\ OverKept
<1>t. /\ issue \in IssueRow /\ dropped \in BOOLEAN /\ {"cancel", "reap"} \subseteq Handlers
      /\ {"terminating", "picked", "killing", "releasing", "closing", "idle", "listed",
          "lost", "interrupted"} \subseteq Steps
  BY DEF Inv, TypeInv, Handlers, Steps
<1>h. ASSUME NEW h \in {"cancel", "reap"}, at[h][r] # "idle" PROVE r \in Created
  BY <1>t, <1>h DEF Inv, HandledExists
<1>a. ASSUME runs[r].status \in Alive PROVE r \in Created /\ runs[r].status \notin Over
  BY <1>a DEF Created, Alive, Over
<1>s. "running" \in Alive /\ {"cancelled", "failed", "interrupted"} \subseteq Over
      /\ Waiting \cap Over = {}
  BY DEF Alive, Over, Waiting
<1>1. CASE Cancel(r)
  <2>1. /\ UNCHANGED <<runs, issue, dropped>> /\ Calm /\ runs[r].status \in Alive
        /\ Event \/ UNCHANGED events
        /\ \E to \in {"terminating", "picked"} : at' = [at EXCEPT !["cancel"][r] = to]
    BY <1>1 DEF Cancel, Moves, Calm, IsAlive
  <2>2. PICK to \in {"terminating", "picked"} : at' = [at EXCEPT !["cancel"][r] = to]
    BY <2>1
  <2> QED BY <1>t, <1>a, <2>1, <2>2, NoEdit, Events, HandlerStep
<1>2. CASE CancelWrites(r)
  <2>1. /\ SetStatus(r, "cancelled") /\ Calm /\ UNCHANGED <<issue, dropped, events>>
        /\ at["cancel"][r] = "terminating"
        /\ at' = [at EXCEPT !["cancel"][r] = "releasing"]
    BY <1>2 DEF CancelWrites, Moves, Calm
  <2>2. r \in Created
    BY <1>h, <2>1
  <2>3. Edited
    BY <1>s, <2>1, <2>2, StatusEdit DEF Overwrites
  <2> QED BY <1>t, <2>1, <2>2, <2>3, Events, HandlerStep
<1>3. CASE Drain(r)
  <2>1. /\ SetStatus(r, "interrupted") /\ Calm /\ Event /\ UNCHANGED <<issue, dropped>>
        /\ runs[r].status = "running"
        /\ at' = [at EXCEPT !["reap"][r] = "interrupted"]
    BY <1>3 DEF Drain, Moves, Calm
  <2>2. Edited
    BY <1>s, <1>a, <2>1, StatusEdit
  <2> QED BY <1>t, <1>s, <1>a, <2>1, <2>2, Events, HandlerStep
<1>4. CASE List(r)
  <2>1. /\ UNCHANGED <<runs, issue, dropped>> /\ Calm /\ runs[r].status = "running"
        /\ Event \/ UNCHANGED events
        /\ at' = [at EXCEPT !["reap"][r] = "listed"]
    BY <1>4 DEF List, Moves, Calm
  <2> QED BY <1>t, <1>s, <1>a, <2>1, NoEdit, Events, HandlerStep
<1>5. CASE ReapSkips(r)
  <2>1. /\ UNCHANGED <<runs, issue, dropped, events>> /\ Calm /\ at["reap"][r] = "listed"
        /\ at' = [at EXCEPT !["reap"][r] = "idle"]
    BY <1>5 DEF ReapSkips, Moves, Calm
  <2> QED BY <1>t, <1>h, <2>1, NoEdit, Events, HandlerStep
<1>6. CASE ReapFails(r)
  <2>1. /\ SetStatus(r, "failed") /\ Calm /\ UNCHANGED <<issue, dropped, events>>
        /\ at["reap"][r] = "listed"
        /\ at' = [at EXCEPT !["reap"][r] = "lost"]
    BY <1>6 DEF ReapFails, Moves, Calm
  <2>2. r \in Created
    BY <1>h, <2>1
  <2>3. Edited
    BY <1>s, <2>1, <2>2, StatusEdit DEF Overwrites
  <2> QED BY <1>t, <2>1, <2>2, <2>3, Events, HandlerStep
<1>7. CASE ReleaseLost(r)
  <2>1. /\ UNCHANGED <<runs, issue, dropped, events>> /\ Calm
        /\ at["reap"][r] \in {"lost", "interrupted"}
    BY <1>7 DEF ReleaseLost, Calm
  <2>2. PICK to \in {"releasing", "closing"} : at' = [at EXCEPT !["reap"][r] = to]
    BY <1>7 DEF ReleaseLost, Inv, TypeInv
  <2>3. r \in Created /\ events' \in 0..MaxEvents
    BY <1>h, <2>1, Events
  <2> QED BY <1>t, <2>1, <2>2, <2>3, NoEdit, HandlerStep
<1>8. CASE CancelFirst(r)
  <2>1. /\ SetStatus(r, "cancelled") /\ Calm /\ UNCHANGED <<issue, dropped, events>>
        /\ at["cancel"][r] = "picked"
        /\ \E to \in {"killing", "closing"} : at' = [at EXCEPT !["cancel"][r] = to]
    BY <1>8 DEF CancelFirst, Moves, Calm
  <2>2. r \in Created
    BY <1>h, <2>1
  <2>3. Edited
    BY <1>s, <2>1, <2>2, StatusEdit DEF Overwrites
  <2>4. PICK to \in {"killing", "closing"} : at' = [at EXCEPT !["cancel"][r] = to]
    BY <2>1
  <2> QED BY <1>t, <2>1, <2>2, <2>3, <2>4, Events, HandlerStep
<1>9. CASE Kill(r)
  <2>1. /\ UNCHANGED <<runs, issue, dropped, events>> /\ Calm /\ at["cancel"][r] = "killing"
        /\ at' = [at EXCEPT !["cancel"][r] = "closing"]
    BY <1>9 DEF Kill, Moves, Calm
  <2> QED BY <1>t, <1>h, <2>1, NoEdit, Events, HandlerStep
<1> QED BY <1>1, <1>2, <1>3, <1>4, <1>5, <1>6, <1>7, <1>8, <1>9

(* A process that outlived the server ends, or is found by the reaper.     *)
LEMMA OutliveSteps ==
  ASSUME Inv, NEW r \in Runs, ChildEnds(r) \/ ReapDetaches(r)
  PROVE  Inv' /\ OverKept
<1>t. /\ issue \in IssueRow /\ dropped \in BOOLEAN /\ {"execute", "reap"} \subseteq Handlers
      /\ {"idle", "detached"} \subseteq Steps /\ at \in [Handlers -> [Runs -> Steps]]
  BY DEF Inv, TypeInv, Handlers, Steps
<1>1. CASE ChildEnds(r)
  <2>1. /\ UNCHANGED <<runs, issue, dropped, events>> /\ Calm /\ at["execute"][r] # "idle"
        /\ at' = [at EXCEPT !["execute"][r] = "idle"]
    BY <1>1 DEF ChildEnds, Outlives, Calm
  <2>2. r \in Created
    BY <1>t, <2>1 DEF Inv, HandledExists
  <2> QED BY <1>t, <2>1, <2>2, NoEdit, Events, HandlerStep
<1>2. CASE ReapDetaches(r)
  <2>1. /\ SetStatus(r, "running") /\ Calm /\ UNCHANGED <<issue, dropped, events>>
        /\ at["reap"][r] # "idle" /\ Suspect(r)
        /\ at' = [at EXCEPT !["reap"][r] = "idle", !["execute"][r] = "detached"]
    BY <1>2 DEF ReapDetaches, Suspect, Calm
  <2>2. r \in Created
    BY <1>t, <2>1 DEF Inv, HandledExists
  <2>3. Edited
    BY <2>1, <2>2, StatusEdit DEF Overwrites, Alive, Waiting
  <2>4. /\ at' \in [Handlers -> [Runs -> Steps]]
        /\ \A h \in Handlers, q \in Runs : q # r => at'[h][q] = at[h][q]
    BY <1>t, <2>1
  <2>5. Created' = Created
    BY <2>3, EditedRows
  <2>6. HandledExists'
    BY <2>2, <2>4, <2>5 DEF Inv, HandledExists
  <2>7. TypeInv'
    BY <1>t, <2>1, <2>3, <2>4, Events DEF Calm, Edited, Inv, TypeInv
  <2> QED BY <2>1, <2>3, <2>6, <2>7, CalmStep
<1> QED BY <1>1, <1>2

(* The environment.                                                        *)
LEMMA EnvironmentSteps ==
  ASSUME Inv, Close \/ Blockers \/ Sweep \/ Crash \/ \E a \in Agents : Assign(a)
  PROVE  Inv' /\ OverKept
<1>t. issue \in IssueRow /\ dropped \in BOOLEAN
  BY DEF Inv, TypeInv
<1>1. CASE Close \/ Blockers \/ Sweep \/ \E a \in Agents : Assign(a)
  <2>1. UNCHANGED <<runs, at, dropped>> /\ Calm /\ (Event \/ UNCHANGED events)
    BY <1>1 DEF Close, Blockers, Sweep, Assign, Changes, Calm
  <2>2. issue' \in IssueRow
    <3>1. CASE Blockers
      BY <1>t, <3>1 DEF Blockers, IssueRow
    <3> QED BY <1>1, <3>1, UnlockedTyped DEF Close, Sweep, Assign
  <2> QED BY <1>t, <2>1, <2>2, NoEdit, Events, RestStep
<1>2. CASE Crash
  <2>1. UNCHANGED <<runs, issue>> /\ Calm /\ Event /\ dropped' \in BOOLEAN
    BY <1>2, <1>t DEF Crash, Calm
  <2>2. \A h \in Handlers, r \in Runs :
          Left(h, r) \in Steps /\ (Left(h, r) # "idle" => at[h][r] # "idle")
    BY DEF Inv, TypeInv, Left, Steps
  <2>3. at' = [h \in Handlers |-> [r \in Runs |-> Left(h, r)]]
    BY <1>2 DEF Crash
  <2>4. /\ at' \in [Handlers -> [Runs -> Steps]]
        /\ \A h \in Handlers, r \in Runs : at'[h][r] # "idle" => at[h][r] # "idle"
    BY <2>2, <2>3
  <2>5. TypeInv' /\ HandledExists'
    BY <1>t, <2>1, <2>4, Events, NoEdit, EditedRows DEF Inv, TypeInv, HandledExists, Calm
  <2> QED BY <2>1, <2>5, NoEdit, CalmStep
<1> QED BY <1>1, <1>2

-----------------------------------------------------------------------------
(* The end of a run: retries, recovery runs, promotions                    *)

(* Rows may be added; what is parked is given up or promoted.              *)
LEMMA SettleStep ==
  ASSUME Inv, TypeInv', HandledExists', BegunPast', ParkedCame', UNCHANGED <<tx, late>>,
         Came' = Came, \A w \in Wakes : wake'[w] = "in" => wake[w] = "in",
         Created \subseteq Created', Created' = 1..Cardinality(Created'),
         \A r \in Created : runs[r].wakes \subseteq runs'[r].wakes,
         Cardinality(AutoRuns') <= MaxAuto,
         Cardinality(Plain') + Len(deferred') <= Cardinality(Plain) + Len(deferred),
         Cardinality(Plain') \in Nat, Len(deferred') \in Nat,
         \A w \in Comments : wake'[w] = "in" /\ Parking(w) =>
           Parking(w)' \/ \E r \in Created' : w \in runs'[r].wakes
  PROVE  Inv'
<1>1. Counting'
  <2>1. Cardinality(Plain) + Len(deferred) <= Cardinality(Came) /\ Len(deferred) \in Nat
    BY PlainBounded DEF Inv, Counting
  <2>2. Cardinality(Plain') + Len(deferred') <= Cardinality(Came)
    BY <2>1, Finite
  <2> QED BY <2>2 DEF Counting
<1>2. TxSound'
  <2>1. Due' = Due
    BY DEF Due
  <2>2. tx.wake # NoWake => tx.wake \in Wakes /\ wake[tx.wake] = "new"
    BY DEF Inv, TypeInv, TxRow, TxSound
  <2>3. tx.wake # NoWake => wake'[tx.wake] = "new"
    BY <2>2 DEF Came
  <2> QED BY <2>1, <2>3 DEF Inv, TxSound
<1>3. Carried'
  <2> SUFFICES ASSUME NEW w \in Comments, wake'[w] = "in"
               PROVE  Parking(w)' \/ w \in late' \/ \E r \in Created' : w \in runs'[r].wakes
    BY DEF Carried
  <2>1. wake[w] = "in"
    BY QueueConstants
  <2>2. Parking(w) \/ w \in late \/ \E r \in Created : w \in runs[r].wakes
    BY <2>1 DEF Inv, Carried
  <2> QED BY <2>2
<1> QED BY <1>1, <1>2, <1>3 DEF Inv

LEMMA UpToCame ==
  ASSUME Inv, NEW k \in 0..Len(deferred)
  PROVE  /\ UpTo(k) \subseteq Came
         /\ \A i \in 1..k : deferred[i].wakes \subseteq UpTo(k)
<1>1. DOMAIN deferred = 1..Len(deferred) /\ Len(deferred) \in Nat
  BY LenProperties DEF Inv, TypeInv
<1>2. \A i \in 1..k : i \in DOMAIN deferred
  BY <1>1
<1> QED BY <1>2 DEF Inv, ParkedCame, UpTo

LEMMA GiveUpKeeps ==
  ASSUME Inv, NEW W, W \subseteq Came, GiveUp(W)
  PROVE  /\ wake' \in [Wakes -> {"new", "in", "ended"}] /\ Came' = Came
         /\ \A w \in Wakes : wake'[w] = "in" => wake[w] = "in" /\ w \notin W
<1>1. wake \in [Wakes -> {"new", "in", "ended"}]
  BY DEF Inv, TypeInv
<1>2. wake' \in [Wakes -> {"new", "in", "ended"}]
  BY <1>1 DEF GiveUp
<1>3. \A w \in Wakes : wake'[w] = IF w \in W THEN "ended" ELSE wake[w]
  BY DEF GiveUp
<1>4. Came' = Came
  BY <1>3 DEF Came
<1> QED BY <1>2, <1>3, <1>4

(* All that was parked is given up.                                        *)
LEMMA Emptied ==
  ASSUME Inv, GiveUp(UpTo(Len(deferred))), deferred' = <<>>
  PROVE  /\ wake' \in [Wakes -> {"new", "in", "ended"}] /\ Came' = Came
         /\ deferred' \in Seq(Request) /\ Len(deferred') = 0 /\ ParkedCame'
         /\ \A w \in Wakes : wake'[w] = "in" => wake[w] = "in" /\ ~Parking(w)
<1>1. DOMAIN deferred = 1..Len(deferred) /\ Len(deferred) \in 0..Len(deferred)
  BY LenProperties DEF Inv, TypeInv
<1>2. /\ UpTo(Len(deferred)) \subseteq Came
      /\ \A i \in DOMAIN deferred : deferred[i].wakes \subseteq UpTo(Len(deferred))
  BY <1>1, UpToCame
<1>3. /\ wake' \in [Wakes -> {"new", "in", "ended"}] /\ Came' = Came
      /\ \A w \in Wakes : wake'[w] = "in" => wake[w] = "in" /\ w \notin UpTo(Len(deferred))
  BY <1>2, GiveUpKeeps
<1>4. deferred' \in Seq(Request) /\ Len(deferred') = 0 /\ DOMAIN deferred' = {}
  BY EmptySeq
<1> QED BY <1>2, <1>3, <1>4 DEF Parking, ParkedCame

(* A retry or a recovery run is added.                                     *)
LEMMA AutoStep ==
  ASSUME Inv, NEW h \in Handlers, NEW r \in Created, NEW to \in Steps,
         at' = [at EXCEPT ![h][r] = to],
         NEW st, NEW W, Added(st, runs[r].agent, W, r), Cardinality(AutoRuns) < MaxAuto,
         Fresh \in Runs => issue' \in IssueRow, dropped' \in BOOLEAN,
         UNCHANGED <<tx, late, events>>,
         UNCHANGED <<deferred, wake>> \/ (GiveUp(UpTo(Len(deferred))) /\ deferred' = <<>>)
  PROVE  Inv' /\ OverKept
<1>0. r \in Runs /\ r # NoRun
  BY Finite, QueueConstants
<1>1. Room(r)
  BY <1>0 DEF Room
<1>2. /\ Fresh \in Runs
      /\ runs' \in [Runs -> Run] /\ Created' = Created \cup {Fresh}
      /\ Created' = 1..Cardinality(Created') /\ BegunPast' /\ OverKept
      /\ Cardinality(AutoRuns') = Cardinality(AutoRuns) + 1
      /\ Cardinality(Plain') = Cardinality(Plain)
      /\ \A q \in Created : runs'[q] = runs[q]
  BY <1>0, <1>1, AddedRows
<1>3. at' \in [Handlers -> [Runs -> Steps]] /\ HandledExists'
  BY <1>2, Moved
<1>4. /\ wake' \in [Wakes -> {"new", "in", "ended"}] /\ Came' = Came
      /\ deferred' \in Seq(Request) /\ Len(deferred') \in Nat
      /\ Len(deferred') <= Len(deferred) /\ ParkedCame'
      /\ \A w \in Wakes : wake'[w] = "in" => wake[w] = "in" /\ (Parking(w) => Parking(w)')
  <2>0. Len(deferred) \in Nat
    BY PlainBounded
  <2>1. CASE UNCHANGED <<deferred, wake>>
    <3>1. Came' = Came
      BY <2>1 DEF Came
    <3>2. ParkedCame'
      BY <2>1, <3>1 DEF Inv, ParkedCame
    <3> QED BY <2>0, <2>1, <3>1, <3>2 DEF Inv, TypeInv, Parking
  <2>2. CASE GiveUp(UpTo(Len(deferred))) /\ deferred' = <<>>
    BY <2>0, <2>2, Emptied
  <2> QED BY <2>1, <2>2
<1>5. TypeInv'
  BY <1>2, <1>3, <1>4 DEF Inv, TypeInv
<1>6. Cardinality(AutoRuns') <= MaxAuto
  BY <1>2, Finite, RunsFinite
<1>7. Cardinality(Plain') + Len(deferred') <= Cardinality(Plain) + Len(deferred)
      /\ Cardinality(Plain') \in Nat
  BY <1>2, <1>4, PlainBounded, Finite
<1>8. \A w \in Comments : wake'[w] = "in" /\ Parking(w) => Parking(w)'
  BY <1>4, QueueConstants
<1>9. Created \subseteq Created' /\ \A q \in Created : runs[q].wakes \subseteq runs'[q].wakes
  BY <1>2
<1>10. Inv'
  BY <1>2, <1>3, <1>4, <1>5, <1>6, <1>7, <1>8, <1>9, SettleStep
<1> QED BY <1>2, <1>10

LEMMA RetrySteps ==
  ASSUME Inv, NEW r \in Runs, ScheduleRetry(r) \/ RetryForComment(r) \/ RetryLost(r)
  PROVE  Inv' /\ OverKept
<1>t. /\ issue \in IssueRow /\ dropped \in BOOLEAN /\ {"execute", "reap"} \subseteq Handlers
      /\ {"releasing", "closing", "idle"} \subseteq Steps
  BY DEF Inv, TypeInv, Handlers, Steps
<1>h. ASSUME NEW h \in {"execute", "reap"}, at[h][r] # "idle" PROVE r \in Created
  BY <1>t, <1>h DEF Inv, HandledExists
<1>1. ASSUME NEW st \in {"scheduled_retry", "queued"}, NEW h \in {"execute", "reap"},
             NEW to \in {"releasing", "closing", "idle"}, at[h][r] # "idle",
             at' = [at EXCEPT ![h][r] = to], MayRetry(r), Retried(r, st),
             UNCHANGED <<deferred, wake, tx, late, dropped, events>>
      PROVE  Inv' /\ OverKept
  <2>1. r \in Created
    BY <1>h, <1>1
  <2>2. Added(st, runs[r].agent, Context(r), r)
    <3>1. runs[r] \in Run
      BY DEF Inv, TypeInv
    <3> QED BY <1>1, <3>1 DEF Added, Retried, Context, Run
  <2>3. Fresh \in Runs => issue' \in IssueRow
    BY <1>1, <1>t DEF Retried, IssueRow
  <2>4. Cardinality(AutoRuns) < MaxAuto
    BY <1>1 DEF MayRetry
  <2> QED BY <1>1, <1>t, <2>1, <2>2, <2>3, <2>4, AutoStep
<1>2. CASE ScheduleRetry(r)
  <2>1. /\ at["execute"][r] = "finishing" /\ MayRetry(r) /\ Retried(r, "scheduled_retry")
        /\ at' = [at EXCEPT !["execute"][r] = "releasing"]
        /\ UNCHANGED <<deferred, wake, tx, late, dropped, events>>
    BY <1>2 DEF ScheduleRetry, Moves
  <2> QED BY <1>1, <2>1
<1>3. CASE RetryLost(r)
  <2>1. /\ at["reap"][r] \in {"lost", "interrupted"}
        /\ at' = [at EXCEPT !["reap"][r] = "idle"]
        /\ UNCHANGED <<deferred, wake, tx, late, dropped, events>>
        /\ UNCHANGED <<runs, issue>> \/ (MayRetry(r) /\ Retried(r, "queued"))
    BY <1>3 DEF RetryLost
  <2>2. CASE UNCHANGED <<runs, issue>>
    <3>1. Calm /\ r \in Created /\ events' \in 0..MaxEvents
      BY <1>h, <2>1, Events DEF Calm
    <3> QED BY <1>t, <2>1, <2>2, <3>1, NoEdit, HandlerStep
  <2>3. CASE MayRetry(r) /\ Retried(r, "queued")
    BY <1>1, <2>1, <2>3
  <2> QED BY <2>1, <2>2, <2>3
<1>4. CASE RetryForComment(r)
  <2>1. /\ at["execute"][r] # "idle" /\ MayRetry(r) /\ Retried(r, "queued")
        /\ \E to \in {"releasing", "closing"} : at' = [at EXCEPT !["execute"][r] = to]
        /\ UNCHANGED <<deferred, wake, tx, late, dropped, events>>
    BY <1>4 DEF RetryForComment, Moves
  <2>2. PICK to \in {"releasing", "closing"} : at' = [at EXCEPT !["execute"][r] = to]
    BY <2>1
  <2> QED BY <1>1, <2>1, <2>2
<1> QED BY <1>2, <1>3, <1>4

(* All that was parked is given up, and no row is created.                 *)
LEMMA EmptyStep ==
  ASSUME Inv, NEW h \in Handlers, NEW r \in Created, at' = [at EXCEPT ![h][r] = "idle"],
         UNCHANGED <<runs, tx, late, events>>, issue' \in IssueRow, dropped' \in BOOLEAN,
         GiveUp(UpTo(Len(deferred))), deferred' = <<>>
  PROVE  Inv' /\ OverKept
<1>1. /\ wake' \in [Wakes -> {"new", "in", "ended"}] /\ Came' = Came
      /\ deferred' \in Seq(Request) /\ Len(deferred') = 0 /\ ParkedCame'
      /\ \A w \in Wakes : wake'[w] = "in" => wake[w] = "in" /\ ~Parking(w)
  BY Emptied
<1>2. /\ Edited /\ Created' = Created /\ AutoRuns' = AutoRuns /\ Plain' = Plain /\ BegunPast'
  BY NoEdit, EditedRows
<1>3. at' \in [Handlers -> [Runs -> Steps]] /\ HandledExists'
  BY <1>2, Moved DEF Steps
<1>4. TypeInv'
  BY <1>1, <1>3 DEF Inv, TypeInv
<1>5. /\ Created' = 1..Cardinality(Created') /\ Cardinality(AutoRuns') <= MaxAuto
      /\ Created \subseteq Created' /\ \A q \in Created : runs[q].wakes \subseteq runs'[q].wakes
  BY <1>2 DEF Inv, Counting
<1>6. /\ Cardinality(Plain') + Len(deferred') <= Cardinality(Plain) + Len(deferred)
      /\ Cardinality(Plain') \in Nat /\ Len(deferred') \in Nat
  BY <1>1, <1>2, PlainBounded, Finite
<1>7. \A w \in Comments : wake'[w] = "in" => ~Parking(w)
  BY <1>1, QueueConstants
<1>8. Inv'
  BY <1>1, <1>2, <1>3, <1>4, <1>5, <1>6, <1>7, SettleStep
<1> QED BY <1>2, <1>8 DEF Edited

(* The requests after the k-th.                                            *)
LEMMA RestIs ==
  ASSUME Inv, NEW k \in DOMAIN deferred
  PROVE  LET rest == SubSeq(deferred, k + 1, Len(deferred)) IN
         /\ rest \in Seq(Request) /\ Len(rest) = Len(deferred) - k
         /\ DOMAIN rest = 1..(Len(deferred) - k)
         /\ \A i \in 1..(Len(deferred) - k) : rest[i] = deferred[k + i]
<1> DEFINE rest == SubSeq(deferred, k + 1, Len(deferred))
<1>0. /\ DOMAIN deferred = 1..Len(deferred) /\ Len(deferred) \in Nat
      /\ k \in 1..Len(deferred) /\ \A i \in 1..Len(deferred) : deferred[i] \in Request
  BY LenProperties, ElementOfSeq DEF Inv, TypeInv
<1>1. k + 1 \in Int /\ Len(deferred) \in Int
      /\ \A i \in (k + 1)..Len(deferred) : deferred[i] \in Request
  BY <1>0
<1>2. /\ rest \in Seq(Request)
      /\ Len(rest) = IF k + 1 <= Len(deferred) THEN Len(deferred) - (k + 1) + 1 ELSE 0
      /\ \A i \in 1..(Len(deferred) - (k + 1) + 1) : rest[i] = deferred[k + 1 + i - 1]
  BY <1>1, SubSeqProperties
<1>3. Len(rest) = Len(deferred) - k
  BY <1>0, <1>2
<1>4. \A i \in 1..(Len(deferred) - k) : rest[i] = deferred[k + i]
  <2> SUFFICES ASSUME NEW i \in 1..(Len(deferred) - k) PROVE rest[i] = deferred[k + i]
    OBVIOUS
  <2>1. i \in 1..(Len(deferred) - (k + 1) + 1) /\ k + 1 + i - 1 = k + i
    BY <1>0
  <2> QED BY <1>2, <2>1
<1>5. DOMAIN rest = 1..Len(rest)
  BY <1>2, LenProperties
<1> HIDE DEF rest
<1>6. /\ rest \in Seq(Request) /\ Len(rest) = Len(deferred) - k
      /\ DOMAIN rest = 1..(Len(deferred) - k)
      /\ \A i \in 1..(Len(deferred) - k) : rest[i] = deferred[k + i]
  BY <1>2, <1>3, <1>4, <1>5
<1> QED BY <1>6 DEF rest

(* The k-th request is promoted, those before it are given up.             *)
LEMMA PromoteStep ==
  ASSUME Inv, NEW h \in Handlers, NEW r \in Runs, NEW k \in DOMAIN deferred,
         ReleasePromoting(h, r, k)
  PROVE  Inv' /\ OverKept
<1> DEFINE d == deferred[k]
           rest == SubSeq(deferred, k + 1, Len(deferred))
<1>0. /\ DOMAIN deferred = 1..Len(deferred) /\ Len(deferred) \in Nat
      /\ k \in 1..Len(deferred) /\ d \in Request
      /\ \A i \in 1..Len(deferred) : deferred[i] \in Request
  BY LenProperties, ElementOfSeq DEF Inv, TypeInv
<1>1. /\ at' = [at EXCEPT ![h][r] = "idle"] /\ at[h][r] # "idle"
      /\ UNCHANGED <<tx, late, events, dropped>>
      /\ Promoted(d) /\ GiveUp(UpTo(k - 1)) /\ deferred' = rest
  BY DEF ReleasePromoting, Returns
<1>2. r \in Created
  BY <1>1 DEF Inv, HandledExists
<1>3. Added("queued", d.agent, d.wakes, NoRun)
  BY <1>0, <1>1 DEF Added, Promoted, Request
<1>4. Room(NoRun)
  BY <1>0, PlainBounded, Finite, RunsFinite DEF Room
<1>5. /\ Fresh \in Runs
      /\ runs' \in [Runs -> Run] /\ runs'[Fresh] = Row("queued", d.agent, d.wakes, NoRun)
      /\ Created' = Created \cup {Fresh}
      /\ Created' = 1..Cardinality(Created') /\ BegunPast' /\ OverKept
      /\ Cardinality(AutoRuns') = Cardinality(AutoRuns)
      /\ Cardinality(Plain') = Cardinality(Plain) + 1
      /\ \A q \in Created : runs'[q] = runs[q]
  BY <1>3, <1>4, AddedRows
<1>6. at' \in [Handlers -> [Runs -> Steps]] /\ HandledExists'
  BY <1>1, <1>2, <1>5, Moved DEF Steps
<1>7. /\ rest \in Seq(Request) /\ Len(rest) = Len(deferred) - k
      /\ DOMAIN rest = 1..(Len(deferred) - k)
      /\ \A i \in 1..(Len(deferred) - k) : rest[i] = deferred[k + i]
  BY RestIs
<1>8. /\ wake' \in [Wakes -> {"new", "in", "ended"}] /\ Came' = Came
      /\ \A w \in Wakes : wake'[w] = "in" => wake[w] = "in" /\ w \notin UpTo(k - 1)
      /\ \A i \in 1..(k - 1) : deferred[i].wakes \subseteq UpTo(k - 1)
  BY <1>0, <1>1, UpToCame, GiveUpKeeps
<1> HIDE DEF rest
<1>9. ParkedCame'
  <2> SUFFICES ASSUME NEW i \in DOMAIN rest PROVE rest[i].wakes \subseteq Came
    BY <1>1, <1>8 DEF ParkedCame
  <2>1. rest[i] = deferred[k + i] /\ k + i \in DOMAIN deferred
    BY <1>0, <1>7
  <2> QED BY <2>1 DEF Inv, ParkedCame
<1>10. issue' \in IssueRow
  BY <1>1, <1>5 DEF Promoted, Inv, TypeInv, IssueRow
<1>11. TypeInv'
  BY <1>1, <1>5, <1>6, <1>7, <1>8, <1>10 DEF Inv, TypeInv
<1>12. ASSUME NEW w \in Comments, wake'[w] = "in", Parking(w)
       PROVE  Parking(w)' \/ \E q \in Created' : w \in runs'[q].wakes
  <2>1. PICK i \in 1..Len(deferred) : w \in deferred[i].wakes
    BY <1>0, <1>12 DEF Parking
  <2>2. w \in Wakes /\ w \notin UpTo(k - 1)
    BY <1>8, <1>12, QueueConstants
  <2>3. CASE i < k
    BY <1>0, <1>8, <2>1, <2>2, <2>3
  <2>4. CASE i = k
    BY <1>5, <2>1, <2>4 DEF Row
  <2>5. CASE i > k
    <3>1. i - k \in 1..(Len(deferred) - k) /\ k + (i - k) = i
      BY <1>0, <2>1, <2>5
    <3>2. rest[i - k] = deferred[i] /\ i - k \in DOMAIN rest
      BY <1>7, <3>1
    <3>3. w \in deferred'[i - k].wakes /\ i - k \in DOMAIN deferred'
      BY <1>1, <2>1, <3>2
    <3> QED BY <3>3 DEF Parking
  <2> QED BY <1>0, <2>1, <2>3, <2>4, <2>5
<1>13. /\ Cardinality(Plain') + Len(deferred') <= Cardinality(Plain) + Len(deferred)
       /\ Cardinality(Plain') \in Nat /\ Len(deferred') \in Nat
       /\ Cardinality(AutoRuns') <= MaxAuto
  BY <1>0, <1>1, <1>5, <1>7, Finite DEF Inv, Counting
<1>14. Created \subseteq Created' /\ \A q \in Created : runs[q].wakes \subseteq runs'[q].wakes
  BY <1>5
<1>15. \A w \in Wakes : wake'[w] = "in" => wake[w] = "in"
  BY <1>8
<1>16. Inv'
  BY <1>1, <1>5, <1>6, <1>8, <1>9, <1>11, <1>12, <1>13, <1>14, <1>15, SettleStep
<1> QED BY <1>5, <1>16

LEMMA ReleaseSteps ==
  ASSUME Inv, NEW r \in Runs, Releases(r)
  PROVE  Inv' /\ OverKept
<1>t. issue \in IssueRow /\ dropped \in BOOLEAN /\ "execute" \in Handlers /\ "idle" \in Steps
  BY DEF Inv, TypeInv, Handlers, Steps
<1>1. ASSUME NEW h \in Handlers, Returns(h, r)
      PROVE  /\ r \in Created /\ at' = [at EXCEPT ![h][r] = "idle"]
             /\ UNCHANGED <<tx, late, events>>
  BY <1>1 DEF Returns, Inv, HandledExists
<1>2. CASE ReleaseBlocked(r)
  <2>1. Returns("execute", r) /\ UNCHANGED <<runs, deferred, wake>>
        /\ issue' = [Unlocked EXCEPT !.status = "blocked"]
    BY <1>2 DEF ReleaseBlocked
  <2>2. dropped' \in BOOLEAN
    BY <1>2, <1>t DEF ReleaseBlocked
  <2>3. Calm /\ events' \in 0..MaxEvents
    BY <1>t, <1>1, <2>1, Events DEF Calm
  <2> QED BY <1>t, <1>1, <2>1, <2>2, <2>3, UnlockedTyped, NoEdit, HandlerStep
<1>3. ASSUME NEW h \in Handlers, ReleaseToOther(h, r) PROVE Inv' /\ OverKept
  <2>1. Returns(h, r) /\ UNCHANGED <<issue, runs, deferred, wake>>
    BY <1>3 DEF ReleaseToOther
  <2>2. dropped' \in BOOLEAN
    BY <1>3, <1>t DEF ReleaseToOther
  <2>3. Calm /\ events' \in 0..MaxEvents
    BY <1>1, <2>1, Events DEF Calm
  <2> QED BY <1>t, <1>1, <2>1, <2>2, <2>3, NoEdit, HandlerStep
<1>4. ASSUME NEW h \in Handlers, ReleaseOnly(h, r) PROVE Inv' /\ OverKept
  <2>1. Returns(h, r) /\ UNCHANGED <<runs, dropped>> /\ issue' = Unlocked
        /\ GiveUp(UpTo(Len(deferred))) /\ deferred' = <<>>
    BY <1>4 DEF ReleaseOnly
  <2> QED BY <1>t, <1>1, <2>1, UnlockedTyped, EmptyStep
<1>5. ASSUME NEW h \in Handlers, ReleaseRecovering(h, r) PROVE Inv' /\ OverKept
  <2>1. Returns(h, r) /\ GiveUp(UpTo(Len(deferred))) /\ deferred' = <<>> /\ UNCHANGED dropped
    BY <1>5 DEF ReleaseRecovering
  <2>2. CASE MayRetry(r)
    <3>1. /\ runs' = [runs EXCEPT ![Fresh] = Row("queued", runs[r].agent, {}, r)]
          /\ issue' = [issue EXCEPT !.run = Fresh]
      BY <1>5, <2>2 DEF ReleaseRecovering
    <3>2. runs[r].agent \in Agents
      BY DEF Inv, TypeInv, Run
    <3>3. Added("queued", runs[r].agent, {}, r)
      BY <3>1, <3>2 DEF Added
    <3>4. Fresh \in Runs => issue' \in IssueRow
      BY <1>t, <3>1 DEF IssueRow
    <3>5. Cardinality(AutoRuns) < MaxAuto
      BY <2>2 DEF MayRetry
    <3> QED BY <1>t, <1>1, <2>1, <3>3, <3>4, <3>5, AutoStep
  <2>3. CASE ~MayRetry(r)
    <3>1. issue' = [Unlocked EXCEPT !.status = "blocked"] /\ UNCHANGED runs
      BY <1>5, <2>3 DEF ReleaseRecovering
    <3> QED BY <1>t, <1>1, <2>1, <3>1, UnlockedTyped, EmptyStep
  <2> QED BY <2>2, <2>3
<1> QED BY <1>2, <1>3, <1>4, <1>5, PromoteStep DEF Releases, Release

-----------------------------------------------------------------------------
(* enqueueWakeup                                                           *)

(* The transaction of wake-up w commits: w has come, with a row, a parked  *)
(* request or neither to show for it.                                      *)
LEMMA CommitStep ==
  ASSUME Inv, TypeInv', HandledExists', BegunPast', ParkedCame',
         NEW w \in Wakes, tx.wake = w, tx' = NoTx, NEW st \in {"in", "ended"},
         wake' = [wake EXCEPT ![w] = st], late \subseteq late',
         Created \subseteq Created', Created' = 1..Cardinality(Created'),
         \A r \in Created : runs[r].wakes \subseteq runs'[r].wakes,
         Cardinality(AutoRuns') <= MaxAuto,
         Cardinality(Plain') + Len(deferred') <= Cardinality(Plain) + Len(deferred) + 1,
         Cardinality(Plain') \in Nat, Len(deferred') \in Nat,
         \A v \in Wakes : Parking(v) => Parking(v)',
         st = "in" /\ w \in Comments =>
           Parking(w)' \/ w \in late' \/ \E r \in Created' : w \in runs'[r].wakes
  PROVE  Inv'
<1>1. w # NoWake /\ wake[w] = "new" /\ wake \in [Wakes -> {"new", "in", "ended"}]
  BY QueueConstants DEF Inv, TypeInv, TxSound
<1>2. Came' = Came \cup {w} /\ w \notin Came
  BY <1>1 DEF Came
<1>3. Cardinality(Came') = Cardinality(Came) + 1
  BY <1>2, Finite, FS_AddElement
<1>4. Counting'
  <2>1. Cardinality(Plain) + Len(deferred) <= Cardinality(Came) /\ Len(deferred) \in Nat
    BY PlainBounded DEF Inv, Counting
  <2>2. Cardinality(Plain') + Len(deferred') <= Cardinality(Came')
    BY <1>3, <2>1, Finite
  <2> QED BY <2>2 DEF Counting
<1>5. TxSound'
  <2>1. Due = 1 /\ Due' = 0 /\ tx'.wake = NoWake /\ tx'.run = NoRun
    BY <1>1 DEF Due, NoTx
  <2>2. Cardinality(Came) + Due <= MaxWakes
    BY DEF Inv, TxSound
  <2> QED BY <1>3, <2>1, <2>2, Finite DEF TxSound
<1>6. Carried'
  <2> SUFFICES ASSUME NEW v \in Comments, wake'[v] = "in"
               PROVE  Parking(v)' \/ v \in late' \/ \E r \in Created' : v \in runs'[r].wakes
    BY DEF Carried
  <2>1. v \in Wakes
    BY QueueConstants
  <2>2. CASE v = w
    BY <1>1, <2>2
  <2>3. CASE v # w
    <3>1. wake[v] = "in"
      BY <1>1, <2>1, <2>3
    <3>2. Parking(v) \/ v \in late \/ \E r \in Created : v \in runs[r].wakes
      BY <3>1 DEF Inv, Carried
    <3> QED BY <2>1, <3>2
  <2> QED BY <2>2, <2>3
<1> QED BY <1>4, <1>5, <1>6 DEF Inv

(* What the rest of the transaction knows.                                 *)
LEMMA TxFacts ==
  ASSUME Inv, NEW w \in Wakes, tx.wake = w
  PROVE  /\ w # NoWake /\ wake[w] = "new" /\ wake \in [Wakes -> {"new", "in", "ended"}]
         /\ NoTx \in TxRow
         /\ Came \subseteq {v \in Wakes : [wake EXCEPT ![w] = "in"][v] # "new"}
         /\ Came \subseteq {v \in Wakes : [wake EXCEPT ![w] = "ended"][v] # "new"}
         /\ Created = 1..Cardinality(Created) /\ Cardinality(AutoRuns) <= MaxAuto
         /\ Cardinality(Plain) \in Nat /\ Len(deferred) \in Nat
         /\ HandledExists /\ BegunPast /\ ParkedCame
         /\ Cardinality(Plain) + Len(deferred) + 1 <= MaxWakes
<1>1. w # NoWake /\ wake[w] = "new" /\ wake \in [Wakes -> {"new", "in", "ended"}]
  BY QueueConstants DEF Inv, TypeInv, TxSound
<1>2. Cardinality(Came) + 1 <= MaxWakes
  BY <1>1 DEF Inv, TxSound, Due
<1>3. /\ Cardinality(Plain) \in Nat /\ Len(deferred) \in Nat
      /\ Cardinality(Plain) + Len(deferred) <= Cardinality(Came)
  BY PlainBounded, Finite DEF Inv, Counting
<1>4. Cardinality(Plain) + Len(deferred) + 1 <= MaxWakes
  BY <1>2, <1>3, Finite, RunsFinite
<1> QED BY <1>1, <1>3, <1>4 DEF Inv, Counting, NoTx, TxRow, Came

LEMMA MergeStep ==
  ASSUME Inv, NEW w \in Wakes, Merge(w)
  PROVE  Inv' /\ OverKept
<1> DEFINE r == tx.run
<1>1. /\ tx.wake = w /\ tx' = NoTx /\ wake' = [wake EXCEPT ![w] = "in"]
      /\ UNCHANGED <<issue, at, dropped, events, deferred>>
      /\ r # NoRun /\ ~NeedsFollowup(w)
      /\ runs' = IF runs[r].begun
                 THEN [runs EXCEPT ![r].missed = @ \cup {w}]
                 ELSE [runs EXCEPT ![r].wakes = @ \cup {w}]
      /\ late' = IF runs[r].status # tx.status THEN late \cup {w} ELSE late
  BY DEF Merge, Commit, SameAgent
<1>2. /\ r \in Created /\ r \in Runs /\ runs[r] \in Run /\ runs \in [Runs -> Run]
      /\ tx.status \in Alive \cup {"absent"}
  BY <1>1, Finite DEF Inv, TypeInv, TxSound, TxRow
<1>3. /\ runs' \in [Runs -> Run]
      /\ \A q \in Runs : /\ runs'[q].retryOf = runs[q].retryOf
                         /\ runs'[q].status = runs[q].status
                         /\ runs'[q].begun = runs[q].begun
                         /\ runs[q].wakes \subseteq runs'[q].wakes
      /\ ~runs[r].begun => w \in runs'[r].wakes
  <2>1. CASE runs[r].begun
    BY <1>1, <1>2, <2>1 DEF Run
  <2>2. CASE ~runs[r].begun
    BY <1>1, <1>2, <2>2 DEF Run
  <2> QED BY <2>1, <2>2
<1>4. Edited
  BY <1>3 DEF Edited, OverKept, Inv, BegunPast
<1>5. Created' = Created /\ AutoRuns' = AutoRuns /\ Plain' = Plain /\ BegunPast'
  BY <1>4, EditedRows
<1>6. w \in Comments => w \in late' \/ \E q \in Created' : w \in runs'[q].wakes
  <2>1. CASE ~runs[r].begun
    BY <1>2, <1>3, <1>5, <2>1
  <2>2. CASE runs[r].begun /\ w \in Comments
    <3>1. tx.status \in Waiting
      BY <1>1, <1>2, <2>2 DEF NeedsFollowup, Alive, Waiting
    <3>2. runs[r].status \notin Waiting
      BY <1>2, <2>2 DEF Inv, BegunPast
    <3> QED BY <1>1, <3>1, <3>2
  <2> QED BY <2>1, <2>2
<1>7. TypeInv'
  BY <1>1, <1>3, TxFacts DEF Inv, TypeInv
<1>8. HandledExists' /\ ParkedCame'
  <2>1. Came \subseteq Came'
    BY <1>1, TxFacts DEF Came
  <2> QED BY <1>1, <1>5, <2>1, TxFacts DEF HandledExists, ParkedCame
<1>9. \A v \in Wakes : Parking(v) => Parking(v)'
  BY <1>1 DEF Parking
<1>10. late \subseteq late'
  BY <1>1
<1>11. /\ Created \subseteq Created' /\ Created' = 1..Cardinality(Created')
       /\ \A q \in Created : runs[q].wakes \subseteq runs'[q].wakes
       /\ Cardinality(AutoRuns') <= MaxAuto
       /\ Cardinality(Plain') + Len(deferred') <= Cardinality(Plain) + Len(deferred) + 1
       /\ Cardinality(Plain') \in Nat /\ Len(deferred') \in Nat
  BY <1>1, <1>3, <1>5, TxFacts, Finite
<1>12. Inv'
  BY <1>1, <1>5, <1>6, <1>7, <1>8, <1>9, <1>10, <1>11, CommitStep
<1> QED BY <1>4, <1>12 DEF Edited

(* A parked wake-up joins the request k of its agent, or is the new last    *)
(* one.                                                                    *)
ParkedAt(w, k) ==
  /\ k \in DOMAIN deferred'
  /\ \/ /\ Len(deferred') = Len(deferred) /\ k \in DOMAIN deferred
        /\ deferred'[k].wakes = deferred[k].wakes \cup {w}
     \/ /\ Len(deferred') = Len(deferred) + 1 /\ k = Len(deferred) + 1
        /\ deferred'[k].wakes = {w}
  /\ \A i \in DOMAIN deferred' \ {k} : i \in DOMAIN deferred /\ deferred'[i] = deferred[i]

LEMMA ParkedShape ==
  ASSUME Inv, NEW w \in Wakes, deferred' = Parked(w)
  PROVE  /\ deferred' \in Seq(Request) /\ Len(deferred) \in Nat /\ Len(deferred') \in Nat
         /\ DOMAIN deferred = 1..Len(deferred) /\ DOMAIN deferred' = 1..Len(deferred')
         /\ \E k \in DOMAIN deferred' : ParkedAt(w, k)
<1> DEFINE mine == {i \in DOMAIN deferred : deferred[i].agent = AgentOf[w]}
<1>1. /\ deferred \in Seq(Request) /\ Len(deferred) \in Nat
      /\ DOMAIN deferred = 1..Len(deferred) /\ AgentOf[w] \in Agents
      /\ \A i \in 1..Len(deferred) : deferred[i] \in Request
  BY LenProperties, ElementOfSeq, QueueConstants DEF Inv, TypeInv
<1>2. CASE mine = {}
  <2> DEFINE new == [agent |-> AgentOf[w], wakes |-> {w}]
  <2>1. new \in Request /\ new.wakes = {w}
    BY <1>1 DEF Request
  <2>2. deferred' = Append(deferred, new)
    BY <1>2 DEF Parked
  <2> HIDE DEF new
  <2>3. /\ deferred' \in Seq(Request) /\ Len(deferred') = Len(deferred) + 1
        /\ DOMAIN deferred' = 1..(Len(deferred) + 1)
        /\ \A i \in 1..Len(deferred) : deferred'[i] = deferred[i]
        /\ deferred'[Len(deferred) + 1] = new
    BY <1>1, <2>1, <2>2, AppendProperties, LenProperties
  <2>4. \A i \in 1..(Len(deferred) + 1) : i # Len(deferred) + 1 => i \in 1..Len(deferred)
    BY <1>1
  <2>5. Len(deferred) + 1 \in 1..(Len(deferred) + 1) /\ Len(deferred) + 1 \in Nat
    BY <1>1
  <2>6. ParkedAt(w, Len(deferred) + 1)
    BY <1>1, <2>1, <2>3, <2>4, <2>5 DEF ParkedAt
  <2> QED BY <1>1, <2>3, <2>5, <2>6
<1>3. CASE mine # {}
  <2> DEFINE k == CHOOSE i \in mine : \A j \in mine : i <= j
  <2>1. mine \subseteq Nat
    BY <1>1
  <2>2. \E i \in mine : \A j \in mine : i <= j
    BY <1>3, <2>1, LeastExists
  <2>3. k \in 1..Len(deferred)
    BY <1>1, <2>2
  <2> DEFINE new == [deferred[k] EXCEPT !.wakes = @ \cup {w}]
  <2>4. deferred' = [deferred EXCEPT ![k] = new]
    BY <1>3 DEF Parked
  <2> HIDE DEF k, mine
  <2>5. new \in Request /\ new.wakes = deferred[k].wakes \cup {w}
    BY <1>1, <2>3 DEF Request
  <2> HIDE DEF new
  <2>6. /\ deferred' \in Seq(Request) /\ Len(deferred') = Len(deferred)
        /\ DOMAIN deferred' = 1..Len(deferred)
        /\ \A i \in 1..Len(deferred) : deferred'[i] = IF i = k THEN new ELSE deferred[i]
    BY <1>1, <2>3, <2>4, <2>5, ExceptSeq, LenProperties
  <2>7. ParkedAt(w, k)
    BY <1>1, <2>3, <2>5, <2>6 DEF ParkedAt
  <2> QED BY <1>1, <2>3, <2>6, <2>7
<1> QED BY <1>2, <1>3

LEMMA ParkedGrows ==
  ASSUME Inv, NEW w \in Wakes, deferred' = Parked(w), NEW k, ParkedAt(w, k)
  PROVE  /\ w \in deferred'[k].wakes /\ Len(deferred') <= Len(deferred) + 1
         /\ \A i \in DOMAIN deferred :
              i \in DOMAIN deferred' /\ deferred[i].wakes \subseteq deferred'[i].wakes
<1>1. /\ Len(deferred) \in Nat /\ Len(deferred') \in Nat
      /\ DOMAIN deferred = 1..Len(deferred) /\ DOMAIN deferred' = 1..Len(deferred')
  BY ParkedShape
<1>2. /\ Len(deferred') = Len(deferred) \/ Len(deferred') = Len(deferred) + 1
      /\ w \in deferred'[k].wakes
  BY DEF ParkedAt
<1>3. Len(deferred) \in Nat /\ Len(deferred') \in Nat
  BY <1>1
<1>4. Len(deferred') <= Len(deferred) + 1 /\ 1..Len(deferred) \subseteq 1..Len(deferred')
      /\ Len(deferred) + 1 \notin 1..Len(deferred)
  BY <1>2, <1>3
<1>5. ASSUME NEW i \in 1..Len(deferred)
      PROVE  i \in DOMAIN deferred' /\ deferred[i].wakes \subseteq deferred'[i].wakes
  <2>1. i \in DOMAIN deferred' /\ i # Len(deferred) + 1
    BY <1>1, <1>4
  <2> QED BY <2>1 DEF ParkedAt
<1> QED BY <1>1, <1>2, <1>4, <1>5

LEMMA ParkedRequests ==
  ASSUME Inv, NEW w \in Wakes, deferred' = Parked(w), Came \subseteq Came', w \in Came'
  PROVE  /\ deferred' \in Seq(Request) /\ Len(deferred') \in Nat
         /\ Len(deferred') <= Len(deferred) + 1
         /\ Parking(w)' /\ \A v \in Wakes : Parking(v) => Parking(v)'
         /\ ParkedCame'
<1>1. deferred' \in Seq(Request) /\ Len(deferred') \in Nat
  BY ParkedShape
<1>2. PICK k \in DOMAIN deferred' : ParkedAt(w, k)
  BY ParkedShape
<1>3. /\ w \in deferred'[k].wakes /\ Len(deferred') <= Len(deferred) + 1
      /\ \A i \in DOMAIN deferred :
           i \in DOMAIN deferred' /\ deferred[i].wakes \subseteq deferred'[i].wakes
  BY <1>2, ParkedGrows
<1>4. Parking(w)' /\ \A v \in Wakes : Parking(v) => Parking(v)'
  BY <1>3 DEF Parking
<1>5. ASSUME NEW i \in DOMAIN deferred' PROVE deferred'[i].wakes \subseteq Came'
  BY <1>2 DEF ParkedAt, Inv, ParkedCame
<1>6. ParkedCame'
  BY <1>5 DEF ParkedCame
<1> QED BY <1>1, <1>3, <1>4, <1>6

LEMMA DeferStep ==
  ASSUME Inv, NEW w \in Wakes, Defer(w)
  PROVE  Inv' /\ OverKept
<1>1. /\ tx.wake = w /\ tx' = NoTx /\ wake' = [wake EXCEPT ![w] = "in"]
      /\ UNCHANGED <<issue, at, dropped, events, runs, late>> /\ deferred' = Parked(w)
  BY DEF Defer, Commit
<1>2. Came \subseteq Came' /\ w \in Came'
  BY <1>1, TxFacts DEF Came
<1>3. /\ deferred' \in Seq(Request) /\ Len(deferred') \in Nat
      /\ Len(deferred') <= Len(deferred) + 1
      /\ Parking(w)' /\ \A v \in Wakes : Parking(v) => Parking(v)'
      /\ ParkedCame'
  BY <1>1, <1>2, ParkedRequests
<1>4. /\ Edited /\ Created' = Created /\ AutoRuns' = AutoRuns /\ Plain' = Plain /\ BegunPast'
  BY <1>1, NoEdit, EditedRows
<1>5. TypeInv'
  BY <1>1, <1>3, TxFacts DEF Inv, TypeInv
<1>6. HandledExists'
  BY <1>1, <1>4, TxFacts DEF HandledExists
<1>7. /\ Created \subseteq Created' /\ Created' = 1..Cardinality(Created')
      /\ \A q \in Created : runs[q].wakes \subseteq runs'[q].wakes
      /\ Cardinality(AutoRuns') <= MaxAuto /\ late \subseteq late'
      /\ Cardinality(Plain') + Len(deferred') <= Cardinality(Plain) + Len(deferred) + 1
      /\ Cardinality(Plain') \in Nat
  BY <1>1, <1>3, <1>4, TxFacts
<1>8. Inv'
  BY <1>1, <1>3, <1>4, <1>5, <1>6, <1>7, CommitStep
<1> QED BY <1>4, <1>8 DEF Edited

LEMMA QueueStep ==
  ASSUME Inv, NEW w \in Wakes, Queue(w)
  PROVE  Inv' /\ OverKept
<1>1. /\ tx.wake = w /\ tx' = NoTx /\ wake' = [wake EXCEPT ![w] = "in"]
      /\ UNCHANGED <<issue, at, dropped, events, deferred, late>>
      /\ runs' = [runs EXCEPT ![Fresh] = Row("queued", AgentOf[w], {w}, NoRun)]
  BY DEF Queue, Commit
<1>2. Added("queued", AgentOf[w], {w}, NoRun) /\ Room(NoRun)
  <2>1. AgentOf[w] \in Agents
    BY QueueConstants
  <2>2. Cardinality(Plain) < MaxWakes
    BY <1>1, TxFacts, RunsFinite
  <2> QED BY <1>1, <2>1, <2>2 DEF Added, Room
<1>3. /\ runs' \in [Runs -> Run] /\ runs'[Fresh] = Row("queued", AgentOf[w], {w}, NoRun)
      /\ Created' = Created \cup {Fresh} /\ Created' = 1..Cardinality(Created')
      /\ Cardinality(AutoRuns') = Cardinality(AutoRuns)
      /\ Cardinality(Plain') = Cardinality(Plain) + 1
      /\ BegunPast' /\ OverKept /\ \A r \in Created : runs'[r] = runs[r]
  BY <1>2, AddedRows
<1>4. w \in runs'[Fresh].wakes /\ Fresh \in Created'
  BY <1>3 DEF Row
<1>5. TypeInv'
  BY <1>1, <1>3, TxFacts DEF Inv, TypeInv
<1>6. HandledExists' /\ ParkedCame'
  <2>1. Came \subseteq Came'
    BY <1>1, TxFacts DEF Came
  <2> QED BY <1>1, <1>3, <2>1, TxFacts DEF HandledExists, ParkedCame
<1>7. /\ Created \subseteq Created' /\ late \subseteq late'
      /\ \A q \in Created : runs[q].wakes \subseteq runs'[q].wakes
      /\ Cardinality(AutoRuns') <= MaxAuto
      /\ Cardinality(Plain') + Len(deferred') <= Cardinality(Plain) + Len(deferred) + 1
      /\ Cardinality(Plain') \in Nat /\ Len(deferred') \in Nat
  <2>1. Len(deferred') = Len(deferred) /\ late' = late
    BY <1>1
  <2>2. Cardinality(AutoRuns) <= MaxAuto /\ Cardinality(Plain) \in Nat /\ Len(deferred) \in Nat
    BY <1>1, TxFacts
  <2>3. Cardinality(Plain') + Len(deferred') = Cardinality(Plain) + Len(deferred) + 1
        /\ Cardinality(Plain') \in Nat
    BY <1>3, <2>1, <2>2
  <2>4. Created \subseteq Created' /\ \A q \in Created : runs[q].wakes \subseteq runs'[q].wakes
    BY <1>3
  <2> QED BY <1>3, <2>1, <2>2, <2>3, <2>4
<1>8. \A v \in Wakes : Parking(v) => Parking(v)'
  BY <1>1 DEF Parking
<1>9. Inv'
  BY <1>1, <1>3, <1>4, <1>5, <1>6, <1>7, <1>8, CommitStep
<1> QED BY <1>3, <1>9

LEMMA SkipStep ==
  ASSUME Inv, NEW w \in Wakes, SkipBlocked(w)
  PROVE  Inv' /\ OverKept
<1>1. /\ tx.wake = w /\ tx' = NoTx /\ wake' = [wake EXCEPT ![w] = "ended"]
      /\ UNCHANGED <<issue, runs, deferred, at, late, events>>
  BY DEF SkipBlocked
<1>2. dropped' \in BOOLEAN
  BY DEF SkipBlocked, Inv, TypeInv
<1>4. /\ Edited /\ Created' = Created /\ AutoRuns' = AutoRuns /\ Plain' = Plain /\ BegunPast'
  BY <1>1, NoEdit, EditedRows
<1>5. TypeInv'
  BY <1>1, <1>2, TxFacts DEF Inv, TypeInv
<1>6. HandledExists' /\ ParkedCame'
  <2>1. Came \subseteq Came'
    BY <1>1, TxFacts DEF Came
  <2> QED BY <1>1, <1>4, <2>1, TxFacts DEF HandledExists, ParkedCame
<1>7. /\ Created \subseteq Created' /\ Created' = 1..Cardinality(Created')
      /\ \A q \in Created : runs[q].wakes \subseteq runs'[q].wakes
      /\ Cardinality(AutoRuns') <= MaxAuto /\ late \subseteq late'
      /\ Cardinality(Plain') + Len(deferred') <= Cardinality(Plain) + Len(deferred) + 1
      /\ Cardinality(Plain') \in Nat /\ Len(deferred') \in Nat
  BY <1>1, <1>4, TxFacts
<1>8. \A v \in Wakes : Parking(v) => Parking(v)'
  BY <1>1 DEF Parking
<1>9. Inv'
  BY <1>1, <1>4, <1>5, <1>6, <1>7, <1>8, CommitStep
<1> QED BY <1>4, <1>9 DEF Edited

(* Rows of which some that are alive are cancelled.                        *)
Cut(R) ==
  /\ R \in [Runs -> Run]
  /\ \A q \in Runs : /\ R[q].retryOf = runs[q].retryOf
                     /\ R[q].wakes = runs[q].wakes /\ R[q].begun = runs[q].begun
                     /\ R[q].missed = runs[q].missed
                     /\ \/ R[q].status = runs[q].status
                        \/ runs[q].status \in Alive /\ R[q].status = "cancelled"

LEMMA CancelledCut ==
  ASSUME NEW R, Cut(R), NEW r \in Runs \cup {NoRun}, r # NoRun => R[r].status \in Alive
  PROVE  Cut(Cancelled(R, r))
<1>1. CASE r = NoRun
  BY <1>1 DEF Cancelled
<1>2. CASE r # NoRun
  <2>1. r \in Runs /\ R \in [Runs -> Run] /\ R[r].status = runs[r].status
    BY <1>2 DEF Cut, Alive
  <2>2. /\ Cancelled(R, r) = [R EXCEPT ![r].status = "cancelled"]
        /\ "cancelled" \in Alive \cup Over \cup {"absent"}
    BY <1>2 DEF Cancelled, Over
  <2>3. /\ Cancelled(R, r) \in [Runs -> Run]
        /\ \A q \in Runs : /\ Cancelled(R, r)[q].retryOf = R[q].retryOf
                           /\ Cancelled(R, r)[q].wakes = R[q].wakes
                           /\ Cancelled(R, r)[q].begun = R[q].begun
                           /\ Cancelled(R, r)[q].missed = R[q].missed
                           /\ Cancelled(R, r)[q].status =
                                IF q = r THEN "cancelled" ELSE R[q].status
    BY <2>1, <2>2 DEF Run
  <2> QED BY <1>2, <2>1, <2>3 DEF Cut
<1> QED BY <1>1, <1>2

LEMMA LegacyFinds ==
  ASSUME NEW R
  PROVE  Legacy(R) = NoRun \/ (Legacy(R) \in Runs /\ R[Legacy(R)].status \in Alive)
<1> DEFINE alive == {r \in Runs : R[r].status \in Alive}
           running == {r \in alive : R[r].status = "running"}
           first == IF running # {} THEN running ELSE alive
<1>1. Legacy(R) = IF first = {} THEN NoRun ELSE CHOOSE r \in first : \A n \in first : r <= n
  BY DEF Legacy
<1>2. first \subseteq alive /\ alive \subseteq Runs
  OBVIOUS
<1>3. first \subseteq Nat
  BY <1>2, RunsFinite
<1>4. first # {} => \E r \in first : \A n \in first : r <= n
  BY <1>3, LeastExists
<1> HIDE DEF first
<1>5. CASE first = {}
  BY <1>1, <1>5
<1>6. CASE first # {}
  <2>1. Legacy(R) \in first
    BY <1>1, <1>4, <1>6
  <2> QED BY <1>2, <2>1
<1> QED BY <1>5, <1>6

LEMMA OpenStep ==
  ASSUME Inv, NEW w \in Wakes, Open(w)
  PROVE  Inv' /\ OverKept
<1> DEFINE held == IF issue.run # NoRun /\ IsAlive(issue.run) THEN issue.run ELSE NoRun
           keeps == held # NoRun /\ ~StaleHolder(held)
           left == IF keeps THEN runs ELSE Cancelled(runs, held)
           legacy == Legacy(left)
           stale == /\ ~keeps /\ legacy # NoRun
                    /\ left[legacy].status = "scheduled_retry"
                    /\ left[legacy].agent # issue.assignee
           found == IF keeps THEN held ELSE IF stale THEN NoRun ELSE legacy
<1>1. /\ runs' = IF stale THEN Cancelled(left, legacy) ELSE left
      /\ issue' = [issue EXCEPT !.run = found]
      /\ tx' = [wake |-> w, run |-> found,
                status |-> IF found = NoRun THEN "absent" ELSE runs[found].status]
      /\ wake[w] = "new" /\ Cardinality(Came) < MaxWakes
      /\ UNCHANGED <<deferred, wake, at, late, dropped, events>>
  BY DEF Open, Came
<1>2. /\ issue.run \in Runs \cup {NoRun} /\ issue \in IssueRow
      /\ wake \in [Wakes -> {"new", "in", "ended"}]
  BY DEF Inv, TypeInv, IssueRow
<1>3. held \in Runs \cup {NoRun} /\ (held # NoRun => runs[held].status \in Alive)
  BY <1>2 DEF IsAlive
<1>4. Cut(runs)
  BY DEF Cut, Inv, TypeInv
<1>5. Cut(left)
  BY <1>3, <1>4, CancelledCut
<1>6. legacy = NoRun \/ (legacy \in Runs /\ left[legacy].status \in Alive)
  BY LegacyFinds
<1>7. Cut(runs')
  BY <1>1, <1>5, <1>6, CancelledCut
<1>8. legacy # NoRun => runs[legacy].status \in Alive
  BY <1>5, <1>6 DEF Cut, Alive
<1>9. found \in Runs \cup {NoRun} /\ (found # NoRun => runs[found].status \in Alive)
  BY <1>3, <1>6, <1>8
<1> HIDE DEF found, stale, legacy, left, keeps, held
<1>10. Edited
  <2>1. runs \in [Runs -> Run] /\ BegunPast
    BY DEF Inv, TypeInv
  <2>2. \A q \in Runs : runs'[q].begun => runs'[q].status \notin Waiting
    BY <1>7, <2>1 DEF Cut, BegunPast, Waiting
  <2>3. OverKept
    BY <1>7 DEF Cut, OverKept, Over, Alive
  <2>4. \A q \in Runs : (runs'[q].status = "absent") <=> (runs[q].status = "absent")
    BY <1>7 DEF Cut, Alive
  <2> QED BY <1>7, <2>2, <2>3, <2>4 DEF Cut, Edited
<1>11. Created' = Created /\ AutoRuns' = AutoRuns /\ Plain' = Plain /\ BegunPast'
  BY <1>10, EditedRows
<1>12. found # NoRun => found \in Created
  BY <1>9 DEF Created, Alive
<1>13. issue' \in IssueRow
  BY <1>1, <1>2, <1>9 DEF IssueRow
<1>14. tx' \in TxRow
  BY <1>1, <1>9 DEF TxRow
<1>15. TypeInv'
  BY <1>1, <1>10, <1>13, <1>14 DEF Edited, Inv, TypeInv
<1>16. Came' = Came
  BY <1>1 DEF Came
<1>17. HandledExists' /\ Counting' /\ ParkedCame'
  BY <1>1, <1>11, <1>16 DEF Inv, HandledExists, Counting, ParkedCame
<1>18. TxSound'
  <2>1. tx'.wake = w /\ tx'.run = found /\ w # NoWake
    BY <1>1, QueueConstants
  <2>2. Due' = 1
    BY <2>1 DEF Due
  <2>3. Cardinality(Came') + Due' <= MaxWakes
    BY <1>1, <1>16, <2>2, Finite, RunsFinite
  <2> QED BY <1>1, <1>11, <1>12, <2>1, <2>3 DEF TxSound
<1>19. Carried'
  <2> SUFFICES ASSUME NEW v \in Comments, wake'[v] = "in"
               PROVE  Parking(v)' \/ v \in late' \/ \E r \in Created' : v \in runs'[r].wakes
    BY DEF Carried
  <2>1. Parking(v) \/ v \in late \/ \E r \in Created : v \in runs[r].wakes
    BY <1>1 DEF Inv, Carried
  <2> QED BY <1>1, <1>7, <1>11, <2>1, Finite DEF Parking, Cut
<1>20. Inv'
  BY <1>11, <1>15, <1>17, <1>18, <1>19 DEF Inv
<1> QED BY <1>10, <1>20 DEF Edited

-----------------------------------------------------------------------------
LEMMA InitTrue == Init => Inv
<1> SUFFICES ASSUME Init PROVE Inv
  OBVIOUS
<1>1. MaxWakes \in Nat /\ MaxEvents \in Nat /\ MaxAuto \in Nat
      /\ Assignee \in Agents /\ Comments \subseteq Wakes
  BY QueueConstants
<1>2. Absent \in Run /\ NoTx \in TxRow /\ <<>> \in Seq(Request) /\ Len(<<>>) = 0
  BY <1>1, EmptySeq DEF Absent, Run, NoTx, TxRow
<1>3. TypeInv
  <2>1. issue \in IssueRow
    BY <1>1 DEF Init, IssueRow
  <2>2. runs \in [Runs -> Run] /\ deferred \in Seq(Request) /\ tx \in TxRow
    BY <1>2 DEF Init
  <2>3. wake \in [Wakes -> {"new", "in", "ended"}]
    BY DEF Init
  <2>4. "idle" \in Steps
    BY DEF Steps
  <2>5. at \in [Handlers -> [Runs -> Steps]]
    BY <2>4 DEF Init
  <2>6. late \in SUBSET Wakes /\ events \in 0..MaxEvents
    BY <1>1 DEF Init
  <2>7. dropped \in BOOLEAN
    BY Zenon DEF Init
  <2> QED BY <2>1, <2>2, <2>3, <2>5, <2>6, <2>7 DEF TypeInv
<1>4. Created = {} /\ AutoRuns = {} /\ Plain = {} /\ Came = {}
  BY DEF Init, Created, AutoRuns, Plain, Came, Absent
<1>5. Cardinality({}) = 0
  BY FS_EmptySet
<1>6. Counting
  BY <1>1, <1>2, <1>4, <1>5 DEF Init, Counting
<1>7. TxSound
  BY <1>1, <1>4, <1>5 DEF Init, TxSound, Due, NoTx
<1>8. ParkedCame
  BY DEF Init, ParkedCame
<1>9. HandledExists /\ BegunPast
  BY DEF Init, HandledExists, BegunPast, Absent
<1>10. Carried
  BY <1>1 DEF Init, Carried
<1> QED BY <1>3, <1>6, <1>7, <1>8, <1>9, <1>10 DEF Inv

LEMMA InvInductive == Inv /\ [Next]_vars => Inv' /\ (OverKept \/ UNCHANGED vars)
<1> SUFFICES ASSUME Inv, [Next]_vars PROVE Inv' /\ (OverKept \/ UNCHANGED vars)
  OBVIOUS
<1>1. CASE UNCHANGED vars
  <2>1. Calm /\ UNCHANGED at /\ issue' \in IssueRow /\ dropped' \in BOOLEAN
        /\ events' \in 0..MaxEvents /\ UNCHANGED runs
    BY <1>1 DEF vars, Calm, Inv, TypeInv
  <2> QED BY <2>1, NoEdit, RestStep
<1>2. ASSUME NEW w \in Wakes, WakeStep(w) PROVE Inv' /\ OverKept
  BY <1>2, OpenStep, MergeStep, DeferStep, QueueStep, SkipStep DEF WakeStep
<1>3. ASSUME NEW r \in Runs, RunStep(r) PROVE Inv' /\ OverKept
  <2>1. CASE ExecuteStep(r)
    BY <2>1, ClaimSteps, ExecuteSteps, RetrySteps DEF ExecuteStep
  <2>2. CASE GateStep(r)
    BY <2>2, ClaimSteps, ExecuteSteps DEF GateStep
  <2>3. CASE CancelStep(r)
    BY <2>3, EndSteps DEF CancelStep
  <2>4. CASE ReapStep(r)
    BY <2>4, EndSteps, OutliveSteps, RetrySteps DEF ReapStep
  <2>5. CASE ChildEnds(r) \/ Releases(r)
    BY <2>5, OutliveSteps, ReleaseSteps
  <2> QED BY <1>3, <2>1, <2>2, <2>3, <2>4, <2>5 DEF RunStep
<1> QED BY <1>1, <1>2, <1>3, EnvironmentSteps DEF Next

(* The rows, the parked requests and the handlers keep their types; in     *)
(* particular there is a row left for every run that is created.           *)
THEOREM TypeCorrect == Spec => []TypeOK
<1>1. Inv => TypeOK
  BY DEF Inv, TypeInv, TypeOK, IssueRow, Request, TxRow
<1> QED BY InitTrue, InvInductive, <1>1, PTL DEF Spec

(* A wake-up that carries a comment and was accepted is in the context of  *)
(* some run that had not begun, or is parked, unless the run moved on while *)
(* enqueueWakeup was about to merge it: for any number of wake-ups, agents, *)
(* retries, cancellations, reapings and restarts.                          *)
THEOREM CommentsKept == Spec => []CommentsCarried
<1>1. Inv => CommentsCarried
  BY Finite DEF Inv, Carried, CommentsCarried
<1> QED BY InitTrue, InvInductive, <1>1, PTL DEF Spec

(* How a run ended is overwritten only by a handler that found the run     *)
(* alive and writes later, with that handler's own end; the run comes      *)
(* alive again only if the reaper had listed it before it ended and its    *)
(* process outlived a restart.  No retry, promotion, merge, claim, drain   *)
(* or late end of executeRun writes over it.                               *)
THEOREM OverCorrect == Spec => OverStays
<1>1. Inv /\ [Next]_vars => Inv'
  BY InvInductive
<1>2. Inv /\ [Next]_vars =>
        [\A r \in Runs :
           runs[r].status \in Over /\ runs'[r].status # runs[r].status
             => Overwrites(r, runs'[r].status)]_vars
  BY InvInductive DEF OverKept
<1> QED BY InitTrue, <1>1, <1>2, PTL DEF Spec, OverStays
=============================================================================
