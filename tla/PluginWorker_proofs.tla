------------------------ MODULE PluginWorker_proofs ------------------------
(* Theorems of PluginWorker, for any sets of operations, handles and       *)
(* processes and any MAX_CONSECUTIVE_CRASHES.                              *)
EXTENDS PluginWorker, TLAPS

HandleRow == [status : HandleStatus, child : Procs \cup {NoProc}, timer : BOOLEAN,
              stray : BOOLEAN, intentional : BOOLEAN, crashes : 0..(MaxCrashes + 1)]
ProcRow == [of : Handles \cup {NoHandle}, killed : BOOLEAN]
TaskRow == [pc : Pcs, op : Ops, on : Handles \cup {NoHandle},
            exit : Procs \cup {NoProc}, saw : {"ready", "offline"}, go : BOOLEAN]

TypeInv ==
  /\ row \in {"ready", "offline"} /\ workers \in Handles \cup {NoHandle}
  /\ starting \in BOOLEAN /\ slip \in BOOLEAN
  /\ handle \in [Handles -> HandleRow]
  /\ proc \in [Procs -> ProcRow]
  /\ task \in [Tasks -> TaskRow]

(* Whoever is inside a start or a stop has a handle, and whoever waits for *)
(* a process to be killed has a process; a worker that is unloaded is not  *)
(* being bounced.                                                          *)
Inside == StartWaits \cup StopWaits \cup {"restart"}
InsideHasHandle ==
  \A t \in Tasks : /\ task[t].pc \in Inside => task[t].on \in Handles
                   /\ task[t].pc \in {"killed", "kill"} => task[t].exit \in Procs
                   /\ task[t].pc = "unload" => task[t].op # "bounce"

(* The child of a handle is a process this handle forked.                  *)
ChildIsOwn == \A h \in Handles : handle[h].child # NoProc => proc[handle[h].child].of = h

(* A process that is alive has a handle that forked it.                    *)
AliveHasHandle == \A p \in Procs : Alive(p) => proc[p].of \in Handles

(* A handle whose initialize call can still be answered ok has a child: an *)
(* exit that takes the child away has rejected the call.                   *)
AwaitedHasChild ==
  \A t \in Tasks : task[t].pc = "init" /\ ~task[t].go => handle[task[t].on].child # NoProc

RunningHasChild == \A h \in Handles : handle[h].status = "running" => handle[h].child # NoProc

Inv == /\ TypeInv /\ InsideHasHandle /\ ChildIsOwn /\ AliveHasHandle
       /\ AwaitedHasChild /\ RunningHasChild

-----------------------------------------------------------------------------
(* Rows                                                                    *)

LEMMA RowsTyped == NewHandle \in HandleRow /\ Gone \in ProcRow /\ Idle \in TaskRow
BY WorkerConstants
   DEF NewHandle, Gone, Idle, HandleRow, ProcRow, TaskRow, HandleStatus, Pcs, Ops

LEMMA TypeInvIsType == TypeInv <=> TypeOK
BY DEF TypeInv, TypeOK, HandleRow, ProcRow, TaskRow

LEMMA BegunTyped ==
  ASSUME TypeInv, NEW op \in Ops
  PROVE  /\ Begun(op) \in TaskRow
         /\ Begun(op).go = FALSE
<1>1. row \in {"ready", "offline"}
  BY DEF TypeInv
<1> QED BY <1>1, RowsTyped DEF Begun, TaskRow, Idle

LEMMA CallTyped ==
  ASSUME TypeInv, NEW t \in Tasks, NEW op \in Ops, NEW pc \in Pcs
  PROVE  /\ Call(t, pc, op) \in [Tasks -> TaskRow]
         /\ Call(t, pc, op)[t].pc = pc /\ Call(t, pc, op)[t].op = op
         /\ \A u \in Tasks \ {t} : Call(t, pc, op)[u] = task[u]
<1>1. Begun(op) \in TaskRow
  BY BegunTyped
<1>2. /\ [Begun(op) EXCEPT !.pc = pc] \in TaskRow
      /\ [Begun(op) EXCEPT !.pc = pc].pc = pc /\ [Begun(op) EXCEPT !.pc = pc].op = op
  BY <1>1 DEF TaskRow, Begun, Idle
<1> QED BY <1>2 DEF Call, TypeInv

LEMMA GotoTyped ==
  ASSUME TypeInv, NEW t \in Tasks, NEW pc \in Pcs
  PROVE  /\ Goto(t, pc) \in [Tasks -> TaskRow]
         /\ Goto(t, pc)[t].pc = pc
         /\ \A u \in Tasks \ {t} : Goto(t, pc)[u] = task[u]
<1>1. task[t] \in TaskRow
  BY DEF TypeInv
<1>2. [task[t] EXCEPT !.pc = pc, !.exit = NoProc, !.go = FALSE] \in TaskRow
      /\ [task[t] EXCEPT !.pc = pc, !.exit = NoProc, !.go = FALSE].pc = pc
  BY <1>1 DEF TaskRow
<1> QED BY <1>2 DEF Goto, TypeInv

LEMMA ReturnTyped ==
  ASSUME TypeInv, NEW t \in Tasks
  PROVE  /\ Return(t) \in [Tasks -> TaskRow]
         /\ Return(t)[t].pc = "idle"
         /\ \A u \in Tasks \ {t} : Return(t)[u] = task[u]
BY RowsTyped DEF Return, TypeInv, Idle

LEMMA WaitExitTyped ==
  ASSUME TypeInv, NEW t \in Tasks, NEW pc \in Pcs, NEW h \in Handles
  PROVE  /\ WaitExit(t, pc, h) \in [Tasks -> TaskRow]
         /\ WaitExit(t, pc, h)[t].pc = pc
         /\ WaitExit(t, pc, h)[t].on = h
         /\ WaitExit(t, pc, h)[t].exit = handle[h].child
         /\ \A u \in Tasks \ {t} : WaitExit(t, pc, h)[u] = task[u]
<1>1. task[t] \in TaskRow /\ handle[h].child \in Procs \cup {NoProc}
  BY DEF TypeInv, HandleRow
<1> DEFINE new == [task[t] EXCEPT !.pc = pc, !.on = h, !.exit = handle[h].child, !.go = FALSE]
<1>2. new \in TaskRow /\ new.pc = pc /\ new.on = h /\ new.exit = handle[h].child
  BY <1>1 DEF TaskRow
<1>3. WaitExit(t, pc, h) = [task EXCEPT ![t] = new]
  BY DEF WaitExit, TypeInv
<1> HIDE DEF new
<1> QED BY <1>2, <1>3 DEF TypeInv

-----------------------------------------------------------------------------
(* Steps that take no child away from a handle and fork no process: they   *)
(* keep the invariant when whoever they put inside a start or a stop has   *)
(* what it needs there.                                                    *)

Placed(row1) ==
  \/ row1.pc \notin Inside \cup {"unload"}
  \/ row1.pc = "unload" /\ row1.op # "bounce"
  \/ /\ row1.pc \in Inside /\ row1.on \in Handles
     /\ row1.pc \in {"killed", "kill"} => row1.exit \in Procs
     /\ row1.pc = "init" => row1.go

LEMMA QuietStep ==
  ASSUME Inv, TypeInv',
         \A t \in Tasks : task'[t] = task[t] \/ Placed(task'[t]),
         \A h \in Handles : /\ handle'[h].child = handle[h].child
                            /\ handle'[h].status = "running" =>
                                 handle[h].status = "running" \/ handle[h].child # NoProc,
         \A p \in Procs : /\ proc'[p].of = proc[p].of
                          /\ proc'[p] # Gone => proc[p] # Gone
  PROVE  Inv'
<1>1. InsideHasHandle'
  BY DEF Inv, InsideHasHandle, Placed, Inside, StartWaits, StopWaits
<1>2. ChildIsOwn'
  <2> SUFFICES ASSUME NEW h \in Handles, handle'[h].child # NoProc
               PROVE  proc'[handle'[h].child].of = h
    BY DEF ChildIsOwn
  <2>1. handle[h].child \in Procs
    BY DEF Inv, TypeInv, HandleRow
  <2> QED BY <2>1 DEF Inv, ChildIsOwn
<1>3. AliveHasHandle'
  BY DEF Inv, AliveHasHandle, Alive
<1>4. AwaitedHasChild'
  <2> SUFFICES ASSUME NEW t \in Tasks, task'[t].pc = "init", ~task'[t].go
               PROVE  handle'[task'[t].on].child # NoProc
    BY DEF AwaitedHasChild
  <2>1. task'[t] = task[t] /\ task[t].on \in Handles
    BY DEF Inv, InsideHasHandle, Placed, Inside, StartWaits
  <2> QED BY <2>1 DEF Inv, AwaitedHasChild
<1>5. RunningHasChild'
  BY DEF Inv, RunningHasChild
<1> QED BY <1>1, <1>2, <1>3, <1>4, <1>5 DEF Inv

(* In particular those that change no more than one operation.             *)
LEMMA OutsideStep ==
  ASSUME Inv, NEW t \in Tasks, TypeInv',
         UNCHANGED <<handle, proc>>, task'[t].pc \notin Inside,
         task'[t].pc = "unload" => task'[t].op # "bounce",
         \A u \in Tasks \ {t} : task'[u] = task[u]
  PROVE  Inv'
<1>1. \A u \in Tasks : task'[u] = task[u] \/ Placed(task'[u])
  BY DEF Placed
<1> QED BY <1>1, QuietStep

(* A new process is the child of the handle that forked it, and its        *)
(* initialize call waits for it.                                           *)
LEMMA SpawnStep ==
  ASSUME Inv, NEW t \in Tasks, NEW h \in Handles, NEW base \in HandleRow,
         Spawn(t, h, base),
         row' \in {"ready", "offline"}, workers' \in Handles \cup {NoHandle},
         starting' \in BOOLEAN, slip' \in BOOLEAN
  PROVE  Inv'
<1> DEFINE p == CHOOSE q \in Procs : ~Alive(q)
           hd == [base EXCEPT !.status = "starting", !.intentional = FALSE, !.child = p]
           pr == [of |-> h, killed |-> FALSE]
           me == [task[t] EXCEPT !.pc = "init", !.on = h, !.exit = p, !.go = FALSE]
<1>1. p \in Procs /\ proc[p] = Gone
  BY DEF Spawn, Alive
<1>2. /\ handle' = [handle EXCEPT ![h] = hd]
      /\ proc' = [proc EXCEPT ![p] = pr]
      /\ task' = [task EXCEPT ![t] = me]
  BY DEF Spawn, Inv, TypeInv
<1> HIDE DEF p
<1>3. /\ hd \in HandleRow /\ hd.status = "starting" /\ hd.child = p
      /\ pr \in ProcRow /\ pr.of = h /\ pr # Gone
      /\ me \in TaskRow /\ me.pc = "init" /\ me.on = h
  <2>1. task[t] \in TaskRow
    BY DEF Inv, TypeInv
  <2>2. hd \in HandleRow /\ hd.status = "starting" /\ hd.child = p
    BY <1>1 DEF HandleRow, HandleStatus
  <2>3. me \in TaskRow /\ me.pc = "init" /\ me.on = h
    BY <1>1, <2>1 DEF TaskRow, Pcs, StartWaits
  <2>4. pr \in ProcRow /\ pr.of = h /\ pr # Gone
    <3>1. h # NoHandle
      BY WorkerConstants
    <3> QED BY <3>1 DEF ProcRow, Gone
  <2> QED BY <2>2, <2>3, <2>4
<1> HIDE DEF hd, pr, me
<1>4. TypeInv'
  BY <1>1, <1>2, <1>3 DEF Inv, TypeInv
<1>5. InsideHasHandle'
  BY <1>2, <1>3 DEF Inv, TypeInv, InsideHasHandle
<1>6. ChildIsOwn'
  <2> SUFFICES ASSUME NEW g \in Handles, handle'[g].child # NoProc
               PROVE  proc'[handle'[g].child].of = g
    BY DEF ChildIsOwn
  <2>1. CASE g = h
    BY <1>1, <1>2, <1>3, <2>1 DEF Inv, TypeInv
  <2>2. CASE g # h
    <3>1. handle'[g] = handle[g] /\ handle[g].child \in Procs
      BY <1>2, <2>2 DEF Inv, TypeInv, HandleRow
    <3>2. proc[handle[g].child].of = g
      BY <3>1 DEF Inv, ChildIsOwn
    <3>3. handle[g].child # p
      BY <1>1, <3>2, WorkerConstants DEF Gone
    <3> QED BY <1>2, <3>1, <3>2, <3>3 DEF Inv, TypeInv
  <2> QED BY <2>1, <2>2
<1>7. AliveHasHandle'
  BY <1>2, <1>3 DEF Inv, TypeInv, AliveHasHandle, Alive
<1>8. AwaitedHasChild'
  <2> SUFFICES ASSUME NEW u \in Tasks, task'[u].pc = "init", ~task'[u].go
               PROVE  handle'[task'[u].on].child # NoProc
    BY DEF AwaitedHasChild
  <2>1. task'[u].on \in Handles
    BY <1>5 DEF InsideHasHandle, Inside, StartWaits
  <2>2. CASE task'[u].on = h
    BY <1>1, <1>2, <1>3, <2>2, WorkerConstants DEF Inv, TypeInv
  <2>3. CASE task'[u].on # h
    BY <1>2, <1>3, <2>1, <2>3 DEF Inv, TypeInv, AwaitedHasChild
  <2> QED BY <2>2, <2>3
<1>9. RunningHasChild'
  BY <1>2, <1>3 DEF Inv, TypeInv, RunningHasChild
<1> QED BY <1>4, <1>5, <1>6, <1>7, <1>8, <1>9 DEF Inv
-----------------------------------------------------------------------------
(* The end of a start, and a stop                                          *)

LEMMA StartEndsTyped ==
  ASSUME TypeInv, NEW t \in Tasks, NEW ok \in BOOLEAN, StartEnds(t, ok)
  PROVE  /\ task' \in [Tasks -> TaskRow] /\ starting' \in BOOLEAN
         /\ \A u \in Tasks : task'[u] = task[u] \/ Placed(task'[u])
<1>1. CASE task[t].op = "bounce" \/ t \in Handles
  <2>1. task' = Return(t) /\ starting' = starting
    BY <1>1 DEF StartEnds
  <2> QED BY <2>1, ReturnTyped
          DEF TypeInv, Placed, Inside, StartWaits, StopWaits
<1>2. CASE ~(task[t].op = "bounce" \/ t \in Handles)
  <2> DEFINE failed == [Idle EXCEPT !.pc = "markError", !.op = "markError"]
             joined(u) == [task[u] EXCEPT !.pc = "register", !.on = NoHandle, !.exit = NoProc]
  <2>1. /\ starting' = FALSE
        /\ task' = [u \in Tasks |-> IF u \notin JoinedOr(t) THEN task[u]
                                    ELSE IF ok THEN joined(u) ELSE failed]
    BY <1>2 DEF StartEnds
  <2>2. failed \in TaskRow /\ failed.pc = "markError"
    BY RowsTyped DEF TaskRow, Pcs, Ops
  <2>3. ASSUME NEW u \in Tasks
        PROVE  task[u] \in TaskRow /\ joined(u) \in TaskRow /\ joined(u).pc = "register"
    BY DEF TypeInv, TaskRow, Pcs
  <2> HIDE DEF failed, joined
  <2>4. task' \in [Tasks -> TaskRow]
    BY <2>1, <2>2, <2>3
  <2>5. ASSUME NEW u \in Tasks PROVE task'[u] = task[u] \/ Placed(task'[u])
    BY <2>1, <2>2, <2>3 DEF Placed, Inside, StartWaits, StopWaits
  <2> QED BY <2>1, <2>4, <2>5
<1> QED BY <1>1, <1>2

LEMMA StopReturnsTyped ==
  ASSUME TypeInv, NEW t \in Tasks, NEW h \in Handles, NEW me \in TaskRow,
         StopReturns(t, h, me)
  PROVE  /\ task' \in [Tasks -> TaskRow] /\ workers' \in Handles \cup {NoHandle}
         /\ \A u \in Tasks : task'[u] = task[u] \/ Placed(task'[u])
<1> DEFINE on1 == IF me.op = "bounce" THEN h ELSE NoHandle
           new == [me EXCEPT !.pc = AfterStop(me.op), !.on = on1,
                             !.exit = NoProc, !.go = me.op = "bounce"]
<1>1. /\ workers' = IF me.op = "bounce" THEN workers ELSE NoHandle
      /\ task' = [task EXCEPT ![t] = new]
  BY DEF StopReturns
<1>2. AfterStop(me.op) \in {"restart", "load", "write"}
      /\ (AfterStop(me.op) = "restart" <=> me.op = "bounce")
  BY DEF AfterStop
<1>3. (me.op = "bounce") \in BOOLEAN /\ on1 \in Handles \cup {NoHandle}
  OBVIOUS
<1>4. /\ new \in TaskRow /\ new.pc = AfterStop(me.op)
      /\ me.op = "bounce" => new.on = h
  BY <1>2, <1>3 DEF TaskRow, Pcs
<1> HIDE DEF new
<1>5. Placed(new)
  BY <1>2, <1>4 DEF Placed, Inside, StartWaits, StopWaits
<1> QED BY <1>1, <1>4, <1>5 DEF TypeInv

LEMMA StopStep ==
  ASSUME Inv, NEW t \in Tasks, NEW h \in Handles, NEW me \in TaskRow, Stop(t, h, me)
  PROVE  Inv'
<1>0. /\ handle[h] \in HandleRow
      /\ Cancelled(h) \in HandleRow /\ Cancelled(h).child = handle[h].child
      /\ Cancelled(h).status = handle[h].status
  BY DEF Cancelled, Inv, TypeInv, HandleRow
<1>1. /\ task' \in [Tasks -> TaskRow] /\ workers' \in Handles \cup {NoHandle}
      /\ \A u \in Tasks : task'[u] = task[u] \/ Placed(task'[u])
  <2>1. CASE StopReturns(t, h, me)
    BY <2>1, StopReturnsTyped DEF Inv
  <2>2. CASE /\ workers' = workers
             /\ task' = [task EXCEPT ![t] = [me EXCEPT !.pc = "drain", !.on = h,
                                                       !.exit = handle[h].child]]
    <3> DEFINE new == [me EXCEPT !.pc = "drain", !.on = h, !.exit = handle[h].child]
    <3>1. new \in TaskRow /\ new.pc = "drain" /\ new.on = h
      BY <1>0 DEF TaskRow, HandleRow, Pcs, StopWaits
    <3> HIDE DEF new
    <3>2. task' = [task EXCEPT ![t] = new]
      BY <2>2 DEF new
    <3> QED BY <2>2, <3>1, <3>2 DEF Placed, Inv, TypeInv
  <2> QED BY <2>1, <2>2 DEF Stop
<1>2. /\ handle' \in [Handles -> HandleRow]
      /\ \A g \in Handles : /\ handle'[g].child = handle[g].child
                            /\ handle'[g].status = "running" => handle[g].status = "running"
  <2>1. PICK hd \in HandleRow : /\ handle' = [handle EXCEPT ![h] = hd]
                                /\ hd.child = handle[h].child
                                /\ hd.status = "running" => handle[h].status = "running"
    <3>1. CASE handle' = [handle EXCEPT ![h] = Cancelled(h)]
      BY <3>1, <1>0
    <3>2. CASE \E status \in {"stopped", "stopping"} :
                 handle' = [handle EXCEPT ![h] = [Cancelled(h) EXCEPT
                              !.intentional = TRUE, !.status = status]]
      <4>1. PICK status \in {"stopped", "stopping"} :
                 handle' = [handle EXCEPT ![h] = [Cancelled(h) EXCEPT
                              !.intentional = TRUE, !.status = status]]
        BY <3>2
      <4> DEFINE hd == [Cancelled(h) EXCEPT !.intentional = TRUE, !.status = status]
      <4>2. hd \in HandleRow /\ hd.child = handle[h].child /\ hd.status # "running"
        BY <1>0 DEF HandleRow, HandleStatus
      <4> QED BY <4>1, <4>2
    <3> QED BY <3>1, <3>2 DEF Stop
  <2> QED BY <2>1 DEF Inv, TypeInv
<1>3. slip' \in BOOLEAN
  BY DEF Stop, Inv, TypeInv
<1>4. UNCHANGED <<row, starting, proc>>
  BY DEF Stop
<1>5. TypeInv'
  BY <1>1, <1>2, <1>3, <1>4 DEF Inv, TypeInv
<1> QED BY <1>1, <1>2, <1>4, <1>5, QuietStep

(* handleProcessExit takes the child away from the handle that forked it.  *)
LEMMA ExitStep ==
  ASSUME Inv, NEW p \in Procs, Exit(p)
  PROVE  Inv'
<1> DEFINE h == proc[p].of
<1>1. h \in Handles
  BY DEF Exit, Inv, AliveHasHandle
<1>2. PICK base \in {0, handle[h].crashes} : handle' = [handle EXCEPT ![h] = Exited(@, base)]
  BY DEF Exit
<1>3. handle[h] \in HandleRow /\ base \in 0..(MaxCrashes + 1)
  BY <1>1, <1>2, WorkerConstants DEF Inv, TypeInv, HandleRow
<1> DEFINE hd == Exited(handle[h], base)
<1>4. Counted(base) \in 0..(MaxCrashes + 1)
  BY <1>3, WorkerConstants DEF Counted, WillRestart
<1>5. hd \in HandleRow /\ hd.child = NoProc /\ hd.status # "running"
  BY <1>3, <1>4 DEF Exited, HandleRow, HandleStatus
<1>6. handle' = [handle EXCEPT ![h] = hd]
  BY <1>1, <1>2 DEF Inv, TypeInv
<1> HIDE DEF hd
<1>7. /\ proc' = [proc EXCEPT ![p] = Gone]
      /\ UNCHANGED <<row, workers, starting, slip>>
  BY DEF Exit
<1>8. ASSUME NEW t \in Tasks
      PROVE  /\ task'[t] = [task[t] EXCEPT !.go = task'[t].go]
             /\ task'[t] \in TaskRow
             /\ task'[t].pc = task[t].pc /\ task'[t].on = task[t].on
             /\ task'[t].exit = task[t].exit /\ task'[t].op = task[t].op
             /\ task'[t].pc = "init" /\ ~task'[t].go => task[t].on # h /\ ~task[t].go
  <2>1. task[t] \in TaskRow
    BY DEF Inv, TypeInv
  <2>2. \/ task'[t] = [task[t] EXCEPT !.go = TRUE]
        \/ task'[t] = task[t] /\ ~(task[t].pc = "init" /\ task[t].on = h)
    BY DEF Exit, RpcWaits
  <2> QED BY <2>1, <2>2 DEF TaskRow
<1>9. TypeInv'
  <2>1. task' = [t \in Tasks |-> task'[t]]
    BY DEF Exit
  <2>2. task' \in [Tasks -> TaskRow]
    BY <1>8, <2>1
  <2> QED BY <1>1, <1>5, <1>6, <1>7, <2>2, RowsTyped DEF Inv, TypeInv
<1>10. InsideHasHandle'
  BY <1>8 DEF Inv, InsideHasHandle
<1>11. ChildIsOwn'
  <2> SUFFICES ASSUME NEW g \in Handles, handle'[g].child # NoProc
               PROVE  proc'[handle'[g].child].of = g
    BY DEF ChildIsOwn
  <2>1. g # h
    BY <1>1, <1>5, <1>6 DEF Inv, TypeInv
  <2>2. handle'[g] = handle[g] /\ handle[g].child \in Procs
    BY <1>6, <2>1 DEF Inv, TypeInv, HandleRow
  <2>3. proc[handle[g].child].of = g /\ handle[g].child # p
    BY <2>1, <2>2 DEF Inv, ChildIsOwn
  <2> QED BY <1>7, <2>2, <2>3 DEF Inv, TypeInv
<1>12. AliveHasHandle'
  BY <1>7 DEF Inv, TypeInv, AliveHasHandle, Alive
<1>13. AwaitedHasChild'
  <2> SUFFICES ASSUME NEW t \in Tasks, task'[t].pc = "init", ~task'[t].go
               PROVE  handle'[task'[t].on].child # NoProc
    BY DEF AwaitedHasChild
  <2>1. task'[t].on = task[t].on /\ task[t].on # h /\ task[t].pc = "init" /\ ~task[t].go
    BY <1>8
  <2>2. task[t].on \in Handles /\ handle[task[t].on].child # NoProc
    BY <2>1 DEF Inv, InsideHasHandle, Inside, StartWaits, AwaitedHasChild
  <2> QED BY <1>6, <2>1, <2>2 DEF Inv, TypeInv
<1>14. RunningHasChild'
  BY <1>1, <1>5, <1>6 DEF Inv, TypeInv, RunningHasChild
<1> QED BY <1>9, <1>10, <1>11, <1>12, <1>13, <1>14 DEF Inv
-----------------------------------------------------------------------------
(* The actions                                                             *)

LEMMA InitTrue == Init => Inv
<1> SUFFICES ASSUME Init PROVE Inv
  OBVIOUS
<1>1. TypeInv
  BY RowsTyped DEF Init, TypeInv
<1>2. InsideHasHandle /\ AwaitedHasChild
  BY DEF Init, InsideHasHandle, AwaitedHasChild, Idle, Inside, StartWaits, StopWaits
<1>3. ChildIsOwn /\ AliveHasHandle /\ RunningHasChild
  BY DEF Init, ChildIsOwn, AliveHasHandle, RunningHasChild, Alive, NewHandle
<1> QED BY <1>1, <1>2, <1>3 DEF Inv

LEMMA InitOkStep ==
  ASSUME Inv, NEW t \in Tasks, InitOk(t)
  PROVE  Inv'
<1> DEFINE h == task[t].on
           hd == [handle[h] EXCEPT !.status = "running", !.crashes = 0]
<1>1. h \in Handles /\ handle[h].child # NoProc /\ handle[h] \in HandleRow
  BY DEF InitOk, Waits, Inv, TypeInv, InsideHasHandle, AwaitedHasChild, Inside, StartWaits
<1>0. 0 \in 0..(MaxCrashes + 1)
  BY WorkerConstants
<1>2. hd \in HandleRow /\ hd.child = handle[h].child
  BY <1>0, <1>1 DEF HandleRow, HandleStatus
<1>3. /\ handle' = [handle EXCEPT ![h] = hd]
      /\ UNCHANGED <<row, workers, proc, slip>> /\ StartEnds(t, TRUE)
  BY DEF InitOk
<1> HIDE DEF h, hd
<1>4. /\ task' \in [Tasks -> TaskRow] /\ starting' \in BOOLEAN
      /\ \A u \in Tasks : task'[u] = task[u] \/ Placed(task'[u])
  BY <1>3, StartEndsTyped DEF Inv
<1>5. TypeInv'
  BY <1>2, <1>3, <1>4 DEF Inv, TypeInv
<1>6. \A g \in Handles : /\ handle'[g].child = handle[g].child
                         /\ handle'[g].status = "running" =>
                              handle[g].status = "running" \/ handle[g].child # NoProc
  BY <1>1, <1>2, <1>3 DEF Inv, TypeInv
<1> QED BY <1>3, <1>4, <1>5, <1>6, QuietStep

(* Only the status of a handle changes, to one that is not "running", or   *)
(* its note that the exit is intended.                                     *)
LEMMA StatusStep ==
  ASSUME Inv, NEW h \in Handles, NEW hd \in HandleRow, hd.child = handle[h].child,
         hd.status = "running" => handle[h].status = "running",
         handle' = [handle EXCEPT ![h] = hd],
         UNCHANGED <<row, proc, slip>>,
         task' \in [Tasks -> TaskRow], starting' \in BOOLEAN,
         workers' \in Handles \cup {NoHandle},
         \A u \in Tasks : task'[u] = task[u] \/ Placed(task'[u])
  PROVE  Inv'
<1>1. TypeInv'
  BY DEF Inv, TypeInv
<1>2. \A g \in Handles : /\ handle'[g].child = handle[g].child
                         /\ handle'[g].status = "running" => handle[g].status = "running"
  BY DEF Inv, TypeInv
<1> QED BY <1>1, <1>2, QuietStep

(* A process is sent SIGKILL, and the operation waits for its exit.        *)
LEMMA KillStep ==
  ASSUME Inv, NEW t \in Tasks, NEW h \in Handles, NEW pc \in StopWaits \cup {"killed"},
         NEW intentional \in BOOLEAN, NEW killed \in BOOLEAN,
         handle[h].child # NoProc,
         handle' = [handle EXCEPT ![h].intentional = intentional],
         proc' = [proc EXCEPT ![handle[h].child].killed = killed],
         task' = WaitExit(t, pc, h),
         UNCHANGED <<row, workers, starting, slip>>
  PROVE  Inv'
<1> DEFINE p == handle[h].child
<1>1. p \in Procs /\ proc[p].of = h /\ proc[p] # Gone /\ h # NoHandle
  BY WorkerConstants DEF Inv, TypeInv, HandleRow, ChildIsOwn, Gone
<1>2. /\ \A u \in Tasks : task'[u] = task[u] \/ Placed(task'[u])
      /\ task' \in [Tasks -> TaskRow]
  <2>1. pc \in Pcs /\ pc # "init"
    BY DEF Pcs, StartWaits, StopWaits
  <2>2. task'[t].pc = pc /\ task'[t].on = h /\ task'[t].exit = p
        /\ (\A u \in Tasks \ {t} : task'[u] = task[u]) /\ task' \in [Tasks -> TaskRow]
    BY <2>1, WaitExitTyped DEF Inv
  <2>3. pc \in Inside
    BY DEF Inside, StartWaits
  <2>4. Placed(task'[t])
    BY <1>1, <2>1, <2>2, <2>3 DEF Placed
  <2> QED BY <2>2, <2>4
<1>3. /\ \A g \in Handles : /\ handle'[g].child = handle[g].child
                            /\ handle'[g].status = handle[g].status
      /\ handle' \in [Handles -> HandleRow]
  BY DEF Inv, TypeInv, HandleRow
<1>4. /\ \A q \in Procs : /\ proc'[q].of = proc[q].of
                          /\ proc'[q] # Gone => proc[q] # Gone
      /\ proc' \in [Procs -> ProcRow]
  <2>1. proc[p] \in ProcRow
    BY <1>1 DEF Inv, TypeInv
  <2> QED BY <1>1, <2>1 DEF Inv, TypeInv, ProcRow
<1>5. TypeInv'
  BY <1>2, <1>3, <1>4 DEF Inv, TypeInv
<1> QED BY <1>2, <1>3, <1>4, <1>5, QuietStep

LEMMA StartStepKeeps ==
  ASSUME Inv, NEW t \in Tasks, StartStep(t)
  PROVE  Inv'
<1> DEFINE h == task[t].on
           hd == [handle[h] EXCEPT !.status = "crashed"]
<1>1. h \in Handles /\ handle[h] \in HandleRow
  BY DEF StartStep, InitFails, InitKilled, Continues, Inv, TypeInv, InsideHasHandle,
         Inside, StartWaits
<1>2. hd \in HandleRow /\ hd.child = handle[h].child /\ hd.status # "running"
  BY <1>1 DEF HandleRow, HandleStatus
<1>3. CASE /\ handle' = [handle EXCEPT ![h].status = "crashed"]
           /\ StartEnds(t, FALSE) /\ UNCHANGED <<row, workers, proc, slip>>
  <2>1. handle' = [handle EXCEPT ![h] = hd]
    BY <1>3
  <2>2. /\ task' \in [Tasks -> TaskRow] /\ starting' \in BOOLEAN
        /\ \A u \in Tasks : task'[u] = task[u] \/ Placed(task'[u])
    BY <1>3, StartEndsTyped DEF Inv
  <2>3. workers' \in Handles \cup {NoHandle}
    BY <1>3 DEF Inv, TypeInv
  <2> HIDE DEF hd, h
  <2> QED BY <1>1, <1>2, <1>3, <2>1, <2>2, <2>3, StatusStep
<1>4. CASE /\ handle[h].child # NoProc
           /\ handle' = [handle EXCEPT ![h].intentional = TRUE]
           /\ proc' = [proc EXCEPT ![handle[h].child].killed = TRUE]
           /\ task' = WaitExit(t, "killed", h)
           /\ UNCHANGED <<row, workers, starting, slip>>
  BY <1>1, <1>4, KillStep
<1>5. InitFails(t) \/ InitKilled(t)
  BY DEF StartStep
<1> QED BY <1>3, <1>4, <1>5 DEF InitFails, InitKilled

LEMMA StopGoesOnKeeps ==
  ASSUME Inv, NEW t \in Tasks, NEW pc \in StopWaits, StopGoesOn(t, pc)
  PROVE  Inv'
<1> DEFINE h == task[t].on
           p == handle[h].child
           hd == [handle[h] EXCEPT !.status = "stopped"]
<1>1. h \in Handles /\ handle[h] \in HandleRow /\ task[t] \in TaskRow
  BY DEF StopGoesOn, Continues, Inv, TypeInv, InsideHasHandle, Inside
<1>2. CASE /\ handle' = [handle EXCEPT ![h].status = "stopped"]
           /\ StopReturns(t, h, task[t]) /\ UNCHANGED <<row, starting, proc, slip>>
  <2>1. hd \in HandleRow /\ hd.child = handle[h].child /\ hd.status # "running"
    BY <1>1 DEF HandleRow, HandleStatus
  <2>2. handle' = [handle EXCEPT ![h] = hd]
    BY <1>2
  <2>3. /\ task' \in [Tasks -> TaskRow] /\ workers' \in Handles \cup {NoHandle}
        /\ \A u \in Tasks : task'[u] = task[u] \/ Placed(task'[u])
    BY <1>1, <1>2, StopReturnsTyped DEF Inv
  <2>4. starting' \in BOOLEAN
    BY <1>2 DEF Inv, TypeInv
  <2> HIDE DEF hd, h
  <2> QED BY <1>1, <1>2, <2>1, <2>2, <2>3, <2>4, StatusStep
<1>3. CASE /\ pc # "kill" /\ p # NoProc
           /\ task' = WaitExit(t, Escalation[pc], h)
           /\ proc' = IF pc = "term" THEN [proc EXCEPT ![p].killed = TRUE] ELSE proc
           /\ UNCHANGED <<row, workers, starting, handle, slip>>
  <2>1. Escalation[pc] \in StopWaits
    BY <1>3 DEF Escalation, StopWaits
  <2>2. handle' = [handle EXCEPT ![h].intentional = handle[h].intentional]
    BY <1>1, <1>3 DEF Inv, TypeInv, HandleRow
  <2>3. p \in Procs /\ proc[p] \in ProcRow
    BY <1>1, <1>3 DEF Inv, TypeInv, HandleRow
  <2>4. proc = [proc EXCEPT ![p].killed = proc[p].killed]
    BY <2>3 DEF Inv, TypeInv, ProcRow
  <2>5. PICK killed \in BOOLEAN : proc' = [proc EXCEPT ![p].killed = killed]
    BY <1>3, <2>3, <2>4 DEF ProcRow
  <2>6. handle[h].intentional \in BOOLEAN
    BY <1>1 DEF HandleRow
  <2> QED BY <1>1, <1>3, <2>1, <2>2, <2>5, <2>6, KillStep
<1> QED BY <1>2, <1>3 DEF StopGoesOn

LEMMA FireKeeps ==
  ASSUME Inv, NEW h \in Handles, Fire(h)
  PROVE  Inv'
<1>0. h \in Tasks /\ handle[h] \in HandleRow
  BY DEF Tasks, Inv, TypeInv
<1>1. PICK stray \in LeftPending(handle[h]) :
        LET hd == [handle[h] EXCEPT !.timer = FALSE, !.stray = stray]
        IN \/ /\ handle' = [handle EXCEPT ![h] = hd]
              /\ UNCHANGED <<proc, task, slip>>
           \/ /\ Spawn(h, h, hd)
              /\ slip' = (slip \/ BeingStopped(h))
  BY DEF Fire
<1>2. stray \in BOOLEAN
  BY <1>0, <1>1 DEF LeftPending, HandleRow
<1> DEFINE hd == [handle[h] EXCEPT !.timer = FALSE, !.stray = stray]
<1>3. hd \in HandleRow /\ hd.child = handle[h].child /\ hd.status = handle[h].status
  BY <1>0, <1>2 DEF HandleRow
<1>4. /\ row' \in {"ready", "offline"} /\ workers' \in Handles \cup {NoHandle}
      /\ starting' \in BOOLEAN /\ UNCHANGED <<row, workers, starting>>
  BY DEF Fire, Inv, TypeInv
<1>5. CASE handle' = [handle EXCEPT ![h] = hd] /\ UNCHANGED <<proc, task, slip>>
  <2>1. task' \in [Tasks -> TaskRow]
    BY <1>5 DEF Inv, TypeInv
  <2> HIDE DEF hd
  <2> QED BY <1>3, <1>4, <1>5, <2>1, StatusStep
<1>6. CASE Spawn(h, h, hd) /\ slip' = (slip \/ BeingStopped(h))
  <2>1. slip' \in BOOLEAN
    BY <1>6 DEF Inv, TypeInv
  <2> HIDE DEF hd
  <2> QED BY <1>0, <1>3, <1>4, <1>6, <2>1, SpawnStep
<1> QED BY <1>1, <1>5, <1>6

(* The steps of the operations.                                            *)
LEMMA BeginsKeeps ==
  ASSUME Inv, NEW t \in Calls, Begins(t)
  PROVE  Inv'
<1>0. t \in Tasks /\ TypeInv
  BY DEF Tasks, Inv
<1>1. CASE Bounce(t)
  <2>1. Begun("bounce") \in TaskRow /\ workers \in Handles
    BY <1>0, <1>1, BegunTyped DEF Bounce, Ops, TypeInv
  <2> QED BY <1>0, <1>1, <2>1, StopStep DEF Bounce
<1>2. CASE Enable(t) \/ Disable(t) \/ Reload(t)
  <2>1. PICK pc \in {"write", "unload"}, op \in {"enable", "disable", "reload"} :
          task' = Call(t, pc, op)
    BY <1>2 DEF Enable, Disable, Reload
  <2>2. pc \in Pcs /\ op \in Ops /\ pc \notin Inside /\ op # "bounce"
    BY DEF Pcs, Ops, Inside, StartWaits, StopWaits
  <2>3. /\ task' \in [Tasks -> TaskRow] /\ task'[t].pc = pc /\ task'[t].op = op
        /\ \A u \in Tasks \ {t} : task'[u] = task[u]
    BY <1>0, <2>1, <2>2, CallTyped
  <2>4. UNCHANGED <<row, workers, starting, handle, proc, slip>>
    BY <1>2 DEF Enable, Disable, Reload
  <2>5. TypeInv'
    BY <1>0, <2>3, <2>4 DEF TypeInv
  <2> QED BY <1>0, <2>2, <2>3, <2>4, <2>5, OutsideStep
<1> QED BY <1>1, <1>2 DEF Begins

(* An operation that goes on, or returns, outside a start or a stop.       *)
LEMMA MovesOn ==
  ASSUME Inv, NEW t \in Tasks, NEW pc \in Pcs \ (Inside \cup {"unload"}), NEW op \in Ops,
         task' = Goto(t, pc) \/ task' = Return(t) \/ task' = Call(t, pc, op),
         UNCHANGED <<workers, starting, handle, proc>>,
         row' \in {"ready", "offline"}, slip' \in BOOLEAN
  PROVE  Inv'
<1>1. /\ task' \in [Tasks -> TaskRow] /\ task'[t].pc \in {pc, "idle"}
      /\ \A u \in Tasks \ {t} : task'[u] = task[u]
  BY GotoTyped, ReturnTyped, CallTyped DEF Inv
<1>2. TypeInv'
  BY <1>1 DEF Inv, TypeInv
<1>3. task'[t].pc \notin Inside /\ task'[t].pc # "unload"
  BY <1>1 DEF Inside, StartWaits, StopWaits
<1> QED BY <1>1, <1>2, <1>3, OutsideStep

LEMMA CallKeeps ==
  ASSUME Inv, NEW t \in Calls, CallStep(t)
  PROVE  Inv'
<1>0. t \in Tasks /\ TypeInv /\ task[t] \in TaskRow
  BY DEF Tasks, Inv, TypeInv
<1>t. /\ row \in {"ready", "offline"} /\ workers \in Handles \cup {NoHandle}
      /\ starting \in BOOLEAN /\ slip \in BOOLEAN
  BY <1>0 DEF TypeInv
<1>p. /\ {"load", "activate", "joined", "write", "markError"} \subseteq Pcs \ (Inside \cup {"unload"})
      /\ {"markError", "bounce"} \subseteq Ops
  BY DEF Pcs, Ops, Inside, StartWaits, StopWaits
<1>1. CASE Write(t)
  <2>1. row' \in {"ready", "offline"}
    BY <1>1, <1>t DEF Write, Written
  <2>2. slip' \in BOOLEAN
    BY <1>1, <1>t DEF Write
  <2>3. task' = Goto(t, "load") \/ task' = Return(t)
    BY <1>1 DEF Write
  <2>4. UNCHANGED <<workers, starting, handle, proc>>
    BY <1>1 DEF Write
  <2> QED BY <1>0, <1>p, <2>1, <2>2, <2>3, <2>4, MovesOn
<1>2. CASE Unload(t)
  <2>1. CASE IsRunning /\ Stop(t, workers, task[t])
    <3>1. workers \in Handles
      BY <1>t, <2>1 DEF IsRunning
    <3> QED BY <1>0, <2>1, <3>1, StopStep
  <2>2. CASE ~IsRunning
    <3>1. AfterStop(task[t].op) \in {"load", "write"}
      <4>1. task[t].op # "bounce"
        BY <1>0, <1>2 DEF Unload, Waits, Inv, InsideHasHandle
      <4> QED BY <4>1 DEF AfterStop
    <3>2. slip' \in BOOLEAN /\ UNCHANGED <<row, workers, starting, handle, proc>>
          /\ task' = Goto(t, AfterStop(task[t].op))
      BY <1>2, <2>2, <1>t DEF Unload
    <3>3. AfterStop(task[t].op) \in Pcs \ (Inside \cup {"unload"})
      BY <3>1, <1>p
    <3> QED BY <1>0, <1>t, <1>p, <3>2, <3>3, MovesOn
  <2> QED BY <1>2, <2>1, <2>2 DEF Unload
<1>3. CASE Load(t)
  <2>1. task' = Goto(t, "activate") \/ task' = Return(t)
    BY <1>3 DEF Load
  <2>2. UNCHANGED <<row, workers, starting, handle, proc, slip>>
    BY <1>3 DEF Load
  <2> QED BY <1>0, <1>t, <1>p, <2>1, <2>2, MovesOn
<1>4. CASE Activate(t)
  <2>1. slip' \in BOOLEAN /\ row' = row
    BY <1>4, <1>t DEF Activate
  <2>2. CASE /\ task' = Goto(t, "joined") \/ task' = Call(t, "markError", "markError")
             /\ UNCHANGED <<workers, starting, handle, proc>>
    <3>1. CASE task' = Goto(t, "joined")
      BY <1>0, <1>t, <1>p, <2>1, <2>2, <3>1, MovesOn
    <3>2. CASE task' = Call(t, "markError", "markError")
      BY <1>0, <1>t, <1>p, <2>1, <2>2, <3>2, MovesOn
    <3> QED BY <2>2, <3>1, <3>2
  <2>3. ASSUME NEW h \in Handles, workers' = h, starting' = TRUE, Spawn(t, h, NewHandle)
        PROVE  Inv'
    BY <1>0, <1>t, <2>1, <2>3, RowsTyped, SpawnStep
  <2>4. (\E h \in Handles : Unused(h)) => (CHOOSE g \in Handles : Unused(g)) \in Handles
    OBVIOUS
  <2> QED BY <1>4, <2>2, <2>3, <2>4 DEF Activate
<1>5. CASE Register(t)
  <2>1. task' = Return(t) \/ task' = Call(t, "markError", "markError")
    BY <1>5 DEF Register
  <2>2. UNCHANGED <<row, workers, starting, handle, proc, slip>>
    BY <1>5 DEF Register
  <2> QED BY <1>0, <1>t, <1>p, <2>1, <2>2, MovesOn
<1>6. CASE MarkError(t)
  <2>1. CASE Stop(t, workers, Begun("markError")) /\ workers # NoHandle
    <3>1. workers \in Handles /\ Begun("markError") \in TaskRow
      BY <1>0, <1>t, <1>p, <2>1, BegunTyped
    <3> QED BY <1>0, <2>1, <3>1, StopStep
  <2>2. CASE /\ task' = Call(t, "write", "markError")
             /\ UNCHANGED <<row, workers, starting, handle, proc, slip>>
    BY <1>0, <1>t, <1>p, <2>2, MovesOn
  <2> QED BY <1>6, <2>1, <2>2 DEF MarkError
<1>7. CASE BounceStarts(t)
  <2> DEFINE h == task[t].on
  <2>1. h \in Handles /\ handle[h] \in HandleRow
    BY <1>0, <1>7 DEF BounceStarts, Continues, Inv, TypeInv, InsideHasHandle, Inside
  <2>2. CASE task' = Return(t) /\ UNCHANGED <<row, workers, starting, handle, proc, slip>>
    BY <1>0, <1>t, <1>p, <2>2, MovesOn
  <2>3. CASE /\ Spawn(t, h, handle[h]) /\ slip' = (slip \/ BeingStopped(h))
             /\ UNCHANGED <<row, workers, starting>>
    <3>1. slip' \in BOOLEAN
      BY <1>t, <2>3
    <3> QED BY <1>0, <1>t, <2>1, <2>3, <3>1, SpawnStep
  <2> QED BY <1>7, <2>2, <2>3 DEF BounceStarts
<1>8. ASSUME NEW pc \in StopWaits, StopGoesOn(t, pc) PROVE Inv'
  BY <1>0, <1>8, StopGoesOnKeeps
<1> QED BY <1>1, <1>2, <1>3, <1>4, <1>5, <1>6, <1>7, <1>8 DEF CallStep

LEMMA WaitEndsKeeps ==
  ASSUME Inv, NEW t \in Tasks, WaitEnds(t)
  PROVE  Inv'
<1> DEFINE new == [task[t] EXCEPT !.go = TRUE]
<1>1. task[t] \in TaskRow /\ task[t].pc \in Inside
  BY DEF WaitEnds, Inv, TypeInv, Inside, StartWaits, StopWaits
<1>2. new \in TaskRow /\ new.go /\ new.pc = task[t].pc /\ new.on = task[t].on
      /\ new.exit = task[t].exit
  BY <1>1 DEF TaskRow
<1>3. task' = [task EXCEPT ![t] = new] /\ UNCHANGED <<row, workers, starting, handle, proc, slip>>
  BY DEF WaitEnds
<1> HIDE DEF new
<1>4. Placed(new)
  BY <1>1, <1>2 DEF Placed, Inv, InsideHasHandle
<1>5. task' \in [Tasks -> TaskRow] /\ \A u \in Tasks : task'[u] = task[u] \/ Placed(task'[u])
  BY <1>2, <1>3, <1>4 DEF Inv, TypeInv
<1>6. TypeInv'
  BY <1>3, <1>5 DEF Inv, TypeInv
<1> QED BY <1>3, <1>5, <1>6, QuietStep

LEMMA InvInductive == Inv /\ [Next]_vars => Inv'
<1> SUFFICES ASSUME Inv, [Next]_vars PROVE Inv'
  OBVIOUS
<1>1. CASE UNCHANGED vars
  BY <1>1 DEF vars, Inv, TypeInv, InsideHasHandle, ChildIsOwn, AliveHasHandle, Alive,
              AwaitedHasChild, RunningHasChild
<1>2. ASSUME NEW t \in Tasks, Runs(t) PROVE Inv'
  <2>1. CASE Killed(t)
    <3>1. task[t].exit \in Procs
      BY <2>1 DEF Killed, Inv, InsideHasHandle
    <3> QED BY <2>1, <3>1, ExitStep DEF Killed
  <2> QED BY <1>2, <2>1, WaitEndsKeeps, StartStepKeeps, CallKeeps, FireKeeps DEF Runs
<1> QED BY <1>1, <1>2, BeginsKeeps, InitOkStep, ExitStep DEF Next

-----------------------------------------------------------------------------
(* The states of the registry, of every handle, process and operation are  *)
(* those the code has names for, and a handle counts no more crashes in a  *)
(* row than MAX_CONSECUTIVE_CRASHES and the one that ends its restarts.    *)
THEOREM TypeCorrect == Spec => []TypeOK
<1>1. Inv => TypeOK
  BY TypeInvIsType DEF Inv
<1> QED BY InitTrue, InvInductive, <1>1, PTL DEF Spec

(* A handle whose status is "running" has a child, a process it forked     *)
(* itself, whatever exits, restarts, failed starts and overlapping stops   *)
(* and starts came before: calls are never sent to a worker that is gone   *)
(* (handleProcessExit, startInternal, stopInternal).                       *)
THEOREM RunningCorrect == Spec => []RunningIsAlive
<1>1. Inv => RunningIsAlive
  BY DEF Inv, RunningIsAlive, RunningHasChild, ChildIsOwn
<1> QED BY InitTrue, InvInductive, <1>1, PTL DEF Spec
=============================================================================
