---------------------- MODULE PluginWorkerSlip_proofs ----------------------
(***************************************************************************)
(* Theorems of PluginWorker that hold until a slip: there is one worker,   *)
(* and none of a plugin that is offline.  Clean is what holds until then,  *)
(* beside the invariant Inv of PluginWorker_proofs, which always holds.    *)
(***************************************************************************)
EXTENDS PluginWorker_proofs

(* Who is stopping a worker, and who is about to start it anew.            *)
Stopper(me) == me.pc \in StopWaits \cup {"restart"}

(* A handle restarts only the registered worker, and only when it has no   *)
(* process; what says it has stopped has none.                             *)
HandleClean(h) ==
  /\ ~handle[h].stray
  /\ handle[h].timer => /\ h = workers /\ handle[h].child = NoProc
                        /\ handle[h].status # "stopped"
  /\ handle[h].status = "stopped" => handle[h].child = NoProc
  /\ handle[h].status = "stopping" => BeingStopped(h)
HandlesClean == \A h \in Handles : HandleClean(h)

(* Every process is the one the manager can reach.                         *)
ProcsClean ==
  \A p \in Procs : Alive(p) => proc[p].of = workers /\ handle[workers].child = p

(* A stop is of the registered worker, has cleared its timer, waits for    *)
(* the process the handle has, and is woken when the handle has none.      *)
StopClean(me) ==
  /\ me.on = workers /\ ~handle[workers].timer
  /\ handle[workers].child = NoProc => me.go
  /\ me.pc = "restart" => handle[workers].child = NoProc
  /\ me.pc # "restart" =>
       /\ handle[workers].intentional
       /\ handle[workers].child # NoProc =>
            me.exit = handle[workers].child /\ ~(me.pc = "kill" /\ me.go)
StopsClean == \A t \in Tasks : Stopper(task[t]) => StopClean(task[t])

Alone == \A t, u \in Tasks : Stopper(task[t]) /\ Stopper(task[u]) => t = u

(* Which operations unload, stop and write; who is about to write that the *)
(* plugin is offline, or has, left no worker.                              *)
OpClean(t, me) ==
  /\ me.pc = "unload" => me.op \in {"disable", "reload"}
  /\ me.pc \in StopWaits => me.op \in {"bounce", "disable", "reload", "markError"}
  /\ me.pc = "write" => me.op \in {"enable", "disable", "markError"} /\ t \in Calls
  /\ me.pc = "write" /\ me.op # "enable" => workers = NoHandle
OpsClean == \A t \in Tasks : OpClean(t, task[t])
OfflineClean == row = "offline" => workers = NoHandle

Clean == /\ HandlesClean /\ ProcsClean /\ StopsClean /\ Alone /\ OpsClean /\ OfflineClean

-----------------------------------------------------------------------------
(* Rows again                                                              *)

LEMMA GotoRow ==
  ASSUME TypeInv, NEW t \in Tasks, NEW pc \in Pcs
  PROVE  Goto(t, pc)[t].pc = pc /\ Goto(t, pc)[t].op = task[t].op
<1>1. task[t] \in TaskRow
  BY DEF TypeInv
<1>2. /\ [task[t] EXCEPT !.pc = pc, !.exit = NoProc, !.go = FALSE].pc = pc
      /\ [task[t] EXCEPT !.pc = pc, !.exit = NoProc, !.go = FALSE].op = task[t].op
  BY <1>1 DEF TaskRow
<1> QED BY <1>2 DEF Goto, TypeInv

LEMMA WaitExitRow ==
  ASSUME TypeInv, NEW t \in Tasks, NEW pc \in Pcs, NEW h \in Handles
  PROVE  /\ WaitExit(t, pc, h)[t].pc = pc
         /\ WaitExit(t, pc, h)[t].on = h
         /\ WaitExit(t, pc, h)[t].op = task[t].op
         /\ ~WaitExit(t, pc, h)[t].go
         /\ WaitExit(t, pc, h)[t].exit = handle[h].child
         /\ \A u \in Tasks \ {t} : WaitExit(t, pc, h)[u] = task[u]
<1>1. task[t] \in TaskRow
  BY DEF TypeInv
<1> DEFINE new == [task[t] EXCEPT !.pc = pc, !.on = h, !.exit = handle[h].child, !.go = FALSE]
<1>2. /\ new.pc = pc /\ new.on = h /\ new.exit = handle[h].child
      /\ new.op = task[t].op /\ ~new.go
  BY <1>1 DEF TaskRow
<1>3. WaitExit(t, pc, h) = [task EXCEPT ![t] = new]
  BY DEF WaitExit, TypeInv
<1> HIDE DEF new
<1> QED BY <1>2, <1>3 DEF TypeInv

-----------------------------------------------------------------------------
(* Steps that fork no process, take none away and leave the registry and   *)
(* every stop alone, but for a wake-up.                                    *)

Woken(old, new) ==
  /\ new.pc = old.pc /\ new.op = old.op /\ new.on = old.on /\ new.exit = old.exit
  /\ new.go /\ new.pc # "kill"
Outside(t, old, new) == old.pc \notin StopWaits /\ ~Stopper(new) /\ OpClean(t, new)

LEMMA PassStep ==
  ASSUME Inv, Clean, workers' = workers,
         row' = "offline" => workers = NoHandle,
         \A h \in Handles :
           /\ handle'[h].child = handle[h].child /\ handle'[h].stray = handle[h].stray
           /\ handle'[h].timer => handle[h].timer
           /\ handle[h].intentional => handle'[h].intentional
           /\ \/ handle'[h].status = handle[h].status
              \/ handle'[h].status \in {"running", "crashed"},
         \A p \in Procs : proc'[p].of = proc[p].of /\ (proc'[p] # Gone => proc[p] # Gone),
         \A u \in Tasks : \/ task'[u] = task[u]
                          \/ Woken(task[u], task'[u])
                          \/ Outside(u, task[u], task'[u])
  PROVE  Clean'
<1>1. ASSUME NEW u \in Tasks, Stopper(task'[u]) \/ task[u].pc \in StopWaits
      PROVE  /\ Stopper(task[u])
             /\ task'[u] = task[u] \/ Woken(task[u], task'[u])
  BY <1>1 DEF Woken, Outside, Stopper
<1>w. ASSUME NEW u \in Tasks, Stopper(task[u]) PROVE workers \in Handles
  BY <1>w, WorkerConstants
     DEF Clean, StopsClean, StopClean, Stopper, Inv, InsideHasHandle, Inside
<1>3. HandlesClean'
  <2> SUFFICES ASSUME NEW h \in Handles PROVE HandleClean(h)'
    BY DEF HandlesClean
  <2>1. BeingStopped(h) => BeingStopped(h)'
    <3> SUFFICES ASSUME NEW u \in Tasks, task[u].pc \in StopWaits, task[u].on = h
                 PROVE  BeingStopped(h)'
      BY DEF BeingStopped
    <3>1. task'[u].pc \in StopWaits /\ task'[u].on = h
      BY <1>1 DEF Woken
    <3> QED BY <3>1 DEF BeingStopped
  <2>2. HandleClean(h)
    BY DEF Clean, HandlesClean
  <2> QED BY <2>1, <2>2 DEF HandleClean
<1>4. ProcsClean'
  <2> SUFFICES ASSUME NEW p \in Procs, proc'[p] # Gone
               PROVE  proc'[p].of = workers /\ handle'[workers].child = p
    BY DEF ProcsClean, Alive
  <2>1. proc[p].of = workers /\ handle[workers].child = p /\ workers \in Handles
    BY DEF Clean, ProcsClean, Alive, Inv, AliveHasHandle
  <2> QED BY <2>1
<1>5. StopsClean'
  <2> SUFFICES ASSUME NEW t \in Tasks, Stopper(task'[t]) PROVE StopClean(task[t])'
    BY DEF StopsClean
  <2>1. StopClean(task[t]) /\ workers \in Handles
    BY <1>1, <1>w DEF Clean, StopsClean
  <2>2. task'[t] = task[t] \/ Woken(task[t], task'[t])
    BY <1>1
  <2>3. CASE task'[t] = task[t]
    BY <2>1, <2>3 DEF StopClean
  <2>4. CASE Woken(task[t], task'[t])
    BY <2>1, <2>4 DEF StopClean, Woken
  <2> QED BY <2>2, <2>3, <2>4
<1>6. Alone'
  BY <1>1 DEF Clean, Alone
<1>7. OpsClean'
  <2> SUFFICES ASSUME NEW t \in Tasks PROVE OpClean(t, task[t])'
    BY DEF OpsClean
  <2>1. OpClean(t, task[t])
    BY DEF Clean, OpsClean
  <2>2. CASE task'[t] = task[t]
    BY <2>1, <2>2 DEF OpClean
  <2>3. CASE Woken(task[t], task'[t])
    BY <2>1, <2>3 DEF OpClean, Woken
  <2>4. CASE Outside(t, task[t], task'[t])
    BY <2>4 DEF OpClean, Outside
  <2> QED BY <2>2, <2>3, <2>4
<1>8. OfflineClean'
  BY DEF OfflineClean
<1> QED BY <1>3, <1>4, <1>5, <1>6, <1>7, <1>8 DEF Clean

(* In particular those of one operation that is in no stop.                *)
LEMMA MoveStep ==
  ASSUME Inv, Clean, NEW t \in Tasks, task[t].pc \notin StopWaits, ~Stopper(task'[t]),
         OpClean(t, task'[t]),
         UNCHANGED <<workers, handle, proc>>, row' = "offline" => workers = NoHandle,
         \A u \in Tasks \ {t} : task'[u] = task[u]
  PROVE  Clean'
<1>1. \A u \in Tasks : task'[u] = task[u] \/ Outside(u, task[u], task'[u])
  BY DEF Outside
<1> QED BY <1>1, PassStep

(* A new process: there is none, nobody is stopping, and it is the child   *)
(* of the registered handle.                                               *)
LEMMA SpawnClean ==
  ASSUME Inv, Clean, Inv', NEW t \in Tasks, NEW h \in Handles, NEW base \in HandleRow,
         Spawn(t, h, base), workers' = h, ~base.timer, ~base.stray,
         \A p \in Procs : ~Alive(p),
         \A g \in Handles \ {h} : ~handle[g].timer,
         \A u \in Tasks : task[u].pc \notin StopWaits,
         \A u \in Tasks \ {t} : ~Stopper(task[u]),
         row' # "offline",
         \A u \in Tasks : task[u].pc = "write" => task[u].op = "enable"
  PROVE  Clean'
<1> DEFINE p == CHOOSE q \in Procs : ~Alive(q)
           hd == [base EXCEPT !.status = "starting", !.intentional = FALSE, !.child = p]
           pr == [of |-> h, killed |-> FALSE]
           me == [task[t] EXCEPT !.pc = "init", !.on = h, !.exit = p, !.go = FALSE]
<1>1. p \in Procs /\ proc[p] = Gone
  BY DEF Spawn, Alive
<1>2. /\ handle' = [handle EXCEPT ![h] = hd]
      /\ proc' = [proc EXCEPT ![p] = pr]
      /\ task' = [task EXCEPT ![t] = me]
  BY DEF Spawn, Inv, TypeInv
<1> HIDE DEF p
<1>3. /\ hd.status = "starting" /\ hd.child = p /\ ~hd.timer /\ ~hd.stray
      /\ pr.of = h /\ me.pc = "init"
  <2>1. task[t] \in TaskRow
    BY DEF Inv, TypeInv
  <2>2. hd.status = "starting" /\ hd.child = p /\ ~hd.timer /\ ~hd.stray
    BY <1>1 DEF HandleRow, HandleStatus
  <2>3. me.pc = "init"
    BY <1>1, <2>1 DEF TaskRow, Pcs, StartWaits
  <2>4. pr.of = h
    OBVIOUS
  <2> QED BY <2>2, <2>3, <2>4
<1> HIDE DEF hd, pr, me
<1>4. /\ handle'[h] = hd /\ \A g \in Handles \ {h} : handle'[g] = handle[g]
      /\ proc'[p] = pr /\ \A q \in Procs \ {p} : proc'[q] = proc[q]
      /\ task'[t] = me /\ \A u \in Tasks \ {t} : task'[u] = task[u]
  BY <1>1, <1>2 DEF Inv, TypeInv
<1>5. HandlesClean'
  <2> SUFFICES ASSUME NEW g \in Handles PROVE HandleClean(g)'
    BY DEF HandlesClean
  <2>1. CASE g = h
    BY <1>3, <1>4, <2>1 DEF HandleClean
  <2>2. CASE g # h
    <3>1. HandleClean(g) /\ ~BeingStopped(g)
      BY DEF Clean, HandlesClean, BeingStopped
    <3> QED BY <1>4, <2>2, <3>1 DEF HandleClean
  <2> QED BY <2>1, <2>2
<1>6. ProcsClean'
  BY <1>3, <1>4 DEF ProcsClean, Alive
<1>7. \A u \in Tasks : ~Stopper(task'[u])
  BY <1>3, <1>4 DEF Stopper, StopWaits
<1>8. OpsClean'
  <2> SUFFICES ASSUME NEW u \in Tasks PROVE OpClean(u, task[u])'
    BY DEF OpsClean
  <2>1. CASE u = t
    BY <1>3, <1>4, <2>1 DEF OpClean, StopWaits
  <2>2. CASE u # t
    BY <1>4, <2>2 DEF Clean, OpsClean, OpClean
  <2> QED BY <2>1, <2>2
<1> QED BY <1>5, <1>6, <1>7, <1>8 DEF Clean, StopsClean, Alone, OfflineClean

-----------------------------------------------------------------------------
(* Stops                                                                   *)

LEMMA NoProcess ==
  ASSUME Inv, Clean, workers = NoHandle \/ handle[workers].child = NoProc
  PROVE  \A p \in Procs : ~Alive(p)
<1> SUFFICES ASSUME NEW p \in Procs, Alive(p) PROVE FALSE
  OBVIOUS
<1> QED BY WorkerConstants DEF Inv, AliveHasHandle, Clean, ProcsClean

(* Between two events only those that wait for something are in a stop.    *)
LEMMA NobodyStops ==
  ASSUME Inv, Clean, Quiet,
         \/ workers = NoHandle
         \/ ~BeingStopped(workers)
         \/ handle[workers].child = NoProc
  PROVE  \A u \in Tasks : ~Stopper(task[u])
<1> SUFFICES ASSUME NEW u \in Tasks, Stopper(task[u]) PROVE FALSE
  OBVIOUS
<1>1. StopClean(task[u]) /\ task[u].on \in Handles /\ ~task[u].go
  BY DEF Clean, StopsClean, Inv, InsideHasHandle, Inside, Stopper, Quiet
<1>2. workers # NoHandle
  BY <1>1, WorkerConstants DEF StopClean
<1> QED BY <1>1, <1>2 DEF StopClean, Stopper, BeingStopped

StoppingOps == {"bounce", "disable", "reload", "markError"}

LEMMA StopReturnsRow ==
  ASSUME TypeInv, NEW t \in Tasks, NEW h \in Handles, NEW me \in TaskRow,
         StopReturns(t, h, me)
  PROVE  /\ workers' = IF me.op = "bounce" THEN workers ELSE NoHandle
         /\ task'[t].pc = AfterStop(me.op) /\ task'[t].op = me.op
         /\ me.op = "bounce" => task'[t].on = h /\ task'[t].go
         /\ \A u \in Tasks \ {t} : task'[u] = task[u]
<1> DEFINE on1 == IF me.op = "bounce" THEN h ELSE NoHandle
           new == [me EXCEPT !.pc = AfterStop(me.op), !.on = on1,
                             !.exit = NoProc, !.go = me.op = "bounce"]
<1>1. /\ workers' = IF me.op = "bounce" THEN workers ELSE NoHandle
      /\ task' = [task EXCEPT ![t] = new]
  BY DEF StopReturns
<1>2. /\ new.pc = AfterStop(me.op) /\ new.op = me.op
      /\ me.op = "bounce" => new.on = h /\ new.go
  BY DEF TaskRow
<1> HIDE DEF new
<1> QED BY <1>1, <1>2 DEF TypeInv

(* The stop of a worker that has no process is over.                       *)
LEMMA StopDone ==
  ASSUME Inv, Clean, NEW t \in Calls, NEW h \in Handles, h = workers,
         NEW me \in TaskRow, me.op \in StoppingOps,
         handle[h].child = NoProc, NEW hd \in HandleRow,
         hd.child = NoProc, ~hd.timer, ~hd.stray, hd.status = "stopped",
         handle' = [handle EXCEPT ![h] = hd],
         StopReturns(t, h, me), UNCHANGED <<row, proc>>,
         \A u \in Tasks \ {t} : ~Stopper(task[u])
  PROVE  Clean'
<1>0. t \in Tasks /\ TypeInv /\ h # NoHandle
  BY WorkerConstants DEF Tasks, Inv
<1>1. /\ handle'[h] = hd /\ \A g \in Handles \ {h} : handle'[g] = handle[g]
  BY DEF Inv, TypeInv
<1>2. /\ workers' = IF me.op = "bounce" THEN h ELSE NoHandle
      /\ task'[t].pc = AfterStop(me.op) /\ task'[t].op = me.op
      /\ me.op = "bounce" => task'[t].on = h /\ task'[t].go
      /\ \A u \in Tasks \ {t} : task'[u] = task[u]
  BY <1>0, StopReturnsRow
<1>3. AfterStop(me.op) = IF me.op = "bounce" THEN "restart"
                         ELSE IF me.op = "reload" THEN "load" ELSE "write"
  BY DEF AfterStop, StoppingOps
<1>4. HandlesClean'
  <2> SUFFICES ASSUME NEW g \in Handles PROVE HandleClean(g)'
    BY DEF HandlesClean
  <2>1. CASE g = h
    BY <1>1, <2>1 DEF HandleClean
  <2>2. CASE g # h
    <3>1. HandleClean(g)
      BY DEF Clean, HandlesClean
    <3>2. ~BeingStopped(g)
      BY <2>2 DEF BeingStopped, Clean, StopsClean, StopClean, Stopper
    <3> QED BY <1>1, <2>2, <3>1, <3>2 DEF HandleClean
  <2> QED BY <2>1, <2>2
<1>5. ProcsClean'
  BY NoProcess DEF ProcsClean, Alive
<1>6. \A u \in Tasks : Stopper(task'[u]) => u = t /\ me.op = "bounce"
  BY <1>2, <1>3 DEF Stopper, StopWaits
<1>7. StopsClean'
  <2> SUFFICES ASSUME NEW u \in Tasks, Stopper(task'[u]) PROVE StopClean(task[u])'
    BY DEF StopsClean
  <2> QED BY <1>1, <1>2, <1>3, <1>6 DEF StopClean
<1>8. OpsClean'
  <2> SUFFICES ASSUME NEW u \in Tasks PROVE OpClean(u, task[u])'
    BY DEF OpsClean
  <2>1. CASE u = t
    BY <1>2, <1>3, <2>1 DEF OpClean, StopWaits, StoppingOps
  <2>2. CASE u # t
    BY <1>0, <1>2, <2>2 DEF Clean, OpsClean, OpClean
  <2> QED BY <2>1, <2>2
<1>9. OfflineClean'
  BY <1>0, <1>2 DEF Clean, OfflineClean
<1> QED BY <1>4, <1>5, <1>6, <1>7, <1>8, <1>9 DEF Clean, Alone

LEMMA StopBegins ==
  ASSUME Inv, Clean, Quiet, NEW t \in Calls, workers \in Handles,
         NEW me \in TaskRow, me.op \in StoppingOps,
         Stop(t, workers, me), ~slip'
  PROVE  Clean'
<1> DEFINE h == workers
<1>0. t \in Tasks /\ TypeInv /\ h # NoHandle /\ handle[h] \in HandleRow
  BY WorkerConstants DEF Tasks, Inv, TypeInv
<1>1. ~BeingStopped(h) /\ UNCHANGED <<row, proc>>
  BY DEF Stop
<1>2. \A u \in Tasks : ~Stopper(task[u])
  BY <1>1, NobodyStops
<1>3. HandleClean(h)
  BY DEF Clean, HandlesClean
<1>4. CASE handle[h].status \in {"stopped", "stopping"}
  <2>1. handle[h].status = "stopped" /\ handle[h].child = NoProc
    BY <1>1, <1>3, <1>4 DEF HandleClean
  <2>2. handle' = [handle EXCEPT ![h] = Cancelled(h)] /\ StopReturns(t, h, me)
    BY <1>4 DEF Stop
  <2>3. /\ Cancelled(h) \in HandleRow /\ Cancelled(h).child = NoProc
        /\ ~Cancelled(h).timer /\ ~Cancelled(h).stray /\ Cancelled(h).status = "stopped"
    BY <1>0, <1>3, <2>1 DEF Cancelled, HandleRow, HandleClean
  <2> QED BY <1>1, <1>2, <2>1, <2>2, <2>3, StopDone
<1>5. CASE handle[h].status \notin {"stopped", "stopping"} /\ handle[h].child = NoProc
  <2> DEFINE hd == [Cancelled(h) EXCEPT !.intentional = TRUE, !.status = "stopped"]
  <2>1. handle' = [handle EXCEPT ![h] = hd] /\ StopReturns(t, h, me)
    BY <1>5 DEF Stop
  <2>2. /\ hd \in HandleRow /\ hd.child = NoProc
        /\ ~hd.timer /\ ~hd.stray /\ hd.status = "stopped"
    BY <1>0, <1>3, <1>5 DEF Cancelled, HandleRow, HandleClean, HandleStatus
  <2> HIDE DEF hd
  <2> QED BY <1>1, <1>2, <1>5, <2>1, <2>2, StopDone
<1>6. CASE handle[h].status \notin {"stopped", "stopping"} /\ handle[h].child # NoProc
  <2> DEFINE hd == [Cancelled(h) EXCEPT !.intentional = TRUE, !.status = "stopping"]
             new == [me EXCEPT !.pc = "drain", !.on = h, !.exit = handle[h].child]
  <2>1. /\ handle' = [handle EXCEPT ![h] = hd] /\ task' = [task EXCEPT ![t] = new]
        /\ workers' = h
    BY <1>6 DEF Stop
  <2>2. /\ hd.child = handle[h].child /\ hd.intentional
        /\ ~hd.timer /\ ~hd.stray /\ hd.status = "stopping"
    BY <1>0, <1>3, <1>6 DEF Cancelled, HandleRow, HandleClean, HandleStatus
  <2>3. new.pc = "drain" /\ new.on = h /\ new.exit = handle[h].child /\ new.op = me.op
    BY DEF TaskRow
  <2> HIDE DEF hd, new
  <2>4. /\ handle'[h] = hd /\ \A g \in Handles \ {h} : handle'[g] = handle[g]
        /\ task'[t] = new /\ \A u \in Tasks \ {t} : task'[u] = task[u]
    BY <1>0, <2>1 DEF TypeInv
  <2>5. HandlesClean'
    <3> SUFFICES ASSUME NEW g \in Handles PROVE HandleClean(g)'
      BY DEF HandlesClean
    <3>1. CASE g = h
      <4>1. BeingStopped(g)'
        BY <1>0, <2>3, <2>4, <3>1 DEF BeingStopped, StopWaits
      <4> QED BY <2>2, <2>4, <3>1, <4>1 DEF HandleClean
    <3>2. CASE g # h
      <4>1. HandleClean(g) /\ ~BeingStopped(g)
        BY <1>2 DEF Clean, HandlesClean, BeingStopped, Stopper
      <4> QED BY <2>4, <3>2, <4>1 DEF HandleClean
    <3> QED BY <3>1, <3>2
  <2>6. ProcsClean'
    BY <1>1, <2>1, <2>2, <2>4 DEF Clean, ProcsClean, Alive
  <2>7. \A u \in Tasks : Stopper(task'[u]) => u = t
    BY <1>2, <2>4
  <2>8. StopsClean'
    <3>1. StopClean(task[t])'
      BY <1>6, <2>1, <2>2, <2>3, <2>4 DEF StopClean
    <3> QED BY <2>7, <3>1 DEF StopsClean
  <2>9. OpsClean'
    <3> SUFFICES ASSUME NEW u \in Tasks PROVE OpClean(u, task[u])'
      BY DEF OpsClean
    <3>1. CASE u = t
      BY <2>3, <2>4, <3>1 DEF OpClean, StoppingOps
    <3>2. CASE u # t
      BY <2>1, <2>4, <3>2 DEF Clean, OpsClean, OpClean
    <3> QED BY <3>1, <3>2
  <2>10. OfflineClean'
    BY <1>1, <2>1 DEF Clean, OfflineClean
  <2> QED BY <2>5, <2>6, <2>7, <2>8, <2>9, <2>10 DEF Clean, Alone
<1> QED BY <1>4, <1>5, <1>6

LEMMA StopGoesOnClean ==
  ASSUME Inv, Clean, NEW t \in Calls, NEW pc \in StopWaits, StopGoesOn(t, pc)
  PROVE  Clean'
<1> DEFINE h == task[t].on
<1>0. /\ t \in Tasks /\ TypeInv /\ h \in Handles /\ h # NoHandle /\ handle[h] \in HandleRow
      /\ task[t] \in TaskRow /\ task[t].pc = pc /\ task[t].go
  BY WorkerConstants DEF StopGoesOn, Continues, Inv, TypeInv, InsideHasHandle, Inside, Tasks
<1>1. /\ StopClean(task[t]) /\ h = workers /\ pc # "restart" /\ HandleClean(h)
      /\ task[t].op \in StoppingOps
      /\ \A u \in Tasks \ {t} : ~Stopper(task[u])
  BY <1>0 DEF Clean, StopsClean, StopClean, Stopper, StopWaits, HandlesClean, Alone,
              OpsClean, OpClean, StoppingOps
<1>2. CASE /\ pc = "kill" \/ handle[h].child = NoProc
           /\ handle' = [handle EXCEPT ![h].status = "stopped"]
           /\ StopReturns(t, h, task[t]) /\ UNCHANGED <<row, starting, proc, slip>>
  <2> DEFINE hd == [handle[h] EXCEPT !.status = "stopped"]
  <2>1. handle[h].child = NoProc
    BY <1>0, <1>1, <1>2 DEF StopClean
  <2>2. /\ hd \in HandleRow /\ hd.child = NoProc /\ ~hd.timer /\ ~hd.stray
        /\ hd.status = "stopped"
    BY <1>0, <1>1, <2>1 DEF HandleRow, HandleStatus, HandleClean, StopClean
  <2>3. handle' = [handle EXCEPT ![h] = hd]
    BY <1>2
  <2> HIDE DEF hd
  <2> QED BY <1>0, <1>1, <1>2, <2>1, <2>2, <2>3, StopDone
<1>3. CASE /\ pc # "kill" /\ handle[h].child # NoProc
           /\ task' = WaitExit(t, Escalation[pc], h)
           /\ proc' = IF pc = "term" THEN [proc EXCEPT ![handle[h].child].killed = TRUE]
                                     ELSE proc
           /\ UNCHANGED <<row, workers, starting, handle, slip>>
  <2>1. Escalation[pc] \in StopWaits /\ Escalation[pc] \in Pcs
    BY <1>3 DEF Escalation, StopWaits, Pcs
  <2>2. /\ task'[t].pc \in StopWaits /\ task'[t].on = h /\ task'[t].op = task[t].op
        /\ ~task'[t].go /\ task'[t].exit = handle[h].child
        /\ \A u \in Tasks \ {t} : task'[u] = task[u]
    <3>1. PICK g \in Handles, next \in StopWaits \cap Pcs : g = h /\ next = Escalation[pc]
      BY <1>0, <2>1
    <3>2. task' = WaitExit(t, next, g)
      BY <1>3, <3>1
    <3>3. /\ task'[t].pc = next /\ task'[t].on = g /\ task'[t].op = task[t].op
          /\ ~task'[t].go /\ task'[t].exit = handle[g].child
          /\ \A u \in Tasks \ {t} : task'[u] = task[u]
      BY <1>0, <3>2, WaitExitRow
    <3> QED BY <3>1, <3>3
  <2>3. /\ \A q \in Procs : proc'[q].of = proc[q].of /\ (proc'[q] # Gone => proc[q] # Gone)
    <3>1. handle[h].child \in Procs /\ proc[handle[h].child] # Gone
      BY <1>0, <1>3, WorkerConstants DEF HandleRow, Inv, ChildIsOwn, Gone
    <3> QED BY <1>3, <3>1 DEF Inv, TypeInv, ProcRow
  <2>4. HandlesClean'
    <3> SUFFICES ASSUME NEW g \in Handles PROVE HandleClean(g)'
      BY DEF HandlesClean
    <3>1. BeingStopped(g) => BeingStopped(g)'
      BY <2>2 DEF BeingStopped
    <3>2. HandleClean(g)
      BY DEF Clean, HandlesClean
    <3> QED BY <1>3, <3>1, <3>2 DEF HandleClean
  <2>5. ProcsClean'
    BY <1>3, <2>3 DEF Clean, ProcsClean, Alive
  <2>6. \A u \in Tasks : Stopper(task'[u]) => u = t
    BY <1>1, <2>2
  <2>7. StopsClean'
    <3>1. StopClean(task[t])'
      BY <1>1, <1>0, <1>3, <2>2 DEF StopClean, StopWaits
    <3> QED BY <2>6, <3>1 DEF StopsClean
  <2>8. OpsClean'
    <3> SUFFICES ASSUME NEW u \in Tasks PROVE OpClean(u, task[u])'
      BY DEF OpsClean
    <3>1. CASE u = t
      BY <1>1, <2>2, <3>1 DEF OpClean, StoppingOps, StopWaits
    <3>2. CASE u # t
      BY <1>3, <2>2, <3>2 DEF Clean, OpsClean, OpClean
    <3> QED BY <3>1, <3>2
  <2>9. OfflineClean'
    BY <1>3 DEF Clean, OfflineClean
  <2> QED BY <2>4, <2>5, <2>6, <2>7, <2>8, <2>9 DEF Clean, Alone
<1> QED BY <1>2, <1>3 DEF StopGoesOn

-----------------------------------------------------------------------------
(* Exits and timers                                                        *)

(* The only process exits: whoever is stopping the worker is woken, and a  *)
(* timer is planned only if nobody is.                                     *)
LEMMA ExitClean ==
  ASSUME Inv, Clean, NEW p \in Procs, Exit(p)
  PROVE  Clean'
<1> DEFINE h == proc[p].of
<1>1. /\ h \in Handles /\ h = workers /\ h # NoHandle /\ handle[h].child = p /\ p # NoProc
      /\ handle[h] \in HandleRow /\ HandleClean(h)
  BY WorkerConstants DEF Exit, Inv, TypeInv, AliveHasHandle, Clean, ProcsClean, HandlesClean
<1>2. PICK base \in {0, handle[h].crashes} : handle' = [handle EXCEPT ![h] = Exited(@, base)]
  BY DEF Exit
<1> DEFINE hd == Exited(handle[h], base)
<1>3. /\ hd.child = NoProc /\ ~hd.stray /\ hd.status # "stopping"
      /\ hd.timer => ~handle[h].intentional /\ hd.status # "stopped"
      /\ hd.intentional = handle[h].intentional
  BY <1>1 DEF Exited, HandleRow, HandleStatus, HandleClean
<1>4. /\ handle'[h] = hd /\ \A g \in Handles \ {h} : handle'[g] = handle[g]
      /\ proc'[p] = Gone /\ \A q \in Procs \ {p} : proc'[q] = proc[q]
      /\ UNCHANGED <<row, workers>>
  BY <1>1, <1>2 DEF Exit, Inv, TypeInv
<1> HIDE DEF hd
<1>5. ASSUME NEW t \in Tasks
      PROVE  /\ task'[t].pc = task[t].pc /\ task'[t].op = task[t].op
             /\ task'[t].on = task[t].on /\ task'[t].exit = task[t].exit
             /\ task[t].go => task'[t].go
             /\ task[t].pc \in StopWaits /\ task[t].exit = p => task'[t].go
  <2>1. task[t] \in TaskRow
    BY DEF Inv, TypeInv
  <2>2. \/ task'[t] = [task[t] EXCEPT !.go = TRUE]
        \/ task'[t] = task[t] /\ ~(task[t].pc \in StopWaits /\ task[t].exit = p)
    BY DEF Exit, ExitWaits
  <2> QED BY <2>1, <2>2 DEF TaskRow
<1>6. ASSUME NEW t \in Tasks, Stopper(task'[t])
      PROVE  /\ Stopper(task[t]) /\ task[t].on = workers /\ task[t].pc # "restart"
             /\ handle[h].intentional /\ task[t].exit = p
  BY <1>1, <1>5, <1>6 DEF Clean, StopsClean, StopClean, Stopper
<1>7. HandlesClean'
  <2> SUFFICES ASSUME NEW g \in Handles PROVE HandleClean(g)'
    BY DEF HandlesClean
  <2>1. CASE g = h
    BY <1>1, <1>3, <1>4, <2>1 DEF HandleClean
  <2>2. CASE g # h
    <3>1. BeingStopped(g) => BeingStopped(g)'
      BY <1>5 DEF BeingStopped
    <3>2. HandleClean(g)
      BY DEF Clean, HandlesClean
    <3> QED BY <1>4, <2>2, <3>1, <3>2 DEF HandleClean
  <2> QED BY <2>1, <2>2
<1>8. ProcsClean'
  BY <1>1, <1>4 DEF Clean, ProcsClean, Alive
<1>9. StopsClean'
  <2> SUFFICES ASSUME NEW t \in Tasks, Stopper(task'[t]) PROVE StopClean(task[t])'
    BY DEF StopsClean
  <2>1. task[t].pc \in StopWaits
    BY <1>6 DEF Stopper
  <2> QED BY <1>1, <1>3, <1>4, <1>5, <1>6, <2>1 DEF StopClean
<1>10. Alone'
  BY <1>5 DEF Clean, Alone, Stopper
<1>11. OpsClean'
  <2> SUFFICES ASSUME NEW t \in Tasks PROVE OpClean(t, task[t])'
    BY DEF OpsClean
  <2>1. OpClean(t, task[t])
    BY DEF Clean, OpsClean
  <2> QED BY <1>4, <1>5, <2>1 DEF OpClean
<1>12. OfflineClean'
  BY <1>4 DEF Clean, OfflineClean
<1> QED BY <1>7, <1>8, <1>9, <1>10, <1>11, <1>12 DEF Clean

LEMMA FireClean ==
  ASSUME Inv, Inv', Clean, NEW h \in Handles, Fire(h), ~slip'
  PROVE  Clean'
<1>0. /\ h \in Tasks /\ handle[h] \in HandleRow /\ Quiet /\ task[h] = Idle
      /\ UNCHANGED <<row, workers>>
  BY DEF Tasks, Inv, TypeInv, Fire
<1>1. PICK stray \in LeftPending(handle[h]) :
        LET hd == [handle[h] EXCEPT !.timer = FALSE, !.stray = stray]
        IN \/ /\ handle' = [handle EXCEPT ![h] = hd]
              /\ UNCHANGED <<proc, task, slip>>
           \/ /\ Spawn(h, h, hd)
              /\ slip' = (slip \/ BeingStopped(h))
  BY DEF Fire
<1>2. HandleClean(h)
  BY DEF Clean, HandlesClean
<1>3. handle[h].timer /\ ~stray
  BY <1>0, <1>1, <1>2 DEF LeftPending, HandleClean
<1>4. h = workers /\ handle[h].child = NoProc /\ h # NoHandle
  BY <1>2, <1>3, WorkerConstants DEF HandleClean
<1> DEFINE hd == [handle[h] EXCEPT !.timer = FALSE, !.stray = stray]
<1>5. /\ hd \in HandleRow /\ hd.child = handle[h].child /\ hd.status = handle[h].status
      /\ hd.intentional = handle[h].intentional /\ ~hd.timer /\ ~hd.stray
  <2>1. stray \in BOOLEAN
    BY <1>0, <1>1 DEF LeftPending, HandleRow
  <2> QED BY <1>0, <1>3, <2>1 DEF HandleRow
<1>6. CASE handle' = [handle EXCEPT ![h] = hd] /\ UNCHANGED <<proc, task, slip>>
  <2> HIDE DEF hd
  <2>1. handle'[h] = hd /\ \A g \in Handles \ {h} : handle'[g] = handle[g]
    BY <1>6 DEF Inv, TypeInv
  <2>2. ASSUME NEW g \in Handles
        PROVE  /\ handle'[g].child = handle[g].child /\ handle'[g].stray = handle[g].stray
               /\ handle'[g].timer => handle[g].timer
               /\ handle[g].intentional => handle'[g].intentional
               /\ handle'[g].status = handle[g].status
    <3>1. handle[h].stray = hd.stray
      BY <1>0, <1>2, <1>5 DEF HandleRow, HandleClean
    <3> QED BY <1>5, <2>1, <3>1
  <2>3. row' = "offline" => workers = NoHandle
    BY <1>0 DEF Clean, OfflineClean
  <2> QED BY <1>0, <1>6, <2>2, <2>3, PassStep
<1>7. CASE Spawn(h, h, hd) /\ slip' = (slip \/ BeingStopped(h))
  <2> HIDE DEF hd
  <2>1. \A p \in Procs : ~Alive(p)
    BY <1>4, NoProcess
  <2>2. \A u \in Tasks : ~Stopper(task[u])
    BY <1>0, <1>4, NobodyStops
  <2>3. \A g \in Handles \ {h} : ~handle[g].timer
    BY <1>4 DEF Clean, HandlesClean, HandleClean
  <2>4. row' # "offline" /\ \A u \in Tasks : task[u].pc = "write" => task[u].op = "enable"
    BY <1>0, <1>4 DEF Clean, OfflineClean, OpsClean, OpClean
  <2>5. \A u \in Tasks : task[u].pc \notin StopWaits
    BY <2>2 DEF Stopper
  <2> QED BY <1>0, <1>4, <1>5, <1>7, <2>1, <2>2, <2>3, <2>4, <2>5, SpawnClean
<1> QED BY <1>1, <1>6, <1>7

LEMMA WaitEndsClean ==
  ASSUME Inv, Clean, NEW t \in Tasks, WaitEnds(t)
  PROVE  Clean'
<1> DEFINE new == [task[t] EXCEPT !.go = TRUE]
<1>1. task[t] \in TaskRow /\ task[t].pc # "kill"
  BY DEF WaitEnds, Inv, TypeInv
<1>2. Woken(task[t], new)
  BY <1>1 DEF TaskRow, Woken
<1>3. task' = [task EXCEPT ![t] = new] /\ UNCHANGED <<row, workers, handle, proc>>
  BY DEF WaitEnds
<1> HIDE DEF new
<1>4. \A u \in Tasks : task'[u] = task[u] \/ Woken(task[u], task'[u])
  BY <1>2, <1>3 DEF Inv, TypeInv
<1>5. row' = "offline" => workers = NoHandle
  BY <1>3 DEF Clean, OfflineClean
<1> QED BY <1>3, <1>4, <1>5, PassStep

-----------------------------------------------------------------------------
(* Starts                                                                  *)

LEMMA StartEndsClean ==
  ASSUME TypeInv, NEW t \in Tasks, task[t].pc \in StartWaits, NEW ok \in BOOLEAN,
         StartEnds(t, ok)
  PROVE  \A u \in Tasks : task'[u] = task[u] \/ Outside(u, task[u], task'[u])
<1>1. ASSUME NEW u \in Tasks, task[u].pc \in StartWaits \cup {"joined"},
             task'[u].pc \in {"idle", "register", "markError"}
      PROVE  Outside(u, task[u], task'[u])
  BY <1>1 DEF Outside, Stopper, StartWaits, StopWaits, OpClean
<1>2. CASE task[t].op = "bounce" \/ t \in Handles
  <2>1. task' = Return(t)
    BY <1>2 DEF StartEnds
  <2>2. task'[t].pc = "idle" /\ \A u \in Tasks \ {t} : task'[u] = task[u]
    BY <2>1, ReturnTyped
  <2> QED BY <1>1, <2>2
<1>3. CASE ~(task[t].op = "bounce" \/ t \in Handles)
  <2> DEFINE failed == [Idle EXCEPT !.pc = "markError", !.op = "markError"]
             joined(u) == [task[u] EXCEPT !.pc = "register", !.on = NoHandle, !.exit = NoProc]
  <2>1. task' = [u \in Tasks |-> IF u \notin JoinedOr(t) THEN task[u]
                                 ELSE IF ok THEN joined(u) ELSE failed]
    BY <1>3 DEF StartEnds
  <2>2. failed.pc = "markError"
    BY DEF Idle
  <2>3. ASSUME NEW u \in Tasks PROVE joined(u).pc = "register"
    BY DEF TypeInv, TaskRow
  <2> HIDE DEF failed, joined
  <2>4. ASSUME NEW u \in Tasks
        PROVE  \/ task'[u] = task[u]
               \/ /\ task[u].pc \in StartWaits \cup {"joined"}
                  /\ task'[u].pc \in {"idle", "register", "markError"}
    BY <2>1, <2>2, <2>3 DEF JoinedOr
  <2> QED BY <1>1, <2>4
<1> QED BY <1>2, <1>3

(* The start of an operation ends, and so does the status "starting".      *)
LEMMA StartOver ==
  ASSUME Inv, Clean, NEW t \in Tasks, task[t].pc \in StartWaits, NEW ok \in BOOLEAN,
         StartEnds(t, ok), NEW h \in Handles, NEW hd,
         handle' = [handle EXCEPT ![h] = hd],
         hd.child = handle[h].child, hd.timer = handle[h].timer, hd.stray = handle[h].stray,
         hd.intentional = handle[h].intentional, hd.status \in {"running", "crashed"},
         UNCHANGED <<row, workers, proc>>
  PROVE  Clean'
<1>1. \A u \in Tasks : task'[u] = task[u] \/ Outside(u, task[u], task'[u])
  BY StartEndsClean DEF Inv
<1>2. handle'[h] = hd /\ \A g \in Handles \ {h} : handle'[g] = handle[g]
  BY DEF Inv, TypeInv
<1>3. ASSUME NEW g \in Handles
      PROVE  /\ handle'[g].child = handle[g].child /\ handle'[g].stray = handle[g].stray
             /\ handle'[g].timer => handle[g].timer
             /\ handle[g].intentional => handle'[g].intentional
             /\ \/ handle'[g].status = handle[g].status
                \/ handle'[g].status \in {"running", "crashed"}
  BY <1>2
<1>4. row' = "offline" => workers = NoHandle
  BY DEF Clean, OfflineClean
<1> QED BY <1>1, <1>3, <1>4, PassStep

LEMMA InitOkClean ==
  ASSUME Inv, Clean, NEW t \in Tasks, InitOk(t)
  PROVE  Clean'
<1> DEFINE h == task[t].on
           hd == [handle[h] EXCEPT !.status = "running", !.crashes = 0]
<1>1. h \in Handles /\ handle[h] \in HandleRow /\ task[t].pc \in StartWaits
  BY DEF InitOk, Waits, Inv, TypeInv, InsideHasHandle, Inside, StartWaits
<1>2. /\ hd.child = handle[h].child /\ hd.timer = handle[h].timer
      /\ hd.stray = handle[h].stray /\ hd.intentional = handle[h].intentional
      /\ hd.status = "running"
  BY <1>1 DEF HandleRow
<1>3. /\ handle' = [handle EXCEPT ![h] = hd]
      /\ UNCHANGED <<row, workers, proc>> /\ StartEnds(t, TRUE)
  BY DEF InitOk
<1> HIDE DEF h, hd
<1> QED BY <1>1, <1>2, <1>3, StartOver

LEMMA StartStepClean ==
  ASSUME Inv, Clean, NEW t \in Tasks, StartStep(t)
  PROVE  Clean'
<1> DEFINE h == task[t].on
           hd == [handle[h] EXCEPT !.status = "crashed"]
<1>1. h \in Handles /\ handle[h] \in HandleRow /\ task[t].pc \in StartWaits
  BY DEF StartStep, InitFails, InitKilled, Continues, Inv, TypeInv, InsideHasHandle,
         Inside, StartWaits
<1>2. CASE /\ handle' = [handle EXCEPT ![h].status = "crashed"]
           /\ StartEnds(t, FALSE) /\ UNCHANGED <<row, workers, proc>>
  <2>1. /\ hd.child = handle[h].child /\ hd.timer = handle[h].timer
        /\ hd.stray = handle[h].stray /\ hd.intentional = handle[h].intentional
        /\ hd.status = "crashed"
    BY <1>1 DEF HandleRow
  <2>2. handle' = [handle EXCEPT ![h] = hd]
    BY <1>2
  <2> HIDE DEF h, hd
  <2> QED BY <1>1, <1>2, <2>1, <2>2, StartOver
<1>3. CASE /\ handle[h].child # NoProc
           /\ handle' = [handle EXCEPT ![h].intentional = TRUE]
           /\ proc' = [proc EXCEPT ![handle[h].child].killed = TRUE]
           /\ task' = WaitExit(t, "killed", h)
           /\ UNCHANGED <<row, workers>>
  <2> HIDE DEF h
  <2>1. /\ task'[t].pc = "killed" /\ \A u \in Tasks \ {t} : task'[u] = task[u]
    <3>1. "killed" \in Pcs
      BY DEF Pcs, StartWaits
    <3> QED BY <1>1, <1>3, <3>1, WaitExitTyped DEF Inv
  <2>2. \A u \in Tasks : task'[u] = task[u] \/ Outside(u, task[u], task'[u])
    BY <1>1, <2>1 DEF Outside, Stopper, StartWaits, StopWaits, OpClean
  <2>3. ASSUME NEW g \in Handles
        PROVE  /\ handle'[g].child = handle[g].child /\ handle'[g].stray = handle[g].stray
               /\ handle'[g].timer => handle[g].timer
               /\ handle[g].intentional => handle'[g].intentional
               /\ handle'[g].status = handle[g].status
    BY <1>3 DEF Inv, TypeInv, HandleRow
  <2>4. \A q \in Procs : proc'[q].of = proc[q].of /\ (proc'[q] # Gone => proc[q] # Gone)
    <3>1. handle[h].child \in Procs /\ proc[handle[h].child] # Gone
      BY <1>1, <1>3, WorkerConstants DEF HandleRow, Inv, ChildIsOwn, Gone
    <3> QED BY <1>3, <3>1 DEF Inv, TypeInv, ProcRow
  <2>5. row' = "offline" => workers = NoHandle
    BY <1>3 DEF Clean, OfflineClean
  <2> QED BY <1>3, <2>2, <2>3, <2>4, <2>5, PassStep
<1> QED BY <1>2, <1>3 DEF StartStep, InitFails, InitKilled

-----------------------------------------------------------------------------
(* Operations                                                              *)

LEMMA Moves ==
  ASSUME Inv, Clean, NEW t \in Calls, task[t].pc \notin StopWaits,
         NEW pc \in {"idle", "load", "activate", "joined", "markError"},
         task'[t].pc = pc, \A u \in Tasks \ {t} : task'[u] = task[u],
         UNCHANGED <<workers, handle, proc>>, row' = "offline" => workers = NoHandle
  PROVE  Clean'
<1>1. t \in Tasks /\ ~Stopper(task'[t]) /\ OpClean(t, task'[t])
  BY DEF Tasks, Stopper, StopWaits, OpClean
<1> QED BY <1>1, MoveStep

LEMMA BeginsClean ==
  ASSUME Inv, Clean, NEW t \in Calls, Begins(t), ~slip'
  PROVE  Clean'
<1>0. t \in Tasks /\ TypeInv /\ Quiet /\ task[t].pc = "idle" /\ "idle" \notin StopWaits
  BY DEF Tasks, Inv, Begins, Enable, Disable, Reload, Bounce, Free, Idle, StopWaits
<1>1. CASE Bounce(t)
  <2>1. Begun("bounce") \in TaskRow /\ workers \in Handles
    BY <1>0, <1>1, BegunTyped DEF Bounce, Ops, TypeInv
  <2>2. Begun("bounce").op \in StoppingOps
    BY DEF Begun, Idle, StoppingOps
  <2> QED BY <1>0, <1>1, <2>1, <2>2, StopBegins DEF Bounce
<1>2. CASE Enable(t) \/ Disable(t) \/ Reload(t)
  <2>1. PICK pc \in {"write", "unload"}, op \in {"enable", "disable", "reload"} :
          /\ task' = Call(t, pc, op)
          /\ pc = "write" <=> op = "enable"
    BY <1>2 DEF Enable, Disable, Reload
  <2>2. pc \in Pcs /\ op \in Ops
    BY DEF Pcs, Ops
  <2>3. /\ task'[t].pc = pc /\ task'[t].op = op
        /\ \A u \in Tasks \ {t} : task'[u] = task[u]
    BY <1>0, <2>1, <2>2, CallTyped
  <2>4. UNCHANGED <<row, workers, handle, proc>>
    BY <1>2 DEF Enable, Disable, Reload
  <2>5. ~Stopper(task'[t]) /\ OpClean(t, task'[t])
    BY <2>1, <2>3 DEF Stopper, StopWaits, OpClean
  <2>6. row' = "offline" => workers = NoHandle
    BY <2>4 DEF Clean, OfflineClean
  <2> QED BY <1>0, <2>3, <2>4, <2>5, <2>6, MoveStep
<1> QED BY <1>1, <1>2 DEF Begins

LEMMA WriteClean ==
  ASSUME Inv, Clean, NEW t \in Calls, Write(t)
  PROVE  Clean'
<1>0. t \in Tasks /\ TypeInv /\ task[t].pc = "write" /\ "write" \notin StopWaits
  BY DEF Tasks, Inv, Write, Waits, StopWaits
<1>1. row' = "offline" => workers = NoHandle
  BY <1>0 DEF Write, Written, Clean, OfflineClean, OpsClean, OpClean
<1>2. \/ task' = Goto(t, "load")
      \/ task' = Return(t)
  BY DEF Write
<1>3. "load" \in Pcs
  BY DEF Pcs
<1>4. task'[t].pc \in {"load", "idle"} /\ \A u \in Tasks \ {t} : task'[u] = task[u]
  BY <1>0, <1>2, <1>3, GotoTyped, ReturnTyped
<1> QED BY <1>0, <1>1, <1>4, Moves DEF Write

LEMMA UnloadClean ==
  ASSUME Inv, Clean, NEW t \in Calls, Unload(t), ~slip'
  PROVE  Clean'
<1>0. /\ t \in Tasks /\ TypeInv /\ Quiet /\ task[t] \in TaskRow
      /\ task[t].pc = "unload" /\ "unload" \notin StopWaits
      /\ task[t].op \in {"disable", "reload"}
  BY DEF Tasks, Inv, TypeInv, Unload, Waits, StopWaits, Clean, OpsClean, OpClean
<1>1. CASE IsRunning /\ Stop(t, workers, task[t])
  <2>1. workers \in Handles
    BY <1>0, <1>1 DEF IsRunning, TypeInv
  <2> QED BY <1>0, <1>1, <2>1, StopBegins DEF StoppingOps
<1>2. CASE ~IsRunning
  <2>1. /\ task' = Goto(t, AfterStop(task[t].op))
        /\ task[t].op = "disable" => workers = NoHandle
        /\ UNCHANGED <<row, workers, starting, handle, proc>>
    BY <1>2, <1>0 DEF Unload
  <2>2. AfterStop(task[t].op) = IF task[t].op = "disable" THEN "write" ELSE "load"
    BY <1>0 DEF AfterStop
  <2>3. {"write", "load"} \subseteq Pcs
    BY DEF Pcs
  <2>4. PICK pc \in Pcs : pc = AfterStop(task[t].op) /\ task' = Goto(t, pc)
    BY <2>1, <2>2, <2>3
  <2>5. /\ task'[t].pc = pc /\ task'[t].op = task[t].op
        /\ \A u \in Tasks \ {t} : task'[u] = task[u]
    BY <1>0, <2>4, GotoTyped, GotoRow
  <2>6. ~Stopper(task'[t]) /\ OpClean(t, task'[t])
    BY <1>0, <2>1, <2>2, <2>4, <2>5 DEF Stopper, StopWaits, OpClean
  <2>7. row' = "offline" => workers = NoHandle
    BY <2>1 DEF Clean, OfflineClean
  <2> QED BY <1>0, <2>1, <2>5, <2>6, <2>7, MoveStep
<1> QED BY <1>1, <1>2 DEF Unload

(* startWorker: the registry has no handle, or one that stopped, and       *)
(* nobody is about to write that the plugin is offline.                    *)
LEMMA ActivateClean ==
  ASSUME Inv, Inv', Clean, NEW t \in Calls, Activate(t), ~slip'
  PROVE  Clean'
<1>0. /\ t \in Tasks /\ TypeInv /\ Quiet
      /\ task[t].pc = "activate" /\ "activate" \notin StopWaits /\ row' = row
  BY DEF Tasks, Inv, Activate, Waits, StopWaits
<1>1. CASE /\ task' = Goto(t, "joined") \/ task' = Call(t, "markError", "markError")
           /\ UNCHANGED <<workers, starting, handle, proc>>
  <2>1. {"joined", "markError"} \subseteq Pcs /\ "markError" \in Ops
    BY DEF Pcs, Ops
  <2>2. task'[t].pc \in {"joined", "markError"} /\ \A u \in Tasks \ {t} : task'[u] = task[u]
    BY <1>0, <1>1, <2>1, GotoTyped, CallTyped
  <2>3. row' = "offline" => workers = NoHandle
    BY <1>0 DEF Clean, OfflineClean
  <2> QED BY <1>0, <1>1, <2>2, <2>3, Moves
<1>2. ASSUME NEW h \in Handles, Unused(h), ~Taken, workers' = h, Spawn(t, h, NewHandle)
      PROVE  Clean'
  <2>1. ~GoingOffline
    <3>1. workers # h
      BY <1>2 DEF Unused
    <3> QED BY <1>2, <3>1 DEF Activate
  <2>2. /\ workers = NoHandle \/ handle[workers].child = NoProc
        /\ \A g \in Handles : ~handle[g].timer
    <3>1. workers = NoHandle \/ (workers \in Handles /\ handle[workers].status = "stopped")
      BY <1>0, <1>2 DEF Taken, TypeInv
    <3>2. \A g \in Handles : HandleClean(g)
      BY DEF Clean, HandlesClean
    <3> QED BY <3>1, <3>2, WorkerConstants DEF HandleClean
  <2>3. \A p \in Procs : ~Alive(p)
    BY <2>2, NoProcess
  <2>4. \A u \in Tasks : ~Stopper(task[u])
    BY <1>0, <2>2, NobodyStops
  <2>5. \A u \in Tasks : task[u].pc \notin StopWaits
    BY <2>4 DEF Stopper
  <2>6. row' # "offline" /\ \A u \in Tasks : task[u].pc = "write" => task[u].op = "enable"
    BY <1>0, <2>1 DEF GoingOffline, Clean, OpsClean, OpClean
  <2>7. ~NewHandle.timer /\ ~NewHandle.stray
    BY DEF NewHandle
  <2> QED BY <1>0, <1>2, <2>2, <2>3, <2>4, <2>5, <2>6, <2>7, RowsTyped, SpawnClean
<1>3. (\E h \in Handles : Unused(h)) =>
        /\ (CHOOSE g \in Handles : Unused(g)) \in Handles
        /\ Unused(CHOOSE g \in Handles : Unused(g))
  OBVIOUS
<1> QED BY <1>1, <1>2, <1>3 DEF Activate

LEMMA MarkErrorClean ==
  ASSUME Inv, Clean, NEW t \in Calls, MarkError(t), ~slip'
  PROVE  Clean'
<1>0. /\ t \in Tasks /\ TypeInv /\ Quiet
      /\ task[t].pc = "markError" /\ "markError" \notin StopWaits
      /\ "markError" \in Ops /\ "write" \in Pcs
  BY DEF Tasks, Inv, MarkError, Waits, StopWaits, Ops, Pcs
<1>1. CASE Stop(t, workers, Begun("markError")) /\ workers # NoHandle
  <2>1. workers \in Handles /\ Begun("markError") \in TaskRow
    BY <1>0, <1>1, BegunTyped DEF TypeInv
  <2>2. Begun("markError").op \in StoppingOps
    BY DEF Begun, Idle, StoppingOps
  <2> QED BY <1>0, <1>1, <2>1, <2>2, StopBegins
<1>2. CASE /\ workers = NoHandle /\ task' = Call(t, "write", "markError")
           /\ UNCHANGED <<row, workers, starting, handle, proc, slip>>
  <2>1. /\ task'[t].pc = "write" /\ task'[t].op = "markError"
        /\ \A u \in Tasks \ {t} : task'[u] = task[u]
    BY <1>0, <1>2, CallTyped
  <2>2. ~Stopper(task'[t]) /\ OpClean(t, task'[t])
    BY <1>2, <2>1 DEF Stopper, StopWaits, OpClean
  <2> QED BY <1>0, <1>2, <2>1, <2>2, MoveStep
<1> QED BY <1>1, <1>2 DEF MarkError

LEMMA BounceStartsClean ==
  ASSUME Inv, Inv', Clean, NEW t \in Calls, BounceStarts(t), ~slip'
  PROVE  Clean'
<1> DEFINE h == task[t].on
<1>0. /\ t \in Tasks /\ TypeInv /\ task[t].pc = "restart" /\ "restart" \notin StopWaits
      /\ h \in Handles /\ handle[h] \in HandleRow
  BY DEF Tasks, BounceStarts, Continues, StopWaits, Inv, TypeInv, InsideHasHandle, Inside
<1>1. /\ h = workers /\ h # NoHandle /\ ~handle[h].timer /\ ~handle[h].stray
      /\ handle[h].child = NoProc
      /\ \A u \in Tasks \ {t} : ~Stopper(task[u])
  BY <1>0, WorkerConstants
     DEF Clean, StopsClean, StopClean, Alone, Stopper, HandlesClean, HandleClean
<1>2. CASE task' = Return(t) /\ UNCHANGED <<row, workers, starting, handle, proc, slip>>
  <2>1. task'[t].pc = "idle" /\ \A u \in Tasks \ {t} : task'[u] = task[u]
    BY <1>0, <1>2, ReturnTyped
  <2>2. row' = "offline" => workers = NoHandle
    BY <1>2 DEF Clean, OfflineClean
  <2> QED BY <1>0, <1>2, <2>1, <2>2, Moves
<1>3. CASE Spawn(t, h, handle[h]) /\ UNCHANGED <<row, workers, starting>>
  <2> HIDE DEF h
  <2>1. \A p \in Procs : ~Alive(p)
    BY <1>1, NoProcess
  <2>2. \A u \in Tasks : task[u].pc \notin StopWaits
    BY <1>0, <1>1 DEF Stopper
  <2>3. \A g \in Handles \ {h} : ~handle[g].timer
    BY <1>1 DEF Clean, HandlesClean, HandleClean
  <2>4. row' # "offline" /\ \A u \in Tasks : task[u].pc = "write" => task[u].op = "enable"
    BY <1>1, <1>3 DEF Clean, OfflineClean, OpsClean, OpClean
  <2> QED BY <1>0, <1>1, <1>3, <2>1, <2>2, <2>3, <2>4, SpawnClean
<1> QED BY <1>2, <1>3 DEF BounceStarts

LEMMA CallClean ==
  ASSUME Inv, Inv', Clean, NEW t \in Calls, CallStep(t), ~slip'
  PROVE  Clean'
<1>1. CASE Load(t) \/ Register(t)
  <2>1. /\ t \in Tasks /\ TypeInv /\ task[t].pc \notin StopWaits
        /\ {"activate", "markError"} \subseteq Pcs /\ "markError" \in Ops
    BY <1>1 DEF Tasks, Inv, Load, Register, Waits, StopWaits, Pcs, Ops
  <2>2. /\ \/ task' = Goto(t, "activate")
           \/ task' = Return(t)
           \/ task' = Call(t, "markError", "markError")
        /\ UNCHANGED <<row, workers, handle, proc>>
    BY <1>1 DEF Load, Register
  <2>3. /\ task'[t].pc \in {"activate", "idle", "markError"}
        /\ \A u \in Tasks \ {t} : task'[u] = task[u]
    BY <2>1, <2>2, GotoTyped, ReturnTyped, CallTyped
  <2>4. row' = "offline" => workers = NoHandle
    BY <2>2 DEF Clean, OfflineClean
  <2> QED BY <2>1, <2>2, <2>3, <2>4, Moves
<1> QED BY <1>1, WriteClean, UnloadClean, ActivateClean, MarkErrorClean, BounceStartsClean,
           StopGoesOnClean DEF CallStep

-----------------------------------------------------------------------------
(* Until the first slip                                                    *)

LEMMA SlipStays == Next /\ slip => slip'
<1> SUFFICES ASSUME Next, slip PROVE slip'
  OBVIOUS
<1>1. ASSUME NEW t \in Calls, Begins(t) PROVE slip'
  BY <1>1 DEF Begins, Enable, Disable, Reload, Bounce, Stop
<1>2. ASSUME NEW t \in Calls, CallStep(t) PROVE slip'
  BY <1>2 DEF CallStep, Write, Unload, Load, Activate, Register, MarkError, BounceStarts,
              StopGoesOn, Stop
<1>3. ASSUME NEW t \in Tasks, WaitEnds(t) \/ StartStep(t) \/ InitOk(t) PROVE slip'
  BY <1>3 DEF WaitEnds, StartStep, InitFails, InitKilled, InitOk
<1>4. ASSUME NEW h \in Handles, Fire(h) PROVE slip'
  BY <1>4 DEF Fire
<1>5. ASSUME NEW p, Exit(p) PROVE slip'
  BY <1>5 DEF Exit
<1> QED BY <1>1, <1>2, <1>3, <1>4, <1>5 DEF Next, Runs, Killed

LEMMA CleanStep == Inv /\ Inv' /\ Clean /\ ~slip' /\ [Next]_vars => Clean'
<1> SUFFICES ASSUME Inv, Inv', Clean, ~slip', [Next]_vars PROVE Clean'
  OBVIOUS
<1>1. CASE UNCHANGED vars
  BY <1>1 DEF vars, Clean, HandlesClean, HandleClean, BeingStopped, ProcsClean, Alive,
              StopsClean, StopClean, Alone, OpsClean, OpClean, OfflineClean
<1>2. ASSUME NEW t \in Tasks, Runs(t) PROVE Clean'
  <2>1. CASE Killed(t)
    <3>1. task[t].exit \in Procs
      BY <2>1 DEF Killed, Inv, InsideHasHandle
    <3> QED BY <2>1, <3>1, ExitClean DEF Killed
  <2> QED BY <1>2, <2>1, WaitEndsClean, StartStepClean, CallClean, FireClean DEF Runs
<1> QED BY <1>1, <1>2, BeginsClean, InitOkClean, ExitClean DEF Next

LEMMA CleanHolds == Spec => [](Inv /\ (slip \/ Clean))
<1>1. Init => Clean
  <2> SUFFICES ASSUME Init PROVE Clean
    OBVIOUS
  <2>1. \A t \in Tasks : ~Stopper(task[t]) /\ OpClean(t, task[t])
    BY DEF Init, Idle, Stopper, StopWaits, OpClean
  <2>2. HandlesClean /\ ProcsClean /\ OfflineClean
    BY DEF Init, NewHandle, HandlesClean, HandleClean, ProcsClean, Alive, OfflineClean
  <2> QED BY <2>1, <2>2 DEF Clean, StopsClean, Alone, OpsClean
<1>2. Inv /\ (slip \/ Clean) /\ [Next]_vars => (slip \/ Clean)'
  BY InvInductive, CleanStep, SlipStays DEF vars
<1> QED BY <1>1, <1>2, InitTrue, InvInductive, PTL DEF Spec

(* Until a slip there is one worker process, the child of the registered   *)
(* handle, whatever crashes, restarts, joins and overlaps came before: no  *)
(* stop leaves a process behind, and no timer or start forks a second one  *)
(* (startWorker, stopInternal, handleProcessExit).                         *)
THEOREM OneWorkerCorrect == Spec => []OneWorkerUnlessSlip
<1>1. Inv /\ (slip \/ Clean) => OneWorkerUnlessSlip
  BY DEF OneWorkerUnlessSlip, Live, Clean, ProcsClean
<1> QED BY <1>1, CleanHolds, PTL

(* Until a slip a plugin that is offline has no worker and no timer that   *)
(* would start one: the status is written only after the registry has been *)
(* emptied, and no start registers a handle from then on.                  *)
THEOREM OfflineCorrect == Spec => []OfflineUnlessSlip
<1>1. Inv /\ (slip \/ Clean) => OfflineUnlessSlip
  <2> SUFFICES ASSUME Inv, Clean, row = "offline"
               PROVE  /\ \A p \in Procs : ~Live(p)
                      /\ \A h \in Handles : ~Comeback(h)
    BY DEF OfflineUnlessSlip
  <2>1. workers = NoHandle
    BY DEF Clean, OfflineClean
  <2>2. \A p \in Procs : ~Alive(p)
    BY <2>1, NoProcess
  <2> QED BY <2>1, <2>2, WorkerConstants DEF Live, Comeback, Clean, HandlesClean, HandleClean
<1> QED BY <1>1, CleanHolds, PTL
=============================================================================
