---------------------------- MODULE PluginWorker ----------------------------
(***************************************************************************)
(* The worker process of ONE plugin: the worker handle and the manager's   *)
(* registry (server/src/services/plugin-worker-manager.ts), driven by the  *)
(* lifecycle operations that bring a plugin online and take it offline     *)
(* (plugin-lifecycle.ts, plugin-loader.ts).                                *)
(*                                                                         *)
(* The server is one event loop.  A step is what runs between two real     *)
(* waits (a database query, an RPC, a timer, the exit of a process).  What *)
(* an event resolves is marked "go" and runs before the next event, as     *)
(* microtasks run before the next callback of the loop.                    *)
(*                                                                         *)
(* Gaps of the code, which the history variable slip records: a stop or a  *)
(* start begins on a handle that is being stopped; unloadSingle leaves a   *)
(* registered worker that is not running; a plugin is activated that went  *)
(* offline, or is about to, since its status was checked; a transition     *)
(* writes over a status newer than the one it read.                        *)
(***************************************************************************)
EXTENDS Naturals, FiniteSets

CONSTANTS
  Calls,        \* lifecycle operations that may be in flight together
  Handles,      \* bound: PluginWorkerHandle objects in use together
  Procs,        \* bound: worker processes alive together
  MaxCrashes,   \* MAX_CONSECUTIVE_CRASHES
  NoHandle, NoProc

ASSUME WorkerConstants ==
  /\ MaxCrashes \in Nat
  /\ NoHandle \notin Handles /\ NoProc \notin Procs
  /\ Calls \cap Handles = {}

VARIABLES
  row,      \* plugins.status: "ready", or "offline" for every other status
  workers,  \* the manager's map: the registered handle of the plugin
  starting, \* startupLocks holds a start in flight
  handle,   \* per handle: the closure variables of createPluginWorkerHandle
  proc,     \* per process: the handle that forked it, whether SIGKILL was sent
  task,     \* per operation, and per handle for the start its timer makes:
            \* where it waits
  slip      \* history: one of the gaps above happened

vars == <<row, workers, starting, handle, proc, task, slip>>

HandleStatus == {"stopped", "starting", "running", "stopping", "crashed", "backoff"}
Tasks == Calls \cup Handles
Ops == {"none", "enable", "disable", "reload", "bounce", "markError"}

(* Waits of startInternal, and of stopInternal; waits for the database, and *)
(* for the start another operation has in flight.                          *)
StartWaits == {"init", "killed"}
StopWaits == {"drain", "grace", "term", "kill"}
Pcs == {"idle", "write", "unload", "load", "activate", "joined", "register", "restart",
        "markError"}
         \cup StartWaits \cup StopWaits

(* Which of them wait for the exit of a process, and which for an RPC.     *)
ExitWaits == {"killed"} \cup StopWaits
RpcWaits == {"init", "drain"}

TypeOK ==
  /\ row \in {"ready", "offline"}
  /\ workers \in Handles \cup {NoHandle}
  /\ starting \in BOOLEAN /\ slip \in BOOLEAN
  /\ handle \in [Handles -> [status : HandleStatus, child : Procs \cup {NoProc},
                             timer : BOOLEAN, stray : BOOLEAN, intentional : BOOLEAN,
                             crashes : 0..(MaxCrashes + 1)]]
  /\ proc \in [Procs -> [of : Handles \cup {NoHandle}, killed : BOOLEAN]]
  /\ task \in [Tasks -> [pc : Pcs, op : Ops, on : Handles \cup {NoHandle},
                         exit : Procs \cup {NoProc}, saw : {"ready", "offline"},
                         go : BOOLEAN]]

-----------------------------------------------------------------------------
(* Initial state: the plugin is installed, nothing runs.                   *)

NewHandle == [status |-> "stopped", child |-> NoProc, timer |-> FALSE,
              stray |-> FALSE, intentional |-> FALSE, crashes |-> 0]
Gone == [of |-> NoHandle, killed |-> FALSE]
Idle == [pc |-> "idle", op |-> "none", on |-> NoHandle, exit |-> NoProc,
         saw |-> "offline", go |-> FALSE]

Init ==
  /\ row = "offline" /\ workers = NoHandle /\ starting = FALSE
  /\ handle = [h \in Handles |-> NewHandle]
  /\ proc = [p \in Procs |-> Gone]
  /\ task = [t \in Tasks |-> Idle]
  /\ slip = FALSE

-----------------------------------------------------------------------------
(* Tasks and processes.                                                    *)

Alive(p) == proc[p] # Gone
Live(p) == Alive(p) /\ ~proc[p].killed

(* No microtask is left: the loop may take its next event.                 *)
Quiet == \A t \in Tasks : ~task[t].go

Goto(t, pc) == [task EXCEPT ![t] = [@ EXCEPT !.pc = pc, !.exit = NoProc, !.go = FALSE]]
Return(t) == [task EXCEPT ![t] = Idle]
WaitExit(t, pc, h) == [task EXCEPT ![t] = [@ EXCEPT !.pc = pc, !.on = h,
                                           !.exit = handle[h].child, !.go = FALSE]]

Waits(t, pc) == task[t].pc = pc /\ ~task[t].go /\ Quiet
Continues(t, pc) == task[t].pc = pc /\ task[t].go

(* A handle nothing refers to any more stands for one not created yet.     *)
Unused(h) ==
  /\ workers # h /\ ~handle[h].timer /\ ~handle[h].stray
  /\ task[h] = Idle
  /\ \A t \in Tasks : task[t].on # h
  /\ \A p \in Procs : proc[p].of # h

(* Where a gap is entered.                                                 *)
BeingStopped(h) == \E t \in Tasks : task[t].pc \in StopWaits /\ task[t].on = h
GoingOffline == row = "offline"
  \/ \E t \in Calls : task[t].pc = "write" /\ task[t].op \in {"disable", "markError"}

-----------------------------------------------------------------------------
(* startInternal.                                                          *)

(* spawnProcess and the initialize call, whose answer task t awaits.       *)
Spawn(t, h, base) ==
  LET p == CHOOSE q \in Procs : ~Alive(q)
  IN /\ \E q \in Procs : ~Alive(q)
     /\ handle' = [handle EXCEPT ![h] = [base EXCEPT !.status = "starting",
                                         !.intentional = FALSE, !.child = p]]
     /\ proc' = [proc EXCEPT ![p] = [of |-> h, killed |-> FALSE]]
     /\ task' = [task EXCEPT ![t] = [@ EXCEPT !.pc = "init", !.on = h,
                                     !.exit = p, !.go = FALSE]]

(* Mutant: nobody wakes the operations that joined.                        *)
OnlyItself(t) == {t}

(* The start of an operation is over, with the answer of startWorker: the  *)
(* operations that joined it get the same one.                             *)
JoinedOr(t) == {t} \cup {u \in Calls : task[u].pc = "joined"}

StartEnds(t, ok) ==
  IF task[t].op = "bounce" \/ t \in Handles
  THEN task' = Return(t) /\ UNCHANGED starting
  ELSE /\ starting' = FALSE
       /\ task' = [u \in Tasks |->
            IF u \notin JoinedOr(t) THEN task[u]
            ELSE IF ok THEN [task[u] EXCEPT !.pc = "register", !.on = NoHandle,
                                            !.exit = NoProc]
                 ELSE [Idle EXCEPT !.pc = "markError", !.op = "markError"]]

(* The worker answered ok: the process is the one that was spawned, for an *)
(* exit of any process of the handle rejects the call.                     *)
InitOk(t) ==
  /\ Waits(t, "init") /\ Live(task[t].exit)
  /\ handle' = [handle EXCEPT ![task[t].on] = [@ EXCEPT !.status = "running", !.crashes = 0]]
  /\ StartEnds(t, TRUE)
  /\ UNCHANGED <<row, workers, proc, slip>>

(* The call failed: killProcess kills the child of the handle, if it has   *)
(* one, and waits for its exit for a second.                               *)
InitFails(t) ==
  LET h == task[t].on  p == handle[h].child
  IN /\ Continues(t, "init")
     /\ \/ /\ p # NoProc
           /\ handle' = [handle EXCEPT ![h].intentional = TRUE]
           /\ proc' = [proc EXCEPT ![p].killed = TRUE]
           /\ task' = WaitExit(t, "killed", h)
           /\ UNCHANGED starting
        \/ /\ p = NoProc
           /\ handle' = [handle EXCEPT ![h].status = "crashed"]
           /\ StartEnds(t, FALSE)
           /\ UNCHANGED proc
     /\ UNCHANGED <<row, workers, slip>>

InitKilled(t) ==
  /\ Continues(t, "killed")
  /\ handle' = [handle EXCEPT ![task[t].on].status = "crashed"]
  /\ StartEnds(t, FALSE)
  /\ UNCHANGED <<row, workers, proc, slip>>

-----------------------------------------------------------------------------
(* stopInternal, and stopWorker around it: the caller goes on when the stop *)
(* returns, and stopWorker removes whatever handle is registered by then.  *)

AfterStop(op) == CASE op = "bounce" -> "restart"
                   [] op = "reload" -> "load"
                   [] OTHER -> "write"

StopReturns(t, h, me) ==
  LET bounce == me.op = "bounce"
  IN /\ workers' = IF bounce THEN workers ELSE NoHandle
     /\ task' = [task EXCEPT ![t] =
          [me EXCEPT !.pc = AfterStop(me.op), !.on = IF bounce THEN h ELSE NoHandle,
                     !.exit = NoProc, !.go = bounce]]

(* Mutant: a stop leaves the pending restart alone.                        *)
CancelledNothing(h) == handle[h]

(* cancelPendingRestart clears the timer the handle still refers to.       *)
Cancelled(h) == [handle[h] EXCEPT !.timer = FALSE]

Stop(t, h, me) ==
  /\ IF handle[h].status \in {"stopped", "stopping"}
     THEN /\ handle' = [handle EXCEPT ![h] = Cancelled(h)]
          /\ StopReturns(t, h, me)
     ELSE IF handle[h].child = NoProc
     THEN /\ handle' = [handle EXCEPT ![h] = [Cancelled(h) EXCEPT
                          !.intentional = TRUE, !.status = "stopped"]]
          /\ StopReturns(t, h, me)
     ELSE /\ handle' = [handle EXCEPT ![h] = [Cancelled(h) EXCEPT
                          !.intentional = TRUE, !.status = "stopping"]]
          /\ task' = [task EXCEPT ![t] = [me EXCEPT !.pc = "drain", !.on = h,
                                                  !.exit = handle[h].child]]
          /\ UNCHANGED workers
  /\ slip' = (slip \/ BeingStopped(h))
  /\ UNCHANGED <<row, starting, proc>>

(* The shutdown call was answered, failed or timed out, or the worker has  *)
(* exited; then SIGTERM; then SIGKILL.  Each wait ends by itself.          *)
Escalation == [drain |-> "grace", grace |-> "term", term |-> "kill"]

StopGoesOn(t, pc) ==
  LET h == task[t].on  p == handle[h].child
  IN /\ Continues(t, pc)
     /\ \/ /\ pc # "kill" /\ p # NoProc
           /\ task' = WaitExit(t, Escalation[pc], h)
           /\ proc' = IF pc = "term" THEN [proc EXCEPT ![p].killed = TRUE] ELSE proc
           /\ UNCHANGED <<workers, handle>>
        \/ /\ pc = "kill" \/ p = NoProc
           /\ handle' = [handle EXCEPT ![h].status = "stopped"]
           /\ StopReturns(t, h, task[t])
           /\ UNCHANGED proc
     /\ UNCHANGED <<row, starting, slip>>

-----------------------------------------------------------------------------
(* What the process and the clock do.                                      *)

(* Mutant: one restart too many.                                           *)
OneMore(crashes) == crashes <= MaxCrashes + 1

WillRestart(crashes) == crashes <= MaxCrashes

(* Bound: more than MaxCrashes is as good as any number above it.          *)
Counted(crashes) == IF WillRestart(crashes) THEN crashes + 1 ELSE crashes

(* Mutant: after an intended stop the status is left to the stop.          *)
ExitedQuietly(hd, base) ==
  IF hd.intentional THEN [hd EXCEPT !.child = NoProc]
  ELSE [hd EXCEPT !.child = NoProc, !.status = "backoff", !.crashes = Counted(base),
                  !.timer = TRUE]

(* handleProcessExit: it forgets the child of the handle, whichever process *)
(* exited, fails every call in flight, and unless a stop was intended plans *)
(* a restart.  base is zero when the last crash is more than the crash     *)
(* window ago.  A timer that was pending is not cleared.                   *)
Exited(hd, base) ==
  IF hd.intentional
  THEN [hd EXCEPT !.child = NoProc, !.status = "stopped"]
  ELSE IF WillRestart(Counted(base))
  THEN [hd EXCEPT !.child = NoProc, !.status = "backoff", !.crashes = Counted(base),
                  !.timer = TRUE, !.stray = @ \/ hd.timer]
  ELSE [hd EXCEPT !.child = NoProc, !.status = "crashed", !.crashes = Counted(base)]

Exit(p) ==
  LET h == proc[p].of
  IN /\ Quiet /\ Alive(p)
     /\ \E base \in {0, handle[h].crashes} :
          handle' = [handle EXCEPT ![h] = Exited(@, base)]
     /\ proc' = [proc EXCEPT ![p] = Gone]
     /\ task' = [t \in Tasks |->
          IF \/ task[t].pc \in RpcWaits /\ task[t].on = h
             \/ task[t].pc \in ExitWaits /\ task[t].exit = p
          THEN [task[t] EXCEPT !.go = TRUE] ELSE task[t]]
     /\ UNCHANGED <<row, workers, starting, slip>>

(* A timeout, or for a call an answer that ends the wait: an error from    *)
(* initialize, anything from shutdown.  SIGKILL is taken to end a process  *)
(* before the waits after it do, as the code expects.                      *)
WaitEnds(t) ==
  /\ Quiet /\ task[t].pc \in {"init", "drain", "grace", "term"} /\ ~task[t].go
  /\ task' = [task EXCEPT ![t].go = TRUE]
  /\ UNCHANGED <<row, workers, starting, handle, proc, slip>>

(* The backoff timer: whichever fires, backoffTimer becomes null, and a    *)
(* timer it referred to can no longer be cleared.  Bound: one start that a *)
(* timer made is in flight per handle.                                     *)
LeftPending(hd) == (IF hd.timer THEN {hd.stray} ELSE {})
                     \cup (IF hd.stray THEN {hd.timer} ELSE {})

Fire(h) ==
  /\ Quiet /\ task[h] = Idle
  /\ \E stray \in LeftPending(handle[h]) :
       LET hd == [handle[h] EXCEPT !.timer = FALSE, !.stray = stray]
       IN \/ /\ hd.status \in {"running", "starting"}
             /\ handle' = [handle EXCEPT ![h] = hd]
             /\ UNCHANGED <<proc, task, slip>>
          \/ /\ hd.status \notin {"running", "starting"}
             /\ Spawn(h, h, hd)
             /\ slip' = (slip \/ BeingStopped(h))
  /\ UNCHANGED <<row, workers, starting>>

-----------------------------------------------------------------------------
(* The operations of the lifecycle.  Bound: none begins after a slip.      *)

Begun(op) == [Idle EXCEPT !.op = op, !.saw = row]
Call(t, pc, op) == [task EXCEPT ![t] = [Begun(op) EXCEPT !.pc = pc]]

Free(t) == Quiet /\ ~slip /\ task[t] = Idle

(* load and enable: read the status, write "ready", then loadSingle.       *)
Enable(t) ==
  /\ Free(t) /\ row = "offline"
  /\ task' = Call(t, "write", "enable")
  /\ UNCHANGED <<row, workers, starting, handle, proc, slip>>

(* disable, unload and upgrade_pending: read the status, unloadSingle, then *)
(* write the status.                                                       *)
Disable(t) ==
  /\ Free(t) /\ row = "ready"
  /\ task' = Call(t, "unload", "disable")
  /\ UNCHANGED <<row, workers, starting, handle, proc, slip>>

(* restartWorker of a lifecycle whose loader has runtime services.         *)
Reload(t) ==
  /\ Free(t) /\ row = "ready" /\ workers # NoHandle
  /\ task' = Call(t, "unload", "reload")
  /\ UNCHANGED <<row, workers, starting, handle, proc, slip>>

(* restartWorker of a lifecycle without: handle.restart().                 *)
Bounce(t) ==
  /\ Free(t) /\ row = "ready" /\ workers # NoHandle
  /\ Stop(t, workers, Begun("bounce"))

BounceStarts(t) ==
  LET h == task[t].on
  IN /\ Continues(t, "restart")
     /\ \/ /\ handle[h].status \in {"running", "starting"}
           /\ task' = Return(t)
           /\ UNCHANGED <<handle, proc, slip>>
        \/ /\ handle[h].status \notin {"running", "starting"}
           /\ Spawn(t, h, handle[h])
           /\ slip' = (slip \/ BeingStopped(h))
     /\ UNCHANGED <<row, workers, starting>>

(* unloadSingle, once the jobs are unregistered: it stops the worker only  *)
(* if isRunning.                                                           *)
IsRunning == workers # NoHandle /\ handle[workers].status = "running"

Unload(t) ==
  /\ Waits(t, "unload")
  /\ \/ /\ IsRunning
        /\ Stop(t, workers, task[t])
     \/ /\ ~IsRunning
        /\ task' = Goto(t, AfterStop(task[t].op))
        /\ slip' = (slip \/ (task[t].op = "disable" /\ workers # NoHandle))
        /\ UNCHANGED <<row, workers, starting, handle, proc>>

(* loadSingle: it throws unless the status it reads is "ready".            *)
Load(t) ==
  /\ Waits(t, "load")
  /\ task' = IF row = "ready" THEN Goto(t, "activate") ELSE Return(t)
  /\ UNCHANGED <<row, workers, starting, handle, proc, slip>>

(* Mutant: a new worker may replace any but a running one.                 *)
TakenRunning == IsRunning

(* activatePlugin fails in its preparations (manifest, migrations), or     *)
(* calls startWorker, which joins a start in flight, throws if a handle is *)
(* registered that has not stopped, or registers a new one.                *)
Taken == workers # NoHandle /\ handle[workers].status # "stopped"

Activate(t) ==
  /\ Waits(t, "activate")
  /\ \/ /\ starting
        /\ task' = Goto(t, "joined")
        /\ UNCHANGED <<workers, starting, handle, proc>>
     \/ /\ task' = Call(t, "markError", "markError")
        /\ UNCHANGED <<workers, starting, handle, proc>>
     \/ /\ ~starting /\ ~Taken
        /\ \E h \in Handles : Unused(h)
        /\ LET h == CHOOSE g \in Handles : Unused(g)
           IN /\ workers' = h /\ starting' = TRUE
              /\ Spawn(t, h, NewHandle)
  /\ slip' = (slip \/ (workers' # workers /\ GoingOffline))
  /\ UNCHANGED row

(* The rest of activatePlugin: the jobs are synced and registered, or one  *)
(* of it throws.                                                           *)
Register(t) ==
  /\ Waits(t, "register")
  /\ task' \in {Return(t), Call(t, "markError", "markError")}
  /\ UNCHANGED <<row, workers, starting, handle, proc, slip>>

(* markError after a failed activation: it reads the status and stops the  *)
(* worker whatever state it is in.                                         *)
MarkError(t) ==
  /\ Waits(t, "markError")
  /\ IF workers = NoHandle
     THEN /\ task' = Call(t, "write", "markError")
          /\ UNCHANGED <<row, workers, starting, handle, proc, slip>>
     ELSE Stop(t, workers, Begun("markError"))

(* transition: it checks the status read at first, and writes.             *)
Written(op) == IF op = "enable" THEN "ready" ELSE "offline"

Write(t) ==
  LET op == task[t].op
      allowed == op = "markError" => task[t].saw = "ready"
  IN /\ Waits(t, "write")
     /\ row' = IF allowed THEN Written(op) ELSE row
     /\ slip' = (slip \/ (allowed /\ row # task[t].saw))
     /\ task' = IF op = "enable" THEN Goto(t, "load") ELSE Return(t)
     /\ UNCHANGED <<workers, starting, handle, proc>>

-----------------------------------------------------------------------------
Begins(t) == Enable(t) \/ Disable(t) \/ Reload(t) \/ Bounce(t)

StartStep(t) == InitFails(t) \/ InitKilled(t)
CallStep(t) ==
  \/ Write(t) \/ Unload(t) \/ Load(t) \/ Activate(t) \/ Register(t) \/ MarkError(t) \/ BounceStarts(t)
  \/ \E pc \in StopWaits : StopGoesOn(t, pc)

(* What the loop runs for task t sooner or later: its timeouts, answers and *)
(* microtasks, the timer that starts it, the exit of a process it killed.  *)
Killed(t) == task[t].pc \in {"killed", "kill"} /\ ~task[t].go /\ Exit(task[t].exit)
Runs(t) == \/ WaitEnds(t) \/ StartStep(t) \/ Killed(t)
           \/ t \in Calls /\ CallStep(t)
           \/ t \in Handles /\ Fire(t)

Next ==
  \/ \E t \in Calls : Begins(t)
  \/ \E t \in Tasks : Runs(t) \/ InitOk(t)
  \/ \E p \in Procs : Exit(p)

Spec == Init /\ [][Next]_vars

(* The loop takes a due timer, an answer or a microtask sooner or later,   *)
(* though other events keep coming in between.                             *)
Fairness == \A t \in Tasks : SF_vars(Runs(t))

FairSpec == Spec /\ Fairness

-----------------------------------------------------------------------------
(* A handle that says it is running has a process, one it forked itself:   *)
(* an exit, of whichever child and whatever stop or start it overtakes,    *)
(* never leaves a handle running that calls would be sent to in vain       *)
(* (handleProcessExit, startInternal).                                     *)
RunningIsAlive ==
  \A h \in Handles : handle[h].status = "running" =>
    handle[h].child # NoProc /\ proc[handle[h].child].of = h

(* Until one of the slips happens, there is one worker process, and it is  *)
(* the one the manager can reach: crashes, restarts, failed starts, joined *)
(* starts and every overlap of operations but those named leave no second  *)
(* process and no process without a registered handle.                     *)
OneWorkerUnlessSlip ==
  ~slip => \A p \in Procs : Live(p) => proc[p].of = workers /\ handle[workers].child = p

(* Until a slip, a plugin that is offline when no operation is in flight   *)
(* has no worker, and no timer that would start one (disable, unload and   *)
(* markError; cancelPendingRestart).                                       *)
AtRest == \A t \in Calls : task[t] = Idle
Comeback(h) == handle[h].timer \/ handle[h].stray

OfflineUnlessSlip ==
  ~slip /\ AtRest /\ row = "offline" =>
    /\ \A p \in Procs : ~Live(p)
    /\ \A h \in Handles : ~Comeback(h)

(* What plugin-lifecycle.ts says of disable, unload and markError: they    *)
(* stop the worker.  unloadSingle stops it only if it is running.          *)
OfflineStaysDown == AtRest /\ row = "offline" => \A p \in Procs : ~Live(p)

(* Every operation returns, whatever the worker answers or ignores, and no *)
(* worker stays in backoff: its timer fires, or a stop takes it out.       *)
Settles ==
  /\ \A t \in Calls : []<>(task[t] = Idle)
  /\ \A h \in Handles : []<>(handle[h].status # "backoff")
=============================================================================
