--------------------------- MODULE InstallerPool ---------------------------
(***************************************************************************)
(* The pool of threads that runs install, update and uninstall tasks       *)
(* (BundleInstallerManager), composed with the idle tasks it interrupts    *)
(* (IdleTasks) and with the mode switch that shuts it out (BundleDataMgr). *)
(* AddTask holds mutex_ from the creation of the pool to the enqueueing,   *)
(* also while the queue is full.  The pool is made on demand and stopped   *)
(* by a thread that looks now and then whether it has drained.             *)
(*                                                                         *)
(* The pool itself is OHOS::ThreadPool of c_utils, external: Start, a      *)
(* bounded AddTask that waits for room, GetCurTaskNum, and a Stop that     *)
(* forgets the tasks still queued.                                         *)
(***************************************************************************)
EXTENDS IdleTasks, FiniteSets

CONSTANTS
    Tasks,      \* the operations asked of the installer, each once
    Workers,    \* threadNum_
    MaxTask,    \* MAX_TASK_NUMBER
    Mixes       \* the sets of threads and tasks that take part

ASSUME PoolAssumption ==
    /\ Workers \in Nat \ {0}
    /\ MaxTask \in Nat \ {0}
    /\ IsFiniteSet(Tasks)

VARIABLES
    task,       \* where each operation is
    pool,       \* threadPool_ is not null, and a thread waits to stop it
    switching,  \* the exclusive side of the switch lock is held
    part        \* the members of the mix, fixed

poolVars == <<task, pool, switching>>
vars == <<idleVars, poolVars, part>>

In(pc) == {t \in Tasks : task[t] = pc}

\* The operations that AddTask has counted.
Adding == {"counted", "telling", "pushing"}
Counted == Adding \cup {"queued", "running"}

TypeOK ==
    /\ IdleTypeOK
    /\ task \in [Tasks -> {"idle", "probed"} \cup Counted \cup {"busy", "done"}]
    /\ pool \in BOOLEAN
    /\ switching \in BOOLEAN

Init ==
    /\ IdleInit
    /\ task = [t \in Tasks |-> "idle"]
    /\ pool = FALSE
    /\ switching = FALSE
    /\ part \in Mixes

\* BundleInstallerManager::mutex_, held by an AddTask.
MutexFree == \A t \in Tasks : task[t] \notin Adding

Goes(t, from, to) ==
    /\ task[t] = from
    /\ task' = [task EXCEPT ![t] = to]

\* The idle tasks' state but for the counter and the relabel's stop flag.
OnlyCounter == UNCHANGED <<met, charging, doing, job, stop, plugged, lost, late>>

----------------------------------------------------------------------------
\* CreateXxxTask: RejectTaskIfSwitchInFlight tells the caller at once.
CreateTask(t) ==
    /\ Goes(t, "idle", IF switching THEN "busy" ELSE "probed")
    /\ UNCHANGED <<idleVars, pool, switching>>

\* AddTask: the pool, its stopping thread, the counter.
AddTask(t) ==
    /\ MutexFree
    /\ Goes(t, "probed", "counted")
    /\ pool' = TRUE
    /\ counter' = counter + 1
    /\ OnlyCounter
    /\ UNCHANGED switching

\* AddTask: InterruptRelabel, in two steps as for the events.
AddTaskLook(t) ==
    /\ Goes(t, "counted", IF Running(Relabel) THEN "telling" ELSE "pushing")
    /\ UNCHANGED <<idleVars, pool, switching>>

AddTaskTell(t) ==
    /\ Goes(t, "telling", "pushing")
    /\ stop' = stop \cup {Relabel}
    /\ UNCHANGED <<met, charging, counter, doing, job, plugged, lost, late>>
    /\ UNCHANGED <<pool, switching>>

\* AddTask: enqueue, waiting for room.
AddTaskPush(t) ==
    /\ Cardinality(In("queued")) < MaxTask
    /\ Goes(t, "pushing", "queued")
    /\ UNCHANGED <<idleVars, pool, switching>>

Worker == Cardinality(In("running")) < Workers

\* The wrapper: TryLockForBundleOperation, and the operation runs.
RunTask(t) ==
    /\ pool /\ Worker /\ ~switching
    /\ Goes(t, "queued", "running")
    /\ UNCHANGED <<idleVars, pool, switching>>

\* The wrapper drops the task and forgets to count it down.
DropTaskCounted(t) ==
    /\ pool /\ Worker /\ switching
    /\ Goes(t, "queued", "busy")
    /\ UNCHANGED <<idleVars, pool, switching>>

\* The wrapper: a switch is in flight, the task is dropped, the caller told,
\* the counter balanced.
DropTask(t) ==
    /\ pool /\ Worker /\ switching
    /\ Goes(t, "queued", "busy")
    /\ counter' = counter - 1
    /\ OnlyCounter
    /\ UNCHANGED <<pool, switching>>

\* The body's last statement counts the task down.
EndTask(t) ==
    /\ Goes(t, "running", "done")
    /\ counter' = counter - 1
    /\ OnlyCounter
    /\ UNCHANGED <<pool, switching>>

\* DelayStopThreadPool: the look and Stop() in one section of mutex_.
DelayStopThreadPool ==
    /\ pool /\ MutexFree
    /\ In("queued") = {} /\ counter = 0
    /\ pool' = FALSE
    /\ UNCHANGED <<idleVars, task, switching>>

\* SwitchDualModeBundles: the exclusive side, only if no operation runs.
SwitchBegin ==
    /\ ~switching /\ In("running") = {}
    /\ switching' = TRUE
    /\ UNCHANGED <<idleVars, task, pool>>

SwitchEnd ==
    /\ switching
    /\ switching' = FALSE
    /\ UNCHANGED <<idleVars, task, pool>>

----------------------------------------------------------------------------
Operation(t) ==
    \/ AddTask(t) \/ AddTaskLook(t) \/ AddTaskTell(t) \/ AddTaskPush(t)
    \/ RunTask(t) \/ DropTask(t) \/ EndTask(t)

\* The members of the mix act.
Next ==
    \/ \E h \in Handlers \cap part : HandlerStep(h, Chargers \cap part) /\ UNCHANGED <<poolVars, part>>
    \/ \E p \in Chargers : ChargerStep(p) /\ UNCHANGED <<poolVars, part>>
    \/ \E h \in Threads : VisitStep(h) /\ UNCHANGED <<poolVars, part>>
    \/ \E x \in Jobs : JobStep(x) /\ UNCHANGED <<poolVars, part>>
    \/ \E t \in Tasks \cap part : CreateTask(t) /\ UNCHANGED part
    \/ \E t \in Tasks : Operation(t) /\ UNCHANGED part
    \/ DelayStopThreadPool /\ UNCHANGED part
    \/ "switch" \in part /\ SwitchBegin /\ UNCHANGED part
    \/ SwitchEnd /\ UNCHANGED part

\* A caller inside AddTask, a worker, the stopping thread and a switch go on;
\* events, requests and new switches need not come.
Fairness ==
    /\ \A t \in Tasks : WF_vars(Operation(t) /\ UNCHANGED part)
    /\ WF_vars(DelayStopThreadPool /\ UNCHANGED part)
    /\ WF_vars(SwitchEnd /\ UNCHANGED part)

Spec == Init /\ [][Next]_vars /\ Fairness

----------------------------------------------------------------------------
\* Some handler, or some AddTask for the relabel, has still to reach job x.
Informing(x) ==
    \/ \E h \in Threads : doing[h].what \in Interrupting /\ doing[h].at <= x
    \/ x = Relabel /\ \E t \in Tasks : task[t] \in {"counted", "telling"}

\* A job that works on while its conditions are gone has been told to stop,
\* or is about to be: no order of an event, the handlers' two-step
\* interrupts, the task's second look and its start lets one slip through.
\* The one exception is the relabel that begins by clearing a stop it has
\* already been given (StartUpdateSelinuxLabel's needStop_.store(false)).
StopReaches ==
    \A x \in Jobs :
        job[x] = "working" /\ x \notin stop => \/ Wanted(x)
                                               \/ Informing(x)
                                               \/ x = Relabel /\ lost

\* Again and again every operation that was asked for has run or has been
\* refused, and the pool has been stopped: AddTask waiting for room with
\* mutex_ held, tasks dropped by a switch and the stopping thread never block
\* one another and never lose a task.
EveryTaskSettles ==
    []<>(pool = FALSE /\ \A t \in Tasks : task[t] \in {"idle", "busy", "done"})
=============================================================================
