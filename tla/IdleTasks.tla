----------------------------- MODULE IdleTasks -----------------------------
(***************************************************************************)
(* The work the bundle manager does while the device is idle              *)
(* (IdleConditionMgr, BmsUpdateSelinuxMgr, AppDataMonitor): relabelling    *)
(* application data, scanning its size, scanning its file categories.      *)
(* System events, delivered by several threads, store a condition and then *)
(* try to start, or interrupt, the three jobs in turn.  Each job runs in a *)
(* detached thread of its own that looks at the conditions once more,      *)
(* works bundle after bundle, and is stopped through a flag.               *)
(*                                                                         *)
(* One step is one critical section of IdleConditionMgr::mutex_ or one     *)
(* access to an atomic that another thread reads.  What a job senses when  *)
(* it is about to start (system parameters, free memory, thermal level,    *)
(* inodes, cool-down, rows waiting) is never stored: it may refuse a start *)
(* at any time.                                                            *)
(***************************************************************************)
EXTENDS Naturals

CONSTANTS
    LastJob,    \* the jobs are numbered in the order the handlers visit them
    Handlers,   \* the threads that deliver system events
    Chargers,   \* the threads OnPowerConnected starts: bounds those alive at once
    Plain       \* the stored conditions other than the power

ASSUME IdleAssumption ==
    /\ LastJob \in 1..3
    /\ Handlers \cap Chargers = {}
    /\ "power" \notin Plain

\* 1: relabel, 2: scan of the data sizes, 3: scan of the file categories.
Jobs == 1..LastJob
Relabel == 1

Conditions == Plain \cup {"power"}
Threads == Handlers \cup Chargers

VARIABLES
    met,        \* the stored conditions that hold
    charging,   \* powerConnectedThreadActive_
    counter,    \* g_taskCounter: install tasks accepted and not finished
    doing,      \* what each thread does: an event's handler and where it is
    job,        \* each job's thread; isRelabeling_ and the like are # "none"
    stop,       \* the jobs whose stop flag is set
    plugged,    \* the last power event, once it has set the flag
    lost,       \* history: the relabel began by clearing a stop it should obey
    late        \* history: what chargers past their last look were doing when
                \* the last unplug cleared the flag

idleVars == <<met, charging, counter, doing, job, stop, plugged, lost, late>>

Idle == [what |-> "idle", at |-> 1, seen |-> FALSE]

Pass(what) == [what |-> what, at |-> 1, seen |-> FALSE]

\* What a thread does on its way to interrupt the jobs.
Interrupting == {"unplug", "stop"}

Places == [what : {"idle", "waiting", "due", "try"} \cup Interrupting, at : Jobs, seen : BOOLEAN]

IdleTypeOK ==
    /\ met \in SUBSET Conditions
    /\ charging \in BOOLEAN
    /\ counter \in Nat
    /\ doing \in [Threads -> Places]
    /\ job \in [Jobs -> {"none", "spawned", "checked", "working", "ending"}]
    /\ stop \in SUBSET Jobs
    /\ plugged \in BOOLEAN
    /\ lost \in BOOLEAN
    /\ late \subseteq {"due", "try"}

IdleInit ==
    /\ met = {}
    /\ charging = FALSE
    /\ counter = 0
    /\ doing = [h \in Threads |-> Idle]
    /\ job = [x \in Jobs |-> "none"]
    /\ stop = {}
    /\ plugged = FALSE
    /\ lost = FALSE
    /\ late = {}

----------------------------------------------------------------------------
\* What the handlers of a job look at.

Running(x) == job[x] # "none"

\* The stored conditions a job needs, and for the relabel no install task.
\* The scans look at the counter too, but nothing interrupts them for it.
Wanted(x) == met = Conditions /\ (x = Relabel => counter = 0)

\* CheckRelabelConditions, CheckScanConditions and
\* CheckFileCategoryScanConditions: one section of mutex_.
CheckConditions(x) ==
    /\ met = Conditions
    /\ counter = 0
    /\ \A y \in Jobs \ {x} : ~Running(y)
    /\ x # Relabel => job[x] # "working"

\* SetIsX without the comment's second look at the other jobs.
SetActiveAlone(x) == ~Running(x)

\* SetIsRelabeling, SetIsScanActive, SetIsFileCategoryScanActive.
SetActive(x) == \A y \in Jobs : ~Running(y)

----------------------------------------------------------------------------
\* The threads: each visits the jobs in order, trying or interrupting.

\* The thread goes to the next job, or is done.
NextPlace(d) ==
    IF d.at < LastJob THEN [d EXCEPT !.at = d.at + 1, !.seen = FALSE] ELSE Idle

Advance(h) == doing' = [doing EXCEPT ![h] = NextPlace(doing[h])]

\* A charger that is done clears the flag, whoever set it.
Leave(h) ==
    /\ Advance(h)
    /\ charging' = (charging /\ ~(h \in Chargers /\ doing[h].at = LastJob))

Mark(h) == doing' = [doing EXCEPT ![h].seen = TRUE]

At(h, what, seen) == doing[h].what = what /\ doing[h].seen = seen

\* TryStartX, up to the conditions.
TryCheck(h) ==
    /\ At(h, "try", FALSE)
    /\ \/ CheckConditions(doing[h].at) /\ Mark(h) /\ UNCHANGED charging
       \/ ~CheckConditions(doing[h].at) /\ Leave(h)
    /\ UNCHANGED <<met, counter, job, stop, plugged, lost, late>>

\* TryStartX after them: what is sensed may refuse; else SetIsX decides and
\* the job's thread is started.
TrySet(h) ==
    LET x == doing[h].at IN
    /\ At(h, "try", TRUE)
    /\ \/ SetActive(x) /\ job' = [job EXCEPT ![x] = "spawned"]
       \/ UNCHANGED job
    /\ Leave(h)
    /\ UNCHANGED <<met, counter, stop, plugged, lost, late>>

\* InterruptX: is the job there?
InterruptLook(h) ==
    /\ At(h, "stop", FALSE)
    /\ \/ Running(doing[h].at) /\ Mark(h) /\ UNCHANGED charging
       \/ ~Running(doing[h].at) /\ Leave(h)
    /\ UNCHANGED <<met, counter, job, stop, plugged, lost, late>>

\* InterruptX: StopUpdateSelinuxLabel, StopScan, StopFileCategoryScan.
InterruptStop(h) ==
    /\ At(h, "stop", TRUE)
    /\ stop' = stop \cup {doing[h].at}
    /\ Leave(h)
    /\ UNCHANGED <<met, counter, job, plugged, lost, late>>

----------------------------------------------------------------------------
\* The events.

Start(h, what) ==
    /\ doing[h] = Idle
    /\ doing' = [doing EXCEPT ![h] = Pass(what)]

\* OnScreenLocked, OnUserUnlocked, OnBatteryChanged with enough charge.
OnMet(h, c) ==
    /\ Start(h, "try")
    /\ met' = met \cup {c}
    /\ UNCHANGED <<charging, counter, job, stop, plugged, lost, late>>

\* OnScreenUnlocked, OnUserStopping, OnBatteryChanged with too little.
OnUnmet(h, c) ==
    /\ Start(h, "stop")
    /\ met' = met \ {c}
    /\ UNCHANGED <<charging, counter, job, stop, plugged, lost, late>>

\* HandleOnTrim and OnThermalLevelChanged store nothing.
OnLevel(h) ==
    /\ Start(h, "try") \/ Start(h, "stop")
    /\ UNCHANGED <<met, charging, counter, job, stop, plugged, lost, late>>

\* OnPowerConnected: a thread of free that waits for the device to stay plugged
\* in.  One subscriber delivers the power events in turn, so no other handler
\* comes between the test of the flag and its setting.
OnPowerConnected(h, free) ==
    /\ doing[h] = Idle
    /\ plugged' = TRUE
    /\ \/ charging /\ UNCHANGED <<charging, doing>>
       \/ /\ ~charging
          /\ charging' = TRUE
          /\ \E p \in free : /\ doing[p] = Idle
                             /\ doing' = [doing EXCEPT ![p] = Pass("waiting")]
    /\ UNCHANGED <<met, counter, job, stop, lost, late>>

\* OnPowerDisconnected, its section of mutex_.
OnPowerDisconnected(h) ==
    /\ Start(h, "unplug")
    /\ met' = met \ {"power"}
    /\ UNCHANGED <<charging, counter, job, stop, plugged, lost, late>>

SomeCharger(what) == \E p \in Chargers : doing[p].what = what

\* One that was due may have stored the condition already.
Overtaken ==
    {what \in {"due", "try"} : SomeCharger(what) \/ (what = "due" /\ "power" \in met)}

\* A handler that leaves the waiting thread alone.
UnplugKeeps(h) ==
    /\ doing[h].what = "unplug"
    /\ doing' = [doing EXCEPT ![h] = Pass("stop")]
    /\ plugged' = FALSE
    /\ late' = Overtaken
    /\ UNCHANGED <<met, charging, counter, job, stop, lost>>

\* OnPowerDisconnected after it: the waiting thread is called off.
Unplug(h) ==
    /\ doing[h].what = "unplug"
    /\ doing' = [doing EXCEPT ![h] = Pass("stop")]
    /\ plugged' = FALSE
    /\ charging' = FALSE
    /\ late' = Overtaken
    /\ UNCHANGED <<met, counter, job, stop, lost>>

\* The waiting thread looks at the flag once a second: for the last time, or
\* to find that the device was unplugged.
ChargerLook(p) ==
    /\ doing[p].what = "waiting"
    /\ doing' = [doing EXCEPT ![p] = IF charging THEN Pass("due") ELSE Idle]
    /\ UNCHANGED <<met, charging, counter, job, stop, plugged, lost, late>>

\* ... and after its last second stores the condition and tries the jobs.
ChargerDue(p) ==
    /\ doing[p].what = "due"
    /\ doing' = [doing EXCEPT ![p] = Pass("try")]
    /\ met' = met \cup {"power"}
    /\ UNCHANGED <<charging, counter, job, stop, plugged, lost, late>>

----------------------------------------------------------------------------
\* The job's own thread.

Becomes(x, pc) == job' = [job EXCEPT ![x] = pc]

JobRecheck(x) ==
    /\ job[x] = "spawned"
    /\ Becomes(x, IF CheckConditions(x) THEN "checked" ELSE "ending")
    /\ UNCHANGED <<met, charging, counter, doing, stop, plugged, lost, late>>

\* What is sensed refuses after all.
JobRefused(x) ==
    /\ job[x] = "checked"
    /\ Becomes(x, "ending")
    /\ UNCHANGED <<met, charging, counter, doing, stop, plugged, lost, late>>

\* StartUpdateSelinuxLabel clears its stop flag first.
RelabelBegins ==
    /\ job[Relabel] = "checked"
    /\ Becomes(Relabel, "working")
    /\ stop' = stop \ {Relabel}
    /\ lost' = (Relabel \in stop /\ ~Wanted(Relabel))
    /\ UNCHANGED <<met, charging, counter, doing, plugged, late>>

\* A scan that starts by clearing its stop flag, the way the relabel does.
ScanBeginsAfresh(x) ==
    /\ job[x] = "checked"
    /\ Becomes(x, "working")
    /\ stop' = stop \ {x}
    /\ UNCHANGED <<met, charging, counter, doing, plugged, lost, late>>

\* StartScan and StartFileCategoryScan: a stop set before the start aborts
\* the scan, and is used up.
ScanBegins(x) ==
    /\ job[x] = "checked"
    /\ Becomes(x, IF x \in stop THEN "ending" ELSE "working")
    /\ stop' = stop \ {x}
    /\ UNCHANGED <<met, charging, counter, doing, plugged, lost, late>>

\* The loop ends, stopped or with no bundle left; a scan's guard then clears
\* its flag, the relabel's stays.
JobFinish(x) ==
    /\ job[x] = "working"
    /\ Becomes(x, "ending")
    /\ stop' = IF x = Relabel THEN stop ELSE stop \ {x}
    /\ UNCHANGED <<met, charging, counter, doing, plugged, lost, late>>

\* The task's guard.
JobRelease(x) ==
    /\ job[x] = "ending"
    /\ Becomes(x, "none")
    /\ UNCHANGED <<met, charging, counter, doing, stop, plugged, lost, late>>

----------------------------------------------------------------------------
HandlerStep(h, free) ==
    \/ \E c \in Plain : OnMet(h, c) \/ OnUnmet(h, c)
    \/ OnLevel(h)
    \/ OnPowerConnected(h, free)
    \/ OnPowerDisconnected(h)
    \/ Unplug(h)

ChargerStep(p) == ChargerLook(p) \/ ChargerDue(p)

VisitStep(h) ==
    TryCheck(h) \/ TrySet(h) \/ InterruptLook(h) \/ InterruptStop(h)

JobStep(x) ==
    \/ JobRecheck(x)
    \/ JobRefused(x)
    \/ x = Relabel /\ RelabelBegins
    \/ x # Relabel /\ ScanBegins(x)
    \/ JobFinish(x)
    \/ JobRelease(x)

----------------------------------------------------------------------------
\* At most one of the three jobs is active, from the moment a handler claims
\* it to the guard of its thread: what the second look of SetIsRelabeling,
\* SetIsScanActive and SetIsFileCategoryScanActive is for, because the checks
\* before them release mutex_.
OneAtATime == \A x, y \in Jobs : Running(x) /\ Running(y) => x = y

Unplugging == \E h \in Handlers : doing[h].what = "unplug"

\* What IdleConditionMgr stores about the power follows the plug, though the
\* chargers of all plugs share one flag.  The condition is stored only while
\* the last power event was a plug, unless a charger was past its last look
\* when the unplug cleared the flag.  And no plug is lost: while it lasts the
\* condition is stored or a charger is on its way to store it, unless at the
\* last unplug a charger was trying the jobs, which clears the flag of its
\* successor.  Which plug a charger was started by makes no difference: one
\* that outlives an unplug takes the next plug's flag for its own, and stores
\* the condition before that plug's wait is over.
PowerFollowsPlug ==
    /\ "power" \in met => plugged \/ "due" \in late
    /\ plugged /\ "try" \notin late /\ ~Unplugging =>
         \/ "power" \in met
         \/ charging /\ (SomeCharger("waiting") \/ SomeCharger("due"))
=============================================================================
