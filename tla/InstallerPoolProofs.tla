------------------------ MODULE InstallerPoolProofs ------------------------
(***************************************************************************)
(* For every number of event threads, chargers, install tasks and workers: *)
(* at most one idle job is active, no stop but the one the relabel clears  *)
(* fails to reach a job, and the power condition follows the plug.         *)
(***************************************************************************)
EXTENDS InstallerPool, FiniteSetTheorems, TLAPS

\* The install tasks that are counted.
CountedTasks == {t \in Tasks : task[t] \in Counted}

CounterInv == counter = Cardinality(CountedTasks)

\* StopReaches, already true of a job that has made its second look.
StopAt(x) ==
    /\ job[x] = "checked" => x \in stop \/ Wanted(x) \/ Informing(x)
    /\ job[x] = "working" => x \in stop \/ Wanted(x) \/ Informing(x) \/ (x = Relabel /\ lost)

StopInv == \A x \in Jobs : StopAt(x)

\* A charger is told to wait only while the device is plugged in, and passes
\* its last look only then; one that tries the jobs has stored the condition,
\* and only an unplug takes it away.
PowerInv ==
    /\ charging => plugged
    /\ SomeCharger("due") => plugged \/ "due" \in late
    /\ SomeCharger("try") /\ "try" \notin late /\ ~Unplugging => "power" \in met
    /\ \A p \in Chargers : doing[p].what \notin Interrupting
    /\ PowerFollowsPlug

----------------------------------------------------------------------------
\* Places and steps of a thread.

\* The constants of a thread's place.
LEMMA PlaceTypes ==
    /\ Idle \in Places /\ Idle.what = "idle"
    /\ \A w \in {"idle", "waiting", "due", "try", "unplug", "stop"} :
         Pass(w) \in Places /\ Pass(w).what = w /\ Pass(w).at = 1
    /\ 1 \in Jobs /\ Relabel \in Jobs
  BY IdleAssumption DEF Idle, Pass, Places, Interrupting, Jobs, Relabel

\* The place after a job.
LEMMA NextPlaceFacts ==
    ASSUME NEW d \in Places
    PROVE  /\ NextPlace(d) \in Places
           /\ d.at < LastJob => NextPlace(d).what = d.what /\ NextPlace(d).at = d.at + 1
           /\ ~(d.at < LastJob) => NextPlace(d).what = "idle"
<1>1. d.at \in Jobs /\ LastJob \in 1..3
  BY IdleAssumption DEF Places
<1>2. CASE d.at < LastJob
  <2>1. NextPlace(d) = [d EXCEPT !.at = d.at + 1, !.seen = FALSE]
    BY Zenon, <1>2 DEF NextPlace
  <2>2. d.at + 1 \in Jobs
    BY <1>1, <1>2 DEF Jobs
  <2> QED
    BY Zenon, <1>2, <2>1, <2>2 DEF Places
<1>3. CASE ~(d.at < LastJob)
  BY Zenon, <1>3, PlaceTypes DEF NextPlace
<1> QED
  BY Zenon, <1>2, <1>3

\* A thread set to a new place.
LEMMA MoveFacts ==
    ASSUME TypeOK, NEW h \in Threads, NEW v \in Places, doing' = [doing EXCEPT ![h] = v]
    PROVE  /\ doing' \in [Threads -> Places] /\ doing'[h] = v
           /\ \A g \in Threads : g # h => doing'[g] = doing[g]
  BY DEF TypeOK, IdleTypeOK

\* A thread done with a job goes to the next one, or is done.
LEMMA LeaveFacts ==
    ASSUME TypeOK, NEW h \in Threads, Leave(h)
    PROVE  /\ doing' \in [Threads -> Places]
           /\ \A g \in Threads : g # h => doing'[g] = doing[g]
           /\ doing[h].at < LastJob =>
                doing'[h].what = doing[h].what /\ doing'[h].at = doing[h].at + 1
           /\ ~(doing[h].at < LastJob) => doing'[h].what = "idle"
           /\ charging' \in BOOLEAN /\ (charging' => charging)
<1>1. doing[h] \in Places
  BY Zenon DEF TypeOK, IdleTypeOK
<1>2. charging' \in BOOLEAN /\ (charging' => charging)
  BY Zenon DEF TypeOK, IdleTypeOK, Leave
<1>3. doing' = [doing EXCEPT ![h] = NextPlace(doing[h])]
  BY Zenon DEF Leave, Advance
<1> QED
  BY Zenon, <1>1, <1>2, <1>3, NextPlaceFacts, MoveFacts

\* A thread that found what it looked for stays where it is.
LEMMA MarkFacts ==
    ASSUME TypeOK, NEW h \in Threads, Mark(h)
    PROVE  /\ doing' \in [Threads -> Places]
           /\ \A g \in Threads : doing'[g].what = doing[g].what /\ doing'[g].at = doing[g].at
<1> DEFINE v == [doing[h] EXCEPT !.seen = TRUE]
<1>1. doing[h] \in Places
  BY Zenon DEF TypeOK, IdleTypeOK
<1>2. v \in Places /\ v.what = doing[h].what /\ v.at = doing[h].at
  BY Zenon, <1>1 DEF Places
<1>3. doing' = [doing EXCEPT ![h] = v]
  BY DEF Mark
<1> HIDE DEF v
<1>4. /\ doing' \in [Threads -> Places] /\ doing'[h] = v
      /\ \A g \in Threads : g # h => doing'[g] = doing[g]
  BY Zenon, <1>2, <1>3, MoveFacts
<1> QED
  BY Zenon, <1>2, <1>4

----------------------------------------------------------------------------
\* Types.

\* The threads' steps among the jobs.
LEMMA VisitTypes ==
    ASSUME TypeOK, NEW h \in Threads, VisitStep(h), UNCHANGED poolVars
    PROVE  TypeOK'
<1>1. doing[h].at \in Jobs
  BY DEF TypeOK, IdleTypeOK, Places
<1>2. doing' \in [Threads -> Places] /\ charging' \in BOOLEAN
  <2>1. CASE Leave(h)
    BY Zenon, <2>1, LeaveFacts
  <2>2. CASE Mark(h) /\ UNCHANGED charging
    BY Zenon, <2>2, MarkFacts DEF TypeOK, IdleTypeOK
  <2> QED
    BY Zenon, <2>1, <2>2 DEF VisitStep, TryCheck, TrySet, InterruptLook, InterruptStop
<1>3. UNCHANGED <<met, counter, plugged, lost, late, task, pool, switching>>
  BY Zenon DEF VisitStep, TryCheck, TrySet, InterruptLook, InterruptStop, poolVars
<1>4. job' \in [Jobs -> {"none", "spawned", "checked", "working", "ending"}] /\ stop' \in SUBSET Jobs
  <2>1. job' = job \/ job' = [job EXCEPT ![doing[h].at] = "spawned"]
    BY Zenon DEF VisitStep, TryCheck, TrySet, InterruptLook, InterruptStop
  <2>2. stop' = stop \/ stop' = stop \cup {doing[h].at}
    BY Zenon DEF VisitStep, TryCheck, TrySet, InterruptLook, InterruptStop
  <2> QED
    BY <1>1, <2>1, <2>2 DEF TypeOK, IdleTypeOK
<1> QED
  BY Zenon, <1>2, <1>3, <1>4 DEF TypeOK, IdleTypeOK

\* What an event or a charger does to the stored conditions and to its thread.
Event(h, v) ==
    /\ v \in Places /\ doing' = [doing EXCEPT ![h] = v]
    /\ met' \in SUBSET Conditions /\ charging' \in BOOLEAN
    /\ plugged' \in BOOLEAN /\ late' \subseteq {"due", "try"}
    /\ UNCHANGED <<counter, job, stop, lost>>

\* A step with the shape of an event keeps the types.
LEMMA EventTypes ==
    ASSUME TypeOK, NEW h \in Threads, NEW v, Event(h, v), UNCHANGED poolVars
    PROVE  TypeOK'
<1>1. doing' \in [Threads -> Places]
  BY Zenon, MoveFacts DEF Event
<1> QED
  BY Zenon, <1>1 DEF Event, TypeOK, IdleTypeOK, poolVars

\* Every event is one: a plug moves the charger it starts, or nobody.
LEMMA EventShapes ==
    ASSUME TypeOK, NEW h \in Handlers, NEW free \in SUBSET Chargers, HandlerStep(h, free)
    PROVE  \/ \E g \in Threads : \E v : Event(g, v)
           \/ UNCHANGED doing /\ plugged' = TRUE /\ UNCHANGED <<met, charging, counter, job, stop, lost, late>>
<1>1. h \in Threads /\ free \subseteq Threads
  BY DEF Threads
<1>2. met \in SUBSET Conditions /\ charging \in BOOLEAN /\ plugged \in BOOLEAN /\ late \subseteq {"due", "try"}
  BY Zenon DEF TypeOK, IdleTypeOK
<1>3. Pass("try") \in Places /\ Pass("stop") \in Places /\ Pass("waiting") \in Places /\ Pass("unplug") \in Places
  BY PlaceTypes
<1>4. ASSUME NEW c \in Plain, OnMet(h, c)
      PROVE  Event(h, Pass("try"))
  <2>1. met' \in SUBSET Conditions
    BY <1>2, <1>4 DEF OnMet, Conditions
  <2> QED
    BY Zenon, <1>2, <1>3, <1>4, <2>1 DEF OnMet, Start, Event
<1>5. ASSUME NEW c \in Plain, OnUnmet(h, c)
      PROVE  Event(h, Pass("stop"))
  <2>1. met' \in SUBSET Conditions
    BY <1>2, <1>5 DEF OnUnmet
  <2> QED
    BY Zenon, <1>2, <1>3, <1>5, <2>1 DEF OnUnmet, Start, Event
<1>6. CASE OnLevel(h)
  <2>1. Event(h, Pass("try")) \/ Event(h, Pass("stop"))
    BY Zenon, <1>2, <1>3, <1>6 DEF OnLevel, Start, Event
  <2> QED
    BY Zenon, <1>1, <2>1
<1>7. CASE OnPowerConnected(h, free)
  <2>1. CASE charging
    BY Zenon, <1>7, <2>1 DEF OnPowerConnected
  <2>2. CASE ~charging
    <3>1. PICK p \in free : doing' = [doing EXCEPT ![p] = Pass("waiting")]
      BY Zenon, <1>7, <2>2 DEF OnPowerConnected
    <3>2. Event(p, Pass("waiting"))
      BY Zenon, <1>2, <1>3, <1>7, <2>2, <3>1 DEF OnPowerConnected, Event
    <3> QED
      BY <1>1, <3>2
  <2> QED
    BY Zenon, <2>1, <2>2
<1>8. CASE OnPowerDisconnected(h)
  <2>1. met' \in SUBSET Conditions
    BY <1>2, <1>8 DEF OnPowerDisconnected
  <2>2. Event(h, Pass("unplug"))
    BY Zenon, <1>2, <1>3, <1>8, <2>1 DEF OnPowerDisconnected, Start, Event
  <2> QED
    BY Zenon, <1>1, <2>2
<1>9. CASE Unplug(h)
  <2>1. late' \subseteq {"due", "try"}
    BY Zenon, <1>9 DEF Unplug, Overtaken
  <2>2. Event(h, Pass("stop"))
    BY Zenon, <1>2, <1>3, <1>9, <2>1 DEF Unplug, Event
  <2> QED
    BY Zenon, <1>1, <2>2
<1> QED
  BY Zenon, <1>1, <1>4, <1>5, <1>6, <1>7, <1>8, <1>9 DEF HandlerStep

\* A charger's step is one too.
LEMMA ChargerShapes ==
    ASSUME TypeOK, NEW p \in Chargers, ChargerStep(p)
    PROVE  \E v : Event(p, v)
<1>1. met \in SUBSET Conditions /\ charging \in BOOLEAN /\ plugged \in BOOLEAN /\ late \subseteq {"due", "try"}
  BY Zenon DEF TypeOK, IdleTypeOK
<1>2. Pass("try") \in Places /\ Pass("due") \in Places /\ Idle \in Places
  BY PlaceTypes
<1>3. CASE ChargerLook(p)
  <2> DEFINE v == IF charging THEN Pass("due") ELSE Idle
  <2>1. v \in Places
    BY <1>2
  <2>2. doing' = [doing EXCEPT ![p] = v]
    BY Zenon, <1>3 DEF ChargerLook
  <2> HIDE DEF v
  <2>3. Event(p, v)
    BY Zenon, <1>1, <1>3, <2>1, <2>2 DEF ChargerLook, Event
  <2> QED
    BY Zenon, <2>3
<1>4. CASE ChargerDue(p)
  <2>1. met' \in SUBSET Conditions
    BY <1>1, <1>4 DEF ChargerDue, Conditions
  <2>2. Event(p, Pass("try"))
    BY Zenon, <1>1, <1>2, <1>4, <2>1 DEF ChargerDue, Event
  <2> QED
    BY Zenon, <2>2
<1> QED
  BY Zenon, <1>3, <1>4 DEF ChargerStep

\* A job's own steps.
LEMMA JobTypes ==
    ASSUME TypeOK, NEW x \in Jobs, JobStep(x), UNCHANGED poolVars
    PROVE  TypeOK'
<1>1. \E pc \in {"none", "checked", "working", "ending"} : job' = [job EXCEPT ![x] = pc]
  BY Zenon DEF JobStep, JobRecheck, JobRefused, RelabelBegins, ScanBegins, JobFinish, JobRelease, Becomes
<1>2. stop' \subseteq stop /\ lost' \in BOOLEAN
  BY Zenon DEF JobStep, JobRecheck, JobRefused, RelabelBegins, ScanBegins, JobFinish, JobRelease, TypeOK,
     IdleTypeOK
<1>3. UNCHANGED <<met, charging, counter, doing, plugged, late>>
  BY Zenon DEF JobStep, JobRecheck, JobRefused, RelabelBegins, ScanBegins, JobFinish, JobRelease
<1>4. job' \in [Jobs -> {"none", "spawned", "checked", "working", "ending"}]
  BY <1>1 DEF TypeOK, IdleTypeOK
<1>5. stop' \in SUBSET Jobs
  BY <1>2 DEF TypeOK, IdleTypeOK
<1> QED
  BY Zenon, <1>2, <1>3, <1>4, <1>5 DEF TypeOK, IdleTypeOK, poolVars

\* The number of counted tasks, when one is added to them or taken away.
LEMMA Counting ==
    ASSUME TypeOK, NEW t \in Tasks
    PROVE  /\ IsFiniteSet(CountedTasks) /\ Cardinality(CountedTasks) \in Nat
           /\ t \in CountedTasks => /\ Cardinality(CountedTasks) > 0
                                    /\ Cardinality(CountedTasks \ {t}) = Cardinality(CountedTasks) - 1
           /\ t \notin CountedTasks =>
                Cardinality(CountedTasks \cup {t}) = Cardinality(CountedTasks) + 1
<1>1. IsFiniteSet(CountedTasks)
  BY FS_Subset, PoolAssumption DEF CountedTasks
<1>2. Cardinality(CountedTasks) \in Nat
  BY <1>1, FS_CardinalityType
<1>3. t \in CountedTasks => Cardinality(CountedTasks) # 0
  BY <1>1, FS_EmptySet
<1> DEFINE C == CountedTasks
<1>4. Cardinality(C \cup {t}) = IF t \in C THEN Cardinality(C) ELSE Cardinality(C) + 1
  BY Zenon, <1>1, FS_AddElement
<1>5. Cardinality(C \ {t}) = IF t \in C THEN Cardinality(C) - 1 ELSE Cardinality(C)
  BY Zenon, <1>1, FS_RemoveElement
<1> HIDE DEF C
<1> QED
  BY <1>1, <1>2, <1>3, <1>4, <1>5 DEF C

\* The step of an install task: where it goes, and what becomes of the counter.
Moves(t, to, n) ==
    /\ task' = [task EXCEPT ![t] = to]
    /\ to \in {"idle", "probed"} \cup Counted \cup {"busy", "done"}
    /\ counter' = n

\* How a task's step moves the counter.
LEMMA TaskShapes ==
    ASSUME TypeOK, NEW t \in Tasks, CreateTask(t) \/ Operation(t)
    PROVE  /\ UNCHANGED <<met, charging, doing, job, plugged, lost, late, switching>>
           /\ pool' \in BOOLEAN /\ stop' \in {stop, stop \cup {Relabel}}
           /\ \/ /\ task[t] \notin Counted
                 /\ \E to \in {"busy", "probed"} : Moves(t, to, counter)
              \/ task[t] \notin Counted /\ Moves(t, "counted", counter + 1)
              \/ task[t] \in Counted /\ \E to \in Counted : Moves(t, to, counter)
              \/ task[t] \in Counted /\ \E to \in {"busy", "done"} : Moves(t, to, counter - 1)
<1>1. UNCHANGED <<met, charging, doing, job, plugged, lost, late, switching>>
  BY Zenon DEF CreateTask, Operation, AddTask, AddTaskLook, AddTaskTell, AddTaskPush, RunTask, DropTask,
     EndTask, OnlyCounter, idleVars
<1>2. pool' \in BOOLEAN /\ stop' \in {stop, stop \cup {Relabel}}
  BY Zenon DEF CreateTask, Operation, AddTask, AddTaskLook, AddTaskTell, AddTaskPush, RunTask, DropTask,
     EndTask, OnlyCounter, idleVars, TypeOK
<1>3. CASE CreateTask(t)
  BY Zenon, <1>1, <1>2, <1>3 DEF CreateTask, Goes, Moves, Counted, Adding, idleVars
<1>4. CASE AddTask(t)
  BY <1>1, <1>2, <1>4 DEF AddTask, Goes, Moves, Counted, Adding
<1>5. CASE AddTaskLook(t)
  BY Zenon, <1>1, <1>2, <1>5 DEF AddTaskLook, Goes, Moves, Counted, Adding, idleVars
<1>6. CASE AddTaskTell(t) \/ AddTaskPush(t) \/ RunTask(t)
  BY Zenon, <1>1, <1>2, <1>6 DEF AddTaskTell, AddTaskPush, RunTask, Goes, Moves, Counted, Adding, idleVars
<1>7. CASE DropTask(t) \/ EndTask(t)
  BY <1>1, <1>2, <1>7 DEF DropTask, EndTask, Goes, Moves, Counted, Adding
<1> QED
  BY Zenon, <1>3, <1>4, <1>5, <1>6, <1>7 DEF Operation

\* A task's step keeps the types and the count.
LEMMA TaskTypes ==
    ASSUME TypeOK, CounterInv, NEW t \in Tasks, CreateTask(t) \/ Operation(t)
    PROVE  TypeOK' /\ CounterInv'
<1> DEFINE C == CountedTasks
<1>1. PICK to, n : /\ Moves(t, to, n)
                   /\ \/ n = counter /\ (to \in Counted <=> task[t] \in Counted)
                      \/ n = counter + 1 /\ task[t] \notin Counted /\ to \in Counted
                      \/ n = counter - 1 /\ task[t] \in Counted /\ to \notin Counted
  <2>1. "counted" \in Counted /\ \A to \in {"busy", "probed", "done"} : to \notin Counted
    BY DEF Counted, Adding
  <2>2. \/ task[t] \notin Counted /\ \E to \in {"busy", "probed"} : Moves(t, to, counter)
        \/ task[t] \notin Counted /\ Moves(t, "counted", counter + 1)
        \/ task[t] \in Counted /\ \E to \in Counted : Moves(t, to, counter)
        \/ task[t] \in Counted /\ \E to \in {"busy", "done"} : Moves(t, to, counter - 1)
    BY Zenon, TaskShapes
  <2> QED
    BY Zenon, <2>1, <2>2
<1>2. CountedTasks' = IF to \in Counted THEN C \cup {t} ELSE C \ {t}
  BY <1>1 DEF CountedTasks, Moves, TypeOK
<1>3. t \in C <=> task[t] \in Counted
  BY DEF CountedTasks
<1>4. CounterInv'
  <2>1. CASE n = counter /\ (to \in Counted <=> task[t] \in Counted)
    BY <1>1, <1>2, <1>3, <2>1 DEF CounterInv, Moves
  <2>2. CASE n = counter + 1 /\ task[t] \notin Counted /\ to \in Counted
    BY <1>1, <1>2, <1>3, <2>2, Counting DEF CounterInv, Moves
  <2>3. CASE n = counter - 1 /\ task[t] \in Counted /\ to \notin Counted
    BY <1>1, <1>2, <1>3, <2>3, Counting DEF CounterInv, Moves
  <2> QED
    BY Zenon, <1>1, <2>1, <2>2, <2>3
<1>5. counter' \in Nat
  <2>1. counter \in Nat
    BY DEF TypeOK, IdleTypeOK
  <2>2. task[t] \in Counted => counter > 0
    BY Zenon, <1>3, Counting DEF CounterInv
  <2>3. counter' = n
    BY <1>1 DEF Moves
  <2> HIDE DEF C
  <2> QED
    BY <1>1, <2>1, <2>2, <2>3
<1>6. task' \in [Tasks -> {"idle", "probed"} \cup Counted \cup {"busy", "done"}]
  BY <1>1 DEF Moves, TypeOK
<1>7. stop' \in SUBSET Jobs
  BY TaskShapes, PlaceTypes DEF TypeOK, IdleTypeOK
<1> QED
  BY <1>4, <1>5, <1>6, <1>7, TaskShapes DEF TypeOK, IdleTypeOK

----------------------------------------------------------------------------
\* One job at a time.

\* A thread starts a job only when none is active.
LEMMA VisitOneAtATime ==
    ASSUME TypeOK, OneAtATime, NEW h \in Threads, VisitStep(h)
    PROVE  OneAtATime'
<1>1. CASE UNCHANGED job
  BY Zenon, <1>1 DEF OneAtATime, Running
<1>2. CASE SetActive(doing[h].at) /\ job' = [job EXCEPT ![doing[h].at] = "spawned"]
  BY <1>2 DEF OneAtATime, Running, SetActive, TypeOK, IdleTypeOK
<1> QED
  BY Zenon, <1>1, <1>2 DEF VisitStep, TryCheck, TrySet, InterruptLook, InterruptStop

\* A job's own thread touches only its own flag.
LEMMA JobOneAtATime ==
    ASSUME TypeOK, OneAtATime, NEW x \in Jobs, JobStep(x)
    PROVE  OneAtATime'
<1>1. job[x] # "none" /\ \A y \in Jobs : y # x => job'[y] = job[y]
  BY DEF JobStep, JobRecheck, JobRefused, RelabelBegins, ScanBegins, JobFinish, JobRelease, Becomes,
     TypeOK, IdleTypeOK
<1> QED
  BY Zenon, <1>1 DEF OneAtATime, Running

----------------------------------------------------------------------------
\* The power.

\* A step that neither plugs in nor unplugs, and lets the flag fall only behind
\* a charger that has stored the condition.
LEMMA PowerKept ==
    ASSUME PowerInv, UNCHANGED plugged, UNCHANGED late,
           "power" \in met' <=> "power" \in met,
           charging' => charging, charging => charging' \/ SomeCharger("try"),
           SomeCharger("waiting")' <=> SomeCharger("waiting"),
           SomeCharger("due")' <=> SomeCharger("due"),
           SomeCharger("try")' => SomeCharger("try"),
           Unplugging' <=> Unplugging,
           \A p \in Chargers : doing'[p].what \notin Interrupting
    PROVE  PowerInv'
  BY Zenon DEF PowerInv, PowerFollowsPlug

\* An event moves its own thread, and no charger.
LEMMA HandlerMoves ==
    ASSUME TypeOK, PowerInv, NEW h \in Handlers, NEW w \in {"try", "unplug", "stop"},
           doing' = [doing EXCEPT ![h] = Pass(w)]
    PROVE  /\ \A v : SomeCharger(v)' <=> SomeCharger(v)
           /\ \A p \in Chargers : doing'[p].what \notin Interrupting
           /\ w = "unplug" => Unplugging'
           /\ doing[h] = Idle /\ w # "unplug" => (Unplugging' <=> Unplugging)
<1>1. h \in Threads /\ h \notin Chargers
  BY IdleAssumption DEF Threads
<1>2. Pass(w) \in Places /\ Pass(w).what = w /\ Idle.what # "unplug"
  BY PlaceTypes
<1>3. doing'[h].what = w /\ \A g \in Threads : g # h => doing'[g] = doing[g]
  BY Zenon, <1>1, <1>2, MoveFacts
<1>4. \A p \in Chargers : doing'[p] = doing[p]
  BY Zenon, <1>1, <1>3 DEF Threads
<1>5. \A v : SomeCharger(v)' <=> SomeCharger(v)
  BY Zenon, <1>4 DEF SomeCharger
<1>6. \A p \in Chargers : doing'[p].what \notin Interrupting
  BY Zenon, <1>4 DEF PowerInv
<1>7. w = "unplug" => Unplugging'
  BY Zenon, <1>3 DEF Unplugging
<1>8. doing[h] = Idle /\ w # "unplug" => (Unplugging' <=> Unplugging)
  BY Zenon, <1>2, <1>3 DEF Unplugging, Threads
<1> QED
  BY Zenon, <1>5, <1>6, <1>7, <1>8

\* An event leaves the power alone, is a plug, or is an unplug.
LEMMA HandlerPower ==
    ASSUME TypeOK, PowerInv, NEW h \in Handlers, NEW free \in SUBSET Chargers, HandlerStep(h, free)
    PROVE  PowerInv'
<1>1. plugged \in BOOLEAN /\ charging \in BOOLEAN
  BY Zenon DEF TypeOK, IdleTypeOK
<1>2. ASSUME NEW w \in {"try", "stop"}, Start(h, w), UNCHANGED <<charging, plugged, late>>,
             "power" \in met' <=> "power" \in met
      PROVE  PowerInv'
  <2>1. w \in {"try", "unplug", "stop"} /\ w # "unplug"
    BY <1>2
  <2> QED
    BY Zenon, <1>2, <2>1, HandlerMoves, PowerKept DEF Start
<1>3. ASSUME NEW c \in Plain, OnMet(h, c) \/ OnUnmet(h, c) PROVE PowerInv'
  <2>1. "power" \in met' <=> "power" \in met
    BY <1>3, IdleAssumption DEF OnMet, OnUnmet
  <2> QED
    BY Zenon, <1>2, <1>3, <2>1 DEF OnMet, OnUnmet
<1>4. CASE OnLevel(h)
  BY Zenon, <1>2, <1>4 DEF OnLevel
<1>5. CASE OnPowerConnected(h, free)
  <2>1. UNCHANGED <<met, late>> /\ plugged' = TRUE
    BY Zenon, <1>5 DEF OnPowerConnected
  <2>2. CASE charging
    <3>1. UNCHANGED <<charging, doing>>
      BY Zenon, <1>5, <2>2 DEF OnPowerConnected
    <3>2. UNCHANGED plugged
      BY Zenon, <1>1, <2>1, <2>2 DEF PowerInv
    <3>3. /\ \A w : SomeCharger(w)' <=> SomeCharger(w)
          /\ Unplugging' <=> Unplugging
          /\ \A p \in Chargers : doing'[p].what \notin Interrupting
      BY Zenon, <3>1 DEF PowerInv, SomeCharger, Unplugging
    <3> QED
      BY Zenon, <2>1, <3>1, <3>2, <3>3, PowerKept
  <2>3. CASE ~charging
    <3>1. charging' = TRUE
      BY Zenon, <1>5, <2>3 DEF OnPowerConnected
    <3>2. PICK p \in free : doing' = [doing EXCEPT ![p] = Pass("waiting")]
      BY Zenon, <1>5, <2>3 DEF OnPowerConnected
    <3>3. p \in Chargers /\ p \in Threads /\ p \notin Handlers
      BY IdleAssumption DEF Threads
    <3>4. /\ Pass("waiting") \in Places /\ Pass("waiting").what = "waiting"
          /\ "waiting" \notin Interrupting
      BY PlaceTypes DEF Interrupting
    <3>5. doing'[p].what = "waiting" /\ \A g \in Threads : g # p => doing'[g] = doing[g]
      BY Zenon, <3>2, <3>3, <3>4, MoveFacts
    <3>6. (SomeCharger("try")' => SomeCharger("try")) /\ SomeCharger("waiting")'
      BY <3>3, <3>5 DEF SomeCharger, Threads
    <3>7. Unplugging' <=> Unplugging
      BY Zenon, <3>3, <3>5 DEF Unplugging, Threads
    <3>8. \A q \in Chargers : doing'[q].what \notin Interrupting
      BY Zenon, <3>4, <3>5 DEF PowerInv, Threads
    <3> QED
      BY Zenon, <2>1, <3>1, <3>6, <3>7, <3>8 DEF PowerInv, PowerFollowsPlug
  <2> QED
    BY Zenon, <2>2, <2>3
<1>6. CASE OnPowerDisconnected(h)
  <2>1. UNCHANGED <<charging, plugged, late>> /\ doing' = [doing EXCEPT ![h] = Pass("unplug")]
    BY Zenon, <1>6 DEF OnPowerDisconnected, Start
  <2>2. "power" \notin met' /\ "unplug" \in {"try", "unplug", "stop"}
    BY <1>6 DEF OnPowerDisconnected
  <2>3. /\ Unplugging' /\ (SomeCharger("due")' <=> SomeCharger("due"))
        /\ \A p \in Chargers : doing'[p].what \notin Interrupting
    BY Zenon, <2>1, <2>2, HandlerMoves
  <2> QED
    BY Zenon, <2>1, <2>2, <2>3 DEF PowerInv, PowerFollowsPlug
<1>7. CASE Unplug(h)
  <2>1. /\ charging' = FALSE /\ plugged' = FALSE /\ UNCHANGED met /\ late' = Overtaken
        /\ doing' = [doing EXCEPT ![h] = Pass("stop")]
    BY Zenon, <1>7 DEF Unplug
  <2>2. /\ (SomeCharger("due")' <=> SomeCharger("due"))
        /\ (SomeCharger("try")' <=> SomeCharger("try"))
        /\ \A p \in Chargers : doing'[p].what \notin Interrupting
    BY Zenon, <2>1, HandlerMoves
  <2>3. /\ SomeCharger("due") \/ "power" \in met => "due" \in late'
        /\ SomeCharger("try") => "try" \in late'
    BY Zenon, <2>1 DEF Overtaken
  <2> QED
    BY Zenon, <2>1, <2>2, <2>3 DEF PowerInv, PowerFollowsPlug
<1> QED
  BY Zenon, <1>3, <1>4, <1>5, <1>6, <1>7 DEF HandlerStep

\* A charger passes its last look only while charging, and stores the condition
\* before it tries the jobs.
LEMMA ChargerPower ==
    ASSUME TypeOK, PowerInv, NEW p \in Chargers, ChargerStep(p)
    PROVE  PowerInv'
<1>1. p \in Threads /\ p \notin Handlers
  BY IdleAssumption DEF Threads
<1>2. UNCHANGED <<charging, plugged, late>>
  BY Zenon DEF ChargerStep, ChargerLook, ChargerDue
<1>3. \A g \in Threads : g # p => doing'[g] = doing[g]
  BY <1>1 DEF ChargerStep, ChargerLook, ChargerDue, TypeOK, IdleTypeOK
<1>4. Unplugging' <=> Unplugging
  BY Zenon, <1>1, <1>3 DEF Unplugging, Threads
<1>5. ASSUME doing'[p].what \notin Interrupting
      PROVE  \A q \in Chargers : doing'[q].what \notin Interrupting
  BY Zenon, <1>3, <1>5 DEF PowerInv, Threads
<1>6. CASE ChargerLook(p)
  <2>1. /\ UNCHANGED met
        /\ doing'[p].what = IF charging THEN "due" ELSE "idle"
    BY <1>1, <1>6, PlaceTypes DEF ChargerLook, TypeOK, IdleTypeOK
  <2>2. doing'[p].what \notin Interrupting /\ doing'[p].what # "try"
    BY <2>1 DEF Interrupting
  <2>3. SomeCharger("try")' => SomeCharger("try")
    BY Zenon, <1>3, <2>2 DEF SomeCharger, Threads
  <2>4. IF charging THEN SomeCharger("due")' ELSE SomeCharger("due")' => SomeCharger("due")
    BY <1>3, <2>1 DEF SomeCharger, Threads
  <2> QED
    BY Zenon, <1>2, <1>4, <1>5, <2>1, <2>2, <2>3, <2>4 DEF PowerInv, PowerFollowsPlug
<1>7. CASE ChargerDue(p)
  <2>1. SomeCharger("due")
    BY Zenon, <1>7 DEF ChargerDue, SomeCharger
  <2>2. "power" \in met'
    BY <1>7 DEF ChargerDue
  <2>3. doing'[p].what \notin Interrupting
    BY <1>1, <1>7, PlaceTypes DEF ChargerDue, Interrupting, TypeOK, IdleTypeOK
  <2> QED
    BY Zenon, <1>2, <1>5, <2>1, <2>2, <2>3 DEF PowerInv, PowerFollowsPlug
<1> QED
  BY Zenon, <1>6, <1>7 DEF ChargerStep

\* The visits to the jobs make no charger due, and the flag falls only behind a
\* charger that leaves the last of them.
LEMMA VisitPower ==
    ASSUME TypeOK, PowerInv, NEW h \in Threads, VisitStep(h)
    PROVE  PowerInv'
<1>1. UNCHANGED <<met, plugged, late>>
  BY Zenon DEF VisitStep, TryCheck, TrySet, InterruptLook, InterruptStop
<1>2. doing[h].what \in {"try", "stop"}
  BY Zenon DEF VisitStep, TryCheck, TrySet, InterruptLook, InterruptStop, At
<1>3. /\ charging' => charging
      /\ charging => charging' \/ h \in Chargers
      /\ \A g \in Threads : g # h => doing'[g].what = doing[g].what
      /\ doing'[h].what \in {doing[h].what, "idle"}
  <2>1. CASE Leave(h)
    <3>1. doing'[h].what \in {doing[h].what, "idle"}
      BY Zenon, <2>1, LeaveFacts
    <3>2. (charging' => charging) /\ \A g \in Threads : g # h => doing'[g] = doing[g]
      BY Zenon, <2>1, LeaveFacts
    <3>3. charging => charging' \/ h \in Chargers
      BY Zenon, <2>1 DEF Leave
    <3> QED
      BY Zenon, <3>1, <3>2, <3>3
  <2>2. CASE Mark(h) /\ UNCHANGED charging
    BY Zenon, <2>2, MarkFacts
  <2> QED
    BY Zenon, <2>1, <2>2 DEF VisitStep, TryCheck, TrySet, InterruptLook, InterruptStop
<1>4. h \in Chargers => doing[h].what = "try"
  BY <1>2 DEF PowerInv, Interrupting
<1>5. ASSUME NEW w \in {"waiting", "due"} PROVE SomeCharger(w)' <=> SomeCharger(w)
  <2>1. doing[h].what # w /\ doing'[h].what # w
    BY <1>2, <1>3
  <2> QED
    BY Zenon, <1>3, <2>1 DEF SomeCharger, Threads
<1>6. SomeCharger("try")' => SomeCharger("try")
  BY <1>3 DEF SomeCharger, Threads
<1>7. Unplugging' <=> Unplugging
  <2>1. doing[h].what # "unplug" /\ doing'[h].what # "unplug"
    BY <1>2, <1>3
  <2> QED
    BY Zenon, <1>3, <2>1 DEF Unplugging, Threads
<1>8. charging => charging' \/ SomeCharger("try")
  BY Zenon, <1>3, <1>4 DEF SomeCharger
<1>9. \A p \in Chargers : doing'[p].what \notin Interrupting
  <2>1. "idle" \notin Interrupting /\ "try" \notin Interrupting
    BY DEF Interrupting
  <2> QED
    BY <1>3, <1>4, <2>1 DEF PowerInv, Threads
<1>10. /\ SomeCharger("waiting")' <=> SomeCharger("waiting")
       /\ SomeCharger("due")' <=> SomeCharger("due")
  BY <1>5
<1> QED
  BY Zenon, <1>1, <1>3, <1>6, <1>7, <1>8, <1>9, <1>10, PowerKept

----------------------------------------------------------------------------
\* The stops.

Looked == {"checked", "working"}

\* A step that starts no job, clears no stop, and loses neither the conditions
\* nor those on their way without a stop in their place.
LEMMA StopKept ==
    ASSUME StopInv, stop \subseteq stop', lost' = lost,
           \A x \in Jobs : job'[x] \in Looked => job'[x] = job[x],
           \A x \in Jobs : Wanted(x) => Wanted(x)' \/ Informing(x)',
           \A x \in Jobs : Informing(x) => Informing(x)' \/ x \in stop' \/ job'[x] \notin Looked
    PROVE  StopInv'
<1> SUFFICES ASSUME NEW x \in Jobs PROVE StopAt(x)'
  BY Zenon DEF StopInv
<1>1. x \in stop => x \in stop'
  OBVIOUS
<1>2. job'[x] \in Looked => job'[x] = job[x]
  OBVIOUS
<1>3. "checked" \in Looked /\ "working" \in Looked
  BY DEF Looked
<1> QED
  BY Zenon, <1>1, <1>2, <1>3 DEF StopInv, StopAt

\* A thread that is not interrupting informs nobody, so others still do.
LEMMA InformingKept ==
    ASSUME NEW h \in Threads, doing[h].what \notin Interrupting, UNCHANGED task,
           \A g \in Threads : g # h => doing'[g] = doing[g]
    PROVE  \A x \in Jobs : Informing(x) => Informing(x)'
  BY Zenon DEF Informing

\* An interrupting thread that begins informs every job.
LEMMA InformingBegins ==
    ASSUME NEW h \in Threads, NEW w \in Interrupting, doing'[h] = Pass(w)
    PROVE  \A x \in Jobs : Informing(x)'
<1>1. doing'[h].what \in Interrupting /\ doing'[h].at = 1
  BY PlaceTypes DEF Interrupting
<1>2. \A x \in Jobs : 1 <= x
  BY IdleAssumption DEF Jobs
<1> QED
  BY Zenon, <1>1, <1>2 DEF Informing

\* The events: a condition that goes sends a thread to every job.
LEMMA HandlerStops ==
    ASSUME TypeOK, StopInv, NEW h \in Handlers, NEW free \in SUBSET Chargers,
           HandlerStep(h, free), UNCHANGED poolVars
    PROVE  StopInv'
<1>1. h \in Threads /\ free \subseteq Threads
  BY DEF Threads
<1>2. UNCHANGED <<counter, job, stop, lost, task>>
  BY Zenon DEF HandlerStep, OnMet, OnUnmet, OnLevel, OnPowerConnected, OnPowerDisconnected, Unplug,
     poolVars
<1>3. Idle.what \notin Interrupting
  BY PlaceTypes DEF Interrupting
<1>4. ASSUME NEW w \in Interrupting, doing' = [doing EXCEPT ![h] = Pass(w)]
      PROVE  StopInv'
  <2>1. Pass(w) \in Places
    BY <1>4, PlaceTypes DEF Interrupting
  <2>2. doing'[h] = Pass(w)
    BY Zenon, <1>1, <1>4, <2>1, MoveFacts
  <2>3. \A x \in Jobs : Informing(x)'
    BY Zenon, <1>1, <2>2, InformingBegins
  <2> QED
    BY Zenon, <2>3 DEF StopInv, StopAt
<1>5. CASE met' \in {met, met \cup {"power"}} \cup {met \cup {c} : c \in Plain} /\
           \E g \in Threads : doing[g].what \notin Interrupting /\ \A k \in Threads : k # g => doing'[k] = doing[k]
  <2>1. \A x \in Jobs : Wanted(x) => Wanted(x)'
    BY <1>2, <1>5 DEF Wanted, Conditions
  <2>2. \A x \in Jobs : Informing(x) => Informing(x)'
    BY Zenon, <1>2, <1>5, InformingKept
  <2>3. stop \subseteq stop' /\ lost' = lost /\ \A x \in Jobs : job'[x] \in Looked => job'[x] = job[x]
    BY <1>2
  <2> QED
    BY Zenon, <2>1, <2>2, <2>3, StopKept
<1>6. CASE Start(h, "try") /\ met' \in {met} \cup {met \cup {c} : c \in Plain}
  <2>1. doing[h].what \notin Interrupting /\ \A g \in Threads : g # h => doing'[g] = doing[g]
    BY Zenon, <1>1, <1>3, <1>6, PlaceTypes, MoveFacts DEF Start
  <2> QED
    BY <1>1, <1>5, <1>6, <2>1
<1>7. CASE OnPowerConnected(h, free)
  <2>1. UNCHANGED met
    BY Zenon, <1>7 DEF OnPowerConnected
  <2>2. CASE charging
    <3>1. UNCHANGED doing /\ doing[h].what \notin Interrupting
      BY Zenon, <1>3, <1>7, <2>2 DEF OnPowerConnected
    <3> QED
      BY <1>1, <1>5, <2>1, <3>1
  <2>3. CASE ~charging
    <3>1. PICK p \in free : doing[p] = Idle /\ doing' = [doing EXCEPT ![p] = Pass("waiting")]
      BY Zenon, <1>7, <2>3 DEF OnPowerConnected
    <3>2. p \in Threads /\ doing[p].what \notin Interrupting /\ \A g \in Threads : g # p => doing'[g] = doing[g]
      BY Zenon, <1>1, <1>3, <3>1, PlaceTypes, MoveFacts
    <3> QED
      BY <1>5, <2>1, <3>2
  <2> QED
    BY Zenon, <2>2, <2>3
<1>8. "unplug" \in Interrupting /\ "stop" \in Interrupting
  BY DEF Interrupting
<1>9. ASSUME NEW c \in Plain, OnMet(h, c) PROVE StopInv'
  BY <1>6, <1>9 DEF OnMet
<1>10. ASSUME NEW c \in Plain, OnUnmet(h, c) PROVE StopInv'
  BY Zenon, <1>4, <1>8, <1>10 DEF OnUnmet, Start
<1>11. CASE OnLevel(h)
  <2>1. CASE Start(h, "try")
    BY <1>6, <1>11, <2>1 DEF OnLevel
  <2>2. CASE Start(h, "stop")
    BY Zenon, <1>4, <1>8, <2>2 DEF Start
  <2> QED
    BY Zenon, <1>11, <2>1, <2>2 DEF OnLevel
<1>12. CASE OnPowerDisconnected(h) \/ Unplug(h)
  BY Zenon, <1>4, <1>8, <1>12 DEF OnPowerDisconnected, Unplug, Start
<1> QED
  BY Zenon, <1>7, <1>9, <1>10, <1>11, <1>12 DEF HandlerStep

\* The chargers only add to the conditions.
LEMMA ChargerStops ==
    ASSUME TypeOK, StopInv, NEW p \in Chargers, ChargerStep(p), UNCHANGED poolVars
    PROVE  StopInv'
<1>1. p \in Threads /\ UNCHANGED <<counter, job, stop, lost, task>>
  BY Zenon DEF ChargerStep, ChargerLook, ChargerDue, poolVars, Threads
<1>2. doing[p].what \notin Interrupting /\ \A g \in Threads : g # p => doing'[g] = doing[g]
  BY <1>1 DEF ChargerStep, ChargerLook, ChargerDue, TypeOK, IdleTypeOK, Interrupting
<1>3. \A x \in Jobs : Wanted(x) => Wanted(x)'
  BY <1>1 DEF ChargerStep, ChargerLook, ChargerDue, Wanted, Conditions
<1>4. \A x \in Jobs : Informing(x) => Informing(x)'
  BY Zenon, <1>1, <1>2, InformingKept
<1>5. stop \subseteq stop' /\ lost' = lost /\ \A x \in Jobs : job'[x] \in Looked => job'[x] = job[x]
  BY <1>1
<1> QED
  BY Zenon, <1>3, <1>4, <1>5, StopKept

\* A thread that leaves a job has still to reach those after it.
LEMMA LeaveInforms ==
    ASSUME TypeOK, NEW h \in Threads, Leave(h), UNCHANGED task,
           NEW y \in Jobs, y # doing[h].at, Informing(y)
    PROVE  Informing(y)'
<1>1. doing[h].at \in Jobs /\ LastJob \in 1..3
  BY IdleAssumption DEF TypeOK, IdleTypeOK, Places
<1>2. CASE doing[h].what \in Interrupting /\ doing[h].at <= y
  <2>1. doing[h].at < LastJob /\ doing[h].at + 1 <= y
    BY <1>1, <1>2 DEF Jobs
  <2>2. doing'[h].what \in Interrupting /\ doing'[h].at <= y
    BY Zenon, <1>2, <2>1, LeaveFacts
  <2> QED
    BY Zenon, <2>2 DEF Informing
<1>3. CASE ~(doing[h].what \in Interrupting /\ doing[h].at <= y)
  <2>1. \A g \in Threads : g # h => doing'[g] = doing[g]
    BY Zenon, LeaveFacts
  <2> QED
    BY Zenon, <1>3, <2>1 DEF Informing
<1> QED
  BY Zenon, <1>2, <1>3

\* The visits: a job is passed by an interrupting thread only with its stop set
\* or when it is not there.
LEMMA VisitStops ==
    ASSUME TypeOK, StopInv, NEW h \in Threads, VisitStep(h), UNCHANGED poolVars
    PROVE  StopInv'
<1> DEFINE z == doing[h].at
<1>1. UNCHANGED <<met, counter, lost, task>>
  BY Zenon DEF VisitStep, TryCheck, TrySet, InterruptLook, InterruptStop, poolVars
<1>2. \A x \in Jobs : Wanted(x) => Wanted(x)'
  BY Zenon, <1>1 DEF Wanted
<1>3. stop \subseteq stop' /\ lost' = lost
  BY Zenon, <1>1 DEF VisitStep, TryCheck, TrySet, InterruptLook, InterruptStop
<1>4. \A x \in Jobs : job'[x] \in Looked => job'[x] = job[x]
  <2>1. job' = job \/ job' = [job EXCEPT ![z] = "spawned"]
    BY Zenon DEF VisitStep, TryCheck, TrySet, InterruptLook, InterruptStop
  <2> QED
    BY <2>1 DEF Looked, TypeOK, IdleTypeOK
<1>5. \A x \in Jobs : Informing(x) => Informing(x)' \/ x \in stop' \/ job'[x] \notin Looked
  <2>1. CASE Mark(h)
    <3>1. \A g \in Threads : doing'[g].what = doing[g].what /\ doing'[g].at = doing[g].at
      BY Zenon, <2>1, MarkFacts
    <3> QED
      BY Zenon, <1>1, <3>1 DEF Informing
  <2>2. CASE Leave(h) /\ doing[h].what = "try"
    <3>1. \A g \in Threads : g # h => doing'[g] = doing[g]
      BY Zenon, <2>2, LeaveFacts
    <3>2. doing[h].what \notin Interrupting
      BY <2>2 DEF Interrupting
    <3> QED
      BY Zenon, <1>1, <3>1, <3>2, InformingKept
  <2>3. CASE Leave(h) /\ (z \in stop' \/ job'[z] \notin Looked)
    BY Zenon, <1>1, <2>3, LeaveInforms
  <2>4. CASE InterruptLook(h) /\ ~Running(z) /\ Leave(h)
    <3>1. job'[z] = "none" /\ "none" \notin Looked
      BY <2>4 DEF InterruptLook, Running, Looked
    <3> QED
      BY Zenon, <2>3, <2>4, <3>1
  <2>5. CASE InterruptStop(h)
    <3>1. z \in stop' /\ Leave(h)
      BY <2>5 DEF InterruptStop
    <3> QED
      BY Zenon, <2>3, <3>1
  <2> QED
    BY Zenon, <2>1, <2>2, <2>4, <2>5 DEF VisitStep, TryCheck, TrySet, InterruptLook, At
<1> QED
  BY Zenon, <1>2, <1>3, <1>4, <1>5, StopKept

\* A job's steps: its second look finds the conditions, a scan obeys a stop set
\* before it starts, and the relabel that does not is remembered.
LEMMA JobStops ==
    ASSUME TypeOK, StopInv, NEW x \in Jobs, JobStep(x), UNCHANGED poolVars
    PROVE  StopInv'
<1>1. UNCHANGED <<met, counter, doing, task>>
  BY Zenon DEF JobStep, JobRecheck, JobRefused, RelabelBegins, ScanBegins, JobFinish, JobRelease, poolVars
<1>2. \A y \in Jobs : (Wanted(y)' <=> Wanted(y)) /\ (Informing(y)' <=> Informing(y))
  BY Zenon, <1>1 DEF Wanted, Informing
<1>3. \A y \in Jobs : y # x => job'[y] = job[y] /\ (y \in stop' <=> y \in stop)
  BY DEF JobStep, JobRecheck, JobRefused, RelabelBegins, ScanBegins, JobFinish, JobRelease, Becomes,
     TypeOK, IdleTypeOK
<1>4. x # Relabel => lost' = lost
  BY Zenon DEF JobStep, JobRecheck, JobRefused, ScanBegins, JobFinish, JobRelease
<1>5. SUFFICES /\ job'[x] = "checked" => x \in stop' \/ Wanted(x) \/ Informing(x)
               /\ job'[x] = "working" =>
                    x \in stop' \/ Wanted(x) \/ Informing(x) \/ (x = Relabel /\ lost')
  <2>1. StopAt(x)'
    BY Zenon, <1>2, <1>5 DEF StopAt
  <2>2. ASSUME NEW y \in Jobs, y # x PROVE StopAt(y)'
    <3>1. y = Relabel => lost' = lost
      BY Zenon, <1>4, <2>2
    <3>2. StopAt(y)
      BY Zenon DEF StopInv
    <3>3. job'[y] = job[y] /\ (y \in stop' <=> y \in stop)
      BY Zenon, <1>3, <2>2
    <3>4. (Wanted(y)' <=> Wanted(y)) /\ (Informing(y)' <=> Informing(y))
      BY Zenon, <1>2
    <3> QED
      BY Zenon, <3>1, <3>2, <3>3, <3>4 DEF StopAt
  <2> QED
    BY Zenon, <2>1, <2>2 DEF StopInv
<1>6. \A pc : job' = [job EXCEPT ![x] = pc] => job'[x] = pc
  BY DEF TypeOK, IdleTypeOK
<1>7. CASE JobRecheck(x)
  <2>1. CheckConditions(x) => Wanted(x)
    BY DEF CheckConditions, Wanted
  <2>2. CheckConditions(x) \/ job'[x] = "ending"
    BY Zenon, <1>6, <1>7 DEF JobRecheck, Becomes
  <2>3. job'[x] # "working"
    BY <1>6, <1>7 DEF JobRecheck, Becomes
  <2> QED
    BY <2>1, <2>2, <2>3
<1>8. CASE JobRefused(x) \/ JobFinish(x) \/ JobRelease(x)
  <2>1. job'[x] \in {"ending", "none"}
    BY <1>6, <1>8 DEF JobRefused, JobFinish, JobRelease, Becomes
  <2> QED
    BY <2>1
<1>9. CASE x = Relabel /\ RelabelBegins
  <2>1. job[x] = "checked" /\ job'[x] = "working" /\ (lost' <=> x \in stop /\ ~Wanted(x))
    BY Zenon, <1>6, <1>9 DEF RelabelBegins, Becomes
  <2>2. x \in stop \/ Wanted(x) \/ Informing(x)
    BY Zenon, <2>1 DEF StopInv, StopAt
  <2>3. job'[x] # "checked"
    BY Zenon, <2>1
  <2> QED
    BY Zenon, <1>9, <2>1, <2>2, <2>3
<1>10. CASE ScanBegins(x)
  <2>1. job[x] = "checked" /\ job'[x] = IF x \in stop THEN "ending" ELSE "working"
    BY Zenon, <1>6, <1>10 DEF ScanBegins, Becomes
  <2>2. x \in stop \/ Wanted(x) \/ Informing(x)
    BY Zenon, <2>1 DEF StopInv, StopAt
  <2> QED
    BY <2>1, <2>2
<1> QED
  BY Zenon, <1>7, <1>8, <1>9, <1>10 DEF JobStep

\* The install tasks: what makes the relabel unwanted is on its way to it.
LEMMA TaskStops ==
    ASSUME TypeOK, CounterInv, StopInv, NEW t \in Tasks, CreateTask(t) \/ Operation(t)
    PROVE  StopInv'
<1> DEFINE Telling == {"counted", "telling"}
<1>1. /\ UNCHANGED <<met, doing, job, lost>> /\ stop' \in {stop, stop \cup {Relabel}}
  BY Zenon, TaskShapes
<1>2. \A s \in Tasks : s # t => task'[s] = task[s]
  BY DEF CreateTask, Operation, AddTask, AddTaskLook, AddTaskTell, AddTaskPush, RunTask, DropTask, EndTask,
     Goes, TypeOK
<1>3. counter' = 0 \/ counter # 0 \/ task'[t] = "counted"
  <2>1. task[t] \in Counted => counter > 0
    BY Zenon, Counting DEF CounterInv, CountedTasks
  <2>2. \/ counter' = counter
        \/ Moves(t, "counted", counter + 1)
        \/ task[t] \in Counted
    BY Zenon, TaskShapes DEF Moves
  <2>3. Moves(t, "counted", counter + 1) => task'[t] = "counted"
    BY DEF Moves, TypeOK
  <2> QED
    BY <2>1, <2>2, <2>3
<1>4. \A x \in Jobs : Wanted(x) => Wanted(x)' \/ Informing(x)'
  <2> SUFFICES ASSUME NEW x \in Jobs, Wanted(x), ~Wanted(x)' PROVE Informing(x)'
    OBVIOUS
  <2>1. x = Relabel /\ counter = 0 /\ counter' # 0
    BY Zenon, <1>1 DEF Wanted
  <2>2. task'[t] = "counted"
    BY Zenon, <1>3, <2>1
  <2>3. task'[t] \in {"counted", "telling"}
    BY <2>2
  <2> QED
    BY Zenon, <2>1, <2>3 DEF Informing
<1>5. \A x \in Jobs : Informing(x) => Informing(x)' \/ x \in stop' \/ job'[x] \notin Looked
  <2>1. task[t] \in Telling =>
          task'[t] \in Telling \/ Relabel \in stop' \/ job'[Relabel] \notin Looked
    <3>1. CASE AddTaskLook(t)
      <4>1. ~Running(Relabel) \/ task'[t] = "telling"
        BY <3>1 DEF AddTaskLook, Goes, TypeOK
      <4> QED
        BY <1>1, <4>1 DEF Running, Looked
    <3>2. CASE AddTaskTell(t)
      BY <3>2 DEF AddTaskTell
    <3>3. CASE ~AddTaskLook(t) /\ ~AddTaskTell(t)
      BY <3>3 DEF CreateTask, Operation, AddTask, AddTaskPush, RunTask, DropTask, EndTask, Goes
    <3> QED
      BY Zenon, <3>1, <3>2, <3>3
  <2> HIDE DEF Telling
  <2>2. \A x \in Jobs : Informing(x) <=> \/ \E h \in Threads : doing[h].what \in Interrupting /\ doing[h].at <= x
                                         \/ x = Relabel /\ \E s \in Tasks : task[s] \in Telling
    BY Zenon DEF Informing, Telling
  <2>3. \A x \in Jobs : Informing(x)' <=> \/ \E h \in Threads : doing[h].what \in Interrupting /\ doing[h].at <= x
                                          \/ x = Relabel /\ \E s \in Tasks : task'[s] \in Telling
    BY Zenon, <1>1 DEF Informing, Telling
  <2> QED
    BY Zenon, <1>2, <2>1, <2>2, <2>3
<1>6. stop \subseteq stop' /\ lost' = lost /\ \A x \in Jobs : job'[x] \in Looked => job'[x] = job[x]
  BY <1>1
<1> QED
  BY Zenon, <1>4, <1>5, <1>6, StopKept

----------------------------------------------------------------------------
\* The invariant.

PoolInv == TypeOK /\ CounterInv /\ OneAtATime /\ PowerInv /\ StopInv

\* The state the service starts in.
LEMMA PoolInit == Init => PoolInv
<1> SUFFICES ASSUME Init PROVE PoolInv
  OBVIOUS
<1>1. TypeOK
  BY Zenon, PlaceTypes DEF Init, IdleInit, TypeOK, IdleTypeOK
<1>2. CounterInv
  <2>1. CountedTasks = {}
    BY DEF Init, CountedTasks, Counted, Adding
  <2> QED
    BY <2>1, FS_EmptySet DEF CounterInv, Init, IdleInit
<1>3. OneAtATime
  BY DEF Init, IdleInit, OneAtATime, Running
<1>4. PowerInv
  BY PlaceTypes DEF Init, IdleInit, PowerInv, PowerFollowsPlug, Threads, SomeCharger, Interrupting
<1>5. StopInv
  BY DEF Init, IdleInit, StopInv, StopAt
<1> QED
  BY Zenon, <1>1, <1>2, <1>3, <1>4, <1>5 DEF PoolInv

\* Every step keeps the invariant.
LEMMA PoolStep == PoolInv /\ [Next]_vars => PoolInv'
<1> SUFFICES ASSUME PoolInv, [Next]_vars PROVE PoolInv'
  OBVIOUS
<1>1. TypeOK /\ CounterInv /\ OneAtATime /\ PowerInv /\ StopInv
  BY Zenon DEF PoolInv
<1>2. CASE UNCHANGED <<counter, task>> /\ TypeOK' /\ OneAtATime' /\ PowerInv' /\ StopInv'
  <2>1. CounterInv'
    BY Zenon, <1>1, <1>2 DEF CounterInv, CountedTasks
  <2> QED
    BY Zenon, <1>2, <2>1 DEF PoolInv
<1>3. CASE UNCHANGED <<met, charging, doing, job, plugged, late>> /\ TypeOK' /\ CounterInv' /\ StopInv'
  <2>1. OneAtATime'
    BY Zenon, <1>1, <1>3 DEF OneAtATime, Running
  <2>2. PowerInv'
    BY Zenon, <1>1, <1>3 DEF PowerInv, PowerFollowsPlug, SomeCharger, Unplugging
  <2> QED
    BY Zenon, <1>3, <2>1, <2>2 DEF PoolInv
<1>4. ASSUME NEW h \in Handlers \cap part, HandlerStep(h, Chargers \cap part), UNCHANGED poolVars
      PROVE  PoolInv'
  <2>1. h \in Handlers /\ Chargers \cap part \in SUBSET Chargers
    BY <1>4
  <2>2. TypeOK'
    <3>1. CASE \E g \in Threads : \E v : Event(g, v)
      BY Zenon, <1>1, <1>4, <3>1, EventTypes
    <3>2. CASE UNCHANGED doing /\ plugged' = TRUE /\ UNCHANGED <<met, charging, counter, job, stop, lost, late>>
      BY Zenon, <1>1, <1>4, <3>2 DEF TypeOK, IdleTypeOK, poolVars
    <3> QED
      BY Zenon, <1>1, <1>4, <2>1, <3>1, <3>2, EventShapes
  <2>3. UNCHANGED <<counter, task, job>>
    BY Zenon, <1>4 DEF HandlerStep, OnMet, OnUnmet, OnLevel, OnPowerConnected, OnPowerDisconnected, Unplug,
     poolVars
  <2>4. OneAtATime'
    BY Zenon, <1>1, <2>3 DEF OneAtATime, Running
  <2> QED
    BY Zenon, <1>1, <1>2, <1>4, <2>1, <2>2, <2>3, <2>4, HandlerPower, HandlerStops
<1>5. ASSUME NEW p \in Chargers, ChargerStep(p), UNCHANGED poolVars
      PROVE  PoolInv'
  <2>1. TypeOK'
    BY Zenon, <1>1, <1>5, ChargerShapes, EventTypes DEF Threads
  <2>2. UNCHANGED <<counter, task, job>>
    BY Zenon, <1>5 DEF ChargerStep, ChargerLook, ChargerDue, poolVars
  <2>3. OneAtATime'
    BY Zenon, <1>1, <2>2 DEF OneAtATime, Running
  <2> QED
    BY Zenon, <1>1, <1>2, <1>5, <2>1, <2>2, <2>3, ChargerPower, ChargerStops
<1>6. ASSUME NEW h \in Threads, VisitStep(h), UNCHANGED poolVars
      PROVE  PoolInv'
  <2>1. UNCHANGED <<counter, task>>
    BY Zenon, <1>6 DEF VisitStep, TryCheck, TrySet, InterruptLook, InterruptStop, poolVars
  <2> QED
    BY Zenon, <1>1, <1>2, <1>6, <2>1, VisitTypes, VisitOneAtATime, VisitPower, VisitStops
<1>7. ASSUME NEW x \in Jobs, JobStep(x), UNCHANGED poolVars
      PROVE  PoolInv'
  <2>1. UNCHANGED <<counter, task, met, charging, doing, plugged, late>>
    BY Zenon, <1>7 DEF JobStep, JobRecheck, JobRefused, RelabelBegins, ScanBegins, JobFinish, JobRelease,
       poolVars
  <2>2. PowerInv'
    BY Zenon, <1>1, <2>1 DEF PowerInv, PowerFollowsPlug, SomeCharger, Unplugging
  <2> QED
    BY Zenon, <1>1, <1>2, <1>7, <2>1, <2>2, JobTypes, JobOneAtATime, JobStops
<1>8. ASSUME NEW t \in Tasks, CreateTask(t) \/ Operation(t)
      PROVE  PoolInv'
  <2>1. UNCHANGED <<met, charging, doing, job, plugged, late>>
    BY Zenon, <1>1, <1>8, TaskShapes
  <2> QED
    BY Zenon, <1>1, <1>3, <1>8, <2>1, TaskTypes, TaskStops
<1>9. CASE UNCHANGED <<idleVars, task>> /\ pool' \in BOOLEAN /\ switching' \in BOOLEAN
  <2>1. UNCHANGED <<met, charging, counter, doing, job, stop, plugged, lost, late, task>>
    BY Zenon, <1>9 DEF idleVars
  <2>2. TypeOK' /\ CounterInv'
    BY Zenon, <1>1, <1>9, <2>1 DEF TypeOK, IdleTypeOK, CounterInv, CountedTasks
  <2>3. StopInv'
    BY Zenon, <1>1, <2>1 DEF StopInv, StopAt, Wanted, Informing
  <2> QED
    BY Zenon, <1>3, <2>1, <2>2, <2>3
<1>10. CASE DelayStopThreadPool \/ SwitchBegin \/ SwitchEnd
  BY Zenon, <1>1, <1>9, <1>10 DEF DelayStopThreadPool, SwitchBegin, SwitchEnd, TypeOK
<1>11. CASE UNCHANGED vars
  BY Zenon, <1>1, <1>9, <1>11 DEF vars, poolVars, TypeOK
<1> QED
  BY <1>4, <1>5, <1>6, <1>7, <1>8, <1>10, <1>11 DEF Next

\* The invariant holds throughout.
THEOREM PoolInvariance == Spec => []PoolInv
  BY PoolInit, PoolStep, PTL DEF Spec

\* At most one idle job is active: the handlers of any number of events and the
\* three jobs' threads, in any interleaving.
THEOREM IdleJobsExclude == Spec => []OneAtATime
<1>1. PoolInv => OneAtATime
  BY Zenon DEF PoolInv
<1> QED
  BY PoolInvariance, <1>1, PTL

\* The stored power condition follows the plug and no plug is lost, however many
\* chargers earlier plugs have left over, but for one that was past its last look
\* at the last unplug.
THEOREM PowerConditionFollows == Spec => []PowerFollowsPlug
<1>1. PoolInv => PowerFollowsPlug
  BY Zenon DEF PoolInv, PowerInv
<1> QED
  BY PoolInvariance, <1>1, PTL

\* A working job whose conditions are gone is stopped, or someone is on the way
\* to stop it, or it is a relabel that cleared its stop: for any number of event
\* threads and installations.
THEOREM IdleStopsReach == Spec => []StopReaches
<1>1. PoolInv => StopReaches
  BY Zenon DEF PoolInv, StopInv, StopAt, StopReaches
<1> QED
  BY PoolInvariance, <1>1, PTL
=============================================================================
