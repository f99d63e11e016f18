--------------------------- MODULE DualModeProofs ---------------------------
(***************************************************************************)
(* Proofs about DualMode, for every set of names, policies, policy sets    *)
(* and threads.  In the first part, for every fault and every moment at    *)
(* which the mode changes: a clone always has a different-package policy,  *)
(* and a switch that cannot be saved is undone.  The first of these rests  *)
(* on a property of single entries, kept by each pass over the lists and   *)
(* carried by each installation under way.                                 *)
(*                                                                         *)
(* The second part is how the two lists, the table and the install states  *)
(* agree about the variants of each name.  The lists always are the rows,  *)
(* in one order or the other; what an installation needs to keep them so   *)
(* is carried from its parsing to its end.  As long as the mode does not   *)
(* change inside an installation and no package of another category is     *)
(* brought over a hidden or a user-installed application (Orderly), and no *)
(* other-mode installation fails late ("cross"), the records agree.        *)
(*                                                                         *)
(* The third part: on the same conditions no failing installation removes  *)
(* the data directories of an application that users see.  A rollback      *)
(* removes them by the name it derived, which is a visible variant's only  *)
(* if a scan installs the other mode's package over a visible entry of     *)
(* that other mode.  A boot leaves no such entry, and what is between its  *)
(* placement and the passes of its scan makes none.                        *)
(*                                                                         *)
(* DualModePlaceProofs goes on from there.                                 *)
(***************************************************************************)
EXTENDS DualMode, TLAPS

Good(e) == e.clone => IsDiffPackageCategory(e.policy)

GoodEntries == {e \in Entries \union {Absent} : Good(e)}
GoodPairs == [vis : GoodEntries, tmp : GoodEntries]
Rows == Policies \union {NoPolicy}
Rests == {"none", "SECONDARY", "CROSS", "NORMAL"}
Passes ==
    [pc : {"idle", "parsed", "named", "started"}, name : Names \union {"none"},
     policy : Policies \union {0}, role : {"NONE", "PRIMARY", "SECONDARY"},
     who : {"user", "first", "ota"}, resolved : BOOLEAN, clone : BOOLEAN,
     key : BOOLEAN, exist : BOOLEAN, rest : Rests]
GoodPasses ==
    {r \in Passes : Good(r) /\ (r.rest = "SECONDARY" => IsDiffPackageCategory(r.policy))}

TasksGood ==
    /\ task \in [Tasks -> GoodPasses]
    /\ \A t \in Tasks : task[t].pc # "idle" => task[t].name \in Names /\ task[t].policy \in Policies

ListsGood == lists \in [Names -> GoodPairs]

RowsGood ==
    /\ row \in [Keys -> Rows]
    /\ \A n \in Names : row[<<n, TRUE>>] # NoPolicy => IsDiffPackageCategory(row[<<n, TRUE>>])

OtherTypes ==
    /\ data \subseteq Keys
    /\ state \in [Keys -> InstallState \union {"absent"}]
    /\ secondary \in BOOLEAN
    /\ persisted \in PolicySets \union {{}}
    /\ known \in [Keys -> {"none", "present", "uninstalled"}]
    /\ boot \in {"first", "later", "up"}
    /\ scanned \subseteq Names
    /\ env \in [pending : BOOLEAN, contract : BOOLEAN, adrift : BOOLEAN,
                torn : BOOLEAN, mixed : BOOLEAN, fresh : SUBSET Names]

\* The inductive invariant: in the lists, in the table and in the installations
\* under way, clones have different-package policies.
CloneInv == ListsGood /\ RowsGood /\ TasksGood /\ OtherTypes

----------------------------------------------------------------------------
\* Entries and pairs.

\* The fields of an entry and of a pair put together.
LEMMA Fields ==
    ASSUME NEW p, NEW c, NEW v, NEW w
    PROVE  /\ Entry(p, c).policy = p /\ Entry(p, c).clone = c
           /\ Pair(v, w).vis = v /\ Pair(v, w).tmp = w
           /\ Absent.policy = NoPolicy /\ Absent.clone = FALSE
  BY DEF Entry, Pair, Absent

\* The two entries of a pair.
LEMMA PairHas ==
    ASSUME NEW v, NEW w
    PROVE  Pair(v, w).vis = v /\ Pair(v, w).tmp = w
  BY DEF Pair

\* An entry of a policy is there.
LEMMA EntryPresent ==
    ASSUME NEW p \in Policies, NEW c
    PROVE  Entry(p, c) # Absent
  BY DualModeAssumption DEF Entry, Absent, NoPolicy

\* The absent entry is a good one.
LEMMA AbsentGood == Absent \in GoodEntries
  BY Zenon, Fields DEF GoodEntries, Good

\* The fields of a good entry.
LEMMA GoodFields ==
    ASSUME NEW e \in GoodEntries
    PROVE  /\ e.policy \in Policies \union {NoPolicy} /\ e.clone \in BOOLEAN
           /\ e.clone => IsDiffPackageCategory(e.policy)
           /\ e # Absent => e \in Entries /\ e.policy \in Policies
           /\ e.clone => e # Absent
<1>1. CASE e = Absent
  BY Zenon, <1>1, Fields
<1>2. CASE e \in Entries
  <2>1. e.policy \in Policies /\ e.clone \in BOOLEAN
    BY <1>2 DEF Entries
  <2>2. e.clone => IsDiffPackageCategory(e.policy)
    BY DEF GoodEntries, Good
  <2>3. e.clone => e # Absent
    BY Zenon, Fields
  <2> QED
    BY <1>2, <2>1, <2>2, <2>3
<1> QED
  BY <1>1, <1>2 DEF GoodEntries

\* A pair of good entries is a good pair.
LEMMA PairGood ==
    ASSUME NEW v \in GoodEntries, NEW w \in GoodEntries
    PROVE  Pair(v, w) \in GoodPairs
  BY DEF Pair, GoodPairs

\* The entries of a good pair.
LEMMA PairFields ==
    ASSUME NEW x \in GoodPairs
    PROVE  x.vis \in GoodEntries /\ x.tmp \in GoodEntries /\ x = Pair(x.vis, x.tmp)
  BY DEF Pair, GoodPairs

\* The migration of a switch keeps pairs good.
LEMMA MigrateGood ==
    ASSUME NEW x \in GoodPairs, NEW set
    PROVE  Migrate(x, set) \in GoodPairs
  BY PairFields, PairGood, AbsentGood DEF Migrate

----------------------------------------------------------------------------
\* Passes of an installer.

\* An idle thread.
LEMMA IdleGood == Idle \in GoodPasses /\ Idle.pc = "idle"
  BY DEF Idle, Pass, GoodPasses, Passes, Good, Rests

\* The fields of a pass.
LEMMA PassFields ==
    ASSUME NEW r \in GoodPasses
    PROVE  /\ r \in Passes /\ r.clone \in BOOLEAN /\ r.key \in BOOLEAN /\ r.exist \in BOOLEAN
           /\ r.who \in {"user", "first", "ota"} /\ r.rest \in Rests
           /\ r.clone \/ r.rest = "SECONDARY" => IsDiffPackageCategory(r.policy)
  BY DEF GoodPasses, Passes, Good, Rests

----------------------------------------------------------------------------
\* What the invariant says.

\* It implies both properties.
LEMMA CloneInvImplies == CloneInv => TypeOK /\ ClonesAreDiff
<1> SUFFICES ASSUME CloneInv PROVE TypeOK /\ ClonesAreDiff
  OBVIOUS
<1> USE DEF CloneInv
<1>1. lists \in [Names -> [vis : Entries \union {Absent}, tmp : Entries \union {Absent}]]
  BY DEF ListsGood, GoodPairs, GoodEntries
<1>2. task \in [Tasks -> Passes]
  BY DEF TasksGood, GoodPasses
<1>3. TypeOK
  BY <1>1, <1>2 DEF TypeOK, OtherTypes, RowsGood, Rows, Passes, Rests
<1>4. ASSUME NEW n \in Names, NEW e \in {lists[n].vis, lists[n].tmp}, e.clone
      PROVE  IsDiffPackageCategory(e.policy)
  <2>1. lists[n] \in GoodPairs
    BY DEF ListsGood
  <2>2. e \in GoodEntries
    BY <2>1, PairFields
  <2> QED
    BY <1>4, <2>2, GoodFields
<1>5. ClonesAreDiff
  BY Zenon, <1>4 DEF ClonesAreDiff, RowsGood
<1> QED
  BY <1>3, <1>5

\* The empty device.
LEMMA InitCloneInv == Init => CloneInv
<1> SUFFICES ASSUME Init PROVE CloneInv
  OBVIOUS
<1> USE DEF Init
<1>1. ListsGood
  BY AbsentGood, PairGood DEF ListsGood
<1>2. RowsGood
  BY Zenon DEF RowsGood, Rows, Keys
<1>3. TasksGood
  BY IdleGood DEF TasksGood
<1>4. OtherTypes
  BY DEF OtherTypes
<1> QED
  BY <1>1, <1>2, <1>3, <1>4 DEF CloneInv

\* What a started or named installation is about.
LEMMA TaskFacts ==
    ASSUME CloneInv, NEW t \in Tasks, task[t].pc # "idle"
    PROVE  /\ task[t] \in GoodPasses /\ task[t].name \in Names /\ task[t].policy \in Policies
           /\ task[t].clone \in BOOLEAN /\ task[t].key \in BOOLEAN
           /\ (task[t].key \/ task[t].clone) \in BOOLEAN
           /\ task[t].clone => IsDiffPackageCategory(task[t].policy)
           /\ lists[task[t].name] \in GoodPairs
           /\ lists[task[t].name].vis \in GoodEntries /\ lists[task[t].name].tmp \in GoodEntries
           /\ state[<<task[t].name, task[t].key>>] \in InstallState \union {"absent"}
<1>1. task[t] \in GoodPasses /\ task[t].name \in Names /\ task[t].policy \in Policies
  BY DEF CloneInv, TasksGood
<1>2. lists[task[t].name] \in GoodPairs
  BY <1>1 DEF CloneInv, ListsGood
<1>3. task[t].clone \in BOOLEAN /\ task[t].key \in BOOLEAN
  BY <1>1, PassFields
<1>4. <<task[t].name, task[t].key>> \in Keys
  BY <1>1, <1>3 DEF Keys
<1> QED
  BY <1>1, <1>2, <1>3, <1>4, PassFields, PairFields DEF CloneInv, OtherTypes

----------------------------------------------------------------------------
\* Preservation.

\* Every step keeps the invariant.  First what the operators and the updates of
\* single fields keep, then one step per action.
LEMMA NextPreserves ==
    ASSUME CloneInv, [Next]_vars
    PROVE  CloneInv'

\* An entry whose clone flag its policy allows is a good one.
<1>EntryGood.
    ASSUME NEW p \in Policies, NEW c \in BOOLEAN, c => IsDiffPackageCategory(p)
    PROVE  Entry(p, c) \in GoodEntries
    BY <1>EntryGood DEF GoodEntries, Good, Entries, Entry

\* The placement by the device mode keeps pairs good.
<1>ClassifyByDeviceModeGood.
    ASSUME NEW x \in GoodPairs, NEW sec
    PROVE  ClassifyByDeviceMode(x, sec) \in GoodPairs
    BY PairFields, PairGood, AbsentGood DEF ClassifyByDeviceMode

\* So does the placement by the persisted policy set.
<1>ClassifyByPolicyGood.
    ASSUME NEW x \in GoodPairs, NEW set
    PROVE  ClassifyByPolicy(x, set) \in GoodPairs
    BY PairFields, PairGood, AbsentGood DEF ClassifyByPolicy

\* So does the second step of the boot in the secondary mode.
<1>RestoreSecondaryGood.
    ASSUME NEW x \in GoodPairs
    PROVE  RestoreSecondary(x) \in GoodPairs
  <2> DEFINE y == IF IsDiffPackageCategory(x.tmp.policy) THEN Pair(x.tmp, x.vis) ELSE x
  <2>1. y \in GoodPairs
    BY PairFields, PairGood
  <2>2. RestoreSecondary(x) =
          IF IsDiffPackageCategory(y.vis.policy) /\ ~y.vis.clone THEN Pair(Absent, y.vis) ELSE y
    BY DEF RestoreSecondary
  <2> HIDE DEF y
  <2> QED
    BY <2>1, <2>2, PairFields, PairGood, AbsentGood

\* The boot makes good pairs of any rows.
<1>BootGood.
    ASSUME NEW p0 \in Rows, NEW p1 \in Rows, NEW set, NEW sec
    PROVE  Boot(p0, p1, set, sec) \in GoodPairs
  <2> DEFINE x0 == Pair(Entry(p0, FALSE), Absent)
             x1 == IF set # {} THEN ClassifyByPolicy(x0, set) ELSE x0
             x2 == IF IsDiffPackageCategory(p1) THEN Pair(x1.vis, Entry(p1, TRUE)) ELSE x1
             x3 == IF sec THEN RestoreSecondary(x2) ELSE x2
  <2>1. Boot(p0, p1, set, sec) = IF set = {} THEN ClassifyByDeviceMode(x3, sec) ELSE x3
    BY DEF Boot
  <2>2. x0 \in GoodPairs
    <3>1. CASE p0 = NoPolicy
      BY Zenon, <3>1, AbsentGood, PairGood DEF Absent
    <3>2. CASE p0 \in Policies
      BY Zenon, <3>2, <1>EntryGood, AbsentGood, PairGood
    <3> QED
      BY Zenon, <3>1, <3>2 DEF Rows
  <2> HIDE DEF x0
  <2>3. x1 \in GoodPairs
    BY <2>2, <1>ClassifyByPolicyGood
  <2> HIDE DEF x1
  <2>4. x2 \in GoodPairs
    <3>1. CASE IsDiffPackageCategory(p1)
      <4>1. p1 \in Policies
        BY <3>1 DEF Rows, IsDiffPackageCategory, NoPolicy
      <4> QED
        BY Zenon, <3>1, <4>1, <2>3, <1>EntryGood, PairFields, PairGood
    <3>2. CASE ~IsDiffPackageCategory(p1)
      BY <3>2, <2>3
    <3> QED
      BY Zenon, <3>1, <3>2
  <2> HIDE DEF x2
  <2>5. x3 \in GoodPairs
    BY <2>4, <1>RestoreSecondaryGood
  <2> HIDE DEF x3
  <2> QED
    BY Zenon, <2>1, <2>5, <1>ClassifyByDeviceModeGood

\* A step of the state machine stays in its type.
<1>StateAfterType.
    ASSUME NEW s \in InstallState \cup {"absent"}, NEW t \in InstallState
    PROVE  StateAfter(s, t) \in InstallState \cup {"absent"}
    BY DEF StateAfter

\* A pass for the package of the other mode is a good one.
<1>CrossPassGood.
    ASSUME NEW n \in Names, NEW p \in Policies, NEW rest \in Rests \ {"SECONDARY"}
    PROVE  /\ CrossPass(n, p, rest) \in GoodPasses
           /\ CrossPass(n, p, rest).name = n /\ CrossPass(n, p, rest).policy = p
  <2>1. CASE IsDiffPackageCategory(p) /\ secondary
    <3>1. CrossPass(n, p, rest) = Pass("parsed", n, p, "PRIMARY", "ota", TRUE, FALSE, rest)
      BY Zenon, <2>1 DEF CrossPass
    <3> QED
      BY <3>1 DEF Pass, GoodPasses, Passes, Good, Rests
  <2>2. CASE IsDiffPackageCategory(p) /\ ~secondary
    <3>1. CrossPass(n, p, rest) = Pass("parsed", n, p, "SECONDARY", "ota", TRUE, TRUE, rest)
      BY Zenon, <2>2 DEF CrossPass
    <3> QED
      BY <2>2, <3>1 DEF Pass, GoodPasses, Passes, Good, Rests
  <2>3. CASE ~IsDiffPackageCategory(p)
    <3>1. CrossPass(n, p, rest) = Pass("parsed", n, p, "NONE", "ota", TRUE, FALSE, rest)
      BY Zenon, <2>3 DEF CrossPass
    <3> QED
      BY <3>1 DEF Pass, GoodPasses, Passes, Good, Rests
  <2> QED
    BY <2>1, <2>2, <2>3

\* So is one for the package of the current mode.
<1>NormalPassGood.
    ASSUME NEW n \in Names, NEW p \in Policies, NEW rest \in Rests \ {"SECONDARY"}
    PROVE  /\ NormalPass(n, p, rest) \in GoodPasses
           /\ NormalPass(n, p, rest).name = n /\ NormalPass(n, p, rest).policy = p
  <2>1. CASE secondary /\ IsDiffPackageCategory(p)
    <3>1. NormalPass(n, p, rest) = Pass("parsed", n, p, "NONE", "ota", FALSE, TRUE, rest)
      BY Zenon, <2>1 DEF NormalPass
    <3> QED
      BY <2>1, <3>1 DEF Pass, GoodPasses, Passes, Good, Rests
  <2>2. CASE ~(secondary /\ IsDiffPackageCategory(p))
    <3>1. NormalPass(n, p, rest) = Pass("parsed", n, p, "NONE", "ota", FALSE, FALSE, rest)
      BY Zenon, <2>2 DEF NormalPass
    <3> QED
      BY <3>1 DEF Pass, GoodPasses, Passes, Good, Rests
  <2> QED
    BY <2>1, <2>2

\* Giving one thread a good pass keeps all of them good.
<1>SetTask.
    ASSUME TasksGood, NEW t \in Tasks, NEW r \in GoodPasses,
           r.pc # "idle" => r.name \in Names /\ r.policy \in Policies,
           task' = [task EXCEPT ![t] = r]
    PROVE  TasksGood'
    BY <1>SetTask DEF TasksGood

\* The pass after this one is good.
<1>NextPassGood.
    ASSUME TasksGood, NEW t \in Tasks, task[t].pc # "idle", NextPass(t)
    PROVE  TasksGood'
  <2> USE <1>NextPassGood
  <2> DEFINE r == task[t]
  <2>1. r \in GoodPasses /\ r.name \in Names /\ r.policy \in Policies
    BY DEF TasksGood
  <2>2. CASE r.rest = "SECONDARY"
    <3> DEFINE q == Pass("parsed", r.name, r.policy, "SECONDARY", r.who, TRUE, TRUE, "none")
    <3>1. task' = [task EXCEPT ![t] = q]
      BY Zenon, <2>2 DEF NextPass
    <3>2. q \in GoodPasses /\ q.name \in Names /\ q.policy \in Policies
      BY <2>1, <2>2 DEF Pass, GoodPasses, Passes, Good, Rests
    <3> HIDE DEF q
    <3> QED
      BY Zenon, <3>1, <3>2, <1>SetTask
  <2>3. CASE r.rest = "CROSS"
    <3>1. task' = [task EXCEPT ![t] = CrossPass(r.name, r.policy, "none")]
      BY <2>3 DEF NextPass
    <3>2. /\ CrossPass(r.name, r.policy, "none") \in GoodPasses
          /\ CrossPass(r.name, r.policy, "none").name \in Names
          /\ CrossPass(r.name, r.policy, "none").policy \in Policies
      BY <2>1, <1>CrossPassGood DEF Rests
    <3> QED
      BY Zenon, <3>1, <3>2, <1>SetTask
  <2>4. CASE r.rest = "NORMAL"
    <3>1. task' = [task EXCEPT ![t] = NormalPass(r.name, r.policy, "none")]
      BY <2>4 DEF NextPass
    <3>2. /\ NormalPass(r.name, r.policy, "none") \in GoodPasses
          /\ NormalPass(r.name, r.policy, "none").name \in Names
          /\ NormalPass(r.name, r.policy, "none").policy \in Policies
      BY <2>1, <1>NormalPassGood DEF Rests
    <3> QED
      BY Zenon, <3>1, <3>2, <1>SetTask
  <2>5. CASE r.rest = "none"
    <3>1. task' = [task EXCEPT ![t] = Idle]
      BY <2>5 DEF NextPass
    <3> QED
      BY Zenon, <3>1, IdleGood, <1>SetTask
  <2> QED
    BY <2>1, <2>2, <2>3, <2>4, <2>5, PassFields DEF Rests

\* Steps on one name of the lists.
<1>SetLists.
    ASSUME ListsGood, NEW n \in Names, NEW x \in GoodPairs, lists' = [lists EXCEPT ![n] = x]
    PROVE  ListsGood'
    BY <1>SetLists DEF ListsGood

\* Steps on one row.
<1>SetRow.
    ASSUME RowsGood, NEW n \in Names, NEW c \in BOOLEAN, NEW p \in Rows,
           c /\ p # NoPolicy => IsDiffPackageCategory(p),
           row' = [row EXCEPT ![<<n, c>>] = p]
    PROVE  RowsGood'
    BY Zenon, <1>SetRow DEF RowsGood, Keys

\* Steps on one state.
<1>SetState.
    ASSUME OtherTypes, NEW n \in Names, NEW c \in BOOLEAN,
           NEW s \in InstallState \union {"absent"}, state' = [state EXCEPT ![<<n, c>>] = s]
    PROVE  state' \in [Keys -> InstallState \union {"absent"}]
    BY Zenon, <1>SetState DEF OtherTypes, Keys

\* Begin: a user's package is a clone only in the secondary mode and with a
\* different-package policy.
<1>BeginPreserves.
    ASSUME CloneInv, NEW t \in Tasks, NEW n \in Names, NEW p \in Policies, Begin(t, n, p)
    PROVE  CloneInv'
  <2> USE <1>BeginPreserves
  <2>1. PICK c \in BOOLEAN : c = (secondary /\ IsDiffPackageCategory(p))
    BY Zenon DEF IsDiffPackageCategory, CloneInv, OtherTypes
  <2> DEFINE q == Pass("parsed", n, p, "NONE", "user", FALSE, c, "none")
  <2>2. q \in GoodPasses /\ q.name \in Names /\ q.policy \in Policies
    BY Zenon, <2>1 DEF Pass, GoodPasses, Passes, Good, Rests
  <2>3. task' = [task EXCEPT ![t] = q]
    BY <2>1 DEF Begin
  <2> HIDE DEF q
  <2>4. TasksGood'
    BY Zenon, <2>2, <2>3, <1>SetTask DEF CloneInv
  <2> QED
    BY Zenon, <2>4 DEF CloneInv, Begin, InstallNoted, ListsGood, RowsGood, OtherTypes

\* FirstBoot: the secondary side, a clone, is installed for different-package
\* policies only.
<1>FirstBootPreserves.
    ASSUME CloneInv, NEW t \in Tasks, NEW n \in Names, NEW p \in Policies, FirstBoot(t, n, p)
    PROVE  CloneInv'
  <2> USE <1>FirstBootPreserves
  <2> DEFINE q1 == Pass("parsed", n, p, "PRIMARY", "first", TRUE, FALSE, "SECONDARY")
             q2 == Pass("parsed", n, p, "NONE", "first", TRUE, FALSE, "none")
             q == IF IsDiffPackageCategory(p) THEN q1 ELSE q2
  <2>1. IsDiffPackageCategory(p) => q1 \in GoodPasses /\ q1.name \in Names /\ q1.policy \in Policies
    BY Zenon DEF Pass, GoodPasses, Passes, Good, Rests
  <2>2. q2 \in GoodPasses /\ q2.name \in Names /\ q2.policy \in Policies
    BY DEF Pass, GoodPasses, Passes, Good, Rests
  <2>3. task' = [task EXCEPT ![t] = q]
    BY DEF FirstBoot, FirstPass
  <2> HIDE DEF q1, q2
  <2>4. TasksGood'
    BY Zenon, <2>1, <2>2, <2>3, <1>SetTask DEF CloneInv
  <2> QED
    BY Zenon, <2>4 DEF CloneInv, FirstBoot, Scan, InstallNoted, ListsGood, RowsGood, OtherTypes

\* OtaNew: both passes derive the clone flag from the policy.
<1>OtaNewPreserves.
    ASSUME CloneInv, NEW t \in Tasks, NEW n \in Names, NEW p \in Policies, OtaNew(t, n, p)
    PROVE  CloneInv'
  <2> USE <1>OtaNewPreserves
  <2> DEFINE q == IF IsDiffPackageCategory(p) THEN NormalPass(n, p, "CROSS")
                  ELSE IF ShouldBeHidden(p, secondary) THEN CrossPass(n, p, "none")
                  ELSE NormalPass(n, p, "none")
  <2>1. q \in GoodPasses /\ q.name \in Names /\ q.policy \in Policies
    BY <1>NormalPassGood, <1>CrossPassGood DEF Rests
  <2>2. task' = [task EXCEPT ![t] = q]
    BY DEF OtaNew
  <2> HIDE DEF q
  <2>3. TasksGood'
    BY Zenon, <2>1, <2>2, <1>SetTask DEF CloneInv
  <2>4. env' \in [pending : BOOLEAN, contract : BOOLEAN, adrift : BOOLEAN,
                  torn : BOOLEAN, mixed : BOOLEAN, fresh : SUBSET Names]
    BY Zenon DEF OtaNew, CloneInv, OtherTypes
  <2> QED
    BY Zenon, <2>3, <2>4 DEF CloneInv, OtaNew, Scan, ListsGood, RowsGood, OtherTypes

\* UpdateDualPolicy: every entry and row of the name takes the new policy,
\* which is a different-package one.
<1>UpdateDualPolicyGood.
    ASSUME CloneInv, NEW n \in Names, NEW p \in Policies, IsDiffPackageCategory(p),
           UpdateDualPolicy(n, p)
    PROVE  ListsGood' /\ RowsGood'
  <2> USE <1>UpdateDualPolicyGood
  <2> DEFINE x == WithPolicy(lists[n], p)
  <2>1. lists[n] \in GoodPairs /\ lists[n].vis \in GoodEntries /\ lists[n].tmp \in GoodEntries
    BY PairFields DEF CloneInv, ListsGood
  <2>2. x \in GoodPairs
    <3>1. /\ lists[n].vis.clone \in BOOLEAN /\ lists[n].tmp.clone \in BOOLEAN
      BY Zenon, <2>1, GoodFields
    <3>2. /\ Entry(p, lists[n].vis.clone) \in GoodEntries
          /\ Entry(p, lists[n].tmp.clone) \in GoodEntries
      BY <3>1, <1>EntryGood
    <3> QED
      BY <2>1, <3>2, PairGood, AbsentGood DEF WithPolicy
  <2>3. lists' = [lists EXCEPT ![n] =
              IF x.tmp = Absent /\ known[<<n, TRUE>>] = "none" /\ secondary THEN Pair(Absent, x.vis) ELSE x]
    BY DEF UpdateDualPolicy
  <2> HIDE DEF x
  <2>4. ListsGood'
    <3>1. Pair(Absent, x.vis) \in GoodPairs
      BY <2>2, PairFields, PairGood, AbsentGood
    <3> QED
      BY Zenon, <2>2, <2>3, <3>1, <1>SetLists DEF CloneInv
  <2>5. RowsGood'
    <3>1. row' = RowsWithPolicy(n, lists[n], p)
      BY Zenon DEF UpdateDualPolicy
    <3>2. \A k \in Keys : row'[k] = p \/ row'[k] = row[k]
      BY <3>1 DEF RowsWithPolicy
    <3>3. row' \in [Keys -> Rows]
      BY <3>1, <3>2 DEF RowsWithPolicy, CloneInv, RowsGood, Rows
    <3> QED
      BY Zenon, <3>2, <3>3 DEF CloneInv, RowsGood, Keys
  <2> QED
    BY <2>4, <2>5

\* OtaKnown
<1>OtaKnownPreserves.
    ASSUME CloneInv, NEW t \in Tasks, NEW n \in Names, NEW p \in Policies, OtaKnown(t, n, p)
    PROVE  CloneInv'
  <2> USE <1>OtaKnownPreserves
  <2>1. ListsGood' /\ RowsGood'
    <3>1. CASE IsDiffPackageCategory(p)
      BY <3>1, <1>UpdateDualPolicyGood DEF OtaKnown
    <3>2. CASE ~IsDiffPackageCategory(p)
      BY Zenon, <3>2 DEF OtaKnown, CloneInv, ListsGood, RowsGood
    <3> QED
      BY <3>1, <3>2
  <2>2. TasksGood'
    <3>1. PICK q \in {CrossPass(n, p, "NORMAL"), CrossPass(n, p, "none"), NormalPass(n, p, "none"), Idle} :
              task' = [task EXCEPT ![t] = q]
      BY Zenon DEF OtaKnown
    <3>2. q \in GoodPasses /\ (q.pc # "idle" => q.name \in Names /\ q.policy \in Policies)
      BY <1>CrossPassGood, <1>NormalPassGood, IdleGood DEF Rests
    <3> QED
      BY Zenon, <3>1, <3>2, <1>SetTask DEF CloneInv
  <2>3. env' \in [pending : BOOLEAN, contract : BOOLEAN, adrift : BOOLEAN,
                  torn : BOOLEAN, mixed : BOOLEAN, fresh : SUBSET Names]
    <3>1. env \in [pending : BOOLEAN, contract : BOOLEAN, adrift : BOOLEAN,
                   torn : BOOLEAN, mixed : BOOLEAN, fresh : SUBSET Names]
      BY Zenon DEF CloneInv, OtherTypes
    <3>2. PICK a \in BOOLEAN, b \in BOOLEAN, c \in BOOLEAN :
              env' = [env EXCEPT !.contract = a, !.adrift = b, !.mixed = c]
      BY Zenon DEF OtaKnown
    <3> QED
      BY Zenon, <3>1, <3>2
  <2>4. OtherTypes'
    BY <2>3 DEF OtaKnown, Scan, CloneInv, OtherTypes
  <2> QED
    BY <2>1, <2>2, <2>4 DEF CloneInv

\* Name
<1>NamePreserves.
    ASSUME CloneInv, NEW t \in Tasks, Name(t)
    PROVE  CloneInv'
  <2> USE <1>NamePreserves
  <2> DEFINE q == [[task[t] EXCEPT !.pc = "named"] EXCEPT !.key = ShouldUseDualModeCloneName(task[t])]
  <2>1. task[t] \in GoodPasses /\ task[t].name \in Names /\ task[t].policy \in Policies
    BY Zenon, TaskFacts DEF Name
  <2>2. ShouldUseDualModeCloneName(task[t]) \in BOOLEAN
    BY DEF ShouldUseDualModeCloneName
  <2>3. q \in GoodPasses /\ q.name \in Names /\ q.policy \in Policies
    BY Zenon, <2>1, <2>2 DEF GoodPasses, Passes, Good
  <2>4. task' = [task EXCEPT ![t] = q]
    BY DEF Name
  <2> HIDE DEF q
  <2>5. TasksGood'
    BY Zenon, <2>3, <2>4, <1>SetTask DEF CloneInv
  <2> QED
    BY Zenon, <2>5 DEF CloneInv, Name, ListsGood, RowsGood, OtherTypes

\* DeleteBundleInfo removes one entry and its own row.
<1>DeleteBundleInfoGood.
    ASSUME CloneInv, NEW n \in Names, NEW x \in GoodPairs, DeleteBundleInfo(n, x, row)
    PROVE  ListsGood' /\ RowsGood'
  <2> USE <1>DeleteBundleInfoGood
  <2>1. x.vis \in GoodEntries /\ x.tmp \in GoodEntries
    BY PairFields
  <2>2. ListsGood'
    <3>1. Pair(Absent, x.tmp) \in GoodPairs
      BY <2>1, PairGood, AbsentGood
    <3> QED
      BY Zenon, <3>1, <1>SetLists DEF DeleteBundleInfo, CloneInv
  <2>3. RowsGood'
    <3>1. CASE x.vis = Absent
      BY Zenon, <3>1 DEF DeleteBundleInfo, CloneInv, RowsGood
    <3>2. CASE x.vis # Absent
      <4>1. row' = [row EXCEPT ![<<n, x.vis.clone>>] = NoPolicy] /\ x.vis.clone \in BOOLEAN
        BY <3>2, <2>1, GoodFields DEF DeleteBundleInfo
      <4>2. NoPolicy \in Rows
        BY DEF Rows
      <4> QED
        BY Zenon, <4>1, <4>2, <1>SetRow DEF CloneInv
    <3> QED
      BY <3>1, <3>2
  <2> QED
    BY <2>2, <2>3

\* The rollback of a new bundle.
<1>RollBackNewGood.
    ASSUME CloneInv, NEW t \in Tasks, task[t].pc # "idle", NEW x \in GoodPairs,
           NEW s \in InstallState \union {"absent"}, RollBackNew(t, x, s)
    PROVE  /\ ListsGood' /\ RowsGood' /\ data' \subseteq Keys
           /\ state' \in [Keys -> InstallState \union {"absent"}]
  <2> USE <1>RollBackNewGood
  <2>1. data' \subseteq Keys
    BY DEF RollBackNew, WithoutDirs, CloneInv, OtherTypes
  <2>2. ListsGood' /\ RowsGood'
    <3>1. CASE Accepts(s, "UPDATING_FAIL")
      <4>1. DeleteBundleInfo(task[t].name, x, row)
        BY <3>1 DEF RollBackNew
      <4> QED
        BY Zenon, <4>1, TaskFacts, <1>DeleteBundleInfoGood
    <3>2. CASE ~Accepts(s, "UPDATING_FAIL")
      <4>1. lists' = [lists EXCEPT ![task[t].name] = x] /\ row' = row
        BY <3>2 DEF RollBackNew
      <4> QED
        BY Zenon, <4>1, TaskFacts, <1>SetLists DEF CloneInv, RowsGood
    <3> QED
      BY <3>1, <3>2
  <2>3. state' \in [Keys -> InstallState \union {"absent"}]
    <3> DEFINE s2 == StateAfter(StateAfter(s, "UPDATING_FAIL"), "INSTALL_SUCCESS")
    <3>1. s2 \in InstallState \union {"absent"}
      BY <1>StateAfterType DEF InstallState
    <3>2. state' = [state EXCEPT ![<<task[t].name, task[t].key>>] = s2]
      BY DEF RollBackNew
    <3> HIDE DEF s2
    <3> QED
      BY Zenon, <3>1, <3>2, TaskFacts, <1>SetState DEF CloneInv
  <2> QED
    BY Zenon, <2>1, <2>2, <2>3

\* The rollback of an existing bundle changes its state only.
<1>RollBackExistingGood.
    ASSUME CloneInv, NEW t \in Tasks, task[t].pc # "idle", RollBackExisting(t)
    PROVE  /\ ListsGood' /\ RowsGood' /\ data' \subseteq Keys
           /\ state' \in [Keys -> InstallState \union {"absent"}]
  <2> USE <1>RollBackExistingGood
  <2> DEFINE k == <<task[t].name, task[t].key>>
             s == IF lists[task[t].name].vis # Absent THEN StateAfter(state[k], "ROLL_BACK") ELSE state[k]
  <2>1. s \in InstallState \union {"absent"}
    BY Zenon, TaskFacts, <1>StateAfterType DEF InstallState
  <2>2. state' = [state EXCEPT ![k] = StateAfter(s, "INSTALL_SUCCESS")]
    BY Zenon DEF RollBackExisting
  <2> HIDE DEF s
  <2>3. StateAfter(s, "INSTALL_SUCCESS") \in InstallState \union {"absent"}
    BY Zenon, <2>1, <1>StateAfterType DEF InstallState
  <2>4. state' \in [Keys -> InstallState \union {"absent"}]
    BY Zenon, <2>2, <2>3, TaskFacts, <1>SetState DEF CloneInv
  <2> QED
    BY Zenon, <2>4 DEF RollBackExisting, CloneInv, ListsGood, RowsGood, OtherTypes

\* Start: without a category conflict, the variant whose clone flag an update
\* keeps has a policy of the package's category.
<1>StartedGood.
    ASSUME CloneInv, NEW t \in Tasks, task[t].pc # "idle",
           NEW old \in GoodEntries, ~CategoryConflict(task[t], old)
    PROVE  /\ Started(task[t], old) \in GoodPasses
           /\ Started(task[t], old).name \in Names /\ Started(task[t], old).policy \in Policies
  <2> USE <1>StartedGood
  <2> DEFINE r == task[t]
             clone == IF old = Absent THEN r.clone ELSE old.clone
  <2>1. r \in GoodPasses /\ r.name \in Names /\ r.policy \in Policies /\ r.clone \in BOOLEAN
        /\ (r.clone => IsDiffPackageCategory(r.policy))
    BY Zenon, TaskFacts
  <2>2. clone \in BOOLEAN
    BY <2>1, GoodFields
  <2>3. clone => IsDiffPackageCategory(r.policy)
    <3>1. CASE old = Absent
      BY Zenon, <2>1, <3>1
    <3>2. CASE old # Absent /\ old.clone
      <4>1. IsDiffPackageCategory(old.policy)
        BY <3>2, GoodFields
      <4> QED
        BY <3>2, <4>1 DEF CategoryConflict, IsDiffPackageCategory
    <3> QED
      BY <3>1, <3>2
  <2>4. Started(r, old) = [[[r EXCEPT !.pc = "started"] EXCEPT !.exist = old # Absent] EXCEPT !.clone = clone]
    BY Zenon DEF Started
  <2> HIDE DEF clone
  <2> QED
    BY Zenon, <2>1, <2>2, <2>3, <2>4 DEF GoodPasses, Passes, Good

\* Start
<1>StartPreserves.
    ASSUME CloneInv, NEW t \in Tasks, Start(t)
    PROVE  CloneInv'
  <2> USE <1>StartPreserves
  <2> DEFINE r == task[t]
             k == <<r.name, r.key>>
             old == Lookup(r)
             first == IF old = Absent THEN "INSTALL_START" ELSE "UPDATING_START"
  <2>1. r.pc # "idle"
    BY Zenon DEF Start
  <2>2. old \in GoodEntries
    BY Zenon, <2>1, TaskFacts DEF Lookup
  <2>3. known' \in [Keys -> {"none", "present", "uninstalled"}]
    BY Zenon, <2>1, TaskFacts DEF Start, CloneInv, OtherTypes
  <2>4. UNCHANGED <<secondary, persisted, boot, scanned, env>>
    BY Zenon DEF Start
  <2>5. CASE /\ ~CategoryConflict(r, old) /\ task' = [task EXCEPT ![t] = Started(r, old)]
             /\ state' = [state EXCEPT ![k] = first]
             /\ data' = IF old = Absent THEN data \union {<<r.name, r.key \/ r.clone>>} ELSE data
             /\ UNCHANGED <<lists, row>>
    <3>1. TasksGood'
      BY Zenon, <2>1, <2>2, <2>5, <1>StartedGood, <1>SetTask DEF CloneInv
    <3>2. first \in InstallState \union {"absent"}
      BY DEF InstallState
    <3> HIDE DEF first, old
    <3>3. state' \in [Keys -> InstallState \union {"absent"}]
      BY Zenon, <2>1, <2>5, <3>2, TaskFacts, <1>SetState DEF CloneInv
    <3>4. <<r.name, r.key \/ r.clone>> \in Keys
      BY Zenon, <2>1, TaskFacts DEF Keys
    <3>5. data' \subseteq Keys
      BY <2>5, <3>4 DEF CloneInv, OtherTypes
    <3> QED
      BY Zenon, <2>3, <2>4, <2>5, <3>1, <3>3, <3>5 DEF CloneInv, ListsGood, RowsGood, OtherTypes
  <2>6. CASE /\ IF old = Absent THEN RollBackNew(t, lists[r.name], state[k]) ELSE RollBackExisting(t)
             /\ NextPass(t)
    <3>1. TasksGood'
      BY Zenon, <2>1, <2>6, <1>NextPassGood DEF CloneInv
    <3>2. /\ ListsGood' /\ RowsGood' /\ data' \subseteq Keys
          /\ state' \in [Keys -> InstallState \union {"absent"}]
      BY Zenon, <2>1, <2>6, TaskFacts, <1>RollBackNewGood, <1>RollBackExistingGood
    <3> QED
      BY <2>3, <2>4, <3>1, <3>2 DEF CloneInv, OtherTypes
  <2> QED
    BY Zenon, <2>5, <2>6 DEF Start

\* FailDirs
<1>FailDirsPreserves.
    ASSUME CloneInv, NEW t \in Tasks, FailDirs(t)
    PROVE  CloneInv'
  <2> USE <1>FailDirsPreserves
  <2> DEFINE k == <<task[t].name, task[t].key>>
  <2>1. task[t].pc # "idle"
    BY Zenon DEF FailDirs
  <2>2. TasksGood'
    BY Zenon, <2>1, <1>NextPassGood DEF CloneInv, FailDirs
  <2>3. StateAfter(state[k], "INSTALL_FAIL") \in InstallState \union {"absent"}
    BY Zenon, <2>1, TaskFacts, <1>StateAfterType DEF InstallState
  <2>4. state' = [state EXCEPT ![k] = StateAfter(state[k], "INSTALL_FAIL")]
    BY DEF FailDirs
  <2>5. state' \in [Keys -> InstallState \union {"absent"}]
    BY Zenon, <2>1, <2>3, <2>4, TaskFacts, <1>SetState DEF CloneInv
  <2>6. data' \subseteq Keys
    BY Zenon DEF FailDirs, WithoutDirs, CloneInv, OtherTypes
  <2> QED
    BY Zenon, <2>2, <2>5, <2>6 DEF FailDirs, CloneInv, ListsGood, RowsGood, OtherTypes

\* FailLate
<1>FailLatePreserves.
    ASSUME CloneInv, NEW t \in Tasks, FailLate(t)
    PROVE  CloneInv'
  <2> USE <1>FailLatePreserves
  <2>1. task[t].pc # "idle"
    BY Zenon DEF FailLate
  <2>2. TasksGood'
    BY <2>1, <1>NextPassGood DEF CloneInv, FailLate
  <2>3. /\ ListsGood' /\ RowsGood' /\ data' \subseteq Keys
        /\ state' \in [Keys -> InstallState \union {"absent"}]
    <3>1. CASE task[t].exist
      BY Zenon, <2>1, <3>1, <1>RollBackExistingGood DEF FailLate
    <3>2. CASE ~task[t].exist
      <4>1. RollBackNew(t, lists[task[t].name], state[<<task[t].name, task[t].key>>])
        BY Zenon, <3>2 DEF FailLate
      <4> QED
        BY Zenon, <2>1, <4>1, TaskFacts, <1>RollBackNewGood
    <3> QED
      BY <3>1, <3>2
  <2> QED
    BY Zenon, <2>2, <2>3 DEF FailLate, CloneInv, OtherTypes

\* Storing the entry of an installation keeps the pair good.
<1>WithEntryGood.
    ASSUME CloneInv, NEW t \in Tasks, task[t].pc # "idle", NEW hidden
    PROVE  WithEntry(lists[task[t].name], hidden, Entry(task[t].policy, task[t].clone)) \in GoodPairs
  <2> USE <1>WithEntryGood
  <2>1. Entry(task[t].policy, task[t].clone) \in GoodEntries
    BY Zenon, TaskFacts, <1>EntryGood
  <2> QED
    BY Zenon, <2>1, TaskFacts, PairGood DEF WithEntry

\* FailSave
<1>FailSavePreserves.
    ASSUME CloneInv, NEW t \in Tasks, FailSave(t)
    PROVE  CloneInv'
  <2> USE <1>FailSavePreserves
  <2> DEFINE r == task[t]
             x == WithEntry(lists[r.name], IsCrossModeInstall(r), Entry(r.policy, r.clone))
  <2>1. r.pc # "idle"
    BY Zenon DEF FailSave
  <2>2. TasksGood'
    BY Zenon, <2>1, <1>NextPassGood DEF CloneInv, FailSave
  <2>3. x \in GoodPairs
    BY Zenon, <2>1, <1>WithEntryGood
  <2>4. RollBackNew(t, x, state[<<r.name, r.key>>])
    BY Zenon DEF FailSave
  <2> HIDE DEF x
  <2>5. /\ ListsGood' /\ RowsGood' /\ data' \subseteq Keys
        /\ state' \in [Keys -> InstallState \union {"absent"}]
    BY Zenon, <2>1, <2>3, <2>4, TaskFacts, <1>RollBackNewGood
  <2> QED
    BY Zenon, <2>2, <2>5 DEF FailSave, CloneInv, OtherTypes

\* Finish: the entry and the row it stores have the package's policy.
<1>FinishPreserves.
    ASSUME CloneInv, NEW t \in Tasks, Finish(t)
    PROVE  CloneInv'
  <2> USE <1>FinishPreserves
  <2> DEFINE r == task[t]
             k == <<r.name, r.key>>
             s == IF r.exist THEN "UPDATING_SUCCESS" ELSE state[k]
             removed == StateAfter(StateAfter(state[k], "UNINSTALL_START"), "UNINSTALL_SUCCESS")
             x == WithEntry(lists[r.name], IsCrossModeInstall(r), Entry(r.policy, r.clone))
  <2>1. r.pc # "idle"
    BY Zenon DEF Finish
  <2>2. TasksGood'
    BY Zenon, <2>1, <1>NextPassGood DEF CloneInv, Finish
  <2>3. UNCHANGED <<secondary, persisted, known, boot, scanned>>
    BY Zenon DEF Finish
  <2>4. CASE /\ lists' = [lists EXCEPT ![r.name] = x]
             /\ row' = [row EXCEPT ![<<r.name, r.clone>>] = r.policy]
             /\ state' = [state EXCEPT ![k] = StateAfter(s, "INSTALL_SUCCESS")]
             /\ env' = [env EXCEPT !.fresh = @ \union {r.name}]
             /\ data' = data
    <3>1. x \in GoodPairs
      BY <2>1, <1>WithEntryGood
    <3> HIDE DEF x
    <3>2. ListsGood'
      BY Zenon, <2>1, <2>4, <3>1, TaskFacts, <1>SetLists DEF CloneInv
    <3>3. RowsGood'
      BY Zenon, <2>1, <2>4, TaskFacts, <1>SetRow DEF CloneInv, Rows
    <3>4. s \in InstallState \union {"absent"}
      BY Zenon, <2>1, TaskFacts DEF InstallState
    <3> HIDE DEF s
    <3>5. StateAfter(s, "INSTALL_SUCCESS") \in InstallState \union {"absent"}
      BY <3>4, <1>StateAfterType DEF InstallState
    <3>6. state' \in [Keys -> InstallState \union {"absent"}]
      BY Zenon, <2>1, <2>4, <3>5, TaskFacts, <1>SetState DEF CloneInv
    <3>7. env' \in [pending : BOOLEAN, contract : BOOLEAN, adrift : BOOLEAN,
                    torn : BOOLEAN, mixed : BOOLEAN, fresh : SUBSET Names]
      BY SMTT(30), <2>1, <2>4, TaskFacts DEF CloneInv, OtherTypes
    <3> QED
      BY <2>2, <2>3, <2>4, <3>2, <3>3, <3>6, <3>7 DEF CloneInv, OtherTypes
  <2>5. CASE RollBackExisting(t) /\ env' = env
    BY Zenon, <2>1, <2>2, <2>3, <2>5, <1>RollBackExistingGood DEF CloneInv, OtherTypes
  <2>6. CASE /\ DeleteBundleInfo(r.name, lists[r.name], row) /\ state' = [state EXCEPT ![k] = removed]
             /\ data' = WithoutDirs(r) /\ env' = env
    <3>1. ListsGood' /\ RowsGood'
      BY Zenon, <2>1, <2>6, TaskFacts, <1>DeleteBundleInfoGood
    <3>2. removed \in InstallState \union {"absent"}
      BY Zenon, <2>1, TaskFacts, <1>StateAfterType DEF InstallState
    <3> HIDE DEF removed
    <3>3. state' \in [Keys -> InstallState \union {"absent"}]
      BY Zenon, <2>1, <2>6, <3>2, TaskFacts, <1>SetState DEF CloneInv
    <3>4. data' \subseteq Keys
      BY Zenon, <2>6 DEF WithoutDirs, CloneInv, OtherTypes
    <3> QED
      BY Zenon, <2>2, <2>3, <2>6, <3>1, <3>3, <3>4 DEF CloneInv, OtherTypes
  <2> QED
    BY Zenon, <2>4, <2>5, <2>6 DEF Finish

\* Uninstall
<1>UninstallPreserves.
    ASSUME CloneInv, NEW n \in Names, Uninstall(n)
    PROVE  CloneInv'
  <2> USE <1>UninstallPreserves
  <2> DEFINE k == <<n, lists[n].vis.clone>>
  <2>1. lists[n] \in GoodPairs /\ lists[n].vis \in GoodEntries
    BY Zenon, PairFields DEF CloneInv, ListsGood
  <2>2. lists[n].vis.clone \in BOOLEAN
    BY Zenon, <2>1, GoodFields
  <2>3. ListsGood' /\ RowsGood'
    BY <2>1, <1>DeleteBundleInfoGood DEF Uninstall
  <2>4. state' \in [Keys -> InstallState \union {"absent"}]
    <3>1. state' = [state EXCEPT ![k] = "absent"]
      BY DEF Uninstall
    <3> QED
      BY Zenon, <2>2, <3>1, <1>SetState DEF CloneInv
  <2>5. data' \subseteq Keys /\ known' \in [Keys -> {"none", "present", "uninstalled"}]
    BY Zenon DEF Uninstall, CloneInv, OtherTypes
  <2> QED
    BY Zenon, <2>3, <2>4, <2>5 DEF Uninstall, CloneInv, TasksGood, OtherTypes

\* Switch
<1>SwitchPreserves.
    ASSUME CloneInv, NEW set \in PolicySets, Switch(set)
    PROVE  CloneInv'
  <2> USE <1>SwitchPreserves
  <2>1. ListsGood'
    BY MigrateGood DEF Switch, MigrateAll, CloneInv, ListsGood
  <2>2. env' \in [pending : BOOLEAN, contract : BOOLEAN, adrift : BOOLEAN,
                  torn : BOOLEAN, mixed : BOOLEAN, fresh : SUBSET Names]
    BY Zenon DEF Switch, CloneInv, OtherTypes
  <2> QED
    BY Zenon, <2>1, <2>2 DEF Switch, CloneInv, RowsGood, TasksGood, OtherTypes

\* SwitchFails
<1>SwitchFailsPreserves.
    ASSUME CloneInv, NEW set \in PolicySets, SwitchFails(set)
    PROVE  CloneInv'
  <2> USE <1>SwitchFailsPreserves
  <2>1. ListsGood'
    <3>1. \A n \in Names : RollBackSwitch(lists[n], set, persisted) \in GoodPairs
      BY MigrateGood DEF RollBackSwitch, CloneInv, ListsGood
    <3>2. \A n \in Names : ClassifyByDeviceMode(Migrate(lists[n], set), secondary) \in GoodPairs
      BY MigrateGood, <1>ClassifyByDeviceModeGood DEF CloneInv, ListsGood
    <3> QED
      BY <3>1, <3>2 DEF SwitchFails, ListsGood
  <2>2. env' \in [pending : BOOLEAN, contract : BOOLEAN, adrift : BOOLEAN,
                  torn : BOOLEAN, mixed : BOOLEAN, fresh : SUBSET Names]
    BY Zenon DEF SwitchFails, CloneInv, OtherTypes
  <2> QED
    BY Zenon, <2>1, <2>2 DEF SwitchFails, CloneInv, RowsGood, TasksGood, OtherTypes

\* Flip
<1>FlipPreserves.
    ASSUME CloneInv, Flip
    PROVE  CloneInv'
  <2> USE <1>FlipPreserves
  <2>1. env' \in [pending : BOOLEAN, contract : BOOLEAN, adrift : BOOLEAN,
                  torn : BOOLEAN, mixed : BOOLEAN, fresh : SUBSET Names]
    BY Zenon DEF Flip, CloneInv, OtherTypes
  <2> QED
    BY Zenon, <2>1 DEF Flip, CloneInv, ListsGood, RowsGood, TasksGood, OtherTypes

\* Reboot: whatever the table holds, the boot makes good pairs of it.
<1>RebootPreserves.
    ASSUME CloneInv, Reboot
    PROVE  CloneInv'
  <2> USE <1>RebootPreserves
  <2>1. ListsGood'
    <3>1. \A n \in Names : row[<<n, FALSE>>] \in Rows /\ row[<<n, TRUE>>] \in Rows
      BY Zenon DEF CloneInv, RowsGood, Keys
    <3> QED
      BY Zenon, <3>1, <1>BootGood DEF Reboot, ListsGood
  <2>2. TasksGood'
    BY IdleGood DEF Reboot, TasksGood
  <2>3. state' \in [Keys -> InstallState \union {"absent"}]
    BY DEF Reboot, InstallState
  <2>4. env' \in [pending : BOOLEAN, contract : BOOLEAN, adrift : BOOLEAN,
                  torn : BOOLEAN, mixed : BOOLEAN, fresh : SUBSET Names]
    BY Zenon DEF Reboot, CloneInv, OtherTypes
  <2> QED
    BY Zenon, <2>1, <2>2, <2>3, <2>4 DEF Reboot, CloneInv, RowsGood, OtherTypes

\* Publish
<1>PublishPreserves.
    ASSUME CloneInv, Publish
    PROVE  CloneInv'
    BY Zenon, <1>PublishPreserves DEF Publish, CloneInv, ListsGood, RowsGood, TasksGood, OtherTypes

\* A stuttering step.
<1>StutterPreserves.
    ASSUME CloneInv, UNCHANGED vars
    PROVE  CloneInv'
    BY Zenon, <1>StutterPreserves DEF vars, CloneInv, ListsGood, RowsGood, TasksGood, OtherTypes

<1>1. ASSUME NEW t \in Tasks, NEW n \in Names, NEW p \in Policies,
             Begin(t, n, p) \/ FirstBoot(t, n, p) \/ OtaNew(t, n, p) \/ OtaKnown(t, n, p)
      PROVE  CloneInv'
  BY <1>1, <1>BeginPreserves, <1>FirstBootPreserves, <1>OtaNewPreserves, <1>OtaKnownPreserves
<1>2. ASSUME NEW t \in Tasks, Step(t)
      PROVE  CloneInv'
  BY <1>2, <1>NamePreserves, <1>StartPreserves, <1>FailDirsPreserves, <1>FailLatePreserves,
     <1>FailSavePreserves, <1>FinishPreserves DEF Step
<1>3. ASSUME NEW n \in Names, Uninstall(n)
      PROVE  CloneInv'
  BY <1>3, <1>UninstallPreserves
<1>4. ASSUME NEW set \in PolicySets, Switch(set) \/ SwitchFails(set)
      PROVE  CloneInv'
  BY <1>4, <1>SwitchPreserves, <1>SwitchFailsPreserves
<1> QED
  BY Zenon, <1>1, <1>2, <1>3, <1>4, <1>FlipPreserves, <1>RebootPreserves, <1>PublishPreserves,
     <1>StutterPreserves DEF Next

----------------------------------------------------------------------------
\* The theorems about clones.

\* CloneInv holds in every reachable state.
THEOREM CloneInvariance == Spec => []CloneInv
<1>1. CloneInv /\ [Next]_vars => CloneInv'
  BY NextPreserves
<1> QED
  BY InitCloneInv, <1>1, PTL DEF Spec

\* Every variable keeps its type.
THEOREM DualModeTypeCorrect == Spec => []TypeOK
<1>1. CloneInv => TypeOK
  BY CloneInvImplies
<1> QED
  BY CloneInvariance, <1>1, PTL

\* Whatever is installed, updated, removed, switched or restarted, and whenever
\* the mode changes in between, a clone has a different-package policy, so the
\* boot finds every clone in the table.
THEOREM ClonesStayDiff == Spec => []ClonesAreDiff
<1>1. CloneInv => ClonesAreDiff
  BY CloneInvImplies
<1> QED
  BY CloneInvariance, <1>1, PTL

----------------------------------------------------------------------------
\* The undoing of a switch.

\* What a switch to set leaves of a name: a hidden entry has a policy, one out
\* of the set unless the application is a different-package one, and two
\* entries are both of such a policy.
Placed(x, set) ==
    /\ x.vis # Absent /\ ~IsDiffPackageCategory(x.vis.policy) =>
         /\ x.tmp = Absent
         /\ x.vis.policy = UNSPECIFIED \/ x.vis.policy \in set
    /\ x.tmp # Absent =>
         /\ x.tmp.policy # UNSPECIFIED
         /\ ~IsDiffPackageCategory(x.tmp.policy) => x.vis = Absent /\ x.tmp.policy \notin set

\* What a switch does with a name, in the three cases of Migrate: it hides the
\* visible entry, it swaps the entries to show the hidden one, or neither.
Hides(v, t, set) ==
    v # Absent /\ v.policy # UNSPECIFIED /\ t = Absent
      /\ (IsDiffPackageCategory(v.policy) \/ v.policy \notin set)
Shows(t, set) == t # Absent /\ t.policy # UNSPECIFIED /\ t.policy \in set

\* These are all cases.
LEMMA MigrateCases ==
    ASSUME NEW v, NEW t, NEW set
    PROVE  /\ Hides(v, t, set) => Migrate(Pair(v, t), set) = Pair(Absent, v)
           /\ Shows(t, set) => Migrate(Pair(v, t), set) = Pair(t, v)
           /\ ~(Hides(v, t, set) \/ Shows(t, set)) => Migrate(Pair(v, t), set) = Pair(v, t)
<1> DEFINE x == Pair(v, t)
<1>1. x.vis = v /\ x.tmp = t
  BY DEF Pair
<1> HIDE DEF x
<1>2. CASE Hides(v, t, set)
  <2>1. Migrate(x, set) = Pair(Absent, v)
    BY <1>1, <1>2 DEF Hides, Migrate
  <2>2. ~Shows(t, set)
    BY <1>2 DEF Hides, Shows
  <2> QED
    BY Zenon, <1>2, <2>1, <2>2 DEF x
<1>3. CASE ~Hides(v, t, set) /\ Shows(t, set)
  <2>1. Migrate(x, set) = Pair(t, v)
    BY <1>1, <1>3 DEF Hides, Shows, Migrate
  <2> QED
    BY Zenon, <1>3, <2>1 DEF x
<1>4. CASE ~Hides(v, t, set) /\ ~Shows(t, set)
  <2>1. Migrate(x, set) = x
    BY <1>1, <1>4 DEF Hides, Shows, Migrate
  <2> QED
    BY Zenon, <1>4, <2>1 DEF x
<1> QED
  BY Zenon, <1>2, <1>3, <1>4

\* What a valid set means for the different-package policies.
LEMMA DiffInSet ==
    ASSUME NEW p, NEW set, IsValidPolicySet(set), IsDiffPackageCategory(p)
    PROVE  p \in set /\ p # UNSPECIFIED
  BY DEF IsDiffPackageCategory, IsValidPolicySet, UNSPECIFIED

\* A pair that a switch leaves alone.
LEMMA MigrateStays ==
    ASSUME NEW v, NEW t, NEW set, ~(Hides(v, t, set) \/ Shows(t, set))
    PROVE  Migrate(Pair(v, t), set) = Pair(v, t)
  BY MigrateCases

\* Placed of two entries.
PlacedPair(v, t, set) ==
    /\ v # Absent /\ ~IsDiffPackageCategory(v.policy) =>
         t = Absent /\ (v.policy = UNSPECIFIED \/ v.policy \in set)
    /\ t # Absent =>
         /\ t.policy # UNSPECIFIED
         /\ ~IsDiffPackageCategory(t.policy) => v = Absent /\ t.policy \notin set

\* It says the same.
LEMMA PlacedFields ==
    ASSUME NEW v, NEW t, NEW set
    PROVE  Placed(Pair(v, t), set) <=> PlacedPair(v, t, set)
<1> DEFINE x == Pair(v, t)
<1>1. x.vis = v /\ x.tmp = t
  BY DEF Pair
<1> HIDE DEF x
<1>2. Placed(x, set) <=> PlacedPair(v, t, set)
  BY <1>1 DEF Placed, PlacedPair
<1> QED
  BY Zenon, <1>2 DEF x

\* A switch places what it finds, unless the name has two entries that are not
\* both of a different-package application.
LEMMA SwitchPlaces ==
    ASSUME NEW v, NEW t, NEW set, IsValidPolicySet(set),
           t # Absent => t.policy # UNSPECIFIED,
           v # Absent /\ t # Absent =>
               IsDiffPackageCategory(v.policy) /\ IsDiffPackageCategory(t.policy)
    PROVE  Placed(Migrate(Pair(v, t), set), set)
<1>1. CASE Hides(v, t, set)
  <2>1. PlacedPair(Absent, v, set)
    BY <1>1 DEF Hides, PlacedPair
  <2>2. Migrate(Pair(v, t), set) = Pair(Absent, v)
    BY Zenon, <1>1, MigrateCases
  <2> QED
    BY <2>1, <2>2, PlacedFields
<1>2. CASE Shows(t, set)
  <2>1. PlacedPair(t, v, set)
    BY <1>2, DiffInSet DEF Shows, PlacedPair
  <2>2. Migrate(Pair(v, t), set) = Pair(t, v)
    BY Zenon, <1>2, MigrateCases
  <2> QED
    BY <2>1, <2>2, PlacedFields
<1>3. CASE ~(Hides(v, t, set) \/ Shows(t, set))
  <2>1. PlacedPair(v, t, set)
    BY <1>3, DiffInSet DEF Hides, Shows, PlacedPair
  <2>2. Migrate(Pair(v, t), set) = Pair(v, t)
    BY Zenon, <1>3, MigrateStays
  <2> QED
    BY <2>1, <2>2, PlacedFields
<1> QED
  BY Zenon, <1>1, <1>2, <1>3

\* FilterBundleListByDeviceModeDistributionPolicies replays the old set when the
\* new one cannot be saved: from what a switch to the old set left, switching to
\* any valid set and back returns every entry to its list.
LEMMA SwitchUndone ==
    ASSUME NEW x \in GoodPairs, NEW set, NEW old,
           IsValidPolicySet(set), IsValidPolicySet(old), Placed(x, old)
    PROVE  RollBackSwitch(x, set, old) = x
<1> DEFINE v == x.vis
           t == x.tmp
<1>1. x = Pair(v, t)
  BY Zenon, PairFields
<1> HIDE DEF v, t
<1>2. PlacedPair(v, t, old)
  BY Zenon, <1>1, PlacedFields
<1>3. SUFFICES Migrate(Migrate(Pair(v, t), set), old) = Pair(v, t)
  BY Zenon, <1>1 DEF RollBackSwitch
<1>4. CASE Hides(v, t, set)
  <2>1. Shows(v, old) /\ t = Absent
    BY <1>2, <1>4, DiffInSet DEF Hides, Shows, PlacedPair
  <2>2. Migrate(Pair(v, t), set) = Pair(t, v)
    BY Zenon, <1>4, <2>1, MigrateCases
  <2>3. Migrate(Pair(t, v), old) = Pair(v, t)
    BY Zenon, <2>1, MigrateCases
  <2> QED
    BY Zenon, <2>2, <2>3
<1>5. CASE Shows(t, set)
  <2>1. CASE v = Absent
    <3>1. Hides(t, v, old)
      BY <1>2, <1>5, <2>1 DEF Hides, Shows, PlacedPair
    <3>2. Migrate(Pair(v, t), set) = Pair(t, v)
      BY Zenon, <1>5, MigrateCases
    <3>3. Migrate(Pair(t, v), old) = Pair(Absent, t)
      BY Zenon, <3>1, MigrateCases
    <3> QED
      BY Zenon, <2>1, <3>2, <3>3
  <2>2. CASE v # Absent
    <3>1. Shows(v, old)
      BY <1>2, <1>5, <2>2, DiffInSet DEF Shows, PlacedPair
    <3>2. Migrate(Pair(v, t), set) = Pair(t, v)
      BY Zenon, <1>5, MigrateCases
    <3>3. Migrate(Pair(t, v), old) = Pair(v, t)
      BY Zenon, <3>1, MigrateCases
    <3> QED
      BY Zenon, <3>2, <3>3
  <2> QED
    BY Zenon, <2>1, <2>2
<1>6. CASE ~(Hides(v, t, set) \/ Shows(t, set))
  <2>1. ~(Hides(v, t, old) \/ Shows(t, old))
    BY Zenon, <1>2, <1>6, DiffInSet DEF Hides, Shows, PlacedPair
  <2>2. Migrate(Pair(v, t), set) = Pair(v, t)
    BY Zenon, <1>6, MigrateStays
  <2>3. Migrate(Pair(v, t), old) = Pair(v, t)
    BY Zenon, <2>1, MigrateStays
  <2> QED
    BY Zenon, <2>2, <2>3
<1> QED
  BY Zenon, <1>4, <1>5, <1>6

\* The same of the service: every name that is where the persisted set puts it
\* stays there when a switch to any other set cannot be saved.
FailedSwitchUndone ==
    \A set \in PolicySets : SwitchFails(set) /\ persisted # {} =>
        \A n \in Names : Placed(lists[n], persisted) => lists'[n] = lists[n]

\* A switch that cannot be saved leaves no trace in the lists, for every policy
\* set and every installed application the persisted set has placed.
THEOREM FailedSwitchLeavesNoTrace == Spec => [][FailedSwitchUndone]_vars
<1>1. CloneInv /\ [Next]_vars => [FailedSwitchUndone]_vars
  <2> SUFFICES ASSUME CloneInv, NEW set \in PolicySets, SwitchFails(set), persisted # {},
                      NEW n \in Names, Placed(lists[n], persisted)
               PROVE  lists'[n] = lists[n]
    BY DEF FailedSwitchUndone
  <2>1. lists[n] \in GoodPairs /\ persisted \in PolicySets
    BY Zenon DEF CloneInv, ListsGood, OtherTypes
  <2>2. IsValidPolicySet(set) /\ IsValidPolicySet(persisted)
    BY <2>1, DualModeAssumption
  <2>3. lists'[n] = RollBackSwitch(lists[n], set, persisted)
    BY DEF SwitchFails
  <2> QED
    BY Zenon, <2>1, <2>2, <2>3, SwitchUndone
<1> QED
  BY CloneInvariance, <1>1, PTL DEF Spec

----------------------------------------------------------------------------
\* The agreement of the records.

Diff(p) == IsDiffPackageCategory(p)
Has(n, c) == row[<<n, c>>] # NoPolicy

\* The entry that a row calls for, and two entries that are those of the rows
\* of policies p (plain) and q (clone), in either order.
EntryOf(p, c) == IF p = NoPolicy THEN Absent ELSE Entry(p, c)
Shown(v, w, p, q) ==
    \/ v = EntryOf(p, FALSE) /\ w = EntryOf(q, TRUE)
    \/ v = EntryOf(q, TRUE) /\ w = EntryOf(p, FALSE)

\* Only a different-package application has two rows; a clone is always one.
Fit(p, q) == q # NoPolicy => Diff(q) /\ (p # NoPolicy => Diff(p))

Exact(n) ==
    /\ Shown(lists[n].vis, lists[n].tmp, row[<<n, FALSE>>], row[<<n, TRUE>>])
    /\ Fit(row[<<n, FALSE>>], row[<<n, TRUE>>])

StartedAt(t, n, c) == task[t].pc = "started" /\ task[t].name = n /\ task[t].key = c

\* The install state of a variant is that of its row, but during an installation.
Settled(n, c) ==
    (\A t \in Tasks : ~StartedAt(t, n, c)) =>
        state[<<n, c>>] = IF Has(n, c) THEN "INSTALL_SUCCESS" ELSE "absent"

\* An installation that has started, for each of its two kinds.
StartedInv(r) ==
    r.pc = "started" =>
        IF r.exist
        THEN /\ state[<<r.name, r.key>>] = "UPDATING_START" /\ Has(r.name, r.key)
             /\ Lookup(r) # Absent /\ Lookup(r).clone = r.clone
             /\ \A c \in BOOLEAN : c # r.clone /\ Has(r.name, c) => Diff(r.policy)
        ELSE /\ state[<<r.name, r.key>>] = "INSTALL_START" /\ ~Has(r.name, r.key)
             /\ Lookup(r) = Absent /\ r.clone = r.key
             /\ \A c \in BOOLEAN : Has(r.name, c) => Diff(r.policy) /\ Diff(row[<<r.name, c>>])

\* What parsing and naming decide, the mode having stayed the same since.
NamedInv(r) ==
    /\ r.pc \in {"parsed", "named"} => r.clone = ShouldUseDualModeCloneName(r)
    /\ r.pc \in {"named", "started"} => r.key = ShouldUseDualModeCloneName(r)
    /\ r.pc # "idle" /\ (r.role # "NONE" \/ r.rest # "none") => Diff(r.policy)

\* A scan's package against the rows it will meet.
ScanInv(r) ==
    r.pc # "idle" /\ r.who # "user" =>
        /\ Diff(r.policy) => \A c \in BOOLEAN : Has(r.name, c) => Diff(row[<<r.name, c>>])
        /\ ~Diff(r.policy) /\ Lookup(r) = Absent =>
              \A c \in BOOLEAN : Has(r.name, c) => ~Diff(row[<<r.name, c>>])

\* Who is at work when: users after the boot, a scan once per name.
WhoInv(r) ==
    r.pc # "idle" =>
        /\ r.who = "user" => boot = "up" /\ r.role = "NONE" /\ ~r.resolved /\ r.rest = "none"
        /\ r.who # "user" => boot # "up" /\ r.name \in scanned
        /\ r.who = "first" => r.rest \in {"none", "SECONDARY"}
        /\ r.who = "ota" => r.rest # "SECONDARY"

\* No two installations of a name have started, and no two are a scan's.
Alone ==
    \A t, u \in Tasks : t # u /\ task[t].pc # "idle" /\ task[u].pc # "idle" /\ task[t].name = task[u].name =>
        /\ task[t].who = "user"
        /\ task[t].pc = "started" => task[u].pc # "started"

\* Before the first scan of a name nothing is known of it.
Unscanned == boot = "first" => \A n \in Names \ scanned, c \in BOOLEAN : ~Has(n, c)

NameInv(n) == Exact(n) /\ \A c \in BOOLEAN : Settled(n, c)
TaskInv(r) == StartedInv(r) /\ NamedInv(r) /\ ScanInv(r) /\ WhoInv(r)
Agree ==
    /\ \A n \in Names : NameInv(n)
    /\ \A t \in Tasks : TaskInv(task[t])
    /\ Alone
    /\ Unscanned

----------------------------------------------------------------------------
\* Entries and rows.

\* The entry of a row.
LEMMA EntryOfFields ==
    ASSUME NEW p \in Rows, NEW c \in BOOLEAN
    PROVE  /\ EntryOf(p, c) = Absent <=> p = NoPolicy
           /\ EntryOf(p, c).policy = p
           /\ EntryOf(p, c).clone = (c /\ p # NoPolicy)
<1>1. /\ Entry(p, c).policy = p /\ Entry(p, c).clone = c
      /\ Absent.policy = NoPolicy /\ Absent.clone = FALSE
  BY DEF Entry, Absent
<1>2. CASE p = NoPolicy
  <2>1. EntryOf(p, c) = Absent
    BY <1>2 DEF EntryOf
  <2> QED
    BY Zenon, <1>1, <1>2, <2>1
<1>3. CASE p # NoPolicy
  <2>1. EntryOf(p, c) = Entry(p, c)
    BY <1>3 DEF EntryOf
  <2>2. Entry(p, c) # Absent
    BY <1>1, <1>3
  <2> QED
    BY Zenon, <1>1, <1>3, <2>1, <2>2
<1> QED
  BY Zenon, <1>2, <1>3

\* Two entries in the other order.
LEMMA ShownSwapped ==
    ASSUME NEW v, NEW w, NEW p, NEW q
    PROVE  Shown(v, w, p, q) <=> Shown(w, v, p, q)
  BY Zenon DEF Shown

\* What the lists show of the rows.
LEMMA ShownFacts ==
    ASSUME NEW v, NEW w, NEW p \in Rows, NEW q \in Rows, Shown(v, w, p, q)
    PROVE  /\ v = Absent \/ (~v.clone /\ v.policy = p /\ p # NoPolicy) \/ (v.clone /\ v.policy = q /\ q # NoPolicy)
           /\ w = Absent \/ (~w.clone /\ w.policy = p /\ p # NoPolicy) \/ (w.clone /\ w.policy = q /\ q # NoPolicy)
           /\ v # Absent /\ w # Absent => v.clone # w.clone /\ p # NoPolicy /\ q # NoPolicy
           /\ v = Absent /\ w = Absent => p = NoPolicy /\ q = NoPolicy
           /\ v = Absent /\ w.clone => p = NoPolicy
           /\ v = Absent /\ ~w.clone => q = NoPolicy
           /\ v.clone \in BOOLEAN /\ w.clone \in BOOLEAN
           /\ v.policy \in Rows /\ w.policy \in Rows
<1>1. /\ EntryOf(p, FALSE) = Absent <=> p = NoPolicy
      /\ EntryOf(p, FALSE).policy = p /\ EntryOf(p, FALSE).clone = FALSE
      /\ EntryOf(q, TRUE) = Absent <=> q = NoPolicy
      /\ EntryOf(q, TRUE).policy = q /\ EntryOf(q, TRUE).clone = (q # NoPolicy)
  BY Zenon, EntryOfFields
<1> QED
  BY Zenon, <1>1 DEF Shown

\* Two entries that are shown are two variants.
LEMMA ShownApart ==
    ASSUME NEW v, NEW w, NEW p \in Rows, NEW q \in Rows, Shown(v, w, p, q), v # Absent, w # Absent
    PROVE  v.clone # w.clone
  BY ShownFacts

\* Two entries are two rows.
LEMMA BothShown ==
    ASSUME NEW v, NEW w, NEW p \in Rows, NEW q \in Rows, Shown(v, w, p, q), v # Absent, w # Absent
    PROVE  p # NoPolicy /\ q # NoPolicy /\ (v.policy = p \/ v.policy = q)
  BY Zenon, ShownFacts

----------------------------------------------------------------------------
\* Steps on one name.

\* A step leaves the records of a name alone.
Same(m) ==
    /\ lists'[m] = lists[m]
    /\ \A c \in BOOLEAN : row'[<<m, c>>] = row[<<m, c>>] /\ state'[<<m, c>>] = state[<<m, c>>]

\* An install state is of one name only.
LEMMA SameOther ==
    ASSUME CloneInv, NEW n \in Names, NEW k, NEW x, lists' = lists, row' = row,
           state' = [state EXCEPT ![<<n, k>>] = x]
    PROVE  \A m \in Names \ {n} : Same(m)
  BY DEF Same, CloneInv, OtherTypes, Keys

----------------------------------------------------------------------------
\* Passes.

\* Parsing gives the other mode's package the flag its naming will find.
LEMMA CrossPassNamed ==
    ASSUME NEW n, NEW p, NEW rest, rest = "none" \/ Diff(p), secondary \in BOOLEAN
    PROVE  LET q == CrossPass(n, p, rest) IN
           /\ NamedInv(q) /\ q.pc = "parsed" /\ q.name = n /\ q.policy = p
           /\ q.who = "ota" /\ q.resolved /\ q.rest = rest
           /\ ~Diff(p) => q.role = "NONE"
<1>1. CASE Diff(p) /\ secondary
  <2> DEFINE q == Pass("parsed", n, p, "PRIMARY", "ota", TRUE, FALSE, rest)
  <2>1. CrossPass(n, p, rest) = q
    BY Zenon, <1>1 DEF CrossPass, Diff
  <2>2. /\ q.pc = "parsed" /\ q.name = n /\ q.policy = p /\ q.role = "PRIMARY"
        /\ q.who = "ota" /\ q.resolved = TRUE /\ q.clone = FALSE /\ q.rest = rest
    BY DEF Pass
  <2> HIDE DEF q
  <2>3. ShouldUseDualModeCloneName(q) = FALSE
    BY <2>2 DEF ShouldUseDualModeCloneName
  <2> QED
    BY Zenon, <1>1, <2>1, <2>2, <2>3 DEF NamedInv
<1>2. CASE Diff(p) /\ ~secondary
  <2> DEFINE q == Pass("parsed", n, p, "SECONDARY", "ota", TRUE, TRUE, rest)
  <2>1. CrossPass(n, p, rest) = q
    BY Zenon, <1>2 DEF CrossPass, Diff
  <2>2. /\ q.pc = "parsed" /\ q.name = n /\ q.policy = p /\ q.role = "SECONDARY"
        /\ q.who = "ota" /\ q.resolved = TRUE /\ q.clone = TRUE /\ q.rest = rest
    BY DEF Pass
  <2> HIDE DEF q
  <2>3. ShouldUseDualModeCloneName(q) = TRUE
    BY <2>2 DEF ShouldUseDualModeCloneName
  <2> QED
    BY Zenon, <1>2, <2>1, <2>2, <2>3 DEF NamedInv
<1>3. CASE ~Diff(p)
  <2> DEFINE q == Pass("parsed", n, p, "NONE", "ota", TRUE, FALSE, rest)
  <2>1. CrossPass(n, p, rest) = q
    BY Zenon, <1>3 DEF CrossPass, Diff
  <2>2. /\ q.pc = "parsed" /\ q.name = n /\ q.policy = p /\ q.role = "NONE"
        /\ q.who = "ota" /\ q.resolved = TRUE /\ q.clone = FALSE /\ q.rest = rest
    BY Zenon DEF Pass
  <2> HIDE DEF q
  <2>3. ShouldUseDualModeCloneName(q) = FALSE
    BY <1>3, <2>2 DEF ShouldUseDualModeCloneName, Diff
  <2> QED
    BY Zenon, <1>3, <2>1, <2>2, <2>3 DEF NamedInv
<1> QED
  BY Zenon, <1>1, <1>2, <1>3

\* So it does for the current mode's package.
LEMMA NormalPassNamed ==
    ASSUME NEW n, NEW p, NEW rest, rest = "none" \/ Diff(p), secondary \in BOOLEAN
    PROVE  LET q == NormalPass(n, p, rest) IN
           /\ NamedInv(q) /\ q.pc = "parsed" /\ q.name = n /\ q.policy = p
           /\ q.who = "ota" /\ ~q.resolved /\ q.rest = rest /\ q.role = "NONE"
<1> DEFINE q == NormalPass(n, p, rest)
<1>1. /\ q.pc = "parsed" /\ q.name = n /\ q.policy = p /\ q.role = "NONE"
      /\ q.who = "ota" /\ q.resolved = FALSE /\ q.rest = rest
      /\ q.clone = (secondary /\ IsDiffPackageCategory(p))
  BY Zenon DEF NormalPass, Pass
<1> HIDE DEF q
<1>2. ShouldUseDualModeCloneName(q) = (secondary /\ IsDiffPackageCategory(p))
  BY Zenon, <1>1 DEF ShouldUseDualModeCloneName
<1> QED
  BY Zenon, <1>1, <1>2 DEF NamedInv, q

\* A pass that the scan of a known or new package begins.
OtaPassOf(q, n, p, rest) ==
    /\ NamedInv(q) /\ q.pc = "parsed" /\ q.name = n /\ q.policy = p
    /\ q.who = "ota" /\ q.rest = rest

\* The last pass of a package, if it is the other mode's.
LEMMA LastCross ==
    ASSUME secondary \in BOOLEAN, NEW n, NEW p
    PROVE  OtaPassOf(CrossPass(n, p, "none"), n, p, "none")
  BY CrossPassNamed DEF OtaPassOf

\* The last pass of a package, if it is the current mode's.
LEMMA LastNormal ==
    ASSUME secondary \in BOOLEAN, NEW n, NEW p
    PROVE  OtaPassOf(NormalPass(n, p, "none"), n, p, "none")
  BY NormalPassNamed DEF OtaPassOf

\* The first pass of two.
LEMMA FirstNormal ==
    ASSUME secondary \in BOOLEAN, NEW n, NEW p, Diff(p)
    PROVE  OtaPassOf(NormalPass(n, p, "CROSS"), n, p, "CROSS")
  BY NormalPassNamed DEF OtaPassOf

\* The side that a pass is meant for.
LEMMA PassRole ==
    ASSUME NEW n, NEW p
    PROVE  /\ NormalPass(n, p, "none").role = "NONE" /\ ~NormalPass(n, p, "none").resolved
           /\ CrossPass(n, p, "none").resolved
           /\ ~Diff(p) => CrossPass(n, p, "none").role = "NONE"
<1>1. NormalPass(n, p, "none").role = "NONE" /\ ~NormalPass(n, p, "none").resolved
  BY Zenon DEF NormalPass, Pass
<1>2. CrossPass(n, p, "none").resolved /\ (~Diff(p) => CrossPass(n, p, "none").role = "NONE")
  BY Zenon DEF CrossPass, Pass, Diff
<1> QED
  BY Zenon, <1>1, <1>2

\* The pass after this one finds what it needs: the rows it leaves behind are
\* of different-package policies, if the package is.
LEMMA NextPassInv ==
    ASSUME CloneInv, NEW t \in Tasks, task[t].pc # "idle", NextPass(t),
           secondary' = secondary, boot' = boot, scanned' = scanned,
           NamedInv(task[t]), WhoInv(task[t]),
           task[t].who # "user" /\ Diff(task[t].policy) =>
              \A c \in BOOLEAN : row'[<<task[t].name, c>>] # NoPolicy => Diff(row'[<<task[t].name, c>>])
    PROVE  /\ TaskInv(task[t])'
           /\ task'[t].pc \in {"idle", "parsed"}
           /\ task'[t].pc # "idle" => task'[t].name = task[t].name /\ task'[t].who = task[t].who
           /\ task'[t].pc # "idle" => task[t].who # "user"
           /\ \A u \in Tasks \ {t} : task'[u] = task[u]
<1> DEFINE r == task[t]
<1>1. r \in GoodPasses /\ r.rest \in Rests /\ secondary \in BOOLEAN
  BY Zenon, TaskFacts, PassFields DEF CloneInv, OtherTypes
<1>2. ASSUME NEW q, task' = [task EXCEPT ![t] = q]
      PROVE  task'[t] = q /\ \A u \in Tasks \ {t} : task'[u] = task[u]
  BY Zenon, <1>2 DEF CloneInv, TasksGood
<1>3. CASE r.rest = "none"
  <2>1. task' = [task EXCEPT ![t] = Idle]
    BY <1>3 DEF NextPass
  <2>2. task'[t].pc = "idle" /\ \A u \in Tasks \ {t} : task'[u] = task[u]
    BY Zenon, <1>2, <2>1, IdleGood
  <2> QED
    BY Zenon, <2>2 DEF TaskInv, StartedInv, NamedInv, ScanInv, WhoInv
<1>4. CASE r.rest # "none"
  <2>1. r.who # "user" /\ Diff(r.policy) /\ boot # "up" /\ r.name \in scanned
    BY Zenon, <1>1, <1>4, PassFields DEF NamedInv, WhoInv
  <2>2. PICK q : /\ task' = [task EXCEPT ![t] = q]
                 /\ NamedInv(q) /\ q.pc = "parsed" /\ q.name = r.name /\ q.policy = r.policy
                 /\ q.who = r.who /\ q.rest = "none"
    <3>1. CASE r.rest = "SECONDARY"
      <4> DEFINE q == Pass("parsed", r.name, r.policy, "SECONDARY", r.who, TRUE, TRUE, "none")
      <4>1. task' = [task EXCEPT ![t] = q]
        BY Zenon, <3>1 DEF NextPass
      <4>2. /\ q.pc = "parsed" /\ q.name = r.name /\ q.policy = r.policy /\ q.role = "SECONDARY"
            /\ q.who = r.who /\ q.clone = TRUE /\ q.rest = "none"
        BY Zenon DEF Pass
      <4> HIDE DEF q
      <4>3. ShouldUseDualModeCloneName(q) = TRUE
        BY Zenon, <4>2 DEF ShouldUseDualModeCloneName
      <4>4. NamedInv(q)
        BY Zenon, <2>1, <4>2, <4>3 DEF NamedInv
      <4> QED
        BY Zenon, <4>1, <4>2, <4>4
    <3>2. CASE r.rest = "CROSS"
      <4>1. task' = [task EXCEPT ![t] = CrossPass(r.name, r.policy, "none")] /\ r.who = "ota"
        BY Zenon, <1>1, <2>1, <3>2, PassFields DEF NextPass, WhoInv
      <4> DEFINE q == CrossPass(r.name, r.policy, "none")
      <4>2. OtaPassOf(q, r.name, r.policy, "none")
        BY Zenon, <1>1, LastCross
      <4> HIDE DEF q
      <4> QED
        BY Zenon, <4>1, <4>2 DEF q, OtaPassOf
    <3>3. CASE r.rest = "NORMAL"
      <4>1. task' = [task EXCEPT ![t] = NormalPass(r.name, r.policy, "none")] /\ r.who = "ota"
        BY Zenon, <1>1, <2>1, <3>3, PassFields DEF NextPass, WhoInv
      <4> DEFINE q == NormalPass(r.name, r.policy, "none")
      <4>2. OtaPassOf(q, r.name, r.policy, "none")
        BY Zenon, <1>1, LastNormal
      <4> HIDE DEF q
      <4> QED
        BY Zenon, <4>1, <4>2 DEF q, OtaPassOf
    <3> QED
      BY Zenon, <1>1, <1>4, <3>1, <3>2, <3>3 DEF Rests
  <2>3. task'[t] = q /\ \A u \in Tasks \ {t} : task'[u] = task[u]
    BY Zenon, <1>2, <2>2
  <2>4. NamedInv(task[t])'
    BY Zenon, <2>2, <2>3 DEF NamedInv, ShouldUseDualModeCloneName
  <2>5. StartedInv(task[t])'
    BY Zenon, <2>2, <2>3 DEF StartedInv
  <2>6. ScanInv(task[t])'
    BY Zenon, <2>1, <2>2, <2>3 DEF ScanInv, Has
  <2>7. WhoInv(task[t])'
    <3>1. /\ task'[t].who = r.who /\ task'[t].name = r.name /\ task'[t].rest = "none"
          /\ boot' # "up" /\ r.name \in scanned'
      BY Zenon, <2>1, <2>2, <2>3
    <3> QED
      BY Zenon, <2>1, <3>1 DEF WhoInv
  <2> QED
    BY Zenon, <2>1, <2>2, <2>3, <2>4, <2>5, <2>6, <2>7 DEF TaskInv
<1> QED
  BY Zenon, <1>3, <1>4

----------------------------------------------------------------------------
\* What holds of a name.

\* Each row has its entry.
LEMMA RowEntry ==
    ASSUME CloneInv, NEW n \in Names, Exact(n), NEW c \in BOOLEAN, Has(n, c)
    PROVE  \E e \in {lists[n].vis, lists[n].tmp} : e # Absent /\ e.clone = c /\ e.policy = row[<<n, c>>]
<1>1. row[<<n, TRUE>>] \in Rows /\ row[<<n, FALSE>>] \in Rows
  BY Zenon DEF CloneInv, RowsGood, Keys
<1>2. EntryOf(row[<<n, c>>], c) \in {lists[n].vis, lists[n].tmp}
  BY Zenon DEF Exact, Shown
<1>3. /\ EntryOf(row[<<n, c>>], c) # Absent /\ EntryOf(row[<<n, c>>], c).clone = c
      /\ EntryOf(row[<<n, c>>], c).policy = row[<<n, c>>]
  BY Zenon, <1>1, EntryOfFields DEF Has
<1> QED
  BY Zenon, <1>2, <1>3

\* Each entry has its row.
LEMMA EntryRow ==
    ASSUME CloneInv, NEW n \in Names, Exact(n), NEW e \in {lists[n].vis, lists[n].tmp}, e # Absent
    PROVE  /\ e.clone \in BOOLEAN /\ Has(n, e.clone) /\ row[<<n, e.clone>>] = e.policy
<1>1. row[<<n, TRUE>>] \in Rows /\ row[<<n, FALSE>>] \in Rows
  BY Zenon DEF CloneInv, RowsGood, Keys
<1>2. PICK c \in BOOLEAN : e = EntryOf(row[<<n, c>>], c)
  BY Zenon DEF Exact, Shown
<1>3. /\ row[<<n, c>>] # NoPolicy /\ e.clone = c /\ e.policy = row[<<n, c>>]
  BY Zenon, <1>1, <1>2, EntryOfFields
<1> QED
  BY <1>3 DEF Has

\* When no installation of a name has started, its states are those of the rows.
LEMMA SettledNow ==
    ASSUME Agree, NEW n \in Names, NEW c \in BOOLEAN, ~Locked(n)
    PROVE  state[<<n, c>>] = IF Has(n, c) THEN "INSTALL_SUCCESS" ELSE "absent"
  BY Zenon DEF Agree, NameInv, Settled, Locked, StartedAt

\* Before the scan treats a name, and after the boot, only users install it.
LEMMA OthersAreUsers ==
    ASSUME Agree, NEW t \in Tasks, NEW n \in Names,
           \/ boot = "up" \/ n \notin scanned
           \/ task[t].pc # "idle" /\ task[t].name = n
    PROVE  \A u \in Tasks \ {t} : task[u].pc # "idle" /\ task[u].name = n => task[u].who = "user"
<1> SUFFICES ASSUME NEW u \in Tasks \ {t}, task[u].pc # "idle", task[u].name = n PROVE task[u].who = "user"
  OBVIOUS
<1>1. CASE task[t].pc # "idle" /\ task[t].name = n
  BY Zenon, <1>1 DEF Agree, Alone
<1>2. CASE boot = "up" \/ n \notin scanned
  BY Zenon, <1>2 DEF Agree, TaskInv, WhoInv
<1> QED
  BY Zenon, <1>1, <1>2

\* A pass that is parsed or named, and what parsing and naming leave alone.
Parsed(q, n) == q.pc \in {"parsed", "named"} /\ q.name = n /\ NamedInv(q)
ParseFrame(n) ==
    /\ lists' = lists /\ row' = row /\ state' = state /\ secondary' = secondary /\ boot' = boot
    /\ scanned \subseteq scanned' /\ (boot = "first" => n \in scanned')

----------------------------------------------------------------------------
\* A package of an OTA whose name is known.

\* UpdateDualPolicy of a name with a visible entry.
LEMMA UpdateVisible ==
    ASSUME CloneInv, Agree, NEW n \in Names, NEW p \in Policies, Diff(p), UpdateDualPolicy(n, p),
           lists[n].vis # Absent
    PROVE  Exact(n)' /\ \A c \in BOOLEAN : row'[<<n, c>>] = IF Has(n, c) THEN p ELSE NoPolicy
<1> DEFINE v == lists[n].vis
           w == lists[n].tmp
           x == WithPolicy(lists[n], p)
           a == row[<<n, FALSE>>]
           b == row[<<n, TRUE>>]
<1>1. Exact(n) /\ Shown(v, w, a, b) /\ a \in Rows /\ b \in Rows
  BY Zenon DEF Agree, NameInv, Exact, CloneInv, RowsGood, Keys
<1>2. ASSUME NEW c \in BOOLEAN PROVE row'[<<n, c>>] = IF Has(n, c) THEN p ELSE NoPolicy
  <2>1. row'[<<n, c>>] = IF \E e \in {v, w} \ {Absent} : e.clone = c THEN p ELSE row[<<n, c>>]
    BY DEF UpdateDualPolicy, RowsWithPolicy, Keys
  <2>2. Has(n, c) => \E e \in {v, w} \ {Absent} : e.clone = c
    BY Zenon, <1>1, RowEntry
  <2>3. (\E e \in {v, w} \ {Absent} : e.clone = c) => Has(n, c)
    BY Zenon, <1>1, EntryRow
  <2> QED
    BY Zenon, <2>1, <2>2, <2>3 DEF Has
<1>3. Shown(x.vis, x.tmp, row'[<<n, FALSE>>], row'[<<n, TRUE>>])
  <2>1. x = Pair(Entry(p, v.clone), IF w = Absent THEN Absent ELSE Entry(p, w.clone))
    BY Zenon DEF WithPolicy
  <2> HIDE DEF x, v, w
  <2>2. x.vis = Entry(p, v.clone) /\ x.tmp = IF w = Absent THEN Absent ELSE Entry(p, w.clone)
    BY <2>1 DEF Pair
  <2> DEFINE a2 == row'[<<n, FALSE>>]
             b2 == row'[<<n, TRUE>>]
  <2>3. /\ a2 = IF a = NoPolicy THEN NoPolicy ELSE p
        /\ b2 = IF b = NoPolicy THEN NoPolicy ELSE p
    BY Zenon, <1>2 DEF Has
  <2> HIDE DEF a, b, a2, b2
  <2>4. v # Absent
    BY DEF v
  <2>5. Shown(Entry(p, v.clone), IF w = Absent THEN Absent ELSE Entry(p, w.clone),
              a2, b2)
    <3>1. /\ EntryOf(a, FALSE) = Absent <=> a = NoPolicy
          /\ EntryOf(a, FALSE).clone = FALSE
          /\ EntryOf(b, TRUE) = Absent <=> b = NoPolicy
          /\ EntryOf(b, TRUE).clone = (b # NoPolicy)
      BY Zenon, <1>1, EntryOfFields
    <3>2. p # NoPolicy
      BY DualModeAssumption DEF NoPolicy
    <3>3. /\ EntryOf(a2, FALSE) = IF a = NoPolicy THEN Absent ELSE Entry(p, FALSE)
          /\ EntryOf(b2, TRUE) = IF b = NoPolicy THEN Absent ELSE Entry(p, TRUE)
      BY Zenon, <2>3, <3>2 DEF EntryOf
    <3>4. CASE v = EntryOf(a, FALSE) /\ w = EntryOf(b, TRUE)
      <4>1. Entry(p, v.clone) = EntryOf(a2, FALSE)
        BY Zenon, <2>4, <3>1, <3>3, <3>4
      <4>2. (IF w = Absent THEN Absent ELSE Entry(p, w.clone)) = EntryOf(b2, TRUE)
        <5>1. w # Absent => w.clone = TRUE
          BY Zenon, <3>1, <3>4
        <5> QED
          BY Zenon, <3>1, <3>3, <3>4, <5>1
      <4> QED
        BY Zenon, <4>1, <4>2 DEF Shown
    <3>5. CASE v = EntryOf(b, TRUE) /\ w = EntryOf(a, FALSE)
      <4>1. Entry(p, v.clone) = EntryOf(b2, TRUE)
        <5>1. v.clone = TRUE
          BY Zenon, <2>4, <3>1, <3>5
        <5> QED
          BY Zenon, <2>4, <3>1, <3>3, <3>5, <5>1
      <4>2. (IF w = Absent THEN Absent ELSE Entry(p, w.clone)) = EntryOf(a2, FALSE)
        BY Zenon, <3>1, <3>3, <3>5
      <4> QED
        BY Zenon, <4>1, <4>2 DEF Shown
    <3> QED
      BY Zenon, <1>1, <3>4, <3>5 DEF Shown
  <2> QED
    BY Zenon, <2>2, <2>5 DEF a2, b2
<1>4. lists'[n] = IF x.tmp = Absent /\ known[<<n, TRUE>>] = "none" /\ secondary THEN Pair(Absent, x.vis) ELSE x
  BY Zenon DEF UpdateDualPolicy, CloneInv, ListsGood
<1> HIDE DEF x
<1>5. Shown(lists'[n].vis, lists'[n].tmp, row'[<<n, FALSE>>], row'[<<n, TRUE>>])
  <2>1. CASE lists'[n] = x
    BY Zenon, <1>3, <2>1
  <2>2. CASE x.tmp = Absent /\ lists'[n] = Pair(Absent, x.vis)
    <3>1. lists'[n].vis = x.tmp /\ lists'[n].tmp = x.vis
      BY <2>2 DEF Pair
    <3> QED
      BY Zenon, <1>3, <3>1, ShownSwapped
  <2> QED
    BY Zenon, <1>4, <2>1, <2>2
<1>6. Fit(row[<<n, FALSE>>], row[<<n, TRUE>>])'
  BY Zenon, <1>2 DEF Fit
<1> QED
  BY Zenon, <1>2, <1>5, <1>6 DEF Exact

\* UpdateDualPolicy of a name without a visible entry.
LEMMA UpdateHidden ==
    ASSUME CloneInv, Agree, NEW n \in Names, NEW p \in Policies, UpdateDualPolicy(n, p),
           lists[n].vis = Absent
    PROVE  lists'[n] = lists[n] /\ \A c \in BOOLEAN : row'[<<n, c>>] = row[<<n, c>>]
<1>1. WithPolicy(lists[n], p) = lists[n]
  BY Zenon DEF WithPolicy
<1>2. lists'[n] = IF lists[n].tmp = Absent /\ known[<<n, TRUE>>] = "none" /\ secondary
                  THEN Pair(Absent, lists[n].vis) ELSE lists[n]
  BY Zenon, <1>1 DEF UpdateDualPolicy, CloneInv, ListsGood
<1>3. lists[n] = Pair(lists[n].vis, lists[n].tmp)
  BY Zenon, PairFields DEF CloneInv, ListsGood
<1> QED
  BY Zenon, <1>2, <1>3 DEF UpdateDualPolicy, RowsWithPolicy, Keys

\* The passes an OTA decides on for a name it knows.
LEMMA OtaKnownTask ==
    ASSUME NEW t \in Tasks, NEW n \in Names, NEW p \in Policies, OtaKnown(t, n, p)
    PROVE  \E q : /\ task' = [task EXCEPT ![t] = q]
                  /\ \/ q = Idle
                     \/ q = NormalPass(n, p, "none")
                     \/ Diff(p) /\ (q = CrossPass(n, p, "NORMAL") \/ q = CrossPass(n, p, "none"))
                     \/ /\ ~Diff(p) /\ q = CrossPass(n, p, "none")
                        /\ ShouldBeHidden(p, secondary) /\ lists[n].tmp # Absent
<1>1. PICK newer \in BOOLEAN, crossNewer \in BOOLEAN, removable \in BOOLEAN :
        task' = [task EXCEPT ![t] =
                IF NeedsCross(n, p, crossNewer)
                THEN CrossPass(n, p, IF NeedsNormal(n, p, newer, removable) THEN "NORMAL" ELSE "none")
                ELSE IF NeedsNormal(n, p, newer, removable) THEN NormalPass(n, p, "none")
                ELSE Idle]
  BY Zenon DEF OtaKnown
<1>2. CASE NeedsCross(n, p, crossNewer) /\ NeedsNormal(n, p, newer, removable)
  <2>1. Diff(p)
    BY Zenon, <1>2 DEF NeedsCross, NeedsNormal, Diff
  <2>2. task' = [task EXCEPT ![t] = CrossPass(n, p, "NORMAL")]
    BY <1>1, <1>2
  <2> QED
    BY Zenon, <2>1, <2>2
<1>3. CASE NeedsCross(n, p, crossNewer) /\ ~NeedsNormal(n, p, newer, removable)
  <2>1. ~Diff(p) => ShouldBeHidden(p, secondary) /\ lists[n].tmp # Absent
    BY Zenon, <1>3 DEF NeedsCross, Diff
  <2>2. task' = [task EXCEPT ![t] = CrossPass(n, p, "none")]
    BY <1>1, <1>3
  <2> QED
    BY Zenon, <2>1, <2>2
<1>4. CASE ~NeedsCross(n, p, crossNewer) /\ NeedsNormal(n, p, newer, removable)
  <2>1. task' = [task EXCEPT ![t] = NormalPass(n, p, "none")]
    BY <1>1, <1>4
  <2> QED
    BY Zenon, <2>1
<1>5. CASE ~NeedsCross(n, p, crossNewer) /\ ~NeedsNormal(n, p, newer, removable)
  <2>1. task' = [task EXCEPT ![t] = Idle]
    BY Zenon, <1>1, <1>5
  <2> QED
    BY Zenon, <2>1
<1> QED
  BY Zenon, <1>2, <1>3, <1>4, <1>5

----------------------------------------------------------------------------
\* The installation of the other mode's package does not fail after its start.
RecordsCovered == "cross" \notin Faults

\* The inductive invariant.
RecordsInv == CloneInv /\ (Orderly => Agree)

----------------------------------------------------------------------------
\* The end of an installation.

\* What the state machine does from the states of a name at rest.
LEMMA AtRest ==
    ASSUME NEW s \in {"absent", "INSTALL_SUCCESS"}
    PROVE  /\ ~Accepts(s, "UPDATING_FAIL")
           /\ Accepts(s, "INSTALL_START") <=> s = "absent"
           /\ Accepts(s, "UPDATING_START") <=> s = "INSTALL_SUCCESS"
           /\ StateAfter(StateAfter(s, "UPDATING_FAIL"), "INSTALL_SUCCESS") = s
           /\ StateAfter(StateAfter(s, "ROLL_BACK"), "INSTALL_SUCCESS") = s
           /\ StateAfter(s, "INSTALL_SUCCESS") = s
  BY Zenon DEF Accepts, StateAfter, transferStates_, IsDeleteDataState

\* What it does from those of a started installation.
LEMMA AtWork ==
    /\ Accepts("INSTALL_START", "UPDATING_FAIL")
    /\ StateAfter(StateAfter("INSTALL_START", "UPDATING_FAIL"), "INSTALL_SUCCESS") = "absent"
    /\ StateAfter("INSTALL_START", "INSTALL_FAIL") = "absent"
    /\ StateAfter("INSTALL_START", "INSTALL_SUCCESS") = "INSTALL_SUCCESS"
    /\ StateAfter(StateAfter("UPDATING_START", "ROLL_BACK"), "INSTALL_SUCCESS") = "INSTALL_SUCCESS"
    /\ StateAfter("UPDATING_SUCCESS", "INSTALL_SUCCESS") = "INSTALL_SUCCESS"
  BY Zenon DEF Accepts, StateAfter, transferStates_, IsDeleteDataState

\* The state that a row calls for.
RestState(p) == IF p # NoPolicy THEN "INSTALL_SUCCESS" ELSE "absent"

\* A pass ends with the records of its name in agreement.
Ended(t, n) ==
    /\ task[t].pc # "idle" /\ NextPass(t) /\ n = task[t].name
    /\ UNCHANGED <<secondary, boot, scanned>>
    /\ \A u \in Tasks \ {t} : ~(task[u].pc = "started" /\ task[u].name = n)
    /\ \A m \in Names \ {n} : Same(m)
    /\ Exact(n)' /\ \A c \in BOOLEAN : state'[<<n, c>>] = RestState(row'[<<n, c>>])
    /\ task[t].who # "user" /\ Diff(task[t].policy) =>
          \A c \in BOOLEAN : Has(n, c)' => Diff(row'[<<n, c>>])

\* What a started installation can count on.
LEMMA StartedFacts ==
    ASSUME CloneInv, Agree, NEW t \in Tasks, task[t].pc = "started"
    PROVE  LET r == task[t] IN
           /\ r.name \in Names /\ r.policy \in Policies /\ r.key \in BOOLEAN /\ r.clone \in BOOLEAN
           /\ r.exist \in BOOLEAN /\ TaskInv(r) /\ Exact(r.name)
           /\ \A u \in Tasks \ {t} : ~(task[u].pc = "started" /\ task[u].name = r.name)
           /\ \A c \in BOOLEAN : c # r.key => state[<<r.name, c>>] = RestState(row[<<r.name, c>>])
           /\ r.who # "user" /\ Diff(r.policy) => \A c \in BOOLEAN : Has(r.name, c) => Diff(row[<<r.name, c>>])
<1> DEFINE r == task[t]
<1>1. /\ r.name \in Names /\ r.policy \in Policies /\ r.key \in BOOLEAN /\ r.clone \in BOOLEAN
      /\ r.exist \in BOOLEAN
  BY Zenon, TaskFacts, PassFields
<1>2. TaskInv(r) /\ NameInv(r.name)
  BY <1>1 DEF Agree
<1>3. \A u \in Tasks \ {t} : ~(task[u].pc = "started" /\ task[u].name = r.name)
  BY DEF Agree, Alone
<1>4. ASSUME NEW c \in BOOLEAN, c # r.key PROVE state[<<r.name, c>>] = RestState(row[<<r.name, c>>])
  <2>1. \A u \in Tasks : ~StartedAt(u, r.name, c)
    BY Zenon, <1>3, <1>4 DEF StartedAt
  <2> QED
    BY <1>2, <2>1 DEF NameInv, Settled, RestState, Has
<1>5. r.who # "user" /\ Diff(r.policy) => \A c \in BOOLEAN : Has(r.name, c) => Diff(row[<<r.name, c>>])
  BY Zenon, <1>2 DEF TaskInv, ScanInv
<1> QED
  BY Zenon, <1>1, <1>2, <1>3, <1>4, <1>5 DEF NameInv

\* A pass ends with the records as they were, but for the state of its key.
Undone(t, n, k) ==
    /\ task[t].pc # "idle" /\ n = task[t].name /\ NextPass(t)
    /\ UNCHANGED <<lists, row, secondary, boot, scanned>>
    /\ \A u \in Tasks \ {t} : ~(task[u].pc = "started" /\ task[u].name = n)
    /\ state' = [state EXCEPT ![<<n, k>>] = RestState(row[<<n, k>>])]
    /\ \A c \in BOOLEAN : c # k => state[<<n, c>>] = RestState(row[<<n, c>>])
    /\ task[t].who # "user" /\ Diff(task[t].policy) =>
          \A c \in BOOLEAN : Has(n, c) => Diff(row[<<n, c>>])

\* FailDirs
LEMMA FailDirsUndone ==
    ASSUME CloneInv, Agree, NEW t \in Tasks, FailDirs(t)
    PROVE  \E n \in Names, k \in BOOLEAN : Undone(t, n, k)
<1> DEFINE r == task[t]
<1>1. /\ r.pc = "started" /\ r.pc # "idle" /\ ~r.exist /\ NextPass(t) /\ lists' = lists /\ row' = row
      /\ secondary' = secondary /\ boot' = boot /\ scanned' = scanned
      /\ state' = [state EXCEPT ![<<r.name, r.key>>] = StateAfter(@, "INSTALL_FAIL")]
  BY Zenon DEF FailDirs
<1>2. PICK n \in Names, k \in BOOLEAN : n = r.name /\ k = r.key
  BY Zenon, <1>1, StartedFacts
<1>3. /\ TaskInv(r)
      /\ \A u \in Tasks \ {t} : ~(task[u].pc = "started" /\ task[u].name = n)
      /\ \A c \in BOOLEAN : c # k => state[<<n, c>>] = RestState(row[<<n, c>>])
      /\ r.who # "user" /\ Diff(r.policy) => \A c \in BOOLEAN : Has(n, c) => Diff(row[<<n, c>>])
  BY Zenon, <1>1, <1>2, StartedFacts
<1>4. state[<<n, k>>] = "INSTALL_START" /\ ~Has(n, k)
  BY Zenon, <1>1, <1>2, <1>3 DEF TaskInv, StartedInv
<1>5. state' = [state EXCEPT ![<<n, k>>] = RestState(row[<<n, k>>])]
  BY Zenon, <1>1, <1>2, <1>4, AtWork DEF RestState, Has
<1>6. Undone(t, n, k)
  BY Zenon, <1>1, <1>2, <1>3, <1>5 DEF Undone
<1> QED
  BY Zenon, <1>2, <1>6

\* Only a package of the current mode can fail late.
LEMMA LateInMode ==
    ASSUME RecordsCovered, NEW r, LateFault(r) \in Faults
    PROVE  ~IsCrossModeInstall(r)
  BY DEF RecordsCovered, LateFault

\* An entry that is put back where it was.
LEMMA PutBack ==
    ASSUME CloneInv, NEW n \in Names, NEW x, x = lists[n]
    PROVE  [lists EXCEPT ![n] = x] = lists
  BY DEF CloneInv, ListsGood

\* A row that was absent stays so when it is deleted.
LEMMA RowGone ==
    ASSUME CloneInv, NEW n \in Names, NEW c \in BOOLEAN, ~Has(n, c)
    PROVE  [row EXCEPT ![<<n, c>>] = NoPolicy] = row
  BY DEF CloneInv, RowsGood, Keys, Has

\* The rollback of a started new bundle whose visible place is x.vis: nothing,
\* or the entry whose row could not be saved.
LEMMA RollBackNewUndone ==
    ASSUME CloneInv, Agree, NEW t \in Tasks, task[t].pc = "started", ~task[t].exist,
           NEW n \in Names, NEW k \in BOOLEAN, n = task[t].name, k = task[t].key,
           lists[n].vis = Absent, NEW x, x.tmp = lists[n].tmp,
           x.vis # Absent => x.vis.clone = k,
           RollBackNew(t, x, state[<<n, k>>]), NextPass(t), UNCHANGED <<secondary, boot, scanned>>
    PROVE  Undone(t, n, k)
<1> DEFINE r == task[t]
<1>1. /\ TaskInv(r)
      /\ \A u \in Tasks \ {t} : ~(task[u].pc = "started" /\ task[u].name = n)
      /\ \A c \in BOOLEAN : c # k => state[<<n, c>>] = RestState(row[<<n, c>>])
      /\ r.who # "user" /\ Diff(r.policy) => \A c \in BOOLEAN : Has(n, c) => Diff(row[<<n, c>>])
  BY Zenon, StartedFacts
<1>2. state[<<n, k>>] = "INSTALL_START" /\ ~Has(n, k)
  BY Zenon, <1>1 DEF TaskInv, StartedInv
<1>3. /\ DeleteBundleInfo(n, x, row)
      /\ state' = [state EXCEPT ![<<n, k>>] = "absent"]
  BY Zenon, <1>2, AtWork DEF RollBackNew
<1>4. lists' = lists
  <2>1. lists[n] = Pair(Absent, x.tmp)
    BY Zenon, PairFields DEF CloneInv, ListsGood
  <2> QED
    BY Zenon, <1>3, <2>1, PutBack DEF DeleteBundleInfo
<1>5. row' = row
  <2>1. CASE x.vis = Absent
    BY <1>3, <2>1 DEF DeleteBundleInfo
  <2>2. CASE x.vis # Absent
    <3>1. row' = [row EXCEPT ![<<n, k>>] = NoPolicy]
      BY Zenon, <1>3, <2>2 DEF DeleteBundleInfo
    <3> QED
      BY Zenon, <1>2, <3>1, RowGone
  <2> QED
    BY Zenon, <2>1, <2>2
<1> QED
  BY Zenon, <1>1, <1>2, <1>3, <1>4, <1>5 DEF Undone, RestState, Has

\* FailLate
LEMMA FailLateUndone ==
    ASSUME CloneInv, Agree, RecordsCovered, NEW t \in Tasks, FailLate(t)
    PROVE  \E n \in Names, k \in BOOLEAN : Undone(t, n, k)
<1> DEFINE r == task[t]
<1>1. /\ r.pc = "started" /\ r.pc # "idle" /\ NextPass(t) /\ ~IsCrossModeInstall(r)
      /\ secondary' = secondary /\ boot' = boot /\ scanned' = scanned
  BY Zenon, LateInMode DEF FailLate
<1>2. PICK n \in Names, k \in BOOLEAN : n = r.name /\ k = r.key
  BY Zenon, <1>1, StartedFacts
<1>3. /\ TaskInv(r)
      /\ \A u \in Tasks \ {t} : ~(task[u].pc = "started" /\ task[u].name = n)
      /\ \A c \in BOOLEAN : c # k => state[<<n, c>>] = RestState(row[<<n, c>>])
      /\ r.who # "user" /\ Diff(r.policy) => \A c \in BOOLEAN : Has(n, c) => Diff(row[<<n, c>>])
  BY Zenon, <1>1, <1>2, StartedFacts
<1>4. Lookup(r) = lists[n].vis
  BY <1>1, <1>2 DEF Lookup
<1>5. CASE r.exist
  <2>1. state[<<n, k>>] = "UPDATING_START" /\ Has(n, k) /\ lists[n].vis # Absent
    BY Zenon, <1>1, <1>2, <1>3, <1>4, <1>5 DEF TaskInv, StartedInv
  <2>2. RollBackExisting(t)
    BY <1>5 DEF FailLate
  <2>3. /\ state' = [state EXCEPT ![<<n, k>>] = RestState(row[<<n, k>>])]
        /\ lists' = lists /\ row' = row
    BY Zenon, <1>2, <2>1, <2>2, AtWork DEF RollBackExisting, RestState, Has
  <2>4. Undone(t, n, k)
    BY Zenon, <1>1, <1>2, <1>3, <2>3 DEF Undone
  <2> QED
    BY Zenon, <1>2, <2>4
<1>6. CASE ~r.exist
  <2>1. lists[n].vis = Absent
    BY Zenon, <1>1, <1>3, <1>4, <1>6 DEF TaskInv, StartedInv
  <2>2. RollBackNew(t, lists[n], state[<<n, k>>])
    BY Zenon, <1>2, <1>6 DEF FailLate
  <2>3. Undone(t, n, k)
    BY <1>1, <1>2, <1>6, <2>1, <2>2, RollBackNewUndone
  <2> QED
    BY Zenon, <1>2, <2>3
<1> QED
  BY Zenon, <1>5, <1>6

\* FailSave: the new entry is taken out again.
LEMMA FailSaveUndone ==
    ASSUME CloneInv, Agree, RecordsCovered, NEW t \in Tasks, FailSave(t)
    PROVE  \E n \in Names, k \in BOOLEAN : Undone(t, n, k)
<1> DEFINE r == task[t]
<1>1. /\ r.pc = "started" /\ ~r.exist /\ NextPass(t) /\ ~IsCrossModeInstall(r)
      /\ secondary' = secondary /\ boot' = boot /\ scanned' = scanned
  BY Zenon, LateInMode DEF FailSave
<1>2. PICK n \in Names, k \in BOOLEAN : n = r.name /\ k = r.key
  BY Zenon, <1>1, StartedFacts
<1>3. Lookup(r) = Absent /\ r.clone = k
  BY Zenon, <1>1, <1>2, StartedFacts DEF TaskInv, StartedInv
<1>4. lists[n].vis = Absent
  BY <1>1, <1>2, <1>3 DEF Lookup
<1>5. PICK x : x = Pair(Entry(r.policy, k), lists[n].tmp)
  OBVIOUS
<1>6. RollBackNew(t, x, state[<<n, k>>])
  BY Zenon, <1>1, <1>2, <1>3, <1>5 DEF FailSave, WithEntry
<1>7. x.tmp = lists[n].tmp /\ x.vis.clone = k
  BY Zenon, <1>5 DEF Pair, Entry
<1>8. Undone(t, n, k)
  BY Zenon, <1>1, <1>2, <1>4, <1>6, <1>7, RollBackNewUndone
<1> QED
  BY Zenon, <1>2, <1>8

----------------------------------------------------------------------------
\* The start of an installation.

\* What a named installation can count on, with the bundle's mutex free.
LEMMA NamedFacts ==
    ASSUME CloneInv, Agree, NEW t \in Tasks, task[t].pc = "named", ~Locked(task[t].name)
    PROVE  LET r == task[t] IN
           /\ r \in Passes /\ r.name \in Names /\ r.policy \in Policies /\ r.key \in BOOLEAN /\ r.clone \in BOOLEAN
           /\ TaskInv(r) /\ Exact(r.name) /\ r.clone = r.key
           /\ \A u \in Tasks : ~(task[u].pc = "started" /\ task[u].name = r.name)
           /\ \A c \in BOOLEAN : state[<<r.name, c>>] = RestState(row[<<r.name, c>>])
           /\ r.who # "user" /\ Diff(r.policy) => \A c \in BOOLEAN : Has(r.name, c) => Diff(row[<<r.name, c>>])
<1> DEFINE r == task[t]
<1>1. /\ r \in Passes /\ r.name \in Names /\ r.policy \in Policies /\ r.key \in BOOLEAN /\ r.clone \in BOOLEAN
  BY Zenon, TaskFacts, PassFields
<1>2. TaskInv(r) /\ Exact(r.name)
  BY Zenon, <1>1 DEF Agree, NameInv
<1>3. r.clone = r.key
  BY Zenon, <1>2 DEF TaskInv, NamedInv
<1>4. \A u \in Tasks : ~(task[u].pc = "started" /\ task[u].name = r.name)
  BY Zenon DEF Locked
<1>5. \A c \in BOOLEAN : state[<<r.name, c>>] = RestState(row[<<r.name, c>>])
  BY Zenon, <1>1, SettledNow DEF RestState, Has
<1>6. r.who # "user" /\ Diff(r.policy) => \A c \in BOOLEAN : Has(r.name, c) => Diff(row[<<r.name, c>>])
  BY <1>2 DEF TaskInv, ScanInv
<1> QED
  BY Zenon, <1>1, <1>2, <1>3, <1>4, <1>5, <1>6

\* A refused start changes no record: from the states at rest the state
\* machine takes none of the rollback's requests.
LEMMA StartRefused ==
    ASSUME CloneInv, Agree, NEW t \in Tasks, task[t].pc = "named", ~Locked(task[t].name),
           NEW n \in Names, NEW k \in BOOLEAN, n = task[t].name, k = task[t].key,
           RollBackNew(t, lists[n], state[<<n, k>>]) \/ RollBackExisting(t),
           NextPass(t), UNCHANGED <<secondary, boot, scanned>>
    PROVE  Undone(t, n, k)
<1> DEFINE r == task[t]
<1>1. /\ \A u \in Tasks : ~(task[u].pc = "started" /\ task[u].name = n)
      /\ \A c \in BOOLEAN : state[<<n, c>>] = RestState(row[<<n, c>>])
      /\ r.who # "user" /\ Diff(r.policy) => \A c \in BOOLEAN : Has(n, c) => Diff(row[<<n, c>>])
  BY Zenon, NamedFacts
<1>2. PICK s \in {"absent", "INSTALL_SUCCESS"} : s = state[<<n, k>>] /\ s = RestState(row[<<n, k>>])
  BY Zenon, <1>1 DEF RestState
<1>3. /\ state' = [state EXCEPT ![<<n, k>>] = s] /\ lists' = lists /\ row' = row
  <2>1. CASE RollBackNew(t, lists[n], state[<<n, k>>])
    <3>1. /\ ~Accepts(s, "UPDATING_FAIL")
          /\ StateAfter(StateAfter(s, "UPDATING_FAIL"), "INSTALL_SUCCESS") = s
      BY Zenon, AtRest
    <3>2. lists' = [lists EXCEPT ![n] = lists[n]] /\ row' = row /\ state' = [state EXCEPT ![<<n, k>>] = s]
      BY Zenon, <1>2, <2>1, <3>1 DEF RollBackNew
    <3> QED
      BY Zenon, <3>2, PutBack
  <2>2. CASE RollBackExisting(t)
    BY Zenon, <1>2, <2>2, AtRest DEF RollBackExisting
  <2> QED
    BY Zenon, <2>1, <2>2
<1> QED
  BY Zenon, <1>1, <1>2, <1>3 DEF Undone

\* An installation that has started can always be stored.
LEMMA Storable ==
    ASSUME CloneInv, Agree, NEW t \in Tasks, task[t].pc = "started"
    PROVE  CanStore(task[t])
<1>1. StartedInv(task[t]) /\ task[t].exist \in BOOLEAN
  BY StartedFacts DEF TaskInv
<1> QED
  BY Zenon, <1>1 DEF StartedInv, CanStore

----------------------------------------------------------------------------
\* The theorems about the records.

\* Once disorderly, always so.
LEMMA OrderlySticky ==
    ASSUME CloneInv, Next, Orderly'
    PROVE  Orderly
<1>1. env' = env \/ ((env.torn => env'.torn) /\ (env.mixed => env'.mixed))
  <2> USE DEF CloneInv, OtherTypes
  <2>1. ASSUME NEW t \in Tasks, NEW n \in Names, NEW p \in Policies,
               Begin(t, n, p) \/ FirstBoot(t, n, p) \/ OtaNew(t, n, p) \/ OtaKnown(t, n, p)
        PROVE  (env.torn => env'.torn) /\ (env.mixed => env'.mixed)
    BY Zenon, <2>1 DEF Begin, FirstBoot, OtaNew, OtaKnown, InstallNoted
  <2>2. ASSUME NEW t \in Tasks, Step(t)
        PROVE  env' = env \/ ((env.torn => env'.torn) /\ (env.mixed => env'.mixed))
    BY Zenon, <2>2 DEF Step, Name, Start, FailDirs, FailLate, FailSave, Finish
  <2>3. ASSUME NEW n \in Names, Uninstall(n) PROVE env' = env
    BY Zenon, <2>3 DEF Uninstall
  <2>4. ASSUME NEW set \in PolicySets, Switch(set) \/ SwitchFails(set)
        PROVE  (env.torn => env'.torn) /\ (env.mixed => env'.mixed)
    BY Zenon, <2>4 DEF Switch, SwitchFails
  <2>5. CASE Flip \/ Reboot
    BY Zenon, <2>5 DEF Flip, Reboot
  <2>6. CASE Publish
    BY Zenon, <2>6 DEF Publish
  <2> QED
    BY <2>1, <2>2, <2>3, <2>4, <2>5, <2>6 DEF Next
<1> QED
  BY Zenon, <1>1 DEF Orderly

\* The empty device agrees with itself.
LEMMA InitRecords == Init => RecordsInv
<1> SUFFICES ASSUME Init PROVE Agree
  BY InitCloneInv DEF RecordsInv
<1>1. ASSUME NEW n \in Names PROVE NameInv(n)
  <2>1. row[<<n, TRUE>>] = NoPolicy /\ row[<<n, FALSE>>] = NoPolicy
    BY Zenon DEF Init, Keys
  <2>2. \A c \in BOOLEAN : state[<<n, c>>] = "absent" /\ ~Has(n, c)
    BY Zenon DEF Init, Keys, Has
  <2>3. lists[n].vis = Absent /\ lists[n].tmp = Absent
    BY DEF Init, Pair
  <2>4. EntryOf(NoPolicy, TRUE) = Absent /\ EntryOf(NoPolicy, FALSE) = Absent
    BY Zenon DEF EntryOf
  <2> QED
    BY Zenon, <2>1, <2>2, <2>3, <2>4 DEF NameInv, Exact, Settled, Shown, Fit
<1>2. \A t \in Tasks : task[t].pc = "idle"
  BY IdleGood DEF Init
<1>3. \A t \in Tasks : TaskInv(task[t])
  BY Zenon, <1>2 DEF TaskInv, StartedInv, NamedInv, ScanInv, WhoInv
<1>4. Alone
  BY Zenon, <1>2 DEF Alone
<1>5. Unscanned
  BY Zenon DEF Init, Unscanned, Has, Keys
<1> QED
  BY <1>1, <1>3, <1>4, <1>5 DEF Agree

\* Every step keeps the invariant.  First what moves entries and rows, then what
\* a step of one thread on one name has to show, then one step per action.
LEMMA NextRecords ==
    ASSUME RecordsCovered, RecordsInv, [Next]_vars
    PROVE  RecordsInv'

\* A new entry takes the place of an absent one, its row being absent.
<1>PutNew.
    ASSUME NEW w, NEW p \in Rows, NEW q \in Rows, NEW a \in Policies, Shown(Absent, w, p, q)
    PROVE  /\ p = NoPolicy => Shown(Entry(a, FALSE), w, a, q)
           /\ q = NoPolicy => Shown(Entry(a, TRUE), w, p, a)
  <2> USE <1>PutNew
  <2>1. /\ EntryOf(p, FALSE) = Absent <=> p = NoPolicy
        /\ EntryOf(q, TRUE) = Absent <=> q = NoPolicy
    BY Zenon, EntryOfFields
  <2>2. a # NoPolicy
    BY DualModeAssumption DEF NoPolicy
  <2>3. EntryOf(a, FALSE) = Entry(a, FALSE) /\ EntryOf(a, TRUE) = Entry(a, TRUE)
    BY <2>2 DEF EntryOf
  <2> QED
    BY Zenon, <2>1, <2>3 DEF Shown

\* An entry is replaced by one of the same variant, with its row.
<1>PutOld.
    ASSUME NEW v, NEW w, NEW p \in Rows, NEW q \in Rows, NEW a \in Policies,
           Shown(v, w, p, q), v # Absent
    PROVE  /\ ~v.clone => Shown(Entry(a, FALSE), w, a, q)
           /\ v.clone => Shown(Entry(a, TRUE), w, p, a)
  <2> USE <1>PutOld
  <2>1. /\ EntryOf(p, FALSE) = Absent <=> p = NoPolicy
        /\ EntryOf(p, FALSE).clone = FALSE
        /\ EntryOf(q, TRUE) = Absent <=> q = NoPolicy
        /\ EntryOf(q, TRUE).clone = (q # NoPolicy)
    BY Zenon, EntryOfFields
  <2>2. a # NoPolicy
    BY DualModeAssumption DEF NoPolicy
  <2>3. EntryOf(a, FALSE) = Entry(a, FALSE) /\ EntryOf(a, TRUE) = Entry(a, TRUE)
    BY <2>2 DEF EntryOf
  <2> QED
    BY Zenon, <2>1, <2>3 DEF Shown

\* An entry is removed with its row.
<1>Drop.
    ASSUME NEW v, NEW w, NEW p \in Rows, NEW q \in Rows, Shown(v, w, p, q), v # Absent
    PROVE  /\ ~v.clone => Shown(Absent, w, NoPolicy, q)
           /\ v.clone => Shown(Absent, w, p, NoPolicy)
  <2> USE <1>Drop
  <2>1. /\ EntryOf(p, FALSE) = Absent <=> p = NoPolicy
        /\ EntryOf(p, FALSE).clone = FALSE
        /\ EntryOf(q, TRUE) = Absent <=> q = NoPolicy
        /\ EntryOf(q, TRUE).clone = (q # NoPolicy)
    BY Zenon, EntryOfFields
  <2>2. EntryOf(NoPolicy, FALSE) = Absent /\ EntryOf(NoPolicy, TRUE) = Absent
    BY Zenon DEF EntryOf
  <2> QED
    BY Zenon, <2>1, <2>2 DEF Shown

\* The migration of a switch moves or swaps the entries.
<1>MigrateShown.
    ASSUME NEW x, NEW set, NEW p, NEW q, Shown(x.vis, x.tmp, p, q)
    PROVE  Shown(Migrate(x, set).vis, Migrate(x, set).tmp, p, q)
  <2> USE <1>MigrateShown
  <2>1. CASE Migrate(x, set) = x
    BY Zenon, <2>1
  <2>2. CASE Migrate(x, set) = Pair(x.tmp, x.vis)
    <3>1. Migrate(x, set).vis = x.tmp /\ Migrate(x, set).tmp = x.vis
      BY <2>2 DEF Pair
    <3> QED
      BY Zenon, <3>1, ShownSwapped
  <2> QED
    BY Zenon, <2>1, <2>2 DEF Migrate

\* So does the placement by the mode, because a single-mode application has
\* no second entry.
<1>ClassifyByDeviceModeShown.
    ASSUME NEW x, NEW sec, NEW p \in Rows, NEW q \in Rows, Shown(x.vis, x.tmp, p, q), Fit(p, q)
    PROVE  LET y == ClassifyByDeviceMode(x, sec) IN Shown(y.vis, y.tmp, p, q)
  <2> USE <1>ClassifyByDeviceModeShown
  <2> DEFINE y == ClassifyByDeviceMode(x, sec)
  <2>1. ~Diff(MAIN_ONLY) /\ ~Diff(SUB_ONLY) /\ NoPolicy # MAIN_ONLY /\ NoPolicy # SUB_ONLY
    BY DEF Diff, IsDiffPackageCategory, MAIN_ONLY, SUB_ONLY, NoPolicy
  <2>2. Absent.policy = NoPolicy
    BY DEF Absent, Entry
  <2>3. ASSUME NEW v, NEW w, Shown(v, w, p, q), v.policy \in {MAIN_ONLY, SUB_ONLY} PROVE w = Absent
    <3>1. v # Absent
      BY Zenon, <2>1, <2>2, <2>3
    <3>2. CASE w # Absent
      <4>1. p # NoPolicy /\ q # NoPolicy /\ (v.policy = p \/ v.policy = q)
        BY Zenon, <2>3, <3>1, <3>2, BothShown
      <4> QED
        BY <2>1, <2>3, <4>1 DEF Fit
    <3> QED
      BY <3>2
  <2>4. CASE ShouldBeHidden(x.vis.policy, sec)
    <3>1. x.tmp = Absent
      BY Zenon, <2>3, <2>4 DEF ShouldBeHidden
    <3>2. y = Pair(Absent, x.vis)
      BY Zenon, <2>4 DEF ClassifyByDeviceMode
    <3>3. y.vis = x.tmp /\ y.tmp = x.vis
      BY <3>1, <3>2 DEF Pair
    <3> QED
      BY Zenon, <3>3, ShownSwapped
  <2>5. CASE ~ShouldBeHidden(x.vis.policy, sec) /\ x.tmp.policy \in {MAIN_ONLY, SUB_ONLY} /\ ~ShouldBeHidden(x.tmp.policy, sec)
    <3>1. x.vis = Absent
      BY Zenon, <2>3, <2>5, ShownSwapped
    <3>2. y = Pair(x.tmp, Absent)
      BY Zenon, <2>5 DEF ClassifyByDeviceMode
    <3>3. y.vis = x.tmp /\ y.tmp = x.vis
      BY <3>1, <3>2 DEF Pair
    <3> QED
      BY Zenon, <3>3, ShownSwapped
  <2>6. CASE y = x
    BY Zenon, <2>6
  <2> QED
    BY Zenon, <2>4, <2>5, <2>6 DEF ClassifyByDeviceMode

\* The boot places what the rows call for.
<1>BootShown.
    ASSUME NEW p \in Rows, NEW q \in Rows, NEW set, NEW sec, Fit(p, q)
    PROVE  LET y == Boot(p, q, set, sec) IN Shown(y.vis, y.tmp, p, q)
  <2> USE <1>BootShown
  <2> DEFINE x0 == Pair(Entry(p, FALSE), Absent)
             x1 == IF set # {} THEN ClassifyByPolicy(x0, set) ELSE x0
             x2 == IF IsDiffPackageCategory(q) THEN Pair(x1.vis, Entry(q, TRUE)) ELSE x1
             x3 == IF sec THEN RestoreSecondary(x2) ELSE x2
  <2>1. Boot(p, q, set, sec) = IF set = {} THEN ClassifyByDeviceMode(x3, sec) ELSE x3
    BY Zenon DEF Boot
  <2>2. Entry(p, FALSE) = EntryOf(p, FALSE)
    BY Zenon DEF EntryOf, Absent
  <2>3. x0.vis = EntryOf(p, FALSE) /\ x0.tmp = Absent
    BY Zenon, <2>2 DEF Pair
  <2>4. ~Diff(NoPolicy)
    BY DEF Diff, IsDiffPackageCategory, NoPolicy
  <2>5. EntryOf(p, FALSE).policy = p /\ EntryOf(p, FALSE).clone = FALSE /\ EntryOf(NoPolicy, TRUE) = Absent
    BY Zenon, EntryOfFields DEF EntryOf
  <2> HIDE DEF x0
  <2>6. \/ x1.vis = EntryOf(p, FALSE) /\ x1.tmp = Absent
        \/ x1.vis = Absent /\ x1.tmp = EntryOf(p, FALSE) /\ ~Diff(p) /\ p # NoPolicy
    <3>1. x1 = x0 \/ (x1 = Pair(Absent, x0.vis) /\ x0.vis # Absent /\ ~Diff(x0.vis.policy))
      BY DEF ClassifyByPolicy, Diff
    <3>2. p = NoPolicy => EntryOf(p, FALSE) = Absent
      BY DEF EntryOf
    <3>3. Pair(Absent, x0.vis).vis = Absent /\ Pair(Absent, x0.vis).tmp = x0.vis
      BY DEF Pair
    <3> HIDE DEF x1
    <3> QED
      BY Zenon, <2>3, <2>5, <3>1, <3>2, <3>3
  <2> HIDE DEF x1
  <2>7. \/ x2.vis = EntryOf(p, FALSE) /\ x2.tmp = EntryOf(q, TRUE)
        \/ x2.vis = EntryOf(q, TRUE) /\ x2.tmp = EntryOf(p, FALSE) /\ q = NoPolicy /\ ~Diff(p)
    <3>1. CASE Diff(q)
      <4>1. q # NoPolicy /\ (p # NoPolicy => Diff(p))
        BY Zenon, <2>4, <3>1 DEF Fit
      <4>2. x1.vis = EntryOf(p, FALSE)
        BY Zenon, <2>6, <4>1
      <4>3. x2 = Pair(x1.vis, Entry(q, TRUE))
        BY Zenon, <3>1 DEF Diff
      <4> HIDE DEF x2
      <4>4. x2.vis = x1.vis /\ x2.tmp = Entry(q, TRUE)
        BY <4>3 DEF Pair
      <4> QED
        BY Zenon, <4>1, <4>2, <4>4 DEF EntryOf
    <3>2. CASE ~Diff(q)
      <4>1. q = NoPolicy
        BY <3>2 DEF Fit
      <4>2. x2 = x1
        BY <3>2 DEF Diff
      <4> HIDE DEF x2
      <4> QED
        BY Zenon, <2>5, <2>6, <4>1, <4>2
    <3> QED
      BY Zenon, <3>1, <3>2
  <2> HIDE DEF x2
  <2>8. Shown(x3.vis, x3.tmp, p, q)
    <3>1. CASE ~sec
      BY Zenon, <2>7, <3>1 DEF Shown
    <3>2. CASE sec
      <4> DEFINE y == IF IsDiffPackageCategory(x2.tmp.policy) THEN Pair(x2.tmp, x2.vis) ELSE x2
      <4>1. x3 = IF IsDiffPackageCategory(y.vis.policy) /\ ~y.vis.clone THEN Pair(Absent, y.vis) ELSE y
        BY <3>2 DEF RestoreSecondary
      <4>2. EntryOf(q, TRUE).policy = q /\ EntryOf(q, TRUE).clone = (q # NoPolicy)
            /\ (EntryOf(q, TRUE) = Absent <=> q = NoPolicy)
        BY Zenon, EntryOfFields
      <4>3. q # NoPolicy => Diff(q)
        BY DEF Fit
      <4>4. CASE x2.vis = EntryOf(p, FALSE) /\ x2.tmp = EntryOf(q, TRUE) /\ q # NoPolicy
        <5>1. y = Pair(x2.tmp, x2.vis)
          BY Zenon, <4>2, <4>3, <4>4 DEF Diff
        <5> HIDE DEF y
        <5>2. y.vis = EntryOf(q, TRUE) /\ y.tmp = EntryOf(p, FALSE)
          BY Zenon, <4>4, <5>1 DEF Pair
        <5>3. x3 = y
          BY Zenon, <4>1, <4>2, <4>4, <5>2
        <5> QED
          BY Zenon, <5>2, <5>3 DEF Shown
      <4>5. CASE x2.vis = EntryOf(p, FALSE) /\ x2.tmp = EntryOf(q, TRUE) /\ q = NoPolicy
        <5>1. y = x2
          BY Zenon, <2>4, <4>2, <4>5 DEF Diff
        <5> HIDE DEF y
        <5>2. CASE x3 = y
          BY Zenon, <4>5, <5>1, <5>2 DEF Shown
        <5>3. CASE x3 = Pair(Absent, y.vis)
          <6>1. x3.vis = Absent /\ x3.tmp = y.vis
            BY <5>3 DEF Pair
          <6> QED
            BY Zenon, <4>2, <4>5, <5>1, <6>1 DEF Shown
        <5> QED
          BY <4>1, <5>2, <5>3
      <4>6. CASE x2.vis = EntryOf(q, TRUE) /\ x2.tmp = EntryOf(p, FALSE) /\ q = NoPolicy /\ ~Diff(p)
        <5>1. y = x2
          BY Zenon, <2>5, <4>6 DEF Diff
        <5>2. x3 = y
          BY Zenon, <2>4, <4>1, <4>2, <4>6, <5>1 DEF Diff
        <5> HIDE DEF y
        <5> QED
          BY Zenon, <4>6, <5>1, <5>2 DEF Shown
      <4> QED
        BY Zenon, <2>7, <4>4, <4>5, <4>6
    <3> QED
      BY <3>1, <3>2
  <2> HIDE DEF x3
  <2> QED
    BY Zenon, <2>1, <2>8, <1>ClassifyByDeviceModeShown

\* A name whose records and started installations stay is as before.
<1>OtherName.
    ASSUME NEW m, NameInv(m), Same(m),
           \A u \in Tasks, c \in BOOLEAN : StartedAt(u, m, c)' <=> StartedAt(u, m, c)
    PROVE  NameInv(m)'
  <2> USE <1>OtherName
  <2>1. /\ lists'[m] = lists[m]
        /\ row'[<<m, TRUE>>] = row[<<m, TRUE>>] /\ row'[<<m, FALSE>>] = row[<<m, FALSE>>]
    BY Zenon DEF Same
  <2>2. Exact(m)'
    BY Zenon, <2>1 DEF NameInv, Exact, Shown, Fit, EntryOf
  <2>3. ASSUME NEW c \in BOOLEAN PROVE Settled(m, c)'
    <3>1. row'[<<m, c>>] = row[<<m, c>>] /\ state'[<<m, c>>] = state[<<m, c>>]
      BY DEF Same
    <3>2. Settled(m, c)
      BY Zenon DEF NameInv
    <3> QED
      BY Zenon, <3>1, <3>2 DEF Settled, Has
  <2> QED
    BY <2>2, <2>3 DEF NameInv

\* An installation by another thread goes on as before, if it has not started
\* and is a user's, or if the records of its name stay.
<1>OtherTask.
    ASSUME NEW u \in Tasks, TaskInv(task[u]), task'[u] = task[u],
           secondary' = secondary, boot' = boot, scanned \subseteq scanned',
           \/ task[u].pc = "idle"
           \/ task[u].pc # "started" /\ task[u].who = "user"
           \/ task[u].key \in BOOLEAN /\ Same(task[u].name)
    PROVE  TaskInv(task[u])'
  <2> USE <1>OtherTask
  <2> DEFINE r == task[u]
  <2>1. r' = r
    OBVIOUS
  <2>2. NamedInv(r)'
    BY Zenon, <2>1 DEF TaskInv, NamedInv, ShouldUseDualModeCloneName
  <2>3. WhoInv(r)'
    BY Zenon, <2>1 DEF TaskInv, WhoInv
  <2>4. CASE r.pc = "idle" \/ (r.pc # "started" /\ r.who = "user")
    BY Zenon, <2>1, <2>2, <2>3, <2>4 DEF TaskInv, StartedInv, ScanInv
  <2>5. CASE r.key \in BOOLEAN /\ Same(r.name)
    <3>1. /\ lists'[r.name] = lists[r.name] /\ state'[<<r.name, r.key>>] = state[<<r.name, r.key>>]
          /\ \A c \in BOOLEAN : row'[<<r.name, c>>] = row[<<r.name, c>>]
          /\ row'[<<r.name, r.key>>] = row[<<r.name, r.key>>]
      BY Zenon, <2>5 DEF Same
    <3>2. Lookup(r)' = Lookup(r)
      BY Zenon, <2>1, <3>1 DEF Lookup, IsCrossModeInstall
    <3> HIDE DEF r
    <3>3. StartedInv(r)'
      BY Zenon, <2>1, <3>1, <3>2 DEF TaskInv, StartedInv, Has, r
    <3>4. ScanInv(r)'
      BY Zenon, <2>1, <3>1, <3>2 DEF TaskInv, ScanInv, Has, r
    <3> QED
      BY Zenon, <2>2, <2>3, <3>3, <3>4 DEF TaskInv, r
  <2> QED
    BY Zenon, <2>4, <2>5

\* What a step of one thread on one name has to show.
<1>LocalStep.
    ASSUME CloneInv, Agree, NEW t \in Tasks, NEW n \in Names,
           \A u \in Tasks \ {t} : task'[u] = task[u],
           secondary' = secondary, boot' = boot, scanned \subseteq scanned',
           \A m \in Names \ {n} : Same(m),
           task[t].pc = "idle" \/ task[t].name = n,
           (task[t].pc = "idle" \/ task[t].name = n)',
           NameInv(n)', TaskInv(task[t])',
           \A u \in Tasks \ {t} : task[u].pc # "idle" /\ task[u].name = n =>
              /\ task[u].who = "user"
              /\ task'[t].pc # "idle" => task'[t].who = "user"
              /\ task[u].pc = "started" => task'[t].pc # "started" /\ Same(n),
           boot = "first" => n \in scanned'
    PROVE  Agree'
  <2> USE <1>LocalStep
  <2>1. ASSUME NEW m \in Names PROVE NameInv(m)'
    <3>1. CASE m # n
      <4>1. ASSUME NEW u \in Tasks, NEW c \in BOOLEAN PROVE StartedAt(u, m, c)' <=> StartedAt(u, m, c)
        <5>1. CASE u = t
          BY Zenon, <3>1, <5>1 DEF StartedAt
        <5>2. CASE u # t
          BY Zenon, <5>2 DEF StartedAt
        <5> QED
          BY Zenon, <5>1, <5>2
      <4> QED
        BY Zenon, <3>1, <4>1, <1>OtherName DEF Agree
    <3> QED
      BY Zenon, <3>1
  <2>2. ASSUME NEW u \in Tasks PROVE TaskInv(task[u])'
    <3>1. CASE u # t
      <4>1. TaskInv(task[u]) /\ task'[u] = task[u]
        BY <3>1 DEF Agree
      <4>2. task[u].pc # "idle" => task[u].name \in Names /\ task[u].key \in BOOLEAN
        BY Zenon, TaskFacts
      <4>3. \/ task[u].pc = "idle"
            \/ task[u].pc # "started" /\ task[u].who = "user"
            \/ task[u].key \in BOOLEAN /\ Same(task[u].name)
        BY Zenon, <3>1, <4>2
      <4> QED
        BY Zenon, <4>1, <4>3, <1>OtherTask
    <3> QED
      BY <3>1
  <2>3. Alone'
    <3> SUFFICES ASSUME NEW v \in Tasks, NEW u \in Tasks, v # u, task'[v].pc # "idle", task'[u].pc # "idle",
                        task'[v].name = task'[u].name
                 PROVE  task'[v].who = "user" /\ (task'[v].pc = "started" => task'[u].pc # "started")
      BY Zenon DEF Alone
    <3>1. CASE v # t /\ u # t
      BY Zenon, <3>1 DEF Agree, Alone
    <3>2. CASE v = t
      BY <3>2
    <3>3. CASE u = t
      BY Zenon, <3>3
    <3> QED
      BY Zenon, <3>1, <3>2, <3>3
  <2>4. Unscanned'
    <3> SUFFICES ASSUME boot = "first", NEW m \in Names \ scanned', NEW c \in BOOLEAN PROVE ~Has(m, c)'
      BY Zenon DEF Unscanned
    <3>1. m \in Names \ scanned /\ Same(m)
      BY Zenon
    <3>2. ~Has(m, c)
      BY Zenon, <3>1 DEF Agree, Unscanned
    <3> QED
      BY Zenon, <3>1, <3>2 DEF Has, Same
  <2> QED
    BY Zenon, <2>1, <2>2, <2>3, <2>4 DEF Agree

\* The other mode's pass of an OTA is the first of two.
<1>FirstCross.
    ASSUME secondary \in BOOLEAN, NEW n, NEW p, Diff(p)
    PROVE  OtaPassOf(CrossPass(n, p, "NORMAL"), n, p, "NORMAL")
    BY <1>FirstCross, CrossPassNamed DEF OtaPassOf

\* A step before an installation starts, which only the threads see.
<1>ParseStep.
    ASSUME CloneInv, Agree, NEW t \in Tasks, NEW n \in Names, NEW q,
           task' = [task EXCEPT ![t] = q],
           task[t].pc = "idle" \/ task[t].name = n, task[t].pc # "started",
           Parsed(q, n), ParseFrame(n), ScanInv(q)', WhoInv(q)',
           \A u \in Tasks \ {t} : task[u].pc # "idle" /\ task[u].name = n => task[u].who = "user" /\ q.who = "user"
    PROVE  Agree'
  <2> USE <1>ParseStep
  <2> USE DEF Parsed, ParseFrame
  <2>1. task'[t] = q /\ \A u \in Tasks \ {t} : task'[u] = task[u]
    BY Zenon DEF CloneInv, TasksGood
  <2>2. \A m \in Names : Same(m)
    BY Zenon DEF Same
  <2>3. \A u \in Tasks, c \in BOOLEAN : StartedAt(u, n, c)' <=> StartedAt(u, n, c)
    BY Zenon, <2>1 DEF StartedAt
  <2>4. NameInv(n)'
    BY Zenon, <2>2, <2>3, <1>OtherName DEF Agree
  <2>5. NamedInv(task[t])'
    BY Zenon, <2>1 DEF NamedInv, ShouldUseDualModeCloneName
  <2>6. StartedInv(task[t])'
    BY Zenon, <2>1 DEF StartedInv
  <2>7. TaskInv(task[t])'
    <3>1. ScanInv(task[t])'
      BY Zenon, <2>1 DEF ScanInv, Lookup, IsCrossModeInstall, Has
    <3>2. WhoInv(task[t])'
      BY Zenon, <2>1 DEF WhoInv
    <3> QED
      BY Zenon, <2>5, <2>6, <3>1, <3>2 DEF TaskInv
  <2> QED
    BY Zenon, <2>1, <2>2, <2>4, <2>7, <1>LocalStep

\* Begin
<1>BeginAgree.
    ASSUME CloneInv, Agree, NEW t \in Tasks, NEW n \in Names, NEW p \in Policies, Begin(t, n, p)
    PROVE  Agree'
  <2> USE <1>BeginAgree
  <2> DEFINE q == Pass("parsed", n, p, "NONE", "user", FALSE, secondary /\ IsDiffPackageCategory(p), "none")
  <2>1. /\ q.pc = "parsed" /\ q.name = n /\ q.policy = p /\ q.role = "NONE" /\ q.who = "user"
        /\ q.resolved = FALSE /\ q.clone = (secondary /\ IsDiffPackageCategory(p)) /\ q.rest = "none"
    BY Zenon DEF Pass
  <2>2. task' = [task EXCEPT ![t] = q] /\ task[t].pc = "idle" /\ boot = "up" /\ boot' = "up"
    BY IdleGood DEF Begin
  <2> HIDE DEF q
  <2>3. ShouldUseDualModeCloneName(q) = (secondary /\ IsDiffPackageCategory(p))
    BY Zenon, <2>1 DEF ShouldUseDualModeCloneName
  <2>4. NamedInv(q)
    BY Zenon, <2>1, <2>3 DEF NamedInv
  <2>5. PICK q0 : q0 = q
    OBVIOUS
  <2>6. ScanInv(q0)' /\ WhoInv(q0)'
    BY Zenon, <2>1, <2>2, <2>5 DEF ScanInv, WhoInv
  <2>7. \A u \in Tasks \ {t} : task[u].pc # "idle" /\ task[u].name = n => task[u].who = "user" /\ q0.who = "user"
    BY <2>1, <2>2, <2>5, OthersAreUsers
  <2>8. /\ task' = [task EXCEPT ![t] = q0]
        /\ task[t].pc = "idle" \/ task[t].name = n
        /\ task[t].pc # "started"
        /\ Parsed(q0, n) /\ ParseFrame(n)
    BY Zenon, <2>1, <2>2, <2>4, <2>5 DEF Begin, Parsed, ParseFrame
  <2> QED
    BY Zenon, <2>6, <2>7, <2>8, <1>ParseStep

\* Name: the effective name agrees with the flag that parsing gave.
<1>NameAgree.
    ASSUME CloneInv, Agree, NEW t \in Tasks, Name(t)
    PROVE  Agree'
  <2> USE <1>NameAgree
  <2> DEFINE r == task[t]
             q == [[task[t] EXCEPT !.pc = "named"] EXCEPT !.key = ShouldUseDualModeCloneName(task[t])]
  <2>1. r.pc = "parsed" /\ r \in Passes /\ r.name \in Names
    BY Zenon, TaskFacts, PassFields DEF Name
  <2>2. /\ q.pc = "named" /\ q.name = r.name /\ q.policy = r.policy /\ q.role = r.role /\ q.who = r.who
        /\ q.resolved = r.resolved /\ q.clone = r.clone /\ q.rest = r.rest
        /\ q.key = ShouldUseDualModeCloneName(r)
    BY Zenon, <2>1 DEF Passes
  <2>3. task' = [task EXCEPT ![t] = q] /\ TaskInv(r)
    BY DEF Name, Agree
  <2> HIDE DEF q
  <2>4. ShouldUseDualModeCloneName(q) = ShouldUseDualModeCloneName(r)
    BY Zenon, <2>2 DEF ShouldUseDualModeCloneName
  <2>5. NamedInv(q)
    BY Zenon, <2>1, <2>2, <2>3, <2>4 DEF NamedInv, TaskInv
  <2>6. PICK q0 : q0 = q
    OBVIOUS
  <2>7. ScanInv(q0)' /\ WhoInv(q0)'
    <3>1. ScanInv(r) /\ WhoInv(r)
      BY <2>3 DEF TaskInv
    <3>2. lists' = lists /\ row' = row /\ secondary' = secondary /\ boot' = boot /\ scanned' = scanned
      BY DEF Name
    <3>3. Lookup(q0)' = Lookup(r)
      BY Zenon, <2>2, <2>6, <3>2 DEF Lookup, IsCrossModeInstall
    <3>4. ScanInv(q0)'
      BY Zenon, <2>1, <2>2, <2>6, <3>1, <3>2, <3>3 DEF ScanInv, Has
    <3>5. WhoInv(q0)'
      BY Zenon, <2>1, <2>2, <2>6, <3>1, <3>2 DEF WhoInv
    <3> QED
      BY <3>4, <3>5
  <2>8. \A u \in Tasks \ {t} : task[u].pc # "idle" /\ task[u].name = r.name => task[u].who = "user" /\ q0.who = "user"
    BY Zenon, <2>1, <2>2, <2>6 DEF Agree, Alone
  <2>9. boot = "first" => r.name \in scanned
    BY <2>1, <2>3 DEF TaskInv, WhoInv
  <2>10. /\ task' = [task EXCEPT ![t] = q0]
         /\ task[t].pc = "idle" \/ task[t].name = r.name
         /\ task[t].pc # "started"
         /\ Parsed(q0, r.name) /\ ParseFrame(r.name)
    BY Zenon, <2>1, <2>2, <2>3, <2>5, <2>6, <2>9 DEF Name, Parsed, ParseFrame
  <2> QED
    BY Zenon, <2>1, <2>7, <2>8, <2>10, <1>ParseStep

\* A step of the scan, on a name it had not treated: nobody else is at it.
<1>ScanStep.
    ASSUME CloneInv, Agree, NEW t \in Tasks, NEW n \in Names, NEW q,
           task' = [task EXCEPT ![t] = q], task[t].pc = "idle",
           boot # "up", boot' = boot, n \notin scanned, scanned' = scanned \union {n},
           secondary' = secondary, \A m \in Names \ {n} : Same(m), NameInv(n)',
           \/ q.pc = "idle"
           \/ /\ q.pc = "parsed" /\ q.name = n /\ NamedInv(q) /\ ScanInv(q)'
              /\ \/ q.who = "first" /\ q.rest \in {"none", "SECONDARY"}
                 \/ q.who = "ota" /\ q.rest # "SECONDARY"
    PROVE  Agree'
  <2> USE <1>ScanStep
  <2>1. task'[t] = q /\ \A u \in Tasks \ {t} : task'[u] = task[u]
    BY Zenon DEF CloneInv, TasksGood
  <2>2. ASSUME NEW u \in Tasks \ {t}, task[u].pc # "idle", task[u].name = n PROVE FALSE
    BY Zenon, <2>2 DEF Agree, TaskInv, WhoInv
  <2>3. TaskInv(task[t])'
    <3>1. CASE q.pc = "idle"
      BY Zenon, <2>1, <3>1 DEF TaskInv, StartedInv, NamedInv, ScanInv, WhoInv
    <3>2. CASE q.pc = "parsed" /\ q.name = n /\ NamedInv(q) /\ ScanInv(q)'
                /\ (\/ q.who = "first" /\ q.rest \in {"none", "SECONDARY"}
                    \/ q.who = "ota" /\ q.rest # "SECONDARY")
      <4>1. NamedInv(task[t])'
        BY Zenon, <2>1, <3>2 DEF NamedInv, ShouldUseDualModeCloneName
      <4>2. StartedInv(task[t])'
        BY Zenon, <2>1, <3>2 DEF StartedInv
      <4>3. ScanInv(task[t])'
        BY Zenon, <2>1, <3>2 DEF ScanInv, Lookup, IsCrossModeInstall, Has
      <4>4. WhoInv(task[t])'
        <5>0. /\ task'[t].who = q.who /\ task'[t].rest = q.rest /\ task'[t].name \in scanned'
              /\ boot' # "up"
          <6>1. n \in scanned' /\ boot' # "up"
            BY Zenon
          <6> QED
            BY Zenon, <2>1, <3>2, <6>1
        <5>1. CASE q.who = "first" /\ q.rest \in {"none", "SECONDARY"}
          BY Zenon, <5>0, <5>1 DEF WhoInv
        <5>2. CASE q.who = "ota" /\ q.rest # "SECONDARY"
          BY Zenon, <5>0, <5>2 DEF WhoInv
        <5> QED
          BY Zenon, <3>2, <5>1, <5>2
      <4> QED
        BY Zenon, <4>1, <4>2, <4>3, <4>4 DEF TaskInv
    <3> QED
      BY Zenon, <3>1, <3>2
  <2>4. /\ (task[t].pc = "idle" \/ task[t].name = n)'
        /\ scanned \subseteq scanned' /\ n \in scanned'
    BY Zenon, <2>1
  <2>5. \A u \in Tasks \ {t} : task[u].pc # "idle" /\ task[u].name = n =>
                /\ task[u].who = "user"
                /\ task'[t].pc # "idle" => task'[t].who = "user"
                /\ task[u].pc = "started" => task'[t].pc # "started" /\ Same(n)
    BY <2>2
  <2> QED
    BY Zenon, <2>1, <2>3, <2>4, <2>5, <1>LocalStep

\* A name whose records a scan leaves alone.
<1>ScanKeeps.
    ASSUME CloneInv, Agree, NEW t \in Tasks, NEW n \in Names, NEW q,
           task' = [task EXCEPT ![t] = q], task[t].pc = "idle", q.pc # "started",
           lists' = lists, row' = row, state' = state
    PROVE  NameInv(n)' /\ \A m \in Names \ {n} : Same(m)
  <2> USE <1>ScanKeeps
  <2>1. task'[t] = q /\ \A u \in Tasks \ {t} : task'[u] = task[u]
    BY Zenon DEF CloneInv, TasksGood
  <2>2. \A m \in Names : Same(m)
    BY Zenon DEF Same
  <2>3. \A u \in Tasks, c \in BOOLEAN : StartedAt(u, n, c)' <=> StartedAt(u, n, c)
    BY Zenon, <2>1 DEF StartedAt
  <2>4. NameInv(n)'
    BY Zenon, <2>2, <2>3, <1>OtherName DEF Agree
  <2> QED
    BY Zenon, <2>2, <2>4

\* FirstBoot: the name has no rows yet.
<1>FirstBootAgree.
    ASSUME CloneInv, Agree, NEW t \in Tasks, NEW n \in Names, NEW p \in Policies, FirstBoot(t, n, p)
    PROVE  Agree'
  <2> USE <1>FirstBootAgree
  <2> DEFINE q1 == Pass("parsed", n, p, "PRIMARY", "first", TRUE, FALSE, "SECONDARY")
             q2 == Pass("parsed", n, p, "NONE", "first", TRUE, FALSE, "none")
  <2>1. /\ boot = "first" /\ boot' = boot /\ n \notin scanned /\ scanned' = scanned \union {n}
        /\ secondary' = secondary /\ lists' = lists /\ row' = row /\ state' = state
        /\ task[t].pc = "idle"
    BY IdleGood DEF FirstBoot, Scan
  <2>2. ~Has(n, TRUE) /\ ~Has(n, FALSE)
    BY Zenon, <2>1 DEF Agree, Unscanned
  <2>3. PICK q : /\ task' = [task EXCEPT ![t] = q] /\ q.pc = "parsed" /\ q.name = n /\ NamedInv(q)
                 /\ q.who = "first" /\ q.rest \in {"none", "SECONDARY"}
    <3>1. CASE Diff(p)
      <4>1. task' = [task EXCEPT ![t] = q1]
        BY Zenon, <3>1 DEF FirstBoot, FirstPass, Diff
      <4>2. /\ q1.pc = "parsed" /\ q1.name = n /\ q1.policy = p /\ q1.role = "PRIMARY"
            /\ q1.who = "first" /\ q1.clone = FALSE /\ q1.rest = "SECONDARY"
        BY Zenon DEF Pass
      <4> HIDE DEF q1
      <4>3. ShouldUseDualModeCloneName(q1) = FALSE
        BY <4>2 DEF ShouldUseDualModeCloneName
      <4>4. NamedInv(q1)
        BY Zenon, <3>1, <4>2, <4>3 DEF NamedInv
      <4> QED
        BY Zenon, <4>1, <4>2, <4>4
    <3>2. CASE ~Diff(p)
      <4>1. task' = [task EXCEPT ![t] = q2]
        BY Zenon, <3>2 DEF FirstBoot, FirstPass, Diff
      <4>2. /\ q2.pc = "parsed" /\ q2.name = n /\ q2.policy = p /\ q2.role = "NONE"
            /\ q2.who = "first" /\ q2.clone = FALSE /\ q2.rest = "none"
        BY Zenon DEF Pass
      <4> HIDE DEF q2
      <4>3. ShouldUseDualModeCloneName(q2) = FALSE
        BY <3>2, <4>2 DEF ShouldUseDualModeCloneName, Diff
      <4>4. NamedInv(q2)
        BY Zenon, <4>2, <4>3 DEF NamedInv
      <4> QED
        BY Zenon, <4>1, <4>2, <4>4
    <3> QED
      BY <3>1, <3>2
  <2>4. ScanInv(q)'
    BY Zenon, <2>1, <2>2, <2>3 DEF ScanInv, Has
  <2>5. NameInv(n)' /\ \A m \in Names \ {n} : Same(m)
    BY Zenon, <2>1, <2>3, <1>ScanKeeps
  <2>6. boot # "up"
    BY Zenon, <2>1
  <2> QED
    BY Zenon, <2>1, <2>3, <2>4, <2>5, <2>6, <1>ScanStep

\* OtaNew: what a user has of the name is of the same policy.
<1>OtaNewAgree.
    ASSUME CloneInv, Agree, NEW t \in Tasks, NEW n \in Names, NEW p \in Policies, OtaNew(t, n, p), Orderly'
    PROVE  Agree'
  <2> USE <1>OtaNewAgree
  <2>1. /\ boot = "later" /\ boot' = boot /\ n \notin scanned /\ scanned' = scanned \union {n}
        /\ secondary' = secondary /\ lists' = lists /\ row' = row /\ state' = state
        /\ task[t].pc = "idle" /\ secondary \in BOOLEAN
    BY IdleGood DEF OtaNew, Scan, CloneInv, OtherTypes
  <2>2. ~Clashes(n, p)
    BY Zenon DEF OtaNew, Orderly, CloneInv, OtherTypes
  <2>3. \A c \in BOOLEAN : Has(n, c) => row[<<n, c>>] = p
    <3> SUFFICES ASSUME NEW c \in BOOLEAN, Has(n, c) PROVE row[<<n, c>>] = p
      BY Zenon
    <3>1. PICK e \in {lists[n].vis, lists[n].tmp} : e # Absent /\ e.clone = c /\ e.policy = row[<<n, c>>]
      BY Zenon, RowEntry DEF Agree, NameInv
    <3> QED
      BY Zenon, <2>2, <3>1 DEF Clashes
  <2>4. PICK q : /\ task' = [task EXCEPT ![t] = q] /\ q.pc = "parsed" /\ q.name = n /\ q.policy = p /\ NamedInv(q)
                 /\ q.who = "ota" /\ q.rest # "SECONDARY"
    <3>1. PICK q : /\ task' = [task EXCEPT ![t] = q]
                   /\ \/ Diff(p) /\ q = NormalPass(n, p, "CROSS")
                      \/ q = CrossPass(n, p, "none")
                      \/ q = NormalPass(n, p, "none")
      BY Zenon DEF OtaNew, Diff
    <3>2. /\ q.pc = "parsed" /\ q.name = n /\ q.policy = p /\ NamedInv(q)
          /\ q.who = "ota" /\ q.rest # "SECONDARY"
      <4>1. CASE Diff(p) /\ q = NormalPass(n, p, "CROSS")
        <5>1. OtaPassOf(q, n, p, "CROSS")
          BY Zenon, <2>1, <4>1, FirstNormal
        <5> QED
          BY Zenon, <5>1 DEF OtaPassOf
      <4>2. CASE q = CrossPass(n, p, "none") \/ q = NormalPass(n, p, "none")
        <5>1. OtaPassOf(q, n, p, "none")
          BY Zenon, <2>1, <4>2, LastCross, LastNormal
        <5> QED
          BY Zenon, <5>1 DEF OtaPassOf
      <4> QED
        BY Zenon, <3>1, <4>1, <4>2
    <3> QED
      BY Zenon, <3>1, <3>2
  <2>5. ScanInv(q)'
    BY Zenon, <2>1, <2>3, <2>4 DEF ScanInv, Has
  <2>6. NameInv(n)' /\ \A m \in Names \ {n} : Same(m)
    BY Zenon, <2>1, <2>4, <1>ScanKeeps
  <2>7. boot # "up"
    BY Zenon, <2>1
  <2> QED
    BY Zenon, <2>1, <2>4, <2>5, <2>6, <2>7, <1>ScanStep

\* A name without a visible entry has at most the hidden one's row.
<1>HiddenOnly.
    ASSUME CloneInv, NEW n \in Names, Exact(n), lists[n].vis = Absent, NEW c \in BOOLEAN, Has(n, c)
    PROVE  lists[n].tmp # Absent /\ row[<<n, c>>] = lists[n].tmp.policy /\ c = lists[n].tmp.clone
    BY Zenon, <1>HiddenOnly, RowEntry

\* OtaKnown: the entries take the package's policy or, when only a hidden one
\* is there, are of its category.
<1>OtaKnownAgree.
    ASSUME CloneInv, Agree, NEW t \in Tasks, NEW n \in Names, NEW p \in Policies, OtaKnown(t, n, p), Orderly'
    PROVE  Agree'
  <2> USE <1>OtaKnownAgree
  <2>1. /\ boot = "later" /\ boot # "up" /\ boot' = boot /\ n \notin scanned /\ scanned' = scanned \union {n}
        /\ secondary' = secondary /\ state' = state
        /\ task[t].pc = "idle" /\ secondary \in BOOLEAN
    BY IdleGood DEF OtaKnown, Scan, CloneInv, OtherTypes
  <2>2. ~Mixes(n, p) /\ Exact(n)
    BY Zenon DEF OtaKnown, Orderly, CloneInv, OtherTypes, Agree, NameInv
  <2>3. PICK q : /\ task' = [task EXCEPT ![t] = q]
                 /\ \/ q = Idle
                    \/ q = NormalPass(n, p, "none")
                    \/ Diff(p) /\ (q = CrossPass(n, p, "NORMAL") \/ q = CrossPass(n, p, "none"))
                    \/ /\ ~Diff(p) /\ q = CrossPass(n, p, "none")
                       /\ ShouldBeHidden(p, secondary) /\ lists[n].tmp # Absent
    BY Zenon, OtaKnownTask
  <2>4. \/ q.pc = "idle"
        \/ /\ q.pc = "parsed" /\ q.name = n /\ q.policy = p /\ NamedInv(q)
           /\ q.who = "ota" /\ q.rest # "SECONDARY"
    <3>1. CASE q = Idle
      BY Zenon, <3>1, IdleGood
    <3>2. CASE q = NormalPass(n, p, "none") \/ q = CrossPass(n, p, "none")
      <4>1. OtaPassOf(q, n, p, "none")
        BY Zenon, <2>1, <3>2, LastCross, LastNormal
      <4> QED
        BY Zenon, <4>1 DEF OtaPassOf
    <3>3. CASE Diff(p) /\ q = CrossPass(n, p, "NORMAL")
      <4>1. OtaPassOf(q, n, p, "NORMAL")
        BY Zenon, <2>1, <3>3, <1>FirstCross
      <4> QED
        BY Zenon, <4>1 DEF OtaPassOf
    <3> QED
      BY Zenon, <2>3, <3>1, <3>2, <3>3
  <2>5. task'[t] = q /\ \A u \in Tasks \ {t} : task'[u] = task[u]
    BY Zenon, <2>3 DEF CloneInv, TasksGood
  <2>6. \A u \in Tasks, m \in Names, c \in BOOLEAN : StartedAt(u, m, c)' <=> StartedAt(u, m, c)
    BY Zenon, <2>1, <2>4, <2>5 DEF StartedAt
  <2>7. CASE ~Diff(p)
    <3>1. lists' = lists /\ row' = row
      BY <2>7 DEF OtaKnown, Diff
    <3>2. NameInv(n)' /\ \A m \in Names \ {n} : Same(m)
      BY Zenon, <2>1, <2>3, <2>4, <3>1, <1>ScanKeeps
    <3>3. q.pc # "idle" /\ Lookup(q) = Absent => \A c \in BOOLEAN : Has(n, c) => ~Diff(row[<<n, c>>])
      <4> SUFFICES ASSUME q.pc # "idle", Lookup(q) = Absent, NEW c \in BOOLEAN, Has(n, c)
                   PROVE  ~Diff(row[<<n, c>>])
        OBVIOUS
      <4>1. CASE q = NormalPass(n, p, "none")
        <5>1. q.role = "NONE" /\ ~q.resolved /\ q.name = n
          <6>1. OtaPassOf(q, n, p, "none")
            BY Zenon, <2>1, <4>1, LastNormal
          <6> QED
            BY Zenon, <4>1, <6>1, PassRole DEF OtaPassOf
        <5>2. lists[n].vis = Absent
          BY Zenon, <5>1 DEF Lookup, IsCrossModeInstall
        <5>3. lists[n].tmp # Absent /\ row[<<n, c>>] = lists[n].tmp.policy
          BY Zenon, <2>2, <5>2, <1>HiddenOnly
        <5> QED
          BY Zenon, <2>2, <2>7, <5>2, <5>3 DEF Mixes, Diff
      <4>2. CASE q = CrossPass(n, p, "none") /\ ShouldBeHidden(p, secondary) /\ lists[n].tmp # Absent
        <5>1. q.role = "NONE" /\ q.resolved /\ q.name = n /\ q.policy = p
          <6>1. OtaPassOf(q, n, p, "none")
            BY Zenon, <2>1, <4>2, LastCross
          <6> QED
            BY Zenon, <2>7, <4>2, <6>1, PassRole DEF OtaPassOf
        <5> QED
          BY Zenon, <4>2, <5>1 DEF Lookup, IsCrossModeInstall
      <4> QED
        BY Zenon, <2>3, <2>7, <4>1, <4>2, IdleGood
    <3>4. q.pc # "idle" => ScanInv(q)'
      <4>1. Lookup(q)' = Lookup(q)
        BY Zenon, <2>1, <3>1 DEF Lookup, IsCrossModeInstall
      <4> QED
        BY Zenon, <2>4, <2>7, <3>1, <3>3, <4>1 DEF ScanInv, Has
    <3> QED
      BY Zenon, <2>1, <2>3, <2>4, <3>2, <3>4, <1>ScanStep
  <2>8. CASE Diff(p)
    <3>1. UpdateDualPolicy(n, p)
      BY Zenon, <2>8 DEF OtaKnown, Diff
    <3>2. \A m \in Names \ {n} : Same(m)
      BY Zenon, <2>1, <3>1 DEF UpdateDualPolicy, RowsWithPolicy, Same, CloneInv, ListsGood, Keys
    <3>3. /\ Exact(n)' /\ \A c \in BOOLEAN : Has(n, c)' <=> Has(n, c)
          /\ \A c \in BOOLEAN : Has(n, c) => Diff(row'[<<n, c>>])
      <4>1. CASE lists[n].vis # Absent
        <5>1. Exact(n)' /\ \A c \in BOOLEAN : row'[<<n, c>>] = IF Has(n, c) THEN p ELSE NoPolicy
          BY Zenon, <2>8, <3>1, <4>1, UpdateVisible
        <5>2. p # NoPolicy
          BY SMTT(30), DualModeAssumption DEF NoPolicy
        <5> QED
          BY Zenon, <2>8, <5>1, <5>2 DEF Has
      <4>2. CASE lists[n].vis = Absent
        <5>1. lists'[n] = lists[n] /\ \A c \in BOOLEAN : row'[<<n, c>>] = row[<<n, c>>]
          BY Zenon, <3>1, <4>2, UpdateHidden
        <5>2. Exact(n)'
          BY Zenon, <2>2, <5>1 DEF Exact, Shown, Fit, EntryOf
        <5>3. ASSUME NEW c \in BOOLEAN, Has(n, c) PROVE Diff(row[<<n, c>>])
          <6>1. lists[n].tmp # Absent /\ row[<<n, c>>] = lists[n].tmp.policy
            BY Zenon, <2>2, <4>2, <5>3, <1>HiddenOnly
          <6> QED
            BY Zenon, <2>2, <2>8, <4>2, <6>1 DEF Mixes, Diff
        <5> QED
          BY Zenon, <5>1, <5>2, <5>3 DEF Has
      <4> QED
        BY Zenon, <4>1, <4>2
    <3>4. NameInv(n)'
      <4> SUFFICES ASSUME NEW c \in BOOLEAN PROVE Settled(n, c)'
        BY Zenon, <3>3 DEF NameInv
      <4>1. Settled(n, c)
        BY DEF Agree, NameInv
      <4> QED
        BY Zenon, <2>1, <2>6, <3>3, <4>1 DEF Settled
    <3>5. q.pc # "idle" => ScanInv(q)'
      BY Zenon, <2>4, <2>8, <3>3 DEF ScanInv
    <3> QED
      BY Zenon, <2>1, <2>3, <2>4, <3>2, <3>4, <3>5, <1>ScanStep
  <2> QED
    BY Zenon, <2>7, <2>8

\* Such an end keeps the agreement of all records.
<1>EndStep.
    ASSUME CloneInv, Agree, NEW t \in Tasks, NEW n \in Names, Ended(t, n)
    PROVE  Agree'
  <2> USE <1>EndStep
  <2>0. /\ task[t].pc # "idle" /\ NextPass(t) /\ n = task[t].name
        /\ secondary' = secondary /\ boot' = boot /\ scanned' = scanned
        /\ \A u \in Tasks \ {t} : ~(task[u].pc = "started" /\ task[u].name = n)
        /\ \A m \in Names \ {n} : Same(m)
        /\ Exact(n)' /\ \A c \in BOOLEAN : state'[<<n, c>>] = RestState(row'[<<n, c>>])
        /\ task[t].who # "user" /\ Diff(task[t].policy) =>
              \A c \in BOOLEAN : Has(n, c)' => Diff(row'[<<n, c>>])
    BY Zenon DEF Ended
  <2> USE <2>0
  <2>1. NamedInv(task[t]) /\ WhoInv(task[t])
    BY Zenon DEF Agree, TaskInv
  <2>2. /\ TaskInv(task[t])'
        /\ task'[t].pc \in {"idle", "parsed"}
        /\ task'[t].pc # "idle" => task'[t].name = n /\ task'[t].who = task[t].who
        /\ task'[t].pc # "idle" => task[t].who # "user"
        /\ \A u \in Tasks \ {t} : task'[u] = task[u]
    BY Zenon, <2>1, NextPassInv DEF Has
  <2>3. NameInv(n)'
    BY Zenon DEF NameInv, Settled, RestState, Has
  <2>4. \A u \in Tasks \ {t} : task[u].pc # "idle" /\ task[u].name = n =>
                /\ task[u].who = "user"
                /\ task'[t].pc # "idle" => task'[t].who = "user"
                /\ task[u].pc = "started" => task'[t].pc # "started" /\ Same(n)
    BY Zenon, <2>2 DEF Agree, Alone
  <2>5. /\ (task[t].pc = "idle" \/ task[t].name = n)'
        /\ task[t].pc = "idle" \/ task[t].name = n
        /\ scanned \subseteq scanned'
        /\ boot = "first" => n \in scanned'
    BY Zenon, <2>1, <2>2 DEF WhoInv
  <2> QED
    BY Zenon, <2>2, <2>3, <2>4, <2>5, <1>LocalStep

\* Such an end keeps the agreement.
<1>UndoneAgree.
    ASSUME CloneInv, Agree, NEW t \in Tasks, NEW n \in Names, NEW k \in BOOLEAN, Undone(t, n, k)
    PROVE  Agree'
  <2> USE <1>UndoneAgree
  <2> USE DEF Undone
  <2>1. \A m \in Names \ {n} : Same(m)
    BY Zenon, SameOther
  <2>2. Exact(n)'
    BY Zenon DEF Agree, NameInv, Exact, Shown, Fit, EntryOf
  <2>3. \A c \in BOOLEAN : state'[<<n, c>>] = RestState(row'[<<n, c>>])
    <3> SUFFICES ASSUME NEW c \in BOOLEAN PROVE state'[<<n, c>>] = RestState(row[<<n, c>>])
      BY Zenon DEF RestState
    <3>1. <<n, c>> \in Keys /\ DOMAIN state = Keys
      BY Zenon DEF Keys, CloneInv, OtherTypes
    <3>2. CASE c = k
      BY Zenon, <3>1, <3>2
    <3>3. CASE c # k
      BY Zenon, <3>1, <3>3
    <3> QED
      BY Zenon, <3>2, <3>3
  <2>4. task[t].who # "user" /\ Diff(task[t].policy) =>
                \A c \in BOOLEAN : Has(n, c)' => Diff(row'[<<n, c>>])
    BY Zenon DEF Has
  <2> QED
    <3>1. Ended(t, n)
      BY Zenon, <2>1, <2>2, <2>3, <2>4 DEF Ended
    <3> QED
      BY Zenon, <3>1, <1>EndStep

\* A failure after the start keeps the agreement.
<1>FailAgree.
    ASSUME CloneInv, Agree, RecordsCovered, NEW t \in Tasks, FailDirs(t) \/ FailLate(t) \/ FailSave(t)
    PROVE  Agree'
  <2> USE <1>FailAgree
  <2>1. PICK n \in Names, k \in BOOLEAN : Undone(t, n, k)
    BY Zenon, FailDirsUndone, FailLateUndone, FailSaveUndone
  <2> QED
    BY Zenon, <2>1, <1>UndoneAgree

\* A new bundle beside another variant: both are of different-package policies.
<1>NewBeside.
    ASSUME CloneInv, Agree, NEW t \in Tasks, task[t].pc = "named", ~Locked(task[t].name),
           NEW n \in Names, n = task[t].name, Lookup(task[t]) = Absent,
           ~CategoryConflict(task[t], Absent), ~Has(n, task[t].key), NEW c \in BOOLEAN, Has(n, c)
    PROVE  Diff(task[t].policy) /\ Diff(row[<<n, c>>])
  <2> USE <1>NewBeside
  <2> DEFINE r == task[t]
  <2>1. /\ r.key \in BOOLEAN /\ TaskInv(r) /\ Exact(n) /\ r.clone = r.key
        /\ r.who # "user" /\ Diff(r.policy) => \A d \in BOOLEAN : Has(n, d) => Diff(row[<<n, d>>])
    BY Zenon, NamedFacts
  <2>2. r.key = ShouldUseDualModeCloneName(r)
    BY Zenon, <2>1 DEF TaskInv, NamedInv
  <2>3. ~Diff(r.policy) => r.role = "NONE" /\ r.key = FALSE
    <3>1. ~Diff(r.policy) => r.role = "NONE"
      BY Zenon, <2>1 DEF TaskInv, NamedInv
    <3> QED
      BY Zenon, <2>2, <3>1 DEF ShouldUseDualModeCloneName, Diff
  <2>4. c => Diff(row[<<n, c>>])
    BY Zenon DEF CloneInv, RowsGood, Has, Diff
  <2>5. CASE r.who # "user"
    <3>1. CASE ~Diff(r.policy)
      <4>1. ~Diff(row[<<n, c>>])
        BY Zenon, <2>1, <2>5, <3>1 DEF TaskInv, ScanInv
      <4> QED
        BY Zenon, <2>3, <2>4, <3>1, <4>1
    <3> QED
      BY Zenon, <2>1, <2>5, <3>1
  <2>6. CASE r.who = "user"
    <3>1. r.role = "NONE" /\ ~r.resolved
      BY Zenon, <2>1, <2>6 DEF TaskInv, WhoInv
    <3>2. lists[n].vis = Absent
      BY Zenon, <3>1 DEF Lookup, IsCrossModeInstall
    <3>3. lists[n].tmp # Absent /\ row[<<n, c>>] = lists[n].tmp.policy
      BY Zenon, <2>1, <3>2, <1>HiddenOnly
    <3>4. Diff(row[<<n, c>>]) <=> Diff(r.policy)
      BY Zenon, <2>6, <3>3 DEF CategoryConflict, Diff
    <3> QED
      BY Zenon, <2>3, <2>4, <3>4
  <2> QED
    BY Zenon, <2>5, <2>6

\* An update beside another variant: the package is of a different-package policy.
<1>UpdateBeside.
    ASSUME CloneInv, Agree, NEW n \in Names, NEW r, NEW old \in {lists[n].vis, lists[n].tmp}, old # Absent,
           ~CategoryConflict(r, old), NEW c \in BOOLEAN, c # old.clone, Has(n, c)
    PROVE  Diff(r.policy)
  <2> USE <1>UpdateBeside
  <2>1. Exact(n)
    BY Zenon DEF Agree, NameInv
  <2>2. old.clone \in BOOLEAN /\ Has(n, old.clone) /\ row[<<n, old.clone>>] = old.policy
    BY Zenon, <2>1, EntryRow
  <2>3. row[<<n, TRUE>>] # NoPolicy /\ row[<<n, FALSE>>] # NoPolicy
    BY Zenon, <2>2 DEF Has
  <2>4. Diff(old.policy)
    BY Zenon, <2>1, <2>2, <2>3 DEF Exact, Fit
  <2> QED
    BY Zenon, <2>4 DEF CategoryConflict, Diff

\* The place an installation looks in depends on the mode and the package.
<1>LookupKept.
    ASSUME NEW t, task'[t].name = task[t].name, task'[t].role = task[t].role,
           task'[t].resolved = task[t].resolved, task'[t].policy = task[t].policy,
           secondary' = secondary, lists' = lists
    PROVE  Lookup(task[t])' = Lookup(task[t])
    BY Zenon, <1>LookupKept DEF Lookup, IsCrossModeInstall

\* Who is at work depends on the pass and the boot.
<1>WhoKept.
    ASSUME NEW t, WhoInv(task[t]), task[t].pc # "idle", boot' = boot, scanned' = scanned,
           task'[t].name = task[t].name, task'[t].role = task[t].role,
           task'[t].resolved = task[t].resolved, task'[t].who = task[t].who,
           task'[t].rest = task[t].rest
    PROVE  WhoInv(task[t])'
    BY Zenon, <1>WhoKept DEF WhoInv

\* A start that is accepted: the bundle is new and its state was absent, or it
\* is the one found and its state was INSTALL_SUCCESS.
<1>StartAccepted.
    ASSUME CloneInv, Agree, NEW t \in Tasks, task[t].pc = "named", ~Locked(task[t].name),
           NEW n \in Names, NEW k \in BOOLEAN, n = task[t].name, k = task[t].key,
           NEW old, old = Lookup(task[t]), ~CategoryConflict(task[t], old),
           NEW first, first = IF old = Absent THEN "INSTALL_START" ELSE "UPDATING_START",
           Accepts(state[<<n, k>>], first), state' = [state EXCEPT ![<<n, k>>] = first],
           task' = [task EXCEPT ![t] = Started(task[t], old)],
           UNCHANGED <<lists, row, secondary, boot, scanned>>
    PROVE  Agree'
  <2> USE <1>StartAccepted
  <2> DEFINE r == task[t]
  <2>1. /\ r \in Passes /\ TaskInv(r) /\ Exact(n) /\ r.clone = k
        /\ \A u \in Tasks : ~(task[u].pc = "started" /\ task[u].name = n)
        /\ \A c \in BOOLEAN : state[<<n, c>>] = RestState(row[<<n, c>>])
    BY Zenon, NamedFacts
  <2>2. PICK q : q = Started(r, old)
    OBVIOUS
  <2>3. /\ q.pc = "started" /\ q.name = n /\ q.policy = r.policy /\ q.role = r.role /\ q.who = r.who
        /\ q.resolved = r.resolved /\ q.rest = r.rest /\ q.key = k
        /\ q.exist = (old # Absent)
        /\ q.clone = IF old = Absent THEN r.clone ELSE old.clone
    BY Zenon, <2>1, <2>2 DEF Started, Passes
  <2>4. task'[t] = q /\ \A u \in Tasks \ {t} : task'[u] = task[u]
    BY Zenon, <2>2 DEF CloneInv, TasksGood
  <2>5. \A m \in Names \ {n} : Same(m)
    BY Zenon, SameOther
  <2>6. state'[<<n, k>>] = first /\ \A c \in BOOLEAN : c # k => state'[<<n, c>>] = state[<<n, c>>]
    BY Zenon DEF CloneInv, OtherTypes, Keys
  <2>7. NameInv(n)'
    <3>1. Exact(n)'
      BY Zenon, <2>1 DEF Exact, Shown, Fit, EntryOf
    <3>2. ASSUME NEW c \in BOOLEAN PROVE Settled(n, c)'
      <4>1. CASE c = k
        BY Zenon, <2>3, <2>4, <4>1 DEF Settled, StartedAt
      <4>2. CASE c # k
        BY Zenon, <2>1, <2>6, <4>2 DEF Settled, RestState, Has
      <4> QED
        BY Zenon, <4>1, <4>2
    <3> QED
      BY Zenon, <3>1, <3>2 DEF NameInv
  <2>8. Lookup(task[t])' = old
    <3>1. /\ task'[t].name = r.name /\ task'[t].role = r.role /\ task'[t].resolved = r.resolved
          /\ task'[t].policy = r.policy /\ secondary' = secondary /\ lists' = lists
      BY Zenon, <2>3, <2>4
    <3>2. Lookup(task[t])' = Lookup(task[t])
      BY Zenon, <3>1, <1>LookupKept
    <3> QED
      BY Zenon, <3>2
  <2>9. StartedInv(task[t])'
    <3>1. CASE old = Absent
      <4>1. state[<<n, k>>] = "absent" /\ ~Has(n, k)
        BY Zenon, <2>1, <3>1, AtRest DEF RestState, Has
      <4>2. \A c \in BOOLEAN : Has(n, c) => Diff(r.policy) /\ Diff(row[<<n, c>>])
        BY Zenon, <3>1, <4>1, <1>NewBeside
      <4>3. q.exist = FALSE /\ q.clone = k /\ state'[<<n, k>>] = "INSTALL_START"
        BY Zenon, <2>1, <2>3, <2>6, <3>1
      <4>4. ~Has(n, k)' /\ \A c \in BOOLEAN : Has(n, c)' => Diff(r.policy) /\ Diff(row'[<<n, c>>])
        BY Zenon, <4>1, <4>2 DEF Has
      <4> QED
        BY Zenon, <2>3, <2>4, <2>8, <3>1, <4>3, <4>4 DEF StartedInv, Has
    <3>2. CASE old # Absent
      <4>1. Has(n, k)
        BY Zenon, <2>1, <3>2, AtRest DEF RestState, Has
      <4>2. old \in {lists[n].vis, lists[n].tmp}
        BY Zenon DEF Lookup
      <4>3. ASSUME NEW c \in BOOLEAN, c # old.clone, Has(n, c) PROVE Diff(r.policy)
        BY Zenon, <3>2, <4>2, <4>3, <1>UpdateBeside
      <4>4. q.exist = TRUE /\ q.clone = old.clone /\ state'[<<n, k>>] = "UPDATING_START"
        BY Zenon, <2>3, <2>6, <3>2
      <4>5. /\ row'[<<n, k>>] # NoPolicy
            /\ \A c \in BOOLEAN : c # q.clone /\ row'[<<n, c>>] # NoPolicy => Diff(q.policy)
        <5>1. q.policy = r.policy /\ row' = row
          BY Zenon, <2>3
        <5>2. ASSUME NEW c \in BOOLEAN, c # q.clone, row'[<<n, c>>] # NoPolicy PROVE Diff(q.policy)
          BY Zenon, <4>3, <4>4, <5>1, <5>2 DEF Has
        <5> QED
          BY Zenon, <4>1, <5>1, <5>2 DEF Has
      <4>6. Lookup(task[t])' # Absent /\ Lookup(task[t])'.clone = q.clone
        BY Zenon, <2>8, <3>2, <4>4
      <4>7. /\ task'[t].exist = TRUE /\ Lookup(task[t])'.clone = task'[t].clone
            /\ state'[<<task'[t].name, task'[t].key>>] = "UPDATING_START"
            /\ row'[<<task'[t].name, task'[t].key>>] # NoPolicy
        BY Zenon, <2>3, <2>4, <4>4, <4>5, <4>6
      <4>8. \A c \in BOOLEAN : c # task'[t].clone /\ row'[<<task'[t].name, c>>] # NoPolicy => Diff(task'[t].policy)
        BY Zenon, <2>3, <2>4, <4>5
      <4> QED
        BY Zenon, <4>6, <4>7, <4>8 DEF StartedInv, Has
    <3> QED
      BY Zenon, <3>1, <3>2
  <2>10. NamedInv(task[t])'
    <3>1. k = ShouldUseDualModeCloneName(r) /\ (r.role # "NONE" \/ r.rest # "none" => Diff(r.policy))
      BY Zenon, <2>1 DEF TaskInv, NamedInv
    <3>2. ShouldUseDualModeCloneName(task[t])' = ShouldUseDualModeCloneName(r)
      BY Zenon, <2>3, <2>4 DEF ShouldUseDualModeCloneName
    <3> QED
      BY Zenon, <2>3, <2>4, <3>1, <3>2 DEF NamedInv
  <2>11. ScanInv(task[t])'
    BY Zenon, <2>1, <2>3, <2>4, <2>8 DEF TaskInv, ScanInv, Has
  <2>12. WhoInv(task[t])'
    <3>1. WhoInv(r) /\ boot' = boot /\ scanned' = scanned /\ r.pc # "idle"
      BY Zenon, <2>1 DEF TaskInv
    <3>2. /\ task'[t].name = r.name /\ task'[t].role = r.role /\ task'[t].resolved = r.resolved
          /\ task'[t].who = r.who /\ task'[t].rest = r.rest
      BY Zenon, <2>3, <2>4
    <3> QED
      BY Zenon, <3>1, <3>2, <1>WhoKept
  <2>13. TaskInv(task[t])'
    BY Zenon, <2>9, <2>10, <2>11, <2>12 DEF TaskInv
  <2>14. \A u \in Tasks \ {t} : task[u].pc # "idle" /\ task[u].name = n =>
                /\ task[u].who = "user"
                /\ task'[t].pc # "idle" => task'[t].who = "user"
                /\ task[u].pc = "started" => task'[t].pc # "started" /\ Same(n)
    <3> SUFFICES ASSUME NEW u \in Tasks \ {t}, task[u].pc # "idle", task[u].name = n
                 PROVE  task[u].who = "user" /\ r.who = "user"
      BY Zenon, <2>1, <2>3, <2>4
    <3>1. r.pc # "idle" /\ r.name = task[u].name /\ u \in Tasks /\ u # t
      OBVIOUS
    <3> QED
      BY Zenon, <3>1 DEF Agree, Alone
  <2>15. /\ (task[t].pc = "idle" \/ task[t].name = n)'
         /\ task[t].pc = "idle" \/ task[t].name = n
         /\ secondary' = secondary /\ boot' = boot /\ scanned \subseteq scanned'
         /\ boot = "first" => n \in scanned'
    BY Zenon, <2>1, <2>3, <2>4 DEF TaskInv, WhoInv
  <2> QED
    BY Zenon, <2>4, <2>5, <2>7, <2>13, <2>14, <2>15, <1>LocalStep

\* Start
<1>StartAgree.
    ASSUME CloneInv, Agree, NEW t \in Tasks, Start(t)
    PROVE  Agree'
  <2> USE <1>StartAgree
  <2> DEFINE r == task[t]
  <2>1. /\ r.pc = "named" /\ ~Locked(r.name)
        /\ secondary' = secondary /\ boot' = boot /\ scanned' = scanned
    BY Zenon DEF Start
  <2>2. PICK n \in Names, k \in BOOLEAN : n = r.name /\ k = r.key
    BY Zenon, <2>1, NamedFacts
  <2>3. PICK old : old = Lookup(r)
    OBVIOUS
  <2>4. PICK first : first = IF old = Absent THEN "INSTALL_START" ELSE "UPDATING_START"
    OBVIOUS
  <2>5. CASE /\ ~CategoryConflict(r, old) /\ Accepts(state[<<n, k>>], first)
             /\ state' = [state EXCEPT ![<<n, k>>] = first]
             /\ task' = [task EXCEPT ![t] = Started(r, old)]
             /\ UNCHANGED <<lists, row>>
    BY Zenon, <2>1, <2>2, <2>3, <2>4, <2>5, <1>StartAccepted
  <2>6. CASE /\ RollBackNew(t, lists[n], state[<<n, k>>]) \/ RollBackExisting(t)
             /\ NextPass(t)
    <3>1. Undone(t, n, k)
      BY Zenon, <2>1, <2>2, <2>6, StartRefused
    <3> QED
      BY Zenon, <3>1, <1>UndoneAgree
  <2> QED
    BY Zenon, <2>2, <2>3, <2>4, <2>5, <2>6 DEF Start

\* Finish: the entry and the row of the variant are written together.
<1>FinishAgree.
    ASSUME CloneInv, Agree, NEW t \in Tasks, Finish(t)
    PROVE  Agree'
  <2> USE <1>FinishAgree
  <2> DEFINE r == task[t]
  <2>1. /\ r.pc = "started" /\ r.pc # "idle" /\ CanStore(r) /\ NextPass(t)
        /\ secondary' = secondary /\ boot' = boot /\ scanned' = scanned
    BY Storable DEF Finish
  <2>2. PICK n \in Names, k \in BOOLEAN, d \in BOOLEAN, p \in Policies :
          n = r.name /\ k = r.key /\ d = r.clone /\ p = r.policy
    BY Zenon, <2>1, StartedFacts
  <2>3. /\ StartedInv(r) /\ Exact(n) /\ r.exist \in BOOLEAN
        /\ \A u \in Tasks \ {t} : ~(task[u].pc = "started" /\ task[u].name = n)
        /\ \A c \in BOOLEAN : c # k => state[<<n, c>>] = RestState(row[<<n, c>>])
        /\ r.who # "user" /\ Diff(r.policy) => \A c \in BOOLEAN : Has(n, c) => Diff(row[<<n, c>>])
    BY Zenon, <2>1, <2>2, StartedFacts DEF TaskInv
  <2>4. /\ lists' = [lists EXCEPT ![n] = WithEntry(lists[n], IsCrossModeInstall(r), Entry(p, d))]
        /\ row' = [row EXCEPT ![<<n, d>>] = p]
        /\ state' = [state EXCEPT ![<<n, k>>] =
              StateAfter(IF r.exist THEN "UPDATING_SUCCESS" ELSE state[<<n, k>>], "INSTALL_SUCCESS")]
    BY Zenon, <2>1, <2>2 DEF Finish
  <2>5. /\ row'[<<n, d>>] = p /\ \A c \in BOOLEAN : c # d => row'[<<n, c>>] = row[<<n, c>>]
        /\ \A m \in Names \ {n} : Same(m)
        /\ row[<<n, TRUE>>] \in Rows /\ row[<<n, FALSE>>] \in Rows
    BY Zenon, <2>4 DEF Same, CloneInv, RowsGood, ListsGood, OtherTypes, Keys
  <2>6. p # NoPolicy /\ (d => Diff(p))
    <3>1. p # NoPolicy
      BY DualModeAssumption DEF NoPolicy
    <3>2. r.clone => IsDiffPackageCategory(r.policy)
      BY Zenon, <2>1, TaskFacts
    <3> QED
      BY Zenon, <2>2, <3>1, <3>2 DEF Diff
  <2> DEFINE v == Lookup(r)
             w == IF IsCrossModeInstall(r) THEN lists[n].vis ELSE lists[n].tmp
             a == row[<<n, FALSE>>]
             b == row[<<n, TRUE>>]
  <2>7. v \in {lists[n].vis, lists[n].tmp} /\ Shown(v, w, a, b)
    BY Zenon, <2>2, <2>3, ShownSwapped DEF Exact, Lookup
  <2>8. /\ r.exist => v # Absent /\ v.clone = d /\ Has(n, k) /\ Has(n, d) /\ state[<<n, k>>] = "UPDATING_START"
                      /\ \A c \in BOOLEAN : c # d /\ Has(n, c) => Diff(p)
        /\ ~r.exist => v = Absent /\ d = k /\ ~Has(n, k) /\ state[<<n, k>>] = "INSTALL_START"
                      /\ \A c \in BOOLEAN : Has(n, c) => Diff(p) /\ Diff(row[<<n, c>>])
    <3>1. v # Absent => Has(n, v.clone)
      BY Zenon, <2>3, <2>7, EntryRow
    <3>2. CASE r.exist
      <4>1. v # Absent /\ v.clone = d /\ Has(n, k) /\ state[<<n, k>>] = "UPDATING_START"
            /\ \A c \in BOOLEAN : c # d /\ Has(n, c) => Diff(p)
        BY Zenon, <2>1, <2>2, <2>3, <3>2 DEF StartedInv
      <4> QED
        BY Zenon, <3>1, <3>2, <4>1
    <3>3. CASE ~r.exist
      BY Zenon, <2>1, <2>2, <2>3, <3>3 DEF StartedInv
    <3> QED
      BY Zenon, <3>2, <3>3
  <2>9. Shown(Entry(p, d), w, row'[<<n, FALSE>>], row'[<<n, TRUE>>])
    <3> HIDE DEF v, w
    <3>1. CASE r.exist /\ d
      <4>1. row'[<<n, FALSE>>] = a /\ row'[<<n, TRUE>>] = p
        BY Zenon, <2>5, <3>1
      <4>2. Entry(p, d) = Entry(p, TRUE) /\ v.clone /\ v # Absent
        BY Zenon, <2>8, <3>1 DEF Entry
      <4>3. Shown(Entry(p, TRUE), w, a, p)
        BY Zenon, <2>5, <2>7, <4>2, <1>PutOld
      <4> QED
        BY Zenon, <4>1, <4>2, <4>3
    <3>2. CASE r.exist /\ ~d
      <4>1. row'[<<n, FALSE>>] = p /\ row'[<<n, TRUE>>] = b
        BY Zenon, <2>5, <3>2
      <4>2. Entry(p, d) = Entry(p, FALSE) /\ ~v.clone /\ v # Absent
        BY Zenon, <2>8, <3>2 DEF Entry
      <4> QED
        BY Zenon, <2>5, <2>7, <4>1, <4>2, <1>PutOld
    <3>3. CASE ~r.exist /\ d
      <4>1. row'[<<n, FALSE>>] = a /\ row'[<<n, TRUE>>] = p
        BY Zenon, <2>5, <3>3
      <4>2. Entry(p, d) = Entry(p, TRUE) /\ v = Absent /\ b = NoPolicy
        BY Zenon, <2>8, <3>3 DEF Entry, Has
      <4> QED
        BY Zenon, <2>5, <2>7, <4>1, <4>2, <1>PutNew
    <3>4. CASE ~r.exist /\ ~d
      <4>1. row'[<<n, FALSE>>] = p /\ row'[<<n, TRUE>>] = b
        BY Zenon, <2>5, <3>4
      <4>2. Entry(p, d) = Entry(p, FALSE) /\ v = Absent /\ a = NoPolicy
        BY Zenon, <2>8, <3>4 DEF Entry, Has
      <4> QED
        BY Zenon, <2>5, <2>7, <4>1, <4>2, <1>PutNew
    <3> QED
      BY Zenon, <2>3, <3>1, <3>2, <3>3, <3>4
  <2>10. Fit(row[<<n, FALSE>>], row[<<n, TRUE>>])'
    <3>1. b # NoPolicy => Diff(b)
      BY Zenon DEF CloneInv, RowsGood, Diff
    <3>2. CASE d
      <4>1. row'[<<n, FALSE>>] = a /\ row'[<<n, TRUE>>] = p
        BY Zenon, <2>5, <3>2
      <4>2. a # NoPolicy => Diff(a)
        BY Zenon, <2>3, <2>8, <3>2 DEF Exact, Fit, Has
      <4> QED
        BY Zenon, <2>6, <3>2, <4>1, <4>2 DEF Fit
    <3>3. CASE ~d
      <4>1. row'[<<n, FALSE>>] = p /\ row'[<<n, TRUE>>] = b
        BY Zenon, <2>5, <3>3
      <4>2. b # NoPolicy => Diff(p)
        BY Zenon, <2>3, <2>8, <3>3 DEF Has
      <4> QED
        BY Zenon, <3>1, <4>1, <4>2 DEF Fit
    <3> QED
      BY <3>2, <3>3
  <2>11. Exact(n)'
    <3>1. lists'[n] = WithEntry(lists[n], IsCrossModeInstall(r), Entry(p, d))
      BY Zenon, <2>4 DEF CloneInv, ListsGood
    <3>2. CASE IsCrossModeInstall(r)
      <4>1. lists'[n].vis = w /\ lists'[n].tmp = Entry(p, d)
        <5>1. lists'[n] = Pair(w, Entry(p, d))
          BY Zenon, <3>1, <3>2 DEF WithEntry
        <5>2. Pair(w, Entry(p, d)).vis = w /\ Pair(w, Entry(p, d)).tmp = Entry(p, d)
          BY Zenon, PairHas
        <5> QED
          BY Zenon, <5>1, <5>2
      <4> HIDE DEF w
      <4> QED
        BY Zenon, <2>9, <2>10, <4>1, ShownSwapped DEF Exact
    <3>3. CASE ~IsCrossModeInstall(r)
      <4>1. lists'[n].vis = Entry(p, d) /\ lists'[n].tmp = w
        <5>1. lists'[n] = Pair(Entry(p, d), w)
          BY Zenon, <3>1, <3>3 DEF WithEntry
        <5>2. Pair(Entry(p, d), w).vis = Entry(p, d) /\ Pair(Entry(p, d), w).tmp = w
          BY Zenon, PairHas
        <5> QED
          BY Zenon, <5>1, <5>2
      <4> HIDE DEF w
      <4> QED
        BY Zenon, <2>9, <2>10, <4>1 DEF Exact
    <3> QED
      BY Zenon, <3>2, <3>3
  <2>12. ASSUME NEW c \in BOOLEAN PROVE state'[<<n, c>>] = RestState(row'[<<n, c>>])
    <3>1. DOMAIN state = Keys /\ <<n, c>> \in Keys /\ <<n, k>> \in Keys
      BY Zenon DEF CloneInv, OtherTypes, Keys
    <3>2. CASE c = k
      <4>1. state'[<<n, c>>] = "INSTALL_SUCCESS"
        BY Zenon, <2>3, <2>4, <2>8, <3>1, <3>2, AtWork
      <4>2. row'[<<n, c>>] # NoPolicy
        BY Zenon, <2>3, <2>5, <2>6, <2>8, <3>2 DEF Has
      <4> QED
        BY <4>1, <4>2 DEF RestState
    <3>3. CASE c # k
      <4>1. state'[<<n, c>>] = RestState(row[<<n, c>>])
        BY Zenon, <2>3, <2>4, <3>1, <3>3
      <4>2. c = d => row[<<n, c>>] # NoPolicy
        BY Zenon, <2>3, <2>8, <3>3 DEF Has
      <4> QED
        BY Zenon, <2>5, <2>6, <4>1, <4>2 DEF RestState
    <3> QED
      BY Zenon, <3>2, <3>3
  <2>13. task[t].who # "user" /\ Diff(task[t].policy) =>
                \A c \in BOOLEAN : Has(n, c)' => Diff(row'[<<n, c>>])
    BY Zenon, <2>2, <2>3, <2>5 DEF Has
  <2>14. Ended(t, n)
    BY Zenon, <2>1, <2>2, <2>3, <2>5, <2>11, <2>12, <2>13 DEF Ended
  <2> QED
    BY Zenon, <2>14, <1>EndStep

\* Uninstall: the visible entry, its row and its state go together.
<1>UninstallAgree.
    ASSUME CloneInv, Agree, NEW n \in Names, Uninstall(n)
    PROVE  Agree'
  <2> USE <1>UninstallAgree
  <2> DEFINE v == lists[n].vis
             w == lists[n].tmp
  <2>1. /\ boot = "up" /\ v # Absent /\ ~Locked(n) /\ DeleteBundleInfo(n, lists[n], row)
        /\ state' = [state EXCEPT ![<<n, v.clone>>] = "absent"]
        /\ secondary' = secondary /\ boot' = boot /\ scanned' = scanned /\ task' = task
    BY Zenon DEF Uninstall
  <2>2. Exact(n) /\ row[<<n, TRUE>>] \in Rows /\ row[<<n, FALSE>>] \in Rows
    BY Zenon DEF Agree, NameInv, CloneInv, RowsGood, Keys
  <2>3. PICK d \in BOOLEAN : d = v.clone
    BY Zenon, <2>1, <2>2, EntryRow
  <2>4. /\ lists' = [lists EXCEPT ![n] = Pair(Absent, w)]
        /\ row' = [row EXCEPT ![<<n, d>>] = NoPolicy]
    BY Zenon, <2>1, <2>3 DEF DeleteBundleInfo
  <2>5. /\ row'[<<n, d>>] = NoPolicy /\ state'[<<n, d>>] = "absent"
        /\ \A c \in BOOLEAN : c # d => row'[<<n, c>>] = row[<<n, c>>] /\ state'[<<n, c>>] = state[<<n, c>>]
        /\ \A m \in Names \ {n} : Same(m)
        /\ lists'[n] = Pair(Absent, w)
    BY Zenon, <2>1, <2>3, <2>4 DEF Same, CloneInv, RowsGood, ListsGood, OtherTypes, Keys
  <2>6. lists'[n].vis = Absent /\ lists'[n].tmp = w
    <3>1. Pair(Absent, w).vis = Absent /\ Pair(Absent, w).tmp = w
      BY Zenon, PairHas
    <3> QED
      BY Zenon, <2>5, <3>1
  <2>7. Shown(v, w, row[<<n, FALSE>>], row[<<n, TRUE>>]) /\ Fit(row[<<n, FALSE>>], row[<<n, TRUE>>])
    BY Zenon, <2>2 DEF Exact
  <2> HIDE DEF v, w
  <2>8. Exact(n)'
    <3>1. CASE d
      <4>1. row'[<<n, FALSE>>] = row[<<n, FALSE>>] /\ row'[<<n, TRUE>>] = NoPolicy
        BY Zenon, <2>5, <3>1
      <4>2. Shown(Absent, w, row[<<n, FALSE>>], NoPolicy)
        BY Zenon, <2>1, <2>2, <2>3, <2>7, <3>1, <1>Drop
      <4> QED
        BY Zenon, <2>6, <4>1, <4>2 DEF Exact, Fit
    <3>2. CASE ~d
      <4>1. row'[<<n, FALSE>>] = NoPolicy /\ row'[<<n, TRUE>>] = row[<<n, TRUE>>]
        BY Zenon, <2>5, <3>2
      <4>2. Shown(Absent, w, NoPolicy, row[<<n, TRUE>>])
        BY Zenon, <2>1, <2>2, <2>3, <2>7, <3>2, <1>Drop
      <4> QED
        BY Zenon, <2>6, <2>7, <4>1, <4>2 DEF Exact, Fit
    <3> QED
      BY <3>1, <3>2
  <2>9. NameInv(n)'
    <3> SUFFICES ASSUME NEW c \in BOOLEAN PROVE state'[<<n, c>>] = IF Has(n, c)' THEN "INSTALL_SUCCESS" ELSE "absent"
      BY Zenon, <2>8 DEF NameInv, Settled
    <3>1. state[<<n, c>>] = IF Has(n, c) THEN "INSTALL_SUCCESS" ELSE "absent"
      BY <2>1, SettledNow
    <3> QED
      BY Zenon, <2>5, <3>1 DEF Has
  <2>10. ASSUME NEW m \in Names PROVE NameInv(m)'
    <3>1. CASE m # n
      <4>1. Same(m) /\ \A u \in Tasks, c \in BOOLEAN : StartedAt(u, m, c)' <=> StartedAt(u, m, c)
        BY Zenon, <2>1, <2>5, <3>1 DEF StartedAt
      <4> QED
        BY Zenon, <4>1, <1>OtherName DEF Agree
    <3> QED
      BY <2>9, <3>1
  <2>11. ASSUME NEW u \in Tasks PROVE TaskInv(task[u])'
    <3>1. TaskInv(task[u]) /\ task'[u] = task[u] /\ scanned \subseteq scanned'
      BY <2>1 DEF Agree
    <3>2. task[u].pc # "idle" => task[u].name \in Names /\ task[u].key \in BOOLEAN
      BY Zenon, TaskFacts
    <3>3. task[u].pc # "idle" => task[u].who = "user"
      BY Zenon, <2>1, <3>1 DEF TaskInv, WhoInv
    <3>4. task[u].pc = "started" => task[u].name # n
      BY Zenon, <2>1 DEF Locked
    <3>5. \/ task[u].pc = "idle"
          \/ task[u].pc # "started" /\ task[u].who = "user"
          \/ task[u].key \in BOOLEAN /\ Same(task[u].name)
      BY Zenon, <2>5, <3>2, <3>3, <3>4
    <3> QED
      BY Zenon, <2>1, <3>1, <3>5, <1>OtherTask
  <2>12. Alone' /\ Unscanned'
    BY Zenon, <2>1 DEF Agree, Alone, Unscanned
  <2> QED
    BY Zenon, <2>10, <2>11, <2>12 DEF Agree

\* With every thread idle only the names matter.
<1>QuietAgree.
    ASSUME \A t \in Tasks : task'[t].pc = "idle", boot' # "first", \A n \in Names : NameInv(n)'
    PROVE  Agree'
  <2> USE <1>QuietAgree
  <2>1. \A t \in Tasks : TaskInv(task[t])'
    BY Zenon DEF TaskInv, StartedInv, NamedInv, ScanInv, WhoInv
  <2>2. Alone' /\ Unscanned'
    BY Zenon DEF Alone, Unscanned
  <2> QED
    BY <2>1, <2>2 DEF Agree

\* Steps that move entries between the lists.
<1>MovedAgree.
    ASSUME Agree, AllIdle, boot = "up", UNCHANGED <<row, state, boot, task>>,
           \A n \in Names : Shown(lists'[n].vis, lists'[n].tmp, row[<<n, FALSE>>], row[<<n, TRUE>>])
    PROVE  Agree'
  <2> USE <1>MovedAgree
  <2>1. \A t \in Tasks : task'[t].pc = "idle"
    BY Zenon, IdleGood DEF AllIdle
  <2>2. ASSUME NEW n \in Names PROVE NameInv(n)'
    <3>1. NameInv(n) /\ Shown(lists'[n].vis, lists'[n].tmp, row[<<n, FALSE>>], row[<<n, TRUE>>])
      BY Zenon DEF Agree
    <3>2. Exact(n)'
      BY Zenon, <3>1 DEF NameInv, Exact, Fit
    <3>3. \A c \in BOOLEAN : Settled(n, c)'
      BY Zenon, <3>1 DEF NameInv, Settled, StartedAt, Has
    <3> QED
      BY <3>2, <3>3 DEF NameInv
  <2> QED
    BY Zenon, <2>1, <2>2, <1>QuietAgree

\* Switch
<1>SwitchAgree.
    ASSUME Agree, NEW set \in PolicySets, Switch(set)
    PROVE  Agree'
  <2> USE <1>SwitchAgree
  <2>1. ASSUME NEW n \in Names
        PROVE  Shown(lists'[n].vis, lists'[n].tmp, row[<<n, FALSE>>], row[<<n, TRUE>>])
    <3>1. lists'[n] = Migrate(lists[n], set)
      BY Zenon DEF Switch, MigrateAll
    <3>2. Shown(lists[n].vis, lists[n].tmp, row[<<n, FALSE>>], row[<<n, TRUE>>])
      BY Zenon DEF Agree, NameInv, Exact
    <3> QED
      BY Zenon, <3>1, <3>2, <1>MigrateShown
  <2> QED
    BY Zenon, <2>1, <1>MovedAgree DEF Switch

\* SwitchFails
<1>SwitchFailsAgree.
    ASSUME CloneInv, Agree, NEW set \in PolicySets, SwitchFails(set)
    PROVE  Agree'
  <2> USE <1>SwitchFailsAgree
  <2>1. ASSUME NEW n \in Names
        PROVE  Shown(lists'[n].vis, lists'[n].tmp, row[<<n, FALSE>>], row[<<n, TRUE>>])
    <3> DEFINE a == row[<<n, FALSE>>]
               b == row[<<n, TRUE>>]
    <3>1. PICK y : y = Migrate(lists[n], set)
      OBVIOUS
    <3>2. lists'[n] = IF persisted # {} THEN Migrate(y, persisted) ELSE ClassifyByDeviceMode(y, secondary)
      BY Zenon, <3>1 DEF SwitchFails, RollBackSwitch
    <3>3. Shown(lists[n].vis, lists[n].tmp, a, b) /\ Fit(a, b) /\ a \in Rows /\ b \in Rows
      BY Zenon DEF Agree, NameInv, Exact, CloneInv, RowsGood, Keys
    <3> HIDE DEF a, b
    <3>4. Shown(y.vis, y.tmp, a, b)
      BY Zenon, <3>1, <3>3, <1>MigrateShown
    <3>5. CASE persisted # {}
      <4>1. lists'[n] = Migrate(y, persisted)
        BY <3>2, <3>5
      <4> QED
        BY Zenon, <3>4, <4>1, <1>MigrateShown DEF a, b
    <3>6. CASE persisted = {}
      <4>1. lists'[n] = ClassifyByDeviceMode(y, secondary)
        BY <3>2, <3>6
      <4> QED
        BY Zenon, <3>3, <3>4, <4>1, <1>ClassifyByDeviceModeShown DEF a, b
    <3> QED
      BY Zenon, <3>5, <3>6
  <2> QED
    BY Zenon, <2>1, <1>MovedAgree DEF SwitchFails

\* Flip: with every thread idle and the boot over, nothing is about the mode.
<1>FlipAgree.
    ASSUME CloneInv, Agree, Flip, Orderly'
    PROVE  Agree'
  <2> USE <1>FlipAgree
  <2>1. AllIdle /\ boot = "up"
    BY Zenon DEF Flip, Orderly, CloneInv, OtherTypes
  <2>2. ASSUME NEW n \in Names
        PROVE  Shown(lists'[n].vis, lists'[n].tmp, row[<<n, FALSE>>], row[<<n, TRUE>>])
    BY Zenon DEF Flip, Agree, NameInv, Exact
  <2> QED
    BY Zenon, <2>1, <2>2, <1>MovedAgree DEF Flip

\* Publish
<1>PublishAgree.
    ASSUME Agree, Publish
    PROVE  Agree'
  <2> USE <1>PublishAgree
  <2>1. \A t \in Tasks : task'[t].pc = "idle"
    BY Zenon, IdleGood DEF AllIdle, Publish
  <2>2. \A n \in Names : NameInv(n)'
    BY Zenon DEF Publish, Agree, NameInv, Exact, Settled, Shown, Fit, StartedAt, Has, EntryOf
  <2>3. boot' # "first"
    BY Zenon DEF Publish
  <2> QED
    BY Zenon, <2>1, <2>2, <2>3, <1>QuietAgree

\* Reboot: the lists and the states are made of the rows.
<1>RebootAgree.
    ASSUME CloneInv, Agree, Reboot
    PROVE  Agree'
  <2> USE <1>RebootAgree
  <2>1. \A t \in Tasks : task'[t].pc = "idle"
    BY Zenon, IdleGood DEF Reboot
  <2>2. ASSUME NEW n \in Names PROVE NameInv(n)'
    <3> DEFINE a == row[<<n, FALSE>>]
               b == row[<<n, TRUE>>]
    <3>1. lists'[n] = Boot(a, b, persisted, secondary) /\ row' = row
      BY Zenon DEF Reboot
    <3>2. Fit(a, b) /\ a \in Rows /\ b \in Rows
      BY Zenon DEF Agree, NameInv, Exact, CloneInv, RowsGood, Keys
    <3>3. Shown(lists'[n].vis, lists'[n].tmp, a, b)
      BY Zenon, <3>1, <3>2, <1>BootShown
    <3>4. Exact(n)'
      BY Zenon, <3>1, <3>2, <3>3 DEF Exact, Fit
    <3>5. ASSUME NEW c \in BOOLEAN PROVE Settled(n, c)'
      BY <3>1 DEF Reboot, Settled, Has, Keys
    <3> QED
      BY <3>4, <3>5 DEF NameInv
  <2>3. boot' # "first"
    BY Zenon DEF Reboot
  <2> QED
    BY Zenon, <2>1, <2>2, <2>3, <1>QuietAgree

<1>1. CloneInv /\ CloneInv'
  BY Zenon, NextPreserves DEF RecordsInv
<1>2. CASE UNCHANGED vars
  <2>1. /\ lists' = lists /\ row' = row /\ state' = state /\ task' = task /\ env' = env
        /\ secondary' = secondary /\ boot' = boot /\ scanned' = scanned
    BY Zenon, <1>2 DEF vars
  <2> SUFFICES ASSUME Agree PROVE Agree'
    BY <1>1, <2>1 DEF RecordsInv, Orderly
  <2>2. ASSUME NEW m \in Names PROVE NameInv(m)'
    <3>1. Same(m) /\ \A u \in Tasks, c \in BOOLEAN : StartedAt(u, m, c)' <=> StartedAt(u, m, c)
      BY <2>1 DEF Same, StartedAt
    <3> QED
      BY Zenon, <3>1, <1>OtherName DEF Agree
  <2>3. ASSUME NEW u \in Tasks PROVE TaskInv(task[u])'
    <3>1. task[u].pc = "idle" \/ (task[u].key \in BOOLEAN /\ Same(task[u].name))
      BY Zenon, <1>1, <2>1, TaskFacts DEF Same
    <3>2. TaskInv(task[u]) /\ task'[u] = task[u] /\ scanned \subseteq scanned'
      BY Zenon, <2>1 DEF Agree
    <3> QED
      BY Zenon, <2>1, <3>1, <3>2, <1>OtherTask
  <2>4. Alone' /\ Unscanned'
    BY Zenon, <2>1 DEF Agree, Alone, Unscanned, Has
  <2> QED
    BY Zenon, <2>2, <2>3, <2>4 DEF Agree
<1>3. CASE Next
  <2> SUFFICES ASSUME Orderly' PROVE Agree'
    BY Zenon, <1>1 DEF RecordsInv
  <2>1. Agree
    BY Zenon, <1>1, <1>3, OrderlySticky DEF RecordsInv
  <2>2. ASSUME NEW t \in Tasks, NEW n \in Names, NEW p \in Policies,
               Begin(t, n, p) \/ FirstBoot(t, n, p) \/ OtaNew(t, n, p) \/ OtaKnown(t, n, p)
        PROVE  Agree'
    BY Zenon, <1>1, <2>1, <2>2, <1>BeginAgree, <1>FirstBootAgree, <1>OtaNewAgree, <1>OtaKnownAgree
  <2>3. ASSUME NEW t \in Tasks, Step(t)
        PROVE  Agree'
    BY <1>1, <2>1, <2>3, <1>NameAgree, <1>StartAgree, <1>FailAgree, <1>FinishAgree DEF Step
  <2>4. ASSUME NEW n \in Names, Uninstall(n)
        PROVE  Agree'
    BY <1>1, <2>1, <2>4, <1>UninstallAgree
  <2>5. ASSUME NEW set \in PolicySets, Switch(set) \/ SwitchFails(set)
        PROVE  Agree'
    BY <1>1, <2>1, <2>5, <1>SwitchAgree, <1>SwitchFailsAgree
  <2> QED
    BY <1>1, <1>3, <2>1, <2>2, <2>3, <2>4, <2>5, <1>FlipAgree, <1>RebootAgree,
       <1>PublishAgree DEF Next
<1> QED
  BY <1>2, <1>3

\* The invariant holds in every reachable state.
THEOREM RecordsInvariance == RecordsCovered => (Spec => []RecordsInv)
<1> SUFFICES ASSUME RecordsCovered PROVE Spec => []RecordsInv
  OBVIOUS
<1>1. RecordsInv /\ [Next]_vars => RecordsInv'
  BY Zenon, NextRecords
<1> QED
  BY InitRecords, <1>1, PTL DEF Spec

\* What the invariant says of the two entries of a name.
LEMMA RecordsPair == RecordsInv => NoAnomalousPair
<1> SUFFICES ASSUME RecordsInv, Orderly, NEW n \in Names,
                    lists[n].vis # Absent, lists[n].tmp # Absent
             PROVE  /\ Diff(lists[n].vis.policy) /\ Diff(lists[n].tmp.policy)
                    /\ lists[n].vis.clone # lists[n].tmp.clone
  BY Zenon DEF NoAnomalousPair, Diff
<1> DEFINE v == lists[n].vis
           w == lists[n].tmp
           a == row[<<n, FALSE>>]
           b == row[<<n, TRUE>>]
<1>1. a \in Rows /\ b \in Rows /\ Shown(v, w, a, b) /\ Fit(a, b)
  BY Zenon DEF RecordsInv, Agree, NameInv, Exact, CloneInv, RowsGood, Keys
<1>2. v # Absent /\ w # Absent
  OBVIOUS
<1> HIDE DEF v, w, a, b
<1>3. a # NoPolicy /\ b # NoPolicy /\ (v.policy = a \/ v.policy = b)
  BY Zenon, <1>1, <1>2, BothShown
<1>4. w.policy = a \/ w.policy = b
  BY Zenon, <1>1, <1>2, BothShown, ShownSwapped
<1>5. v.clone # w.clone
  BY Zenon, <1>1, <1>2, ShownApart
<1>6. Diff(a) /\ Diff(b)
  BY Zenon, <1>1, <1>3 DEF Fit
<1> QED
  BY Zenon, <1>3, <1>4, <1>5, <1>6 DEF v, w

\* What it says of the records of a device at rest.
LEMMA RecordsAtRest == RecordsInv => VariantsRecorded
<1> SUFFICES ASSUME RecordsInv, Orderly, AllIdle, NEW n \in Names, NEW c \in BOOLEAN
             PROVE  LET k == <<n, c>> IN
                    IF row[k] # NoPolicy THEN Listed(k) /\ state[k] = "INSTALL_SUCCESS"
                    ELSE /\ state[k] = "absent"
                         /\ \A e \in {lists[k[1]].vis, lists[k[1]].tmp} : e # Absent => e.clone # k[2]
  <2> SUFFICES ASSUME RecordsInv, Orderly, AllIdle, NEW k \in Keys
               PROVE  IF row[k] # NoPolicy THEN Listed(k) /\ state[k] = "INSTALL_SUCCESS"
                      ELSE /\ state[k] = "absent"
                           /\ \A e \in {lists[k[1]].vis, lists[k[1]].tmp} : e # Absent => e.clone # k[2]
    BY Zenon DEF VariantsRecorded
  <2>1. PICK n \in Names, c \in BOOLEAN : k = <<n, c>>
    BY DEF Keys
  <2>2. IF row[<<n, c>>] # NoPolicy THEN Listed(<<n, c>>) /\ state[<<n, c>>] = "INSTALL_SUCCESS"
        ELSE /\ state[<<n, c>>] = "absent"
             /\ \A e \in {lists[<<n, c>>[1]].vis, lists[<<n, c>>[1]].tmp} :
                   e # Absent => e.clone # <<n, c>>[2]
    BY Zenon
  <2> QED
    BY Zenon, <2>1, <2>2
<1>1. CloneInv /\ Agree /\ Exact(n)
  BY Zenon DEF RecordsInv, Agree, NameInv
<1>2. ~Locked(n)
  BY Zenon, IdleGood DEF AllIdle, Locked
<1>3. state[<<n, c>>] = IF Has(n, c) THEN "INSTALL_SUCCESS" ELSE "absent"
  BY Zenon, <1>1, <1>2, SettledNow
<1>4. CASE Has(n, c)
  <2>1. \E e \in {lists[n].vis, lists[n].tmp} : e # Absent /\ e.clone = c /\ e.policy = row[<<n, c>>]
    BY Zenon, <1>1, <1>4, RowEntry
  <2>2. Listed(<<n, c>>)
    BY Zenon, <2>1 DEF Listed
  <2> QED
    BY Zenon, <1>3, <1>4, <2>2 DEF Has
<1>5. CASE ~Has(n, c)
  <2>1. \A e \in {lists[n].vis, lists[n].tmp} : e # Absent => e.clone # c
    BY Zenon, <1>1, <1>5, EntryRow
  <2> QED
    BY <1>3, <1>5, <2>1 DEF Has
<1> QED
  BY Zenon, <1>4, <1>5

\* Two entries of one name always are the two packages of a different-package
\* application: the inconsistent pairing that the migration's comments
\* speak of is out of reach, for any number of names and installer threads.
THEOREM PairsNeverAnomalous == RecordsCovered => (Spec => []NoAnomalousPair)
<1> SUFFICES ASSUME RecordsCovered PROVE Spec => []NoAnomalousPair
  OBVIOUS
<1> QED
  BY RecordsInvariance, RecordsPair, PTL

\* Whenever the installer is at rest the lists, the bundle table and the
\* install states know the same variants of every name.
THEOREM VariantsStayRecorded == RecordsCovered => (Spec => []VariantsRecorded)
<1> SUFFICES ASSUME RecordsCovered PROVE Spec => []VariantsRecorded
  OBVIOUS
<1> QED
  BY RecordsInvariance, RecordsAtRest, PTL

----------------------------------------------------------------------------
\* The data of the visible variant.

\* A name with a visible entry only, and whether that is the current mode's.
Lone(n) == lists[n].vis # Absent /\ lists[n].tmp = Absent
OfMode(n) == lists[n].vis.clone = secondary

\* A scan that installs the other mode's package, now or in its next pass.
AwaitsCross(r) == IsCrossModeInstall(r) \/ r.rest \in {"CROSS", "SECONDARY"}

\* Such a scan meets no visible entry alone but the current mode's variant.
CrossInv(r) ==
    r.pc # "idle" /\ r.who # "user" /\ AwaitsCross(r) /\ Lone(r.name) =>
        Diff(r.policy) /\ OfMode(r.name)

\* So do the names that the scan of a later boot has still to treat.
ReadyInv ==
    boot = "later" => \A n \in Names \ scanned :
        Lone(n) /\ Diff(lists[n].vis.policy) => OfMode(n)

Apart == (\A t \in Tasks : CrossInv(task[t])) /\ ReadyInv

\* Lists that the boot makes of the rows of a name, for one set or other.
BootsTo(y, sec) == \E p \in Rows, q \in Rows : \E set : y = Boot(p, q, set, sec)

\* The inductive invariant.
DataInv == RecordsInv /\ (Orderly => Apart)

----------------------------------------------------------------------------
\* Passes and modes.

\* A pass of a different-package application.
DualPass(r) == r.role \in {"NONE", "PRIMARY", "SECONDARY"} /\ Diff(r.policy)

\* The current mode's package is installed under the current mode's flag.
LEMMA ModeFlag ==
    ASSUME NEW r, DualPass(r), ~IsCrossModeInstall(r), secondary \in BOOLEAN
    PROVE  ShouldUseDualModeCloneName(r) = secondary
  BY Zenon DEF DualPass, ShouldUseDualModeCloneName, IsCrossModeInstall, Diff

\* The other mode's package is installed under the other flag.
LEMMA OtherFlag ==
    ASSUME NEW r, DualPass(r), IsCrossModeInstall(r), secondary \in BOOLEAN
    PROVE  ShouldUseDualModeCloneName(r) # secondary
<1>1. ~ShouldBeHidden(r.policy, secondary)
  BY DEF DualPass, Diff, ShouldBeHidden, IsDiffPackageCategory, MAIN_ONLY, SUB_ONLY
<1>2. r.role # "NONE" /\ (r.role = "SECONDARY") # secondary
  BY Zenon, <1>1 DEF DualPass, IsCrossModeInstall
<1>3. CASE r.role = "SECONDARY"
  BY Zenon, <1>2, <1>3 DEF ShouldUseDualModeCloneName
<1>4. CASE r.role # "SECONDARY"
  BY Zenon, <1>2, <1>4 DEF ShouldUseDualModeCloneName
<1> QED
  BY Zenon, <1>3, <1>4

----------------------------------------------------------------------------
\* The theorem about the data.

\* On the empty device there is nothing to meet.
LEMMA InitData == Init => DataInv
<1> SUFFICES ASSUME Init PROVE Apart
  BY InitRecords DEF DataInv
<1>1. \A t \in Tasks : CrossInv(task[t])
  BY Zenon, IdleGood DEF Init, CrossInv
<1> QED
  BY Zenon, <1>1 DEF Init, Apart, ReadyInv

\* Every step keeps the invariant: what a step of one thread has to show, and
\* one step per action.
LEMMA NextData ==
    ASSUME RecordsCovered, DataInv, [Next]_vars
    PROVE  DataInv'

\* A thread that stays, with its name's lists, is as before.
<1>CrossKept.
    ASSUME NEW u \in Tasks, task'[u] = task[u], lists'[task[u].name] = lists[task[u].name],
           secondary' = secondary, CrossInv(task[u])
    PROVE  CrossInv(task[u])'
    BY Zenon, <1>CrossKept DEF CrossInv, AwaitsCross, Lone, OfMode, IsCrossModeInstall,
       ShouldBeHidden

\* A step of one thread on one name.
<1>ApartStep.
    ASSUME Agree, Apart, NEW t \in Tasks, NEW n \in Names,
           \A u \in Tasks \ {t} : task'[u] = task[u],
           \A m \in Names \ {n} : lists'[m] = lists[m],
           \A u \in Tasks \ {t} : task[u].pc # "idle" => task[u].name \in Names,
           secondary' = secondary, boot' = boot, scanned \subseteq scanned',
           \/ lists'[n] = lists[n]
           \/ /\ boot = "later" => n \in scanned'
              /\ \A u \in Tasks \ {t} : task[u].pc # "idle" /\ task[u].name = n => task[u].who = "user",
           CrossInv(task[t])'
    PROVE  Apart'
  <2> USE <1>ApartStep
  <2>1. ASSUME NEW u \in Tasks \ {t} PROVE CrossInv(task[u])'
    <3>1. CASE task[u].pc = "idle"
      BY Zenon, <3>1 DEF CrossInv
    <3>2. CASE task[u].pc # "idle" /\ lists'[task[u].name] = lists[task[u].name]
      BY Zenon, <3>2, <1>CrossKept DEF Apart
    <3>3. CASE task[u].pc # "idle" /\ lists'[task[u].name] # lists[task[u].name]
      <4>1. task[u].who = "user"
        BY Zenon, <3>3
      <4> QED
        BY Zenon, <4>1 DEF CrossInv
    <3> QED
      BY Zenon, <3>1, <3>2, <3>3
  <2>2. ReadyInv'
    <3> SUFFICES ASSUME boot = "later", NEW m \in Names \ scanned', Lone(m)', Diff(lists'[m].vis.policy)
                 PROVE  OfMode(m)'
      BY Zenon DEF ReadyInv, Diff
    <3>1. lists'[m] = lists[m] /\ m \in Names \ scanned
      BY Zenon
    <3>2. Lone(m) /\ Diff(lists[m].vis.policy)
      BY Zenon, <3>1 DEF Lone
    <3>3. OfMode(m)
      BY Zenon, <3>1, <3>2 DEF Apart, ReadyInv
    <3> QED
      BY Zenon, <3>1, <3>3 DEF OfMode
  <2> QED
    BY Zenon, <2>1, <2>2 DEF Apart

\* The pass after this one.
<1>NextPassCross.
    ASSUME CloneInv, NEW t \in Tasks, task[t].pc # "idle", NextPass(t), secondary' = secondary,
           NamedInv(task[t]), NEW n \in Names, n = task[t].name,
           task[t].rest \in {"CROSS", "SECONDARY"} /\ Lone(n)' => OfMode(n)'
    PROVE  /\ CrossInv(task[t])'
           /\ \A u \in Tasks \ {t} : task'[u] = task[u]
  <2> USE <1>NextPassCross
  <2> DEFINE r == task[t]
  <2>1. r.rest \in Rests /\ secondary \in BOOLEAN
    BY Zenon, TaskFacts, PassFields DEF CloneInv, OtherTypes
  <2>2. ASSUME NEW q, task' = [task EXCEPT ![t] = q]
        PROVE  task'[t] = q /\ \A u \in Tasks \ {t} : task'[u] = task[u]
    BY Zenon, <2>2 DEF CloneInv, TasksGood
  <2>3. CASE r.rest = "none"
    <3>1. task' = [task EXCEPT ![t] = Idle]
      BY <2>3 DEF NextPass
    <3>2. task'[t].pc = "idle" /\ \A u \in Tasks \ {t} : task'[u] = task[u]
      BY Zenon, <2>2, <3>1, IdleGood
    <3> QED
      BY Zenon, <3>2 DEF CrossInv
  <2>4. CASE r.rest \in {"CROSS", "SECONDARY"}
    <3>1. Diff(r.policy)
      BY Zenon, <2>4 DEF NamedInv
    <3>2. PICK q : task' = [task EXCEPT ![t] = q] /\ q.name = n /\ q.policy = r.policy
      <4>1. CASE r.rest = "SECONDARY"
        <5> DEFINE q == Pass("parsed", r.name, r.policy, "SECONDARY", r.who, TRUE, TRUE, "none")
        <5>1. task' = [task EXCEPT ![t] = q]
          BY Zenon, <4>1 DEF NextPass
        <5>2. q.name = n /\ q.policy = r.policy
          BY Zenon DEF Pass
        <5> HIDE DEF q
        <5> QED
          BY Zenon, <5>1, <5>2
      <4>2. CASE r.rest = "CROSS"
        <5> DEFINE q == CrossPass(r.name, r.policy, "none")
        <5>1. task' = [task EXCEPT ![t] = q]
          BY Zenon, <4>2 DEF NextPass
        <5>2. q.name = n /\ q.policy = r.policy
          <6>1. OtaPassOf(q, r.name, r.policy, "none")
            BY Zenon, <2>1, LastCross
          <6> QED
            BY Zenon, <2>1, <6>1 DEF OtaPassOf
        <5> HIDE DEF q
        <5> QED
          BY Zenon, <5>1, <5>2
      <4> QED
        BY Zenon, <2>4, <4>1, <4>2
    <3>3. task'[t] = q /\ \A u \in Tasks \ {t} : task'[u] = task[u]
      BY Zenon, <2>2, <3>2
    <3>4. Lone(task[t].name)' => OfMode(task[t].name)'
      BY Zenon, <2>4, <3>2, <3>3 DEF Lone, OfMode
    <3> QED
      BY Zenon, <3>1, <3>2, <3>3, <3>4 DEF CrossInv
  <2>5. CASE r.rest = "NORMAL"
    <3> DEFINE q == NormalPass(r.name, r.policy, "none")
    <3>1. task' = [task EXCEPT ![t] = q]
      BY Zenon, <2>5 DEF NextPass
    <3>2. q.role = "NONE" /\ ~q.resolved /\ q.rest = "none"
      <4>1. OtaPassOf(q, r.name, r.policy, "none")
        BY Zenon, <2>1, LastNormal
      <4> QED
        BY Zenon, <4>1, PassRole DEF OtaPassOf
    <3> HIDE DEF q
    <3>3. task'[t] = q /\ \A u \in Tasks \ {t} : task'[u] = task[u]
      BY Zenon, <2>2, <3>1
    <3> QED
      BY Zenon, <3>2, <3>3 DEF CrossInv, AwaitsCross, IsCrossModeInstall
  <2> QED
    BY Zenon, <2>1, <2>3, <2>4, <2>5 DEF Rests

\* A pass that ends with the records as they were.
<1>UndoneApart.
    ASSUME CloneInv, Agree, Apart, NEW t \in Tasks, NEW n \in Names, NEW k \in BOOLEAN, Undone(t, n, k)
    PROVE  Apart'
  <2> USE <1>UndoneApart
  <2>1. /\ task[t].pc # "idle" /\ n = task[t].name /\ NextPass(t) /\ lists' = lists
        /\ secondary' = secondary /\ boot' = boot /\ scanned' = scanned
    BY Zenon DEF Undone
  <2>2. NamedInv(task[t]) /\ WhoInv(task[t]) /\ CrossInv(task[t])
    BY Zenon DEF Agree, TaskInv, Apart
  <2>3. task[t].rest \in {"CROSS", "SECONDARY"} /\ Lone(n)' => OfMode(n)'
    <3> SUFFICES ASSUME task[t].rest \in {"CROSS", "SECONDARY"}, Lone(n)' PROVE OfMode(n)'
      OBVIOUS
    <3>1. task[t].who # "user"
      BY Zenon, <2>1, <2>2 DEF WhoInv
    <3>2. Lone(n)
      BY Zenon, <2>1 DEF Lone
    <3>3. OfMode(n)
      BY Zenon, <2>1, <2>2, <3>1, <3>2 DEF CrossInv, AwaitsCross
    <3> QED
      BY Zenon, <2>1, <3>3 DEF OfMode
  <2>4. CrossInv(task[t])' /\ \A u \in Tasks \ {t} : task'[u] = task[u]
    BY Zenon, <2>1, <2>2, <2>3, <1>NextPassCross
  <2>5. \A u \in Tasks \ {t} : task[u].pc # "idle" => task[u].name \in Names
    BY Zenon DEF CloneInv, TasksGood
  <2>6. lists'[n] = lists[n] /\ scanned \subseteq scanned' /\ \A m \in Names \ {n} : lists'[m] = lists[m]
    BY Zenon, <2>1
  <2> QED
    BY Zenon, <2>1, <2>4, <2>5, <2>6, <1>ApartStep

\* A step that leaves the lists, and gives one thread a pass that a lone
\* visible entry does not disturb.
<1>PassApart.
    ASSUME CloneInv, Agree, Apart, NEW t \in Tasks, NEW q, task' = [task EXCEPT ![t] = q],
           lists' = lists, secondary' = secondary, boot' = boot, scanned \subseteq scanned',
           CrossInv(q)
    PROVE  Apart'
  <2> USE <1>PassApart
  <2>1. task'[t] = q /\ \A u \in Tasks \ {t} : task'[u] = task[u]
    BY DEF CloneInv, TasksGood
  <2>2. CrossInv(task[t])'
    BY Zenon, <2>1 DEF CrossInv, AwaitsCross, Lone, OfMode, IsCrossModeInstall, ShouldBeHidden
  <2>3. ASSUME NEW u \in Tasks \ {t} PROVE CrossInv(task[u])'
    BY Zenon, <2>1, <1>CrossKept DEF Apart
  <2>4. ReadyInv'
    BY Zenon DEF Apart, ReadyInv, Lone, OfMode
  <2> QED
    BY Zenon, <2>2, <2>3, <2>4 DEF Apart

\* Before RegisterService no user installs, and after it no scan does.
<1>UpApart.
    ASSUME Agree', boot' = "up"
    PROVE  Apart'
  <2> USE <1>UpApart
  <2>1. ASSUME NEW t \in Tasks PROVE CrossInv(task[t])'
    BY Zenon DEF Agree, TaskInv, WhoInv, CrossInv
  <2> QED
    BY Zenon, <2>1 DEF Apart, ReadyInv

\* Begin: the package is a user's.
<1>BeginApart.
    ASSUME CloneInv, Agree, Apart, NEW t \in Tasks, NEW n \in Names, NEW p \in Policies, Begin(t, n, p)
    PROVE  Apart'
  <2> USE <1>BeginApart
  <2> DEFINE q == Pass("parsed", n, p, "NONE", "user", FALSE, secondary /\ IsDiffPackageCategory(p), "none")
  <2>1. /\ task' = [task EXCEPT ![t] = q] /\ lists' = lists /\ secondary' = secondary
        /\ boot' = boot /\ scanned \subseteq scanned'
    BY Zenon DEF Begin
  <2>2. CrossInv(q)
    BY Zenon DEF CrossInv, Pass
  <2> HIDE DEF q
  <2> QED
    BY Zenon, <2>1, <2>2, <1>PassApart

\* FirstBoot: the name has no entries yet.
<1>FirstBootApart.
    ASSUME CloneInv, Agree, Apart, NEW t \in Tasks, NEW n \in Names, NEW p \in Policies, FirstBoot(t, n, p)
    PROVE  Apart'
  <2> USE <1>FirstBootApart
  <2>1. PICK q : task' = [task EXCEPT ![t] = q] /\ q.name = n
    <3> DEFINE q1 == Pass("parsed", n, p, "PRIMARY", "first", TRUE, FALSE, "SECONDARY")
               q2 == Pass("parsed", n, p, "NONE", "first", TRUE, FALSE, "none")
    <3>1. task' = [task EXCEPT ![t] = q1] \/ task' = [task EXCEPT ![t] = q2]
      BY Zenon DEF FirstBoot, FirstPass
    <3>2. q1.name = n /\ q2.name = n
      BY Zenon DEF Pass
    <3> HIDE DEF q1, q2
    <3> QED
      BY Zenon, <3>1, <3>2
  <2>2. /\ boot = "first" /\ n \notin scanned /\ lists' = lists /\ secondary' = secondary
        /\ boot' = boot /\ scanned \subseteq scanned'
    BY DEF FirstBoot, Scan
  <2>3. ~Lone(n)
    <3>1. \A c \in BOOLEAN : ~Has(n, c)
      BY Zenon, <2>2 DEF Agree, Unscanned
    <3>2. Exact(n)
      BY Zenon DEF Agree, NameInv
    <3> QED
      BY Zenon, <3>1, <3>2, EntryRow DEF Lone
  <2>4. CrossInv(q)
    BY Zenon, <2>1, <2>3 DEF CrossInv
  <2> QED
    BY Zenon, <2>1, <2>2, <2>4, <1>PassApart

\* OtaNew: what a user has of the name is of the package's policy and, the
\* name not yet scanned, where the boot placed it.
<1>OtaNewApart.
    ASSUME CloneInv, Agree, Apart, NEW t \in Tasks, NEW n \in Names, NEW p \in Policies,
           OtaNew(t, n, p), Orderly'
    PROVE  Apart'
  <2> USE <1>OtaNewApart
  <2>1. /\ boot = "later" /\ n \notin scanned /\ lists' = lists /\ secondary' = secondary
        /\ boot' = boot /\ scanned \subseteq scanned' /\ secondary \in BOOLEAN
    BY Zenon DEF OtaNew, Scan, CloneInv, OtherTypes
  <2>2. ~Clashes(n, p)
    BY Zenon DEF OtaNew, Orderly, CloneInv, OtherTypes
  <2>3. PICK q : /\ task' = [task EXCEPT ![t] = q]
                 /\ \/ Diff(p) /\ q = NormalPass(n, p, "CROSS")
                    \/ ShouldBeHidden(p, secondary) /\ q = CrossPass(n, p, "none")
                    \/ q = NormalPass(n, p, "none")
    BY Zenon DEF OtaNew, Diff
  <2>4. CrossInv(q)
    <3>1. CASE Diff(p) /\ q = NormalPass(n, p, "CROSS")
      <4>1. q.name = n /\ q.policy = p
        <5>1. OtaPassOf(q, n, p, "CROSS")
          BY Zenon, <2>1, <3>1, FirstNormal
        <5> QED
          BY Zenon, <5>1 DEF OtaPassOf
      <4>2. Lone(n) => lists[n].vis.policy = p
        BY Zenon, <2>2 DEF Clashes, Lone
      <4>3. Lone(n) => OfMode(n)
        BY Zenon, <2>1, <3>1, <4>2 DEF Apart, ReadyInv
      <4> QED
        BY Zenon, <3>1, <4>1, <4>3 DEF CrossInv
    <3>2. CASE ShouldBeHidden(p, secondary) /\ q = CrossPass(n, p, "none")
      <4>1. q.name = n
        <5>1. OtaPassOf(q, n, p, "none")
          BY Zenon, <2>1, <3>2, LastCross
        <5> QED
          BY Zenon, <5>1 DEF OtaPassOf
      <4>2. ~Lone(n)
        BY Zenon, <2>2, <3>2 DEF Clashes, Lone
      <4> QED
        BY Zenon, <4>1, <4>2 DEF CrossInv
    <3>3. CASE q = NormalPass(n, p, "none")
      <4>1. q.role = "NONE" /\ ~q.resolved /\ q.rest = "none"
        <5>1. OtaPassOf(q, n, p, "none")
          BY Zenon, <2>1, <3>3, LastNormal
        <5> QED
          BY Zenon, <3>3, <5>1, PassRole DEF OtaPassOf
      <4> QED
        BY Zenon, <4>1 DEF CrossInv, AwaitsCross, IsCrossModeInstall
    <3> QED
      BY Zenon, <2>3, <3>1, <3>2, <3>3
  <2> QED
    BY Zenon, <2>1, <2>3, <2>4, <1>PassApart

\* What an OTA leaves alone in the visible list when it decides to install the
\* other mode's package of a name it knows: the plain variant, which is the
\* current mode's.
<1>OtaKnownLone.
    ASSUME CloneInv, Apart, NEW n \in Names, NEW p \in Policies, NEW newer \in BOOLEAN,
           boot = "later", n \notin scanned, known[<<n, FALSE>>] # "none",
           IF IsDiffPackageCategory(p) THEN UpdateDualPolicy(n, p) ELSE UNCHANGED <<lists, row>>,
           NeedsCross(n, p, newer), lists'[n].vis # Absent, lists'[n].tmp = Absent
    PROVE  Diff(p) /\ lists'[n].vis.clone = secondary
  <2> USE <1>OtaKnownLone
  <2>1. Diff(p)
    BY Zenon DEF NeedsCross, Diff
  <2>2. known[<<n, ~secondary>>] = "none" /\ UpdateDualPolicy(n, p)
    BY Zenon, <2>1 DEF NeedsCross, Diff
  <2>3. secondary = FALSE
    BY Zenon, <2>2 DEF CloneInv, OtherTypes
  <2>4. lists'[n] = WithPolicy(lists[n], p)
    BY Zenon, <2>2, <2>3 DEF UpdateDualPolicy, CloneInv, ListsGood
  <2>5. lists[n].vis # Absent
    BY Zenon, <2>4 DEF WithPolicy
  <2>6. lists'[n].vis = Entry(p, lists[n].vis.clone) /\ lists[n].tmp = Absent
    <3> DEFINE v == Entry(p, lists[n].vis.clone)
               w == IF lists[n].tmp = Absent THEN Absent ELSE Entry(p, lists[n].tmp.clone)
    <3>1. lists'[n] = Pair(v, w)
      BY Zenon, <2>4, <2>5 DEF WithPolicy
    <3> HIDE DEF v, w
    <3>2. lists'[n].vis = v /\ lists'[n].tmp = w
      <4>1. Pair(v, w).vis = v /\ Pair(v, w).tmp = w
        BY Zenon, PairHas
      <4> QED
        BY Zenon, <3>1, <4>1
    <3> USE DEF v, w
    <3>3. \A c : Entry(p, c) # Absent
      BY Zenon, EntryPresent
    <3> QED
      BY Zenon, <3>2, <3>3
  <2>7. lists[n].vis.clone = FALSE
    <3>1. CASE Diff(lists[n].vis.policy)
      <4>1. OfMode(n)
        BY Zenon, <2>5, <2>6, <3>1 DEF Apart, ReadyInv, Lone
      <4> QED
        BY Zenon, <2>3, <4>1 DEF OfMode
    <3>2. CASE ~Diff(lists[n].vis.policy)
      <4>1. lists[n].vis \in GoodEntries
        BY Zenon, PairFields DEF CloneInv, ListsGood
      <4> QED
        BY Zenon, <2>5, <3>2, <4>1, GoodFields DEF Diff
    <3> QED
      BY Zenon, <3>1, <3>2
  <2>8. lists'[n].vis.clone = lists[n].vis.clone
    <3>1. Entry(p, lists[n].vis.clone).clone = lists[n].vis.clone
      BY Zenon DEF Entry
    <3> QED
      BY Zenon, <2>6, <3>1
  <2> QED
    BY Zenon, <2>1, <2>3, <2>7, <2>8

\* OtaKnown
<1>OtaKnownApart.
    ASSUME CloneInv, Agree, Apart, NEW t \in Tasks, NEW n \in Names, NEW p \in Policies, OtaKnown(t, n, p)
    PROVE  Apart'
  <2> USE <1>OtaKnownApart
  <2>1. /\ boot = "later" /\ n \notin scanned /\ secondary' = secondary /\ n \in scanned'
        /\ boot' = boot /\ scanned \subseteq scanned' /\ secondary \in BOOLEAN
        /\ known[<<n, FALSE>>] # "none"
        /\ IF IsDiffPackageCategory(p) THEN UpdateDualPolicy(n, p) ELSE UNCHANGED <<lists, row>>
    BY Zenon DEF OtaKnown, Scan, CloneInv, OtherTypes
  <2>2. PICK newer \in BOOLEAN, crossNewer \in BOOLEAN, removable \in BOOLEAN :
          task' = [task EXCEPT ![t] =
                  IF NeedsCross(n, p, crossNewer)
                  THEN CrossPass(n, p, IF NeedsNormal(n, p, newer, removable) THEN "NORMAL" ELSE "none")
                  ELSE IF NeedsNormal(n, p, newer, removable) THEN NormalPass(n, p, "none")
                  ELSE Idle]
    BY Zenon DEF OtaKnown
  <2>3. PICK q : /\ task' = [task EXCEPT ![t] = q]
                 /\ \/ q = Idle
                    \/ q = NormalPass(n, p, "none")
                    \/ /\ NeedsCross(n, p, crossNewer)
                       /\ \E rest : q = CrossPass(n, p, rest)
    BY Zenon, <2>2
  <2>4. task'[t] = q /\ \A u \in Tasks \ {t} : task'[u] = task[u]
    BY Zenon, <2>3 DEF CloneInv, TasksGood
  <2>5. CrossInv(task[t])'
    <3>1. CASE q = Idle
      BY Zenon, <2>4, <3>1, IdleGood DEF CrossInv
    <3>2. CASE q = NormalPass(n, p, "none")
      <4>1. q.role = "NONE" /\ ~q.resolved /\ q.rest = "none"
        <5>1. OtaPassOf(q, n, p, "none")
          BY Zenon, <2>1, <3>2, LastNormal
        <5> QED
          BY Zenon, <3>2, <5>1, PassRole DEF OtaPassOf
      <4> QED
        BY Zenon, <2>4, <4>1 DEF CrossInv, AwaitsCross, IsCrossModeInstall
    <3>3. CASE NeedsCross(n, p, crossNewer) /\ \E rest : q = CrossPass(n, p, rest)
      <4>1. q.name = n /\ q.policy = p
        <5>1. \A rest : CrossPass(n, p, rest).name = n /\ CrossPass(n, p, rest).policy = p
          BY Zenon DEF CrossPass, Pass
        <5> QED
          BY Zenon, <3>3, <5>1
      <4>2. Lone(n)' => Diff(p) /\ OfMode(n)'
        BY Zenon, <2>1, <3>3, <1>OtaKnownLone DEF Lone, OfMode
      <4> QED
        BY Zenon, <2>4, <4>1, <4>2 DEF CrossInv, Lone, OfMode
    <3> QED
      BY <2>3, <3>1, <3>2, <3>3
  <2>6. \A m \in Names \ {n} : lists'[m] = lists[m]
    BY Zenon, <2>1 DEF UpdateDualPolicy, CloneInv, ListsGood
  <2>7. \A u \in Tasks \ {t} : task[u].pc # "idle" => task[u].name \in Names
    BY DEF CloneInv, TasksGood
  <2>8. \A u \in Tasks \ {t} : task[u].pc # "idle" /\ task[u].name = n => task[u].who = "user"
    BY Zenon, <2>1, OthersAreUsers
  <2> QED
    BY Zenon, <2>1, <2>4, <2>5, <2>6, <2>7, <2>8, <1>ApartStep

\* A pass that goes on keeps what its package is.
<1>GoesOn.
    ASSUME NEW r, NEW q, CrossInv(r), r.pc # "idle", q.name = r.name, q.policy = r.policy, q.role = r.role,
           q.resolved = r.resolved, q.rest = r.rest, q.who = r.who
    PROVE  CrossInv(q)
    BY Zenon, <1>GoesOn DEF CrossInv, AwaitsCross, IsCrossModeInstall

\* Name
<1>NameApart.
    ASSUME CloneInv, Agree, Apart, NEW t \in Tasks, Name(t)
    PROVE  Apart'
  <2> USE <1>NameApart
  <2> DEFINE r == task[t]
             q == [[r EXCEPT !.pc = "named"] EXCEPT !.key = ShouldUseDualModeCloneName(r)]
  <2>1. /\ task' = [task EXCEPT ![t] = q] /\ r.pc # "idle"
        /\ lists' = lists /\ secondary' = secondary /\ boot' = boot /\ scanned \subseteq scanned'
    BY DEF Name
  <2>2. r \in Passes
    BY Zenon, <2>1, TaskFacts, PassFields
  <2>3. /\ q.name = r.name /\ q.policy = r.policy /\ q.role = r.role
        /\ q.resolved = r.resolved /\ q.rest = r.rest /\ q.who = r.who
    BY Zenon, <2>2 DEF Passes
  <2> HIDE DEF q
  <2>4. CrossInv(q)
    BY Zenon, <2>1, <2>3, <1>GoesOn DEF Apart
  <2> QED
    BY Zenon, <2>1, <2>4, <1>PassApart

\* Start
<1>StartApart.
    ASSUME CloneInv, Agree, Apart, NEW t \in Tasks, Start(t)
    PROVE  Apart'
  <2> USE <1>StartApart
  <2> DEFINE r == task[t]
  <2>1. /\ r.pc = "named" /\ r.pc # "idle" /\ ~Locked(r.name)
        /\ secondary' = secondary /\ boot' = boot /\ scanned' = scanned /\ scanned \subseteq scanned'
    BY Zenon DEF Start
  <2>2. PICK n \in Names, k \in BOOLEAN : n = r.name /\ k = r.key
    BY Zenon, <2>1, NamedFacts
  <2>3. CASE lists' = lists /\ task' = [task EXCEPT ![t] = Started(r, Lookup(r))]
    <3>1. PICK q : q = Started(r, Lookup(r))
      OBVIOUS
    <3>2. r \in Passes
      BY Zenon, <2>1, NamedFacts
    <3>3. /\ q.name = r.name /\ q.policy = r.policy /\ q.role = r.role
          /\ q.resolved = r.resolved /\ q.rest = r.rest /\ q.who = r.who
      BY Zenon, <3>1, <3>2 DEF Started, Passes
    <3>4. CrossInv(q)
      BY Zenon, <2>1, <3>3, <1>GoesOn DEF Apart
    <3> QED
      BY Zenon, <2>1, <2>3, <3>1, <3>4, <1>PassApart
  <2>4. CASE /\ RollBackNew(t, lists[n], state[<<n, k>>]) \/ RollBackExisting(t)
             /\ NextPass(t)
    <3>1. Undone(t, n, k)
      BY Zenon, <2>1, <2>2, <2>4, StartRefused
    <3> QED
      BY Zenon, <3>1, <1>UndoneApart
  <2> QED
    BY Zenon, <2>2, <2>3, <2>4 DEF Start

\* A failure after the start.
<1>FailApart.
    ASSUME CloneInv, Agree, Apart, RecordsCovered, NEW t \in Tasks,
           FailDirs(t) \/ FailLate(t) \/ FailSave(t)
    PROVE  Apart'
  <2> USE <1>FailApart
  <2>1. PICK n \in Names, k \in BOOLEAN : Undone(t, n, k)
    BY Zenon, FailDirsUndone, FailLateUndone, FailSaveUndone
  <2> QED
    BY Zenon, <2>1, <1>UndoneApart

\* Finish: the other mode's package comes to the hidden list, and the current
\* mode's leaves the current mode's variant in the visible one.
<1>FinishApart.
    ASSUME CloneInv, Agree, Apart, NEW t \in Tasks, Finish(t)
    PROVE  Apart'
  <2> USE <1>FinishApart
  <2> DEFINE r == task[t]
  <2>1. /\ r.pc = "started" /\ r.pc # "idle" /\ CanStore(r) /\ NextPass(t)
        /\ secondary' = secondary /\ boot' = boot /\ scanned' = scanned /\ scanned \subseteq scanned'
    BY Storable DEF Finish
  <2>2. PICK n \in Names, d \in BOOLEAN : n = r.name /\ d = r.clone
    BY Zenon, <2>1, StartedFacts
  <2>3. lists' = [lists EXCEPT ![n] = WithEntry(lists[n], IsCrossModeInstall(r), Entry(r.policy, d))]
    BY Zenon, <2>1, <2>2 DEF Finish
  <2>4. /\ lists'[n] = WithEntry(lists[n], IsCrossModeInstall(r), Entry(r.policy, d))
        /\ \A m \in Names \ {n} : lists'[m] = lists[m]
    BY Zenon, <2>3 DEF CloneInv, ListsGood
  <2>5. /\ StartedInv(r) /\ NamedInv(r) /\ WhoInv(r) /\ CrossInv(r) /\ r.policy \in Policies
        /\ r.role \in {"NONE", "PRIMARY", "SECONDARY"} /\ secondary \in BOOLEAN /\ r.exist \in BOOLEAN
    <3>1. r \in Passes
      BY Zenon, <2>1, TaskFacts, PassFields
    <3>2. r.role \in {"NONE", "PRIMARY", "SECONDARY"}
      BY Zenon, <3>1 DEF Passes
    <3> QED
      BY Zenon, <2>1, <3>2, StartedFacts DEF TaskInv, Apart, CloneInv, OtherTypes
  <2>6. ASSUME r.rest \in {"CROSS", "SECONDARY"}, Lone(n)' PROVE OfMode(n)'
    <3>1. r.who # "user" /\ Diff(r.policy)
      BY Zenon, <2>1, <2>5, <2>6 DEF WhoInv, NamedInv
    <3>2. ~IsCrossModeInstall(r)
      <4>1. Entry(r.policy, d) # Absent
        BY Zenon, <2>5, EntryPresent
      <4>2. IsCrossModeInstall(r) => lists'[n].tmp = Entry(r.policy, d)
        <5>1. ASSUME IsCrossModeInstall(r) PROVE lists'[n] = Pair(lists[n].vis, Entry(r.policy, d))
          BY Zenon, <2>4, <5>1 DEF WithEntry
        <5>2. Pair(lists[n].vis, Entry(r.policy, d)).vis = lists[n].vis /\ Pair(lists[n].vis, Entry(r.policy, d)).tmp = Entry(r.policy, d)
          BY Zenon, PairHas
        <5> QED
          BY Zenon, <5>1, <5>2
      <4> QED
        BY Zenon, <2>6, <4>1, <4>2 DEF Lone
    <3>3. lists'[n].vis.clone = d /\ lists'[n].tmp = lists[n].tmp
      <4>1. lists'[n] = Pair(Entry(r.policy, d), lists[n].tmp)
        BY Zenon, <2>4, <3>2 DEF WithEntry
      <4>2. Entry(r.policy, d).clone = d
        BY Zenon DEF Entry
      <4>3. /\ Pair(Entry(r.policy, d), lists[n].tmp).vis = Entry(r.policy, d)
            /\ Pair(Entry(r.policy, d), lists[n].tmp).tmp = lists[n].tmp
        BY Zenon, PairHas
      <4> QED
        BY Zenon, <4>1, <4>2, <4>3
    <3>4. Lookup(r) = lists[n].vis
      BY Zenon, <2>2, <3>2 DEF Lookup
    <3>5. CASE r.exist
      <4>1. lists[n].vis # Absent /\ lists[n].vis.clone = d
        BY Zenon, <2>1, <2>2, <2>5, <3>4, <3>5 DEF StartedInv
      <4>2. Lone(n)
        BY Zenon, <2>6, <3>3, <4>1 DEF Lone
      <4>3. OfMode(n)
        BY Zenon, <2>1, <2>2, <2>5, <2>6, <3>1, <4>2 DEF CrossInv, AwaitsCross
      <4> QED
        BY Zenon, <2>1, <3>3, <4>1, <4>3 DEF OfMode
    <3>6. CASE ~r.exist
      <4>1. d = r.key
        BY Zenon, <2>1, <2>2, <2>5, <3>6 DEF StartedInv
      <4>2. r.key = ShouldUseDualModeCloneName(r)
        BY Zenon, <2>1, <2>5 DEF NamedInv
      <4>3. ShouldUseDualModeCloneName(r) = secondary
        <5>1. DualPass(r)
          BY Zenon, <2>5, <3>1 DEF DualPass
        <5> QED
          BY Zenon, <2>5, <3>2, <5>1, ModeFlag
      <4> QED
        BY Zenon, <2>1, <3>3, <4>1, <4>2, <4>3 DEF OfMode
    <3> QED
      BY Zenon, <2>5, <3>5, <3>6
  <2>7. CrossInv(task[t])' /\ \A u \in Tasks \ {t} : task'[u] = task[u]
    BY Zenon, <2>1, <2>2, <2>5, <2>6, <1>NextPassCross
  <2>8. \A u \in Tasks \ {t} : task[u].pc # "idle" => task[u].name \in Names
    BY DEF CloneInv, TasksGood
  <2>9. \A u \in Tasks \ {t} : task[u].pc # "idle" /\ task[u].name = n => task[u].who = "user"
    BY Zenon, <2>1, <2>2, OthersAreUsers
  <2>10. boot = "later" => n \in scanned'
    BY Zenon, <2>1, <2>2, <2>5 DEF WhoInv
  <2> QED
    BY Zenon, <2>1, <2>4, <2>7, <2>8, <2>9, <2>10, <1>ApartStep

\* Neither a missing row nor a single-mode application is of different packages.
<1>PolicyFacts.
    ~IsDiffPackageCategory(NoPolicy) /\ ~IsDiffPackageCategory(MAIN_ONLY) /\ ~IsDiffPackageCategory(SUB_ONLY)
    BY DEF IsDiffPackageCategory, NoPolicy, MAIN_ONLY, SUB_ONLY

\* What the boot leaves alone in the visible list is the current mode's.
<1>BootPlaces.
    ASSUME NEW y, NEW sec \in BOOLEAN, BootsTo(y, sec),
           y.vis # Absent, y.tmp = Absent, Diff(y.vis.policy)
    PROVE  y.vis.clone = sec
  <2>0. PICK p \in Rows, q \in Rows : \E set : y = Boot(p, q, set, sec)
    BY Zenon, <1>BootPlaces DEF BootsTo
  <2>10. PICK set : y = Boot(p, q, set, sec)
    BY Zenon, <2>0
  <2> DEFINE x0 == Pair(Entry(p, FALSE), Absent)
             x1 == IF set # {} THEN ClassifyByPolicy(x0, set) ELSE x0
             x2 == IF IsDiffPackageCategory(q) THEN Pair(x1.vis, Entry(q, TRUE)) ELSE x1
             x3 == IF sec THEN RestoreSecondary(x2) ELSE x2
  <2>1. y = IF set = {} THEN ClassifyByDeviceMode(x3, sec) ELSE x3
    BY Zenon, <2>10 DEF Boot
  <2>2. ~IsDiffPackageCategory(NoPolicy) /\ ~IsDiffPackageCategory(MAIN_ONLY) /\ ~IsDiffPackageCategory(SUB_ONLY)
    BY Zenon, <1>PolicyFacts
  <2>3. /\ x0.vis = Entry(p, FALSE) /\ x0.tmp = Absent
        /\ Absent.policy = NoPolicy /\ Absent.clone = FALSE
    BY Zenon DEF x0, Pair, Entry, Absent
  <2> HIDE DEF x0
  <2>4. /\ ~x1.vis.clone /\ x1.vis.clone \in BOOLEAN
        /\ ~IsDiffPackageCategory(x1.tmp.policy)
    <3>1. \/ x1 = x0
          \/ x1 = Pair(Absent, x0.vis) /\ ~IsDiffPackageCategory(x0.vis.policy)
      BY Zenon DEF ClassifyByPolicy
    <3> HIDE DEF x1
    <3>2. Entry(p, FALSE).clone = FALSE /\ Pair(Absent, x0.vis).vis = Absent /\ Pair(Absent, x0.vis).tmp = x0.vis
      BY Zenon DEF Pair, Entry
    <3> QED
      BY Zenon, <2>2, <2>3, <3>1, <3>2
  <2> HIDE DEF x1
  <2>5. /\ ~x2.vis.clone /\ x2.vis.clone \in BOOLEAN
        /\ IsDiffPackageCategory(x2.tmp.policy) => x2.tmp.clone = TRUE
    <3>1. x2 = Pair(x1.vis, Entry(q, TRUE)) \/ x2 = x1
      BY Zenon
    <3> HIDE DEF x2
    <3>2. /\ Pair(x1.vis, Entry(q, TRUE)).vis = x1.vis /\ Pair(x1.vis, Entry(q, TRUE)).tmp = Entry(q, TRUE)
          /\ Entry(q, TRUE).clone = TRUE
      BY Zenon DEF Pair, Entry
    <3> QED
      BY Zenon, <2>4, <3>1, <3>2
  <2> HIDE DEF x2
  <2>6. x3.vis.clone \in BOOLEAN /\ (Diff(x3.vis.policy) => x3.vis.clone = sec)
    <3>1. CASE ~sec
      BY Zenon, <2>5, <3>1
    <3>2. CASE sec
      <4> DEFINE z == IF IsDiffPackageCategory(x2.tmp.policy) THEN Pair(x2.tmp, x2.vis) ELSE x2
      <4>1. x3 = IF IsDiffPackageCategory(z.vis.policy) /\ ~z.vis.clone THEN Pair(Absent, z.vis) ELSE z
        BY Zenon, <3>2 DEF RestoreSecondary
      <4>2. z.vis.clone \in BOOLEAN
        <5>1. CASE IsDiffPackageCategory(x2.tmp.policy)
          BY Zenon, <2>5, <5>1 DEF Pair
        <5>2. CASE ~IsDiffPackageCategory(x2.tmp.policy)
          BY Zenon, <2>5, <5>2
        <5> QED
          BY Zenon, <5>1, <5>2
      <4> HIDE DEF z
      <4>3. Pair(Absent, z.vis).vis = Absent
        BY Zenon, Fields
      <4> QED
        BY Zenon, <2>2, <2>3, <3>2, <4>1, <4>2, <4>3 DEF Diff
    <3> QED
      BY Zenon, <3>1, <3>2
  <2> HIDE DEF x3
  <2>7. CASE y = x3
    BY Zenon, <1>BootPlaces, <2>6, <2>7
  <2>8. CASE y = Pair(Absent, x3.vis)
    <3>1. y.vis = Absent
      <4>1. Pair(Absent, x3.vis).vis = Absent /\ Pair(Absent, x3.vis).tmp = x3.vis
        BY Zenon, PairHas
      <4> QED
        BY Zenon, <2>8, <4>1
    <3> QED
      BY Zenon, <1>BootPlaces, <3>1
  <2>9. CASE x3.tmp.policy \in {MAIN_ONLY, SUB_ONLY} /\ y = Pair(x3.tmp, Absent)
    <3>1. y.vis = x3.tmp
      <4>1. Pair(x3.tmp, Absent).vis = x3.tmp /\ Pair(x3.tmp, Absent).tmp = Absent
        BY Zenon, PairHas
      <4> QED
        BY Zenon, <2>9, <4>1
    <3> QED
      BY Zenon, <1>BootPlaces, <2>2, <2>9, <3>1 DEF Diff
  <2> QED
    BY Zenon, <2>1, <2>7, <2>8, <2>9 DEF ClassifyByDeviceMode

\* Reboot
<1>RebootApart.
    ASSUME CloneInv, Reboot
    PROVE  Apart'
  <2> USE <1>RebootApart
  <2>1. \A t \in Tasks : CrossInv(task[t])'
    BY Zenon, IdleGood DEF Reboot, CrossInv
  <2>2. ASSUME NEW n \in Names, Lone(n)', Diff(lists'[n].vis.policy) PROVE OfMode(n)'
    <3>1. /\ lists'[n] = Boot(row[<<n, FALSE>>], row[<<n, TRUE>>], persisted, secondary)
          /\ secondary' = secondary /\ secondary \in BOOLEAN
      BY DEF Reboot, CloneInv, OtherTypes
    <3>2. row[<<n, FALSE>>] \in Rows /\ row[<<n, TRUE>>] \in Rows
      BY Zenon DEF CloneInv, RowsGood, Keys
    <3>3. lists'[n].vis.clone = secondary
      <4>1. PICK y : y = lists'[n]
        BY Zenon
      <4>2. BootsTo(y, secondary)
        BY Zenon, <3>1, <3>2, <4>1 DEF BootsTo
      <4>3. y.vis # Absent /\ y.tmp = Absent /\ Diff(y.vis.policy)
        BY Zenon, <2>2, <4>1 DEF Lone
      <4>4. y.vis.clone = secondary
        BY Zenon, <3>1, <4>2, <4>3, <1>BootPlaces
      <4> QED
        BY Zenon, <4>1, <4>4
    <3> QED
      BY Zenon, <3>1, <3>3 DEF OfMode
  <2>3. ReadyInv'
    BY Zenon, <2>2 DEF ReadyInv, Diff
  <2> QED
    BY Zenon, <2>1, <2>3 DEF Apart

<1>1. RecordsInv /\ RecordsInv' /\ CloneInv
  BY Zenon, NextRecords DEF DataInv, RecordsInv
<1>2. CASE UNCHANGED vars
  <2>1. /\ lists' = lists /\ task' = task /\ env' = env /\ secondary' = secondary
        /\ boot' = boot /\ scanned' = scanned
    BY Zenon, <1>2 DEF vars
  <2> SUFFICES ASSUME Apart PROVE Apart'
    BY Zenon, <1>1, <2>1 DEF DataInv, Orderly
  <2>2. \A u \in Tasks : CrossInv(task[u])'
    BY Zenon, <2>1, <1>CrossKept DEF Apart
  <2>3. ReadyInv'
    BY Zenon, <2>1 DEF Apart, ReadyInv, Lone, OfMode
  <2> QED
    BY Zenon, <2>2, <2>3 DEF Apart
<1>3. CASE Next
  <2> SUFFICES ASSUME Orderly' PROVE Apart'
    BY Zenon, <1>1 DEF DataInv
  <2>1. Agree /\ Apart /\ Agree'
    BY Zenon, <1>1, <1>3, OrderlySticky DEF RecordsInv, DataInv
  <2>2. ASSUME NEW t \in Tasks, NEW n \in Names, NEW p \in Policies,
               Begin(t, n, p) \/ FirstBoot(t, n, p) \/ OtaNew(t, n, p) \/ OtaKnown(t, n, p)
        PROVE  Apart'
    BY Zenon, <1>1, <2>1, <2>2, <1>BeginApart, <1>FirstBootApart, <1>OtaNewApart, <1>OtaKnownApart
  <2>3. ASSUME NEW t \in Tasks, Step(t)
        PROVE  Apart'
    BY Zenon, <1>1, <2>1, <2>3, <1>NameApart, <1>StartApart, <1>FailApart, <1>FinishApart DEF Step
  <2>4. ASSUME NEW n \in Names, Uninstall(n)
        PROVE  Apart'
    BY Zenon, <2>1, <2>4, <1>UpApart DEF Uninstall
  <2>5. ASSUME NEW set \in PolicySets, Switch(set) \/ SwitchFails(set)
        PROVE  Apart'
    BY Zenon, <2>1, <2>5, <1>UpApart DEF Switch, SwitchFails
  <2>6. ASSUME Flip PROVE Apart'
    <3>1. boot = "up" /\ boot' = boot
      BY Zenon, <1>1, <2>6 DEF Flip, Orderly, CloneInv, OtherTypes
    <3> QED
      BY Zenon, <2>1, <3>1, <1>UpApart
  <2>7. ASSUME Publish PROVE Apart'
    BY Zenon, <2>1, <2>7, <1>UpApart DEF Publish
  <2> QED
    BY Zenon, <1>1, <1>3, <2>2, <2>3, <2>4, <2>5, <2>6, <2>7, <1>RebootApart DEF Next
<1> QED
  BY <1>2, <1>3

\* Where no bundle could be found for the package, the directories that the
\* rollback of a refused start removes are not those of the visible variant.
LEMMA RefusedElsewhere ==
    ASSUME CloneInv, Agree, Apart, NEW t \in Tasks, task[t].pc = "named", ~Locked(task[t].name),
           Lookup(task[t]) = Absent, NEW n \in Names, n = task[t].name, lists[n].vis # Absent
    PROVE  lists[n].vis.clone # (task[t].key \/ task[t].clone)
<1> DEFINE r == task[t]
<1>1. r \in Passes /\ TaskInv(r) /\ r.clone = r.key /\ r.key \in BOOLEAN /\ CrossInv(r) /\ secondary \in BOOLEAN
  BY Zenon, NamedFacts DEF Apart, CloneInv, OtherTypes
<1>2. IsCrossModeInstall(r) /\ lists[n].tmp = Absent
  BY Zenon DEF Lookup
<1>3. r.who # "user"
  BY Zenon, <1>1, <1>2 DEF TaskInv, WhoInv, IsCrossModeInstall
<1>4. Diff(r.policy) /\ lists[n].vis.clone = secondary
  BY Zenon, <1>1, <1>2, <1>3 DEF CrossInv, AwaitsCross, Lone, OfMode
<1>5. r.role \in {"NONE", "PRIMARY", "SECONDARY"}
  BY Zenon, <1>1 DEF Passes
<1>6. r.key = ShouldUseDualModeCloneName(r)
  BY Zenon, <1>1 DEF TaskInv, NamedInv
<1>7. r.key # secondary
  <2>1. ShouldUseDualModeCloneName(r) # secondary
    <3>1. DualPass(r)
      BY Zenon, <1>4, <1>5 DEF DualPass
    <3> QED
      BY Zenon, <1>1, <1>2, <3>1, OtherFlag
  <2> QED
    BY Zenon, <1>6, <2>1
<1> QED
  BY Zenon, <1>1, <1>4, <1>7

\* Nor are those that the rollback of a new bundle removes later.
LEMMA FailedElsewhere ==
    ASSUME CloneInv, Agree, NEW t \in Tasks, task[t].pc = "started", ~task[t].exist,
           NEW n \in Names, n = task[t].name, lists[n].vis # Absent
    PROVE  lists[n].vis.clone # (task[t].key \/ task[t].clone)
<1> DEFINE r == task[t]
<1>1. StartedInv(r) /\ Exact(n) /\ r.key \in BOOLEAN
  BY Zenon, StartedFacts DEF TaskInv
<1>2. r.clone = r.key /\ ~Has(n, r.key)
  BY Zenon, <1>1 DEF StartedInv
<1>3. Has(n, lists[n].vis.clone)
  BY Zenon, <1>1, EntryRow
<1> QED
  BY Zenon, <1>1, <1>2, <1>3

\* The data of the visible variant of a name survives a step.
LEMMA StepKeepsData ==
    ASSUME CloneInv, Agree, Apart, NEW t \in Tasks, Step(t),
           NEW n \in Names, lists[n].vis # Absent, <<n, lists[n].vis.clone>> \in data
    PROVE  <<n, lists[n].vis.clone>> \in data'
<1> DEFINE r == task[t]
           gone == <<r.name, r.key \/ r.clone>>
<1>1. CASE data \subseteq data'
  BY Zenon, <1>1
<1>2. CASE /\ r.pc = "named" /\ ~Locked(r.name) /\ Lookup(r) = Absent
           /\ data' = WithoutDirs(r)
  <2>1. n = r.name => lists[n].vis.clone # (r.key \/ r.clone)
    BY Zenon, <1>2, RefusedElsewhere
  <2> QED
    BY Zenon, <1>2, <2>1 DEF WithoutDirs
<1>3. CASE r.pc = "started" /\ ~r.exist /\ data' = WithoutDirs(r)
  <2>1. n = r.name => lists[n].vis.clone # (r.key \/ r.clone)
    BY Zenon, <1>3, FailedElsewhere
  <2> QED
    BY <1>3, <2>1 DEF WithoutDirs
<1>4. CASE Name(t)
  BY Zenon, <1>1, <1>4 DEF Name
<1>5. CASE Start(t)
  <2>1. \/ data' = data \/ data' = data \union {gone}
        \/ r.pc = "named" /\ ~Locked(r.name) /\ Lookup(r) = Absent /\ data' = WithoutDirs(r)
    BY Zenon, <1>5 DEF Start, RollBackNew, RollBackExisting
  <2> QED
    BY Zenon, <1>1, <1>2, <2>1
<1>6. CASE FailDirs(t)
  BY Zenon, <1>3, <1>6 DEF FailDirs
<1>7. CASE FailLate(t)
  <2>1. data' = data \/ (r.pc = "started" /\ ~r.exist /\ data' = WithoutDirs(r))
    BY Zenon, <1>7 DEF FailLate, RollBackNew, RollBackExisting
  <2> QED
    BY Zenon, <1>1, <1>3, <2>1
<1>8. CASE FailSave(t)
  BY Zenon, <1>3, <1>8 DEF FailSave, RollBackNew
<1>9. CASE Finish(t)
  <2>1. data' = data
    BY Zenon, <1>9, Storable DEF Finish
  <2> QED
    BY Zenon, <2>1
<1> QED
  BY Zenon, <1>4, <1>5, <1>6, <1>7, <1>8, <1>9 DEF Step

\* So it does any other step, but its uninstallation.
LEMMA NextKeepsData ==
    ASSUME RecordsCovered, DataInv, Next, Orderly', NEW n \in Names, lists[n].vis # Absent,
           lists'[n].vis = lists[n].vis, <<n, lists[n].vis.clone>> \in data
    PROVE  <<n, lists[n].vis.clone>> \in data'
<1>1. CloneInv /\ Agree /\ Apart
  BY Zenon, OrderlySticky DEF DataInv, RecordsInv
<1>2. ASSUME NEW t \in Tasks, NEW m \in Names, NEW p \in Policies,
             Begin(t, m, p) \/ FirstBoot(t, m, p) \/ OtaNew(t, m, p) \/ OtaKnown(t, m, p)
      PROVE  data' = data
  BY Zenon, <1>2 DEF Begin, FirstBoot, OtaNew, OtaKnown, Scan
<1>3. ASSUME NEW t \in Tasks, Step(t) PROVE <<n, lists[n].vis.clone>> \in data'
  BY Zenon, <1>1, <1>3, StepKeepsData
<1>4. ASSUME NEW m \in Names, Uninstall(m) PROVE <<n, lists[n].vis.clone>> \in data'
  <2>1. data' = data \ {<<m, lists[m].vis.clone>>} /\ lists' = [lists EXCEPT ![m] = Pair(Absent, lists[m].tmp)]
    BY Zenon, <1>4 DEF Uninstall, DeleteBundleInfo
  <2>2. lists'[m] = Pair(Absent, lists[m].tmp)
    BY Zenon, <1>1, <2>1 DEF CloneInv, ListsGood
  <2>3. m # n
    <3>1. lists'[m].vis = Absent
      <4>1. Pair(Absent, lists[m].tmp).vis = Absent /\ Pair(Absent, lists[m].tmp).tmp = lists[m].tmp
        BY Zenon, PairHas
      <4> QED
        BY Zenon, <2>2, <4>1
    <3> QED
      BY Zenon, <3>1
  <2> QED
    BY Zenon, <2>1, <2>3
<1>5. ASSUME NEW set \in PolicySets, Switch(set) \/ SwitchFails(set) PROVE data' = data
  BY Zenon, <1>5 DEF Switch, SwitchFails
<1>6. Flip \/ Publish \/ Reboot => data' = data
  BY Zenon DEF Flip, Publish, Reboot
<1> QED
  BY Zenon, <1>2, <1>3, <1>4, <1>5, <1>6 DEF Next

\* No installation that is refused or fails removes the data directories of an
\* application that users see: what a rollback removes by the name it derived
\* is never the visible variant's.
THEOREM VisibleDataSurvives == RecordsCovered => (Spec => VisibleDataKept)
<1> SUFFICES ASSUME RecordsCovered PROVE Spec => VisibleDataKept
  OBVIOUS
<1> DEFINE Kept ==
        Orderly' => \A n \in Names :
            lists[n].vis # Absent /\ lists'[n].vis = lists[n].vis =>
                (<<n, lists[n].vis.clone>> \in data => <<n, lists[n].vis.clone>> \in data')
<1>1. DataInv /\ [Next]_vars => DataInv'
  BY NextData
<1>2. DataInv /\ [Next]_vars => [Kept]_vars
  BY NextKeepsData
<1> HIDE DEF Kept
<1>3. Spec => [][Kept]_vars
  BY InitData, <1>1, <1>2, PTL DEF Spec
<1> QED
  BY Zenon, <1>3 DEF Kept, VisibleDataKept
=============================================================================
