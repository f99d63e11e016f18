------------------------------ MODULE DualMode ------------------------------
(***************************************************************************)
(* Applications on a device with two modes.  Every application has a       *)
(* DeviceModeDistributionPolicy; one with a different-package policy (4, 6 *)
(* or 8) has one package per mode, and the secondary mode's package, the   *)
(* clone, is kept under a key of its own (+clone-10000+name).  The data    *)
(* manager keeps two lists by name: bundleInfos_, which queries see, and   *)
(* tempBundleInfos_, which hides what the current mode or the policy set   *)
(* excludes.  Installations, removals, the mode switch and the boot move   *)
(* entries between them.  The mode itself is a system parameter: it may    *)
(* change at any moment and the code reads it afresh each time.            *)
(***************************************************************************)
EXTENDS Integers, InstallStates

CONSTANTS
    Names,      \* bundle names
    Policies,   \* the policies of the packages offered
    PolicySets, \* the sets a mode switch is called with
    Tasks,      \* threads of the installer's pool
    Faults      \* what may fail, a subset of FaultKinds

UNSPECIFIED == 0
MAIN_ONLY == 1
SUB_ONLY == 2
IsDiffPackageCategory(p) == p \in {4, 6, 8}
IsValidPolicySet(s) == s \subseteq 0..8 /\ {4, 6, 8} \subseteq s

\* param: SaveBmsParam.  dirs: creating a new bundle's directories.
\* late: a later step of an installation, the save of the row included.
\* cross: the same, when the package is not the current mode's.
FaultKinds == {"param", "dirs", "late", "cross"}

ASSUME DualModeAssumption ==
    /\ Policies \subseteq 0..8
    /\ \A s \in PolicySets : IsValidPolicySet(s)
    /\ Faults \subseteq FaultKinds

VARIABLES
    lists,      \* per name, its entries in bundleInfos_ (vis) and tempBundleInfos_ (tmp)
    row,        \* the policy in the bundle table's row of a key
    data,       \* the keys whose data directories exist
    state,      \* installStates_
    secondary,  \* whether the device is in its secondary mode
    persisted,  \* the persisted policy set; empty: none, or not a valid one
    known,      \* the keys' PreInstallBundleInfo: none, present, or marked uninstalled
    boot,       \* first, later: the scan of the first or a later boot; up: RegisterService was called
    scanned,    \* the names this boot's scan has treated
    task,       \* what each installer thread is doing
    env         \* history: what the device and the switch's caller did

vars == <<lists, row, data, state, secondary, persisted, known, boot, scanned, task, env>>

NoPolicy == -1
Entry(p, clone) == [policy |-> p, clone |-> clone]
Absent == Entry(NoPolicy, FALSE)
Pair(v, t) == [vis |-> v, tmp |-> t]

\* The effective name of a bundle: the clone has a prefixed one.
Keys == Names \X BOOLEAN

\* One pass of an installer: the package's policy, DualModeInstallRole, who
\* asked for it (a user, the first boot or an OTA), whether the policy was also
\* stored in resolvedDeviceModeDistributionPolicy_, the clone flag of the parsed
\* info, whether the effective name is the clone's, whether the bundle exists,
\* and the pass to make after this one.
Pass(pc, n, p, role, who, resolved, clone, rest) ==
    [pc |-> pc, name |-> n, policy |-> p, role |-> role, who |-> who, resolved |-> resolved,
     clone |-> clone, key |-> FALSE, exist |-> FALSE, rest |-> rest]

Idle == Pass("idle", "none", 0, "NONE", "user", FALSE, FALSE, "none")

Init ==
    /\ lists = [n \in Names |-> Pair(Absent, Absent)]
    /\ row = [k \in Keys |-> NoPolicy]
    /\ data = {}
    /\ state = [k \in Keys |-> "absent"]
    /\ secondary \in BOOLEAN
    /\ persisted = {}
    /\ known = [k \in Keys |-> "none"]
    /\ boot = "first"
    /\ scanned = {}
    /\ task = [t \in Tasks |-> Idle]
    /\ env = [pending |-> FALSE, contract |-> TRUE, adrift |-> FALSE,
              torn |-> FALSE, mixed |-> FALSE, fresh |-> {}]

Orderly == ~env.torn /\ ~env.mixed

AllIdle == \A t \in Tasks : task[t] = Idle

(***************************************************************************)
(* The passes over the two lists.  Each treats a name on its own.          *)
(***************************************************************************)

MigrateHidesInSet(x, set) ==
    IF /\ x.vis # Absent /\ x.vis.policy # UNSPECIFIED
       /\ x.tmp = Absent
       /\ x.vis.policy \notin set
    THEN Pair(Absent, x.vis)
    ELSE IF /\ x.tmp # Absent /\ x.tmp.policy # UNSPECIFIED
            /\ x.tmp.policy \in set
    THEN Pair(x.tmp, x.vis)
    ELSE x

MigrateOverwrites(x, set) ==
    IF /\ x.vis # Absent /\ x.vis.policy # UNSPECIFIED
       /\ IsDiffPackageCategory(x.vis.policy) \/ (x.vis.policy \notin set /\ x.tmp = Absent)
    THEN Pair(Absent, x.vis)
    ELSE IF x.tmp # Absent /\ x.tmp.policy # UNSPECIFIED /\ x.tmp.policy \in set
    THEN Pair(x.tmp, x.vis)
    ELSE x

\* FilterBundleListByDeviceModeDistributionPoliciesNoLock: the hide pass,
\* and the show pass for what the hide pass left.
Migrate(x, set) ==
    IF /\ x.vis # Absent /\ x.vis.policy # UNSPECIFIED
       /\ x.tmp = Absent
       /\ IsDiffPackageCategory(x.vis.policy) \/ x.vis.policy \notin set
    THEN Pair(Absent, x.vis)
    ELSE IF /\ x.tmp # Absent /\ x.tmp.policy # UNSPECIFIED
            /\ x.tmp.policy \in set
    THEN Pair(x.tmp, x.vis)
    ELSE x

\* ClassifyDualModeAppsByPolicyNoLock
ClassifyByPolicy(x, set) ==
    IF /\ x.vis # Absent /\ x.vis.policy # UNSPECIFIED
       /\ ~IsDiffPackageCategory(x.vis.policy)
       /\ x.vis.policy \notin set
       /\ x.tmp = Absent
    THEN Pair(Absent, x.vis)
    ELSE x

\* ClassifyDualModeAppsByDeviceModeNoLock
ShouldBeHidden(p, sec) == (p = MAIN_ONLY /\ sec) \/ (p = SUB_ONLY /\ ~sec)
ClassifyByDeviceMode(x, sec) ==
    IF ShouldBeHidden(x.vis.policy, sec)
    THEN Pair(Absent, x.vis)
    ELSE IF x.tmp.policy \in {MAIN_ONLY, SUB_ONLY} /\ ~ShouldBeHidden(x.tmp.policy, sec)
    THEN Pair(x.tmp, Absent)
    ELSE x

RestoreClones(x) == IF IsDiffPackageCategory(x.tmp.policy) THEN Pair(x.tmp, x.vis) ELSE x

\* Step 2 of ClassifyDualModeAppsNoLock, taken in the secondary mode.
RestoreSecondary(x) ==
    LET y == IF IsDiffPackageCategory(x.tmp.policy) THEN Pair(x.tmp, x.vis) ELSE x
    IN  IF IsDiffPackageCategory(y.vis.policy) /\ ~y.vis.clone
        THEN Pair(Absent, y.vis) ELSE y

BootClonesAll(p0, p1, set, sec) ==
    LET x0 == Pair(Entry(p0, FALSE), Absent)
        x1 == IF set # {} THEN ClassifyByPolicy(x0, set) ELSE x0
        x2 == Pair(x1.vis, Entry(p1, TRUE))
        x3 == IF sec THEN RestoreSecondary(x2) ELSE x2
    IN  IF set = {} THEN ClassifyByDeviceMode(x3, sec) ELSE x3

\* LoadAllData and ClassifyDualModeAppsNoLock: what the boot makes of the rows
\* of a name, p0 and p1 being the policies of the plain and of the clone row.
Boot(p0, p1, set, sec) ==
    LET x0 == Pair(Entry(p0, FALSE), Absent)
        x1 == IF set # {} THEN ClassifyByPolicy(x0, set) ELSE x0
        x2 == IF IsDiffPackageCategory(p1) THEN Pair(x1.vis, Entry(p1, TRUE)) ELSE x1
        x3 == IF sec THEN RestoreSecondary(x2) ELSE x2
    IN  IF set = {} THEN ClassifyByDeviceMode(x3, sec) ELSE x3

(***************************************************************************)
(* Installing.  A task parses its package, derives the effective name,     *)
(* and from Start to its end holds the bundle's mutex.  Parsing, naming,   *)
(* the lookup and MarkInstallFinish each read the device mode.             *)
(***************************************************************************)

ShouldUseDualModeCloneName(r) ==
    \/ r.role = "SECONDARY"
    \/ r.role = "NONE" /\ secondary /\ IsDiffPackageCategory(r.policy)

IsCrossModeInstall(r) ==
    IF r.role # "NONE" THEN (r.role = "SECONDARY") # secondary
    ELSE r.resolved /\ ShouldBeHidden(r.policy, secondary)

\* GetBundleMutex
Locked(n) == \E t \in Tasks : task[t].pc = "started" /\ task[t].name = n

\* History: installing between a mode change and its switch breaks the contract.
InstallNoted == env' = [env EXCEPT !.contract = @ /\ ~env.pending]

\* A user installs a package: SetDualModeAppInfo refuses a single-mode package
\* of the other mode.
Begin(t, n, p) ==
    /\ boot = "up" /\ task[t] = Idle
    /\ ~ShouldBeHidden(p, secondary)
    /\ task' = [task EXCEPT ![t] = Pass("parsed", n, p, "NONE", "user", FALSE,
                                        secondary /\ IsDiffPackageCategory(p), "none")]
    /\ InstallNoted
    /\ UNCHANGED <<lists, row, data, state, secondary, persisted, known, boot, scanned>>

\* The scan looks at each name once per boot.
Scan(phase, t, n) ==
    /\ boot = phase /\ n \notin scanned /\ task[t] = Idle
    /\ scanned' = scanned \union {n}
    /\ UNCHANGED <<data, state, secondary, persisted, known, boot>>

\* ResolveDualModePolicy: for a different-package policy ERMS gives two lists of
\* haps, and this pass installs the primary one.
FirstPass(n, p) ==
    IF IsDiffPackageCategory(p)
    THEN Pass("parsed", n, p, "PRIMARY", "first", TRUE, FALSE, "SECONDARY")
    ELSE Pass("parsed", n, p, "NONE", "first", TRUE, FALSE, "none")

\* InstallSystemBundle on the first boot: the two lists one after the other.
FirstBoot(t, n, p) ==
    /\ Scan("first", t, n)
    /\ task' = [task EXCEPT ![t] = FirstPass(n, p)]
    /\ InstallNoted
    /\ UNCHANGED <<lists, row>>

\* ResolveCrossModeInstall: the package of the mode the device is not in.
CrossPass(n, p, rest) ==
    LET diff == IsDiffPackageCategory(p) IN
    Pass("parsed", n, p, IF ~diff THEN "NONE" ELSE IF secondary THEN "PRIMARY" ELSE "SECONDARY",
         "ota", TRUE, diff /\ ~secondary, rest)
NormalPass(n, p, rest) ==
    Pass("parsed", n, p, "NONE", "ota", FALSE, secondary /\ IsDiffPackageCategory(p), rest)

\* History: a user has the application already, from a package of another
\* policy or, through the policy set, visible in the mode it is not for.
Clashes(n, p) ==
    \/ \E e \in {lists[n].vis, lists[n].tmp} \ {Absent} : e.policy # p
    \/ ShouldBeHidden(p, secondary) /\ lists[n].vis # Absent

\* HandleDualModeNewInstall: a name the device has no record of.
OtaNew(t, n, p) ==
    /\ Scan("later", t, n)
    /\ known[<<n, FALSE>>] = "none"
    /\ task' = [task EXCEPT ![t] =
            IF IsDiffPackageCategory(p) THEN NormalPass(n, p, "CROSS")
            ELSE IF ShouldBeHidden(p, secondary) THEN CrossPass(n, p, "none")
            ELSE NormalPass(n, p, "none")]
    /\ env' = [env EXCEPT !.contract = @ /\ ~env.pending, !.mixed = @ \/ Clashes(n, p)]
    /\ UNCHANGED <<lists, row>>

\* UpdateBundleInfoPolicy: the visible entry, then the hidden one.
WithPolicy(x, p) ==
    IF x.vis = Absent THEN x
    ELSE Pair(Entry(p, x.vis.clone), IF x.tmp = Absent THEN Absent ELSE Entry(p, x.tmp.clone))
RowsWithPolicy(n, x, p) ==
    [k \in Keys |-> IF /\ k[1] = n /\ x.vis # Absent
                       /\ \E e \in {x.vis, x.tmp} \ {Absent} : e.clone = k[2]
                    THEN p ELSE row[k]]

\* ProcessUpdateDualPolicy: an application that becomes a different-package one
\* in the secondary mode is hidden.
UpdateDualPolicy(n, p) ==
    LET x == WithPolicy(lists[n], p) IN
    /\ lists' = [lists EXCEPT ![n] =
            IF x.tmp = Absent /\ known[<<n, TRUE>>] = "none" /\ secondary THEN Pair(Absent, x.vis) ELSE x]
    /\ row' = RowsWithPolicy(n, lists[n], p)

\* ProcessDualModeCrossUpdateIfNeeded: whether the other mode's side is to be
\* installed or, its haps being newer, updated.
NeedsCross(n, p, newer) ==
    IF IsDiffPackageCategory(p)
    THEN IF lists'[n].tmp # Absent THEN newer ELSE known[<<n, ~secondary>>] = "none"
    ELSE ShouldBeHidden(p, secondary) /\ lists[n].tmp # Absent /\ newer

\* The current mode's package, unless IsSkipNormalOtaFlow: an update of the
\* visible application, or the installation of one that is not visible, not
\* marked uninstalled and, as OTAInstallSystemBundleNeedCheckUser finds no user
\* of it, not removable.
NeedsNormal(n, p, newer, removable) ==
    /\ ~ShouldBeHidden(p, secondary)
    /\ IF lists'[n].vis # Absent THEN newer
       ELSE known[<<n, FALSE>>] # "uninstalled" /\ ~removable

\* History: the records mislead ProcessUpdateDualPolicy.  The clone has one and
\* the application was not a different-package one, or the clone is visible and
\* has none.
Misleads(n, p) ==
    /\ IsDiffPackageCategory(p) /\ secondary /\ lists[n].vis # Absent /\ lists[n].tmp = Absent
    /\ IF known[<<n, TRUE>>] = "none" THEN lists[n].vis.clone
       ELSE ~IsDiffPackageCategory(lists[n].vis.policy)

\* History: the package is of another category than the only, hidden, entry,
\* which UpdateBundleInfoPolicy and the category checks of an OTA do not reach.
Mixes(n, p) ==
    /\ lists[n].vis = Absent /\ lists[n].tmp # Absent
    /\ IsDiffPackageCategory(p) # IsDiffPackageCategory(lists[n].tmp.policy)

\* A name the device has a record of.  The other mode's package comes first.
OtaKnown(t, n, p) ==
    /\ Scan("later", t, n)
    /\ known[<<n, FALSE>>] # "none"
    /\ IF IsDiffPackageCategory(p) THEN UpdateDualPolicy(n, p) ELSE UNCHANGED <<lists, row>>
    /\ \E newer, crossNewer, removable \in BOOLEAN :
        LET normal == NeedsNormal(n, p, newer, removable)
        IN  task' = [task EXCEPT ![t] =
                IF NeedsCross(n, p, crossNewer) THEN CrossPass(n, p, IF normal THEN "NORMAL" ELSE "none")
                ELSE IF normal THEN NormalPass(n, p, "none")
                ELSE Idle]
    /\ env' = [env EXCEPT !.contract = @ /\ ~env.pending,
                          !.adrift = @ \/ Misleads(n, p), !.mixed = @ \/ Mixes(n, p)]

\* InitDualModeBundleName
Name(t) ==
    /\ task[t].pc = "parsed"
    /\ task' = [task EXCEPT ![t] =
                    [[@ EXCEPT !.pc = "named"] EXCEPT !.key = ShouldUseDualModeCloneName(task[t])]]
    /\ UNCHANGED <<lists, row, data, state, secondary, persisted, known, boot, scanned, env>>

\* The task's next pass, whatever became of this one.
NextPass(t) ==
    LET r == task[t] IN
    task' = [task EXCEPT ![t] =
        CASE r.rest = "SECONDARY" ->
                Pass("parsed", r.name, r.policy, "SECONDARY", r.who, TRUE, TRUE, "none")
          [] r.rest = "CROSS" -> CrossPass(r.name, r.policy, "none")
          [] r.rest = "NORMAL" -> NormalPass(r.name, r.policy, "none")
          [] OTHER -> Idle]

\* DeleteBundleInfo: the entry in bundleInfos_, and the row its own flag names.
DeleteBundleInfo(n, x, rows) ==
    /\ lists' = [lists EXCEPT ![n] = Pair(Absent, x.tmp)]
    /\ row' = IF x.vis = Absent THEN rows ELSE [rows EXCEPT ![<<n, x.vis.clone>>] = NoPolicy]

\* RemoveBundleAndDataDir, by effective name.
WithoutPlainDirs(r) == data \ {<<r.name, FALSE>>}
WithoutDirs(r) == data \ {<<r.name, r.key \/ r.clone>>}

\* RollBack of a bundle that did not exist, the state of its key being s:
\* the directories, RemoveInfo, then the state guard.
RollBackNew(t, x, s) ==
    LET r == task[t]
        k == <<r.name, r.key>>
    IN  /\ data' = WithoutDirs(r)
        /\ IF Accepts(s, "UPDATING_FAIL")
           THEN DeleteBundleInfo(r.name, x, row)
           ELSE lists' = [lists EXCEPT ![r.name] = x] /\ row' = row
        /\ state' = [state EXCEPT ![k] =
                        StateAfter(StateAfter(s, "UPDATING_FAIL"), "INSTALL_SUCCESS")]

\* RollBack of a bundle that did exist: if it is visible its module infos are
\* put back, which sets ROLL_BACK; then the state guard.
RollBackExisting(t) ==
    LET r == task[t]
        k == <<r.name, r.key>>
        s == IF lists[r.name].vis # Absent THEN StateAfter(state[k], "ROLL_BACK") ELSE state[k]
    IN  /\ state' = [state EXCEPT ![k] = StateAfter(s, "INSTALL_SUCCESS")]
        /\ UNCHANGED <<lists, row, data>>

\* InitTempBundleFromCache: the list the task looks in.
LookupVisible(r) == lists[r.name].vis
Lookup(r) == IF IsCrossModeInstall(r) THEN lists[r.name].tmp ELSE lists[r.name].vis

\* CheckDualModeCategoryConsistency and CheckDualModeCategoryConsistencyInTemp
CategoryUnchecked(r, old) == FALSE
CategoryConflict(r, old) ==
    LET differs(e) == /\ e # Absent
                      /\ IsDiffPackageCategory(e.policy) # IsDiffPackageCategory(r.policy)
    IN  IF r.who = "ota" THEN IsDiffPackageCategory(old.policy) /\ differs(old)
        ELSE differs(old) \/ differs(lists[r.name].tmp)

\* An update keeps the installed variant's clone flag.
Started(r, old) ==
    [[[r EXCEPT !.pc = "started"] EXCEPT !.exist = old # Absent]
        EXCEPT !.clone = IF old = Absent THEN r.clone ELSE old.clone]

\* The lookup, the category checks and the first state change.
Start(t) ==
    LET r == task[t]
        k == <<r.name, r.key>>
        old == Lookup(r)
        first == IF old = Absent THEN "INSTALL_START" ELSE "UPDATING_START"
    IN  /\ r.pc = "named" /\ ~Locked(r.name)
        /\ \/ /\ ~CategoryConflict(r, old) /\ Accepts(state[k], first)
              /\ state' = [state EXCEPT ![k] = first]
              /\ data' = IF old = Absent THEN data \union {<<r.name, r.key \/ r.clone>>} ELSE data
              /\ task' = [task EXCEPT ![t] = Started(r, old)]
              /\ UNCHANGED <<lists, row>>
           \/ /\ CategoryConflict(r, old) \/ ~Accepts(state[k], first)
              /\ IF old = Absent THEN RollBackNew(t, lists[r.name], state[k])
                 ELSE RollBackExisting(t)
              /\ NextPass(t)
        /\ known' = IF r.who # "user" /\ ~CategoryConflict(r, old)
                    THEN [known EXCEPT ![k] = "present"] ELSE known
        /\ UNCHANGED <<secondary, persisted, boot, scanned, env>>

\* ProcessBundleInstallStatus fails: INSTALL_FAIL deletes no info.
FailDirs(t) ==
    LET r == task[t]
        k == <<r.name, r.key>>
    IN  /\ r.pc = "started" /\ ~r.exist /\ "dirs" \in Faults
        /\ data' = WithoutDirs(r)
        /\ state' = [state EXCEPT ![k] = StateAfter(@, "INSTALL_FAIL")]
        /\ NextPass(t)
        /\ UNCHANGED <<lists, row, secondary, persisted, known, boot, scanned, env>>

\* Which fault lets a started installation fail: one of an other-mode package
\* is told apart.
LateFault(r) == IF IsCrossModeInstall(r) THEN "cross" ELSE "late"

\* Any step from the end of ProcessBundleInstallStatus to MarkInstallFinish
\* fails; for an existing bundle also the save in MarkInstallFinish, which
\* comes before the entry is replaced.
FailLate(t) ==
    LET r == task[t] IN
    /\ r.pc = "started" /\ LateFault(r) \in Faults
    /\ IF r.exist THEN RollBackExisting(t)
       ELSE RollBackNew(t, lists[r.name], state[<<r.name, r.key>>])
    /\ NextPass(t)
    /\ UNCHANGED <<secondary, persisted, known, boot, scanned, env>>

WithEntry(x, hidden, e) == IF hidden THEN Pair(x.vis, e) ELSE Pair(e, x.tmp)

\* What AddInnerBundleInfo and UpdateInnerBundleInfo require.
CanStore(r) ==
    /\ (Lookup(r) # Absent) = r.exist
    /\ r.exist \/ state[<<r.name, r.clone>>] # "absent"

\* The new entry is added and its row cannot be saved.
FailSave(t) ==
    LET r == task[t] IN
    /\ r.pc = "started" /\ ~r.exist /\ CanStore(r) /\ LateFault(r) \in Faults
    /\ RollBackNew(t, WithEntry(lists[r.name], IsCrossModeInstall(r), Entry(r.policy, r.clone)),
                   state[<<r.name, r.key>>])
    /\ NextPass(t)
    /\ UNCHANGED <<secondary, persisted, known, boot, scanned, env>>

\* MarkInstallFinish
Finish(t) ==
    LET r == task[t]
        k == <<r.name, r.key>>
        s == IF r.exist THEN "UPDATING_SUCCESS" ELSE state[k]
        removed == StateAfter(StateAfter(state[k], "UNINSTALL_START"), "UNINSTALL_SUCCESS")
    IN  /\ r.pc = "started"
        /\ \/ /\ CanStore(r)
              /\ lists' = [lists EXCEPT ![r.name] =
                              WithEntry(@, IsCrossModeInstall(r), Entry(r.policy, r.clone))]
              /\ row' = [row EXCEPT ![<<r.name, r.clone>>] = r.policy]
              /\ state' = [state EXCEPT ![k] = StateAfter(s, "INSTALL_SUCCESS")]
              /\ env' = [env EXCEPT !.fresh = @ \union {r.name}]
              /\ data' = data
           \/ /\ ~CanStore(r) /\ r.exist
              /\ RollBackExisting(t)
              /\ env' = env
           \/ /\ ~CanStore(r) /\ ~r.exist
              /\ DeleteBundleInfo(r.name, lists[r.name], row)
              /\ state' = [state EXCEPT ![k] = removed]
              /\ data' = WithoutDirs(r)
              /\ env' = env
        /\ NextPass(t)
        /\ UNCHANGED <<secondary, persisted, known, boot, scanned>>

\* ProcessBundleUninstall of the visible entry, under the bundle's mutex.
Uninstall(n) ==
    LET x == lists[n]
        k == <<n, x.vis.clone>>
    IN  /\ boot = "up" /\ x.vis # Absent /\ ~Locked(n)
        /\ Accepts(state[k], "UNINSTALL_START")
        /\ DeleteBundleInfo(n, x, row)
        /\ state' = [state EXCEPT ![k] = "absent"]
        /\ data' = data \ {k}
        /\ known' = [known EXCEPT ![k] = IF @ = "none" THEN @ ELSE "uninstalled"]
        /\ UNCHANGED <<secondary, persisted, boot, scanned, task, env>>

(***************************************************************************)
(* The mode switch holds the exclusive side of dualModeSwitchMutex_, which *)
(* every task holds shared, and fails at once when it cannot have it.      *)
(***************************************************************************)

MigrateAll(set) == [n \in Names |-> Migrate(lists[n], set)]

\* FilterBundleListByDeviceModeDistributionPolicies; the persisted set again
\* changes nothing.
Switch(set) ==
    /\ boot = "up" /\ AllIdle /\ set # persisted
    /\ lists' = MigrateAll(set)
    /\ persisted' = set
    /\ env' = [env EXCEPT !.pending = FALSE, !.fresh = {}, !.contract = @ /\ env.pending]
    /\ UNCHANGED <<row, data, state, secondary, known, boot, scanned, task>>

\* SaveBmsParam fails: the old set is migrated to, or without one the single-mode
\* applications are placed by the mode.
ReplayOnly(x, set, old) == Migrate(x, old)
RollBackSwitch(x, set, old) == Migrate(Migrate(x, set), old)
SwitchFails(set) ==
    /\ boot = "up" /\ AllIdle /\ set # persisted /\ "param" \in Faults
    /\ lists' = [n \in Names |->
            IF persisted # {} THEN RollBackSwitch(lists[n], set, persisted)
            ELSE ClassifyByDeviceMode(Migrate(lists[n], set), secondary)]
    /\ env' = [env EXCEPT !.adrift = @ \/ persisted = {}]
    /\ UNCHANGED <<row, data, state, secondary, persisted, known, boot, scanned, task>>

\* The device changes its mode.  History: in the middle of an installation or
\* of the boot's installations, whose steps then disagree about the mode.
Flip ==
    /\ secondary' = ~secondary
    /\ env' = [env EXCEPT !.pending = TRUE, !.contract = @ /\ ~env.pending,
                          !.torn = @ \/ ~AllIdle \/ boot # "up"]
    /\ UNCHANGED <<lists, row, data, state, persisted, known, boot, scanned, task>>

\* The service stops at any point and loads its data again.
Reboot ==
    /\ lists' = [n \in Names |-> Boot(row[<<n, FALSE>>], row[<<n, TRUE>>], persisted, secondary)]
    /\ state' = [k \in Keys |-> IF row[k] = NoPolicy THEN "absent" ELSE "INSTALL_SUCCESS"]
    /\ task' = [t \in Tasks |-> Idle]
    /\ env' = [env EXCEPT !.pending = FALSE, !.contract = TRUE, !.adrift = FALSE, !.fresh = {}]
    /\ boot' = "later"
    /\ scanned' = {}
    /\ UNCHANGED <<row, data, secondary, persisted, known>>

\* RegisterService
Publish ==
    /\ boot # "up" /\ AllIdle
    /\ boot' = "up"
    /\ UNCHANGED <<lists, row, data, state, secondary, persisted, known, scanned, task, env>>

Step(t) == Name(t) \/ Start(t) \/ FailDirs(t) \/ FailLate(t) \/ FailSave(t) \/ Finish(t)

Next ==
    \/ \E t \in Tasks, n \in Names, p \in Policies :
            Begin(t, n, p) \/ FirstBoot(t, n, p) \/ OtaNew(t, n, p) \/ OtaKnown(t, n, p)
    \/ \E t \in Tasks : Step(t)
    \/ \E n \in Names : Uninstall(n)
    \/ \E set \in PolicySets : Switch(set) \/ SwitchFails(set)
    \/ Flip
    \/ Publish
    \/ Reboot

Spec == Init /\ [][Next]_vars

-----------------------------------------------------------------------------

Entries == [policy : Policies, clone : BOOLEAN]

\* The type of every variable.
TypeOK ==
    /\ lists \in [Names -> [vis : Entries \union {Absent}, tmp : Entries \union {Absent}]]
    /\ row \in [Keys -> Policies \union {NoPolicy}]
    /\ data \subseteq Keys
    /\ state \in [Keys -> InstallState \union {"absent"}]
    /\ secondary \in BOOLEAN
    /\ persisted \in PolicySets \union {{}}
    /\ known \in [Keys -> {"none", "present", "uninstalled"}]
    /\ boot \in {"first", "later", "up"}
    /\ scanned \subseteq Names
    /\ task \in [Tasks -> [pc : {"idle", "parsed", "named", "started"},
                           name : Names \union {"none"}, policy : Policies \union {0},
                           role : {"NONE", "PRIMARY", "SECONDARY"},
                           who : {"user", "first", "ota"}, resolved : BOOLEAN,
                           clone : BOOLEAN, key : BOOLEAN, exist : BOOLEAN,
                           rest : {"none", "SECONDARY", "CROSS", "NORMAL"}]]
    /\ env \in [pending : BOOLEAN, contract : BOOLEAN, adrift : BOOLEAN,
                torn : BOOLEAN, mixed : BOOLEAN, fresh : SUBSET Names]

\* The migration does not look at the mode: it rotates the different-package
\* entries once per call and relies on one switch per mode change.  When the
\* caller keeps to that, no switch without an old set failed and no mode change
\* hit a running task, the visible variant is the one of the current mode.
ModeTracked ==
    env.contract /\ ~env.pending /\ ~env.adrift /\ Orderly /\ AllIdle =>
        \A n \in Names :
            /\ IsDiffPackageCategory(lists[n].vis.policy) => lists[n].vis.clone = secondary
            /\ IsDiffPackageCategory(lists[n].tmp.policy) => lists[n].tmp.clone # secondary

\* Two entries of one name are the two packages of a different-package
\* application: what the migration's comments call an inconsistent variant
\* pairing is not reached, as long as no mode change hits a running task.
NoAnomalousPair ==
    Orderly => \A n \in Names : LET x == lists[n] IN
        x.vis # Absent /\ x.tmp # Absent =>
            /\ IsDiffPackageCategory(x.vis.policy) /\ IsDiffPackageCategory(x.tmp.policy)
            /\ x.vis.clone # x.tmp.clone

\* A clone is of a different-package policy, in the lists and in the table,
\* whenever the mode changes: ClassifyDualModeAppsNoLock brings back no other.
ClonesAreDiff ==
    \A n \in Names :
        /\ \A e \in {lists[n].vis, lists[n].tmp} : e.clone => IsDiffPackageCategory(e.policy)
        /\ row[<<n, TRUE>>] # NoPolicy => IsDiffPackageCategory(row[<<n, TRUE>>])

Listed(k) == \E e \in {lists[k[1]].vis, lists[k[1]].tmp} :
                e # Absent /\ e.clone = k[2] /\ e.policy = row[k]

\* With no task running, the lists, the bundle table and installStates_ know
\* the same variants: each has one entry, one row and the state
\* INSTALL_SUCCESS, through failed installations, switches and restarts.
VariantsRecorded ==
    Orderly /\ AllIdle =>
        \A k \in Keys :
            IF row[k] # NoPolicy THEN Listed(k) /\ state[k] = "INSTALL_SUCCESS"
            ELSE /\ state[k] = "absent"
                 /\ \A e \in {lists[k[1]].vis, lists[k[1]].tmp} : e # Absent => e.clone # k[2]

\* Memory and the persisted set stay consistent: a restart would leave every
\* entry where it is, but for applications installed since the last switch.
RebootAgrees ==
    env.contract /\ ~env.pending /\ ~env.adrift /\ Orderly /\ AllIdle =>
        \A n \in Names \ env.fresh :
            lists[n] = Boot(row[<<n, FALSE>>], row[<<n, TRUE>>], persisted, secondary)

\* A switch whose save fails lands back on the placement before it (the
\* rotation is an involution and set membership is replayed), again but for
\* applications installed since the last switch.
SwitchRestores ==
    [][boot = "up" /\ AllIdle /\ Orderly /\ persisted # {}
            /\ persisted' = persisted /\ env' = env /\ row' = row
        => \A n \in Names \ env.fresh : env.contract => lists'[n] = lists[n]]_vars

\* A task works on its own variant only: the row it writes is its effective
\* name's, and an update has found the entry of that variant, whose flag it
\* keeps.  After a failed switch without an old set it need not have.
VariantIsolated ==
    [][Orderly' /\ env'.contract /\ ~env'.adrift =>
        \A t \in Tasks : task[t] # Idle /\ task'[t] # task[t] =>
            /\ \A k \in Keys : k # <<task[t].name, task[t].key>> => row'[k] = row[k]
            /\ task'[t].pc = "started" => task'[t].clone = task'[t].key]_vars

\* No failing installation removes the data of an application users see.
VisibleDataKept ==
    [][Orderly' => \A n \in Names :
        lists[n].vis # Absent /\ lists'[n].vis = lists[n].vis =>
            (<<n, lists[n].vis.clone>> \in data => <<n, lists[n].vis.clone>> \in data')]_vars
=============================================================================
