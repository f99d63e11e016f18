# Verification of the bundle manager's installer

TLA+ models, TLC configurations and TLAPS proofs for the parts of the bundle
manager service in which a wrong step loses an application or a request: the
installer and its crash recovery, the quick-fix (patch) service, the two lists of
a dual-mode device, free installation, and the pool of installer threads with the
idle jobs it interrupts. All paths below are relative to
`src/services/bundlemgr/src/` unless they start with `src/`.

## 1. The system

The repository's README names these parts; the sources split them further. The
full list, with the files of each and what is modelled of it, is in
`PROJECT.json` under `components`.

| Part | What it is | Here |
|---|---|---|
| Bundle manager interface (包管理接口模块) | IPC hosts, proxies, permission checks | not modelled |
| Scanner (扫描模块) | boot and OTA scan of pre-installed packages, parsers | the boot's load and recovery, and the scans of a dual-mode device |
| Security (安全管理模块) | signature, permission and provision services | a step that may fail |
| Installation (安装管理模块) | `base_bundle_installer.cpp`, the installers derived from it, the pool that runs them | **modelled** for one bundle, one user; the pool; the variants of a dual-mode device |
| Bundle information (包信息管理模块) | `bundle_data_mgr.cpp`, the bundle database, `InnerBundleInfo` | the state changes the installer makes |
| Device state listener (设备状态监听模块) | user and unlock events | not modelled |
| installd (Installd模块) | the privileged process that creates, renames and removes directories | the renames and removals, with their partial outcomes |
| DFX | events, dumps, watchdogs | not modelled |
| Quick fix | patches: deploy, switch, delete, boot scan | **modelled** for one bundle |
| Free install | requests to the service center, another application | **modelled** |
| Idle tasks | relabelling and two data scans, run while the device is idle | **modelled** but for the work itself |
| Aging, delayed tasks, AOT, app control, default apps, overlay, shared/clone/sandbox/plugin installers | further services in the same process | not modelled, see section 8 |

How the modelled parts interact. An installation of a bundle holds the bundle's
mutex from start to end, so two operations on one bundle do not overlap; what
can happen at any moment is that a call fails or that the service dies. The
installed bundle is in three places that are written one after the other: the
code directories (through installd), the row of the bundle database, and
`bundleInfos_` in memory. Two notes survive a crash: the `InstallMark` inside
the row, read by `BundleExceptionHandler` when the service loads its rows, and
the install-exception record, a table of its own, read by `InstallExceptionMgr`
at boot, before the next update and when an update fails. A quick fix has a
fourth place, its own table, and a boot scanner of its own.

On a device with two modes a name may have two packages, each with a row and data
directories of its own, and memory is two lists: what queries see and what the
current mode or policy set hides. Installations, removals, OTA scans, the mode
switch and the boot all move entries between the lists, and the mode is a system
parameter that they read anew each time.

Operations reach the installer through a pool of threads. The same `AddTask` that
enqueues one interrupts the relabelling job, the same counter keeps the idle jobs
from starting, and a mode switch makes the pool drop what it has queued: hence
`InstallerPool` is composed with `IdleTasks`. Free installation is a client of
the installer, in another application; the model ends at the messages.

## 2. The modules

| Module | Models | State |
|---|---|---|
| `InstallStates` | `transferStates_` and `UpdateBundleInstallState` of `bundle_data_mgr.cpp` | operators only |
| `BundleUpdate` | an update of an installed bundle to another version, its rollback, the crash, the boot's `LoadAllData` and every handler of `install_exception_mgr.cpp` | `dir` (code directories), `rec` (exception record), `db`, `mem`, `mark` (`InstallMark` in each), `state` (`installStates_`), and the operation's own `pc, ret, pkg, old, todo` |
| `BundleInstall` | composed with `BundleUpdate` over the same state: first installation, installation at the installed version, uninstallation of the bundle and of one module, `bundle_exception_handler.cpp` | the same variables |
| `BundleStore` | abstract: an info and the code of exactly that info, changed together in one step | `info`, `code` |
| `QuickFix` | `quick_fix_deployer.cpp`, `quick_fix_switcher.cpp`, `quick_fix_deleter.cpp`, `quick_fix_boot_scanner.cpp`, the state table of `quick_fix_data_mgr.cpp` | `row` (quick-fix table), `info` (patch in the bundle info), `dirs` and `shared` (patches with files in `patch_<version>`, under `patch`), `place` (where the records say the files are), and the request's `pc, cur, saved, mode, invalid` |
| `DualMode` | the dual-mode parts of `bundle_data_mgr.cpp`, `base_bundle_installer.cpp`, `system_bundle_installer.cpp` and `bundle_mgr_service_event_handler.cpp`, `dual_mode_helper.cpp` | `lists` (per name: visible and hidden entry), `row`, `data`, `state`, `secondary`, `persisted` (policy set), `known` (pre-install records), `boot`, `scanned`, `task` (one record per installer thread), `env` (history) |
| `FreeInstall` | `free_install/bundle_connect_ability_mgr.cpp`, `service_center_connection.cpp`, its death recipient and status callback, `common/serial_queue.cpp` | `params` (`freeInstallParamsMap_`), `conn`, `cur`, `link`, `notice`, `timer`, `closer`, `running` (the serial queue), `center` and `call` (the service center), `pc` (threads), `answers`; `extra`, `count` (history) |
| `IdleTasks` | `idle_condition_mgr/idle_condition_mgr.cpp`, its event subscriber, `bms_update_selinux_mgr.cpp`, the start and stop of the scans in `app_data_monitor` | `met`, `charging`, `counter`, `doing` (event and charger threads), `job`, `stop`; `plugged`, `lost`, `late` (history, the last a set) |
| `InstallerPool` | composed with `IdleTasks`: `bundle_installer_manager.cpp` and the switch lock of `bundle_data_mgr.cpp` | the same, and `task`, `pool`, `switching` |
| `MCBundleUpdate`, `MCBundleInstall`, `MCDualMode`, `MCFreeInstall`, `MCInstallerPool` | the instances TLC runs over | |
| `BundleUpdateProofs`, `BundleInstallProofs`, `BundleRowProofs`, `QuickFixProofs`, `DualModeProofs`, `DualModePlaceProofs`, `FreeInstallProofs`, `InstallerPoolProofs` | the theorems | |

An action stands for the code between two effects that another part, a crash or
a boot could see. `pc` names the next such effect. `map` in `PROJECT.json` gives
the lines of every definition. Definitions whose names say what went wrong
(`SharedToDeleteAny`, `BootEraseNot`, ...) stand in front of the definition they
distort; they are the mutants of `PROJECT.json` and no specification uses them.

**An update** (`BundleUpdate`, `ProcessBundleInstall` and what it calls):
`saveCreate` the record is written; `extract` the new code goes to `+new-`,
module by module; `saveRealToOld`, `realToOld`, `saveNewToReal`, `newToReal`
each rename is announced in the record and then done; `lower` modules that the
new version lacks leave the info in memory; `late` whatever may still fail;
`commit` `MarkInstallFinish` saves row and memory; `skills` `CommitAppSkills`;
then the old code is deleted in four steps. `rollback` is `RollBack` followed
by `InstallExceptionMgr`, whose labels start with `h`. A boot enters the same
labels from `off`.

**The other operations** (`BundleInstall`): labels `i...` install, `m...`
replace and add modules through `<module>_tmp`, `u...` uninstall, `um...`
uninstall one module. A module uninstallation may fail after its mark was saved: in
the native packages (`native`), in the removal of its directories (`remove`) or in
the removal of its info (`unlist`). `LoadMarked` is the boot of a row whose mark is not
`INSTALL_FINISH`.

**A quick fix** (`QuickFix`): `d...` deploy, `e...` and `s...` enable and
disable, `x...` delete, `b...` the end of a boot. The boot runs the same labels
with `mode` `"scan"` (a row was found) or `"restore"` (the table is empty and
directories were found); where a request would return, the boot goes on to the
next operation (`Finish`) or gives the row up (`Fail`, `BootErase`). A request that
names a target path puts its files under the directory `patch`, which its
`nativeLibraryPath` then begins with unless the deployer leaves it alone
(`"prefixed"`, `"target"`). The deleter goes by `nativeLibraryPath`: it removes all
of `patch`, or `patch_<version>`. The boot knows `patch_<version>` only.

**Two modes** (`DualMode`): the passes over the lists (`Migrate`,
`ClassifyByPolicy`, `ClassifyByDeviceMode`, `RestoreSecondary`, `Boot`) treat each
name on its own and are operators on a pair of entries. An installation is four
steps of a thread, one for each place where the code reads the mode: `Begin`,
`FirstBoot`, `OtaNew` or `OtaKnown` parses the package, `Name` derives the
effective name, `Start` looks the bundle up under its mutex, checks the category
and creates directories, `Finish`, `FailDirs`, `FailLate` or `FailSave` ends it.
A pass may have another pass after it (`rest`): the two sides of a first boot,
the normal and the cross-mode package of an OTA. `Flip` is the device changing its
mode, at any moment; `Switch` and `SwitchFails` are the call that follows.

**Free installation** (`FreeInstall`): a request's thread connects, waits on
`cv_`, enters the map, sends and sets its timeout (`Submit` to `Monitor`);
`ConnectDone`, `DisconnectDone` and `UpdateConnectState` are the callbacks of the
ability manager, split where the code sets the remote object before it takes
`mutex_`; `TimeOut` and `TimeOutAnswer`, `Finish` and `Answer` split
`SendCallBack` between finding the callback and erasing the entry; `OnRemoteDied`
empties the map. The service center is the environment: it may report progress, a
result or a heartbeat, acknowledge, or die.

**Idle jobs and the pool** (`IdleTasks`, `InstallerPool`): one step is one critical
section or one access to an atomic that others read. An event stores its condition
(`OnMet`, `OnUnmet`, `OnPowerConnected`, ...), then its thread visits the jobs in
turn (`TryCheck`, `TrySet` or `InterruptLook`, `InterruptStop`). A job's thread
looks again, begins, works and releases. An operation goes from `CreateTask` through
the four sections of `AddTask` to a worker, which runs or drops it.

## 3. What is abstracted

- Code is a version per module and directory; a directory exists if it holds
  code. `RenameFile` in installd removes its target and then renames, so a
  failing or interrupted rename leaves any part of the target (`Cut`) and the
  source whole. A failing or interrupted removal leaves any part. `RemoveDir`
  in its asynchronous form first renames the directory out of sight, so it is
  one step.
- A write or a deletion of one database row is atomic and durable.
- A check, a parse, an extraction, a permission or a signature call is a step
  that may fail (`Faults`). Data directories, native libraries, user infos,
  events and resources are not in the state.
- Every package contains the entry module; an installation at the installed
  version has the replace flag; one user has the bundle.
- `_tmp` directories left by an interrupted replacement are kept apart from the
  installed modules, as in the code, which overwrites them at the next attempt.
- `RemoveBundleDataDir` reports success whatever becomes of the directories, so the
  data directories are no step that may fail.
- A removal in the boot handler fails for all its directories or for none.
- Error returns of a first installation that skip `RollBack`
  (`ERR_APPEXECFWK_INSTALL_SINGLETON_NOT_SAME`, zero-user mode), a failing
  `AddInnerBundleInfo`, and the shortage of space for pre-installed bundles are
  left out.
- Quick fix: one bundle that stays installed, patches of type `PATCH`; the
  enabled/disabled state of the bundle during a switch, and the removal of
  patches by an update of the bundle, are left out. A directory that is only
  partly filled counts as present: the row is then still `DEPLOY_START`, which
  makes the boot copy again. Reading the directories, `RestoreQuickFix` sees
  them in no particular order, so any directory but the newest may or may not
  be superseded. Which target path a patch has is not in the state: a deployment
  with a target path may empty the directory of any other patch under `patch`.
- Dual mode: a package is its policy. Whether the haps on the device are newer,
  and whether an application is removable, is chosen freely. The removal of an
  application is one step (its partial failures are in `BundleInstall`), and data
  directories are present or not.
- Free install: wants, results and error texts are one code each; time passes
  only in that a timeout may fire. ERMS, the query for the service center and the
  parcels are one fault (`local`). The ability manager and the service center are
  external and modelled from the calls in `free_install/`.
- Idle tasks: what a job senses and does not store (memory, thermal level, inodes,
  cool-down, rows waiting, parameters) may refuse a start at any time. The second
  and the third job have the same code. `OHOS::ThreadPool` is external: it is
  modelled from how `BundleInstallerManager` uses it.

## 4. The runs

| Run | Result | Question |
|---|---|---|
| `update_faults` | pass | up- and downgrades between three versions that add and drop modules, every fault `Covered` allows, a crash at every step |
| `install_faults` | pass | installations, replacements, updates and uninstallations, of the bundle and of a module, in any order, failing steps, no crash |
| `install_crash` | pass | the same with a crash anywhere but in the windows of `replace_crash` and `uninstall_crash`, with failing saves of the row, and no failure after the mark of a module uninstallation; liveness |
| `quick_fix` | pass | deploy, enable, disable, delete over three patches in any order, one of them with a target path, failing calls, a crash anywhere but in the window of `quick_fix_crash` |
| `dual_mode` | pass | two installer threads, first-boot and OTA scans, removals, switches whose save may fail, mode changes and restarts at any step |
| `free_install` | pass | requests of every kind beside each other, with one failure or death, one heartbeat, and the connection's callbacks and tasks in every order; liveness |
| `installer_pool` | pass | events, left-over charger threads, idle jobs, install tasks, the thread that stops the pool and mode switches; liveness |
| `late_drop`, `skills_failure`, `replace_crash`, `uninstall_crash`, `quick_fix_crash` | violation | section 7 |

What the properties say:

- `Recoverable`, `RowRecoverable`: wherever the service stops, the code that a
  boot would leave (`Surviving`) is complete and of the version in the row. This
  is the purpose of the exception record: between the two renames the real
  directory does not exist.
- `ConsistentWhenIdle`, `IdleAgrees`: between operations, memory, row and real
  directory agree. A module uninstallation that fails in its native packages leaves
  its mark in a row that is otherwise that of memory, and `IdleAgrees` says so; the
  next boot completes the uninstallation, which is outside the runs.
- `FailedUpdateRestores`: an update that reports failure has put the version it
  found back in all three.
- `ImplementsStore`: `BundleUpdate` implements `BundleStore` under the mapping
  `info <- db`, `code <- Surviving` on the modules of the row. The dozen steps
  of an update look like one.
- `StateSettles`: no operation leaves `installStates_` in the middle. Two exceptions
  are stated in the property, and both leave `UNINSTALL_START`: an uninstallation
  whose mark cannot be saved, which returns without a state guard, and that of a
  bundle's only module, which dismisses its guard (`base_bundle_installer.cpp:2769`)
  before steps that may fail.
- `NoOrphanCode`: a bundle that is not installed has no code directory.
- `OldCodeReclaimed`: if crashes stop, the service keeps becoming idle with
  neither `+old-` nor `+temp-` left.
- `PatchInUse`: the patch that the bundle info names always has its files, in its
  own directory or under `patch`.
- `OfferedPatch`: between requests, a patch that can be enabled has its files
  and is newer than the one in use.
- `BootSettles`: `ProcessQuickFixBootUp` leaves no row, whichever status it found
  and whichever of its steps fails.
- `NeverOlder`: no step replaces the patch in use by an older one.
- `ModeTracked`: the migration never looks at the mode, it rotates the
  different-package entries once per call. If the caller makes one switch per mode
  change, the visible variant is nevertheless that of the current mode.
- `NoAnomalousPair`: what the migration calls an inconsistent variant pairing is
  not reached. `ClonesAreDiff`: a clone, in a list or in the table, is of a
  different-package policy, even when the mode changes inside an installation.
- `VariantsRecorded`: with no thread at work, lists, table and `installStates_`
  know the same variants. `RebootAgrees`: a restart would place every entry where
  it is, except those installed since the last switch.
- `SwitchRestores`: a switch that cannot be saved is undone. `VariantIsolated`,
  `VisibleDataKept`: an installation touches the row of its own variant only, and
  removes no data of an application users see, also when it fails. That does not
  extend to a late failure of the other mode's package (fault `cross`, section 7),
  which the run leaves out.
- `AnsweredOnce`: a callback is called once. `SendCallBack` looks the callback up
  and erases the entry in two sections of `mapMutex_`; `extra` counts the answers
  that this overlap and the query without a bundle name add, and nothing else adds
  one.
- `UpgradeHidesFailure`: the caller of an upgrade hears of no failed installation,
  and of a timeout only through that overlap.
- `UnwatchedOnlyLoading`: an installation loses its last watcher only if the
  service center had reported a download, which cancels the timeout for good.
- `NoLostWakeup`, `EveryRequestAnswered`, `ConnectionReleased`: no thread sleeps
  through the end of a connection attempt; each request comes to its end; the
  connection is given up after the last one.
- `OneAtATime`: one idle job at a time, though checking and claiming are two
  sections. `StopReaches`: a job whose conditions are gone is stopped or about to
  be, with one exception (section 7). `PowerFollowsPlug`: the power
  condition is stored only while plugged in, and while plugged in it is stored or a
  charger thread is there that will store it, with two exceptions that `late`
  records (section 7). It does not say that the thread has waited its full time: one
  left over from an earlier plug takes the flag of the next for its own.
- `EveryTaskSettles`: every operation asked for is run or refused, and the pool is
  stopped, again and again.
- `IInv`, `QuickFixInv`: the inductive invariants of the proofs.

**Bounds.** Three versions and three modules give an update that adds a module,
one that drops one, and an update that follows an interrupted one whose record and
directories are still there. Three patches give one in use, one deployed beside it
and one to come; the second has a target path (`Targeted`), so it is met displacing a
patch with a directory of its own and being displaced by one. `install_faults` has
3,675 states, `install_crash` 158,531, `quick_fix` 38,726. In these runs nothing else is bounded: operations and crashes may
repeat forever.

`dual_mode` has one name: the passes treat names on their own, and threads on
different names share only the switch lock and the mode. Its two threads meet on
that name's mutex; they are symmetric. The policies are one that exists in one mode
only, one that a set may exclude, and one with two packages; the three sets include
and exclude each of the first two. `FollowTorn` prunes what follows a mode change
in the middle of an installation, which voids most properties (they say `Orderly`):
only the installation that was hit is followed to its end, for `ClonesAreDiff`,
which does not need it. The theorem `ClonesStayDiff` covers the rest.

`free_install` has three mixes: an upgrade beside a check, a check beside a
preload, a query without a name. A second request is what makes a connection
outlive its first request, and two connections are needed for a stale callback.
One fault and one heartbeat (`MaxFaults`, `MaxBeats`) reach each of the named
overlaps.

`installer_pool` also has mixes: events against two chargers, events against an
install, three installs against one another and a switch. `LastJob` is 2, as the
third job runs the code of the second; one worker and a queue of one place
(`Workers`, `MaxTask`) make a full queue with three tasks. The theorems hold for
one to three jobs, any number of threads and tasks, and every mix.

**Fairness.** `install_crash`: weak fairness of the service's own steps (`Step \/
InstallStep`). An operation runs on a thread that nothing blocks once the bundle's
mutex is held, and a boot runs without being asked. Requests and crashes are not
fair, and the property only claims something if crashes stop. The faults of that run
do not include removals: a removal that always fails keeps `+old-` forever.
`free_install`: threads that can run do, the ability manager calls back, a due task
of the serial queue runs, and a service center that reported a download reports its
end or dies; no request has to be made, no result and no heartbeat has to come.
`installer_pool`: a caller inside `AddTask`, a worker and its operation, the stopping
thread and a switch that has begun go on; events, requests and new switches need not
come.

**Deadlock** is checked in every run but `free_install`, which ends when every
request is answered and the connection is gone.

## 5. The proofs

`BundleUpdateProofs`, for any sets of modules and packages, under `Covered`: no
fault `recover`, `skills` or `dropped` (`late` and `info` in an update that drops a
module; in any other update they are covered). What `Covered` excludes is not for
the sake of the proof: sections 7 and 8 show the property failing there. The
invariant
`IInv == TypeOK /\ CodeInv /\ RecordInv /\ MemoryInv /\ PackageInv` is needed
because `Recoverable` alone does not survive a step. It has to say which
directory holds the committed code at each `pc` (`CodeInv`: in place, displaced
to `+old-`, or clean), that the record agrees with it wherever a handler will act
on the record (`RecordInv`), that memory equals the row wherever the handler
compares the record with memory (`MemoryInv`), and that `+new-` is complete before
it is renamed (`PackageInv`). One lemma per action shows that it is preserved;
then

- `Invariance`: `Spec => []IInv`;
- `TypeCorrect`, `AlwaysRecoverable`, `IdleConsistency`, `RollbackCorrect`: the
  four invariants follow;
- `Refinement`: `Spec => ImplementsStore`. The row and the surviving code change
  together in `commit`, and no other step changes either.

`BundleInstallProofs` and `BundleRowProofs`, for any sets of modules and packages and
any sequence of installations, updates, replacements and uninstallations. Four
invariants, each of one action lemma per operation:

- `BaseInv`, with no condition at all: what each operation knows of its package, of
  the old version and of memory (`OperandInv`), and that a bundle in memory has an
  entry in `installStates_` and another has none, but for a first installation
  (`StateInv`). `StatesSettle` follows: `StateSettles`, whatever fails and wherever
  the service crashes.
- `TypeInv`, without the faults `skills` and `dropped`: `BaseInv`, and every row, every
  info in memory and every saved old info has at least one module. That needs to be
  known where a rollback puts modules back: there memory still has all of the old
  ones (`Restorable`). `InstallTypes` follows. With either fault an info in memory
  may end without modules, so that it is not of its type.
- `TidyInv`, under `TidyCovered`: no crash, and records are saved, directories removed
  and renamed back. It says at which `pc` the directories `+new-`, `+old-` and `+temp-`
  may hold code (`TidyDirs`), that wherever a handler or a rollback takes over the
  record makes it remove or restore what they hold (`Owed`), and that the version in
  memory that the handler compares with the record is the old one (`TidyMemory`).
  `NothingIsOrphaned` follows: `NoOrphanCode`.
- `RowInv`, under `InstallCovered`. The code that counts is that of `Row`, the bundle a
  boot would load from table and mark; `RowCode` says in which directory it is at each
  `pc`, `RowRecord` that the record restores it from there, `RowMemory` how memory,
  marks and table are related in each operation, `RowPackage` how much of the package
  has been written. `RowStaysRecoverable` and `MemoryAgreesWhenIdle` follow:
  `RowRecoverable` and `IdleAgrees`.

`InstallCovered` excludes what the findings of section 7 need (`skills`, `dropped`,
crashes at `mRename` and `uErase`), failing renames, forward and back (`recover`,
`rename`), an uninstallation of one module that fails after its mark (`native`,
`unlist`, `remove`), and a row that cannot be deleted when there are also crashes. In each of
these TLC refutes one of the two properties; `native` is harmless without crashes, as
`install_faults` shows.

`QuickFixProofs`, for any set of patch versions, under `QuickFixCovered`: no fault
`erase` or `info`, no failing call inside `RestoreQuickFix`, no crash at
`sInfo`, and at most one patch with a target path. `QuickFixInv` says what a row promises: up to the switch it offers a
patch newer than the one in use whose files are in place (`InPlace`) once `DEPLOY_END`
is saved; after the switch it does not name the patch in use (`Sound`, `RowInv`). It
also relates the working copy to the row in each operation (`DeployInv`,
`SwitchInv`, `DeleteInv`), and keeps the directories that `RestoreQuickFix` is
going to remove apart from the patch it switches to (`RestoreInv`). One lemma per
action, then

- `QuickFixInvariance`: `Spec => []QuickFixInv`;
- `QuickFixTypeCorrect`, `PatchKept`, `OfferKept`, `BootSettled`: `TypeOK` and the three
  invariants follow;
- `NoOlderPatch`: the action property `NeverOlder`.

`DualModeProofs`, for any names, policies, policy sets, threads and faults, and with
no assumption on when the mode changes. `ClonesAreDiff` is not inductive by itself: a
clone enters a list from an installation that decided on it several steps before,
possibly in the other mode. `CloneInv` therefore carries the property in the lists,
the table, and the parsed package and next pass of every thread (`GoodPasses`).
Here, and for each invariant about `DualMode` below, the proof that steps preserve it
has one named step per action, after the facts about operators that the actions share.

- `DualModeTypeCorrect`, `ClonesStayDiff`: `TypeOK` and `ClonesAreDiff` always hold;
- `FailedSwitchLeavesNoTrace`: in every step in which a switch cannot be saved and
  there is an old set, each name that the old set had placed (`Placed`) is where it
  was. It rests on a lemma about `Migrate` alone: for every entry so placed,
  migrating to any valid set and back is the identity.

The rest of `DualModeProofs` has one condition on the faults: no late failure of an
installation of the other mode's package (`RecordsCovered`; section 7 shows what it
does). Like the properties themselves the agreement is claimed while `Orderly`: no mode
change inside an installation (`torn`) and no package of another category over a hidden
or a user's application (`mixed`). `RecordsInv` is `CloneInv` and, while `Orderly`, `Agree`.
`Agree` says that the two entries of a name are its two rows, in one
order or the other (`Exact`), that every install state is that of its row unless a
started installation holds it, and what each installation under way knows of the rows it
will meet: the flag it derived (`NamedInv`), what it found at its start (`StartedInv`), what a
scan's package has against it (`ScanInv`), and that no two scans treat the same name.

- `PairsNeverAnomalous`, `VariantsStayRecorded`: `NoAnomalousPair`, `VariantsRecorded`;
- `VisibleDataSurvives`: the action property `VisibleDataKept`. A rollback removes the
  data directories of the name it derived. That is the visible variant's only where a
  scan installs the other mode's package and finds, alone and visible, an entry of that
  other mode. `Apart` excludes it: a scan that installs the other mode's package, or will
  in its next pass, meets no visible entry alone but the current mode's (`CrossInv`); the
  boot's placement makes this true of all names that are still to be scanned
  (`ReadyInv`), and no step between placement and scan undoes it.

`DualModePlaceProofs`, on the same condition. The migration of a switch looks at the
policy set and not at the mode: the right variant is visible only because each call is
matched by a mode change and each variant was put on the right side when it came. Two
inductive invariants say where every entry is.

- `ModeInv` is about different-package applications: under `Lawful` (the premises of
  `ModeTracked` without `AllIdle` and `~pending`) each entry is on the side of the mode
  that the lists were last arranged for, `TrackedMode`, which during a pending mode
  change is the other one (`OnSide`). An installation decides on its variant steps before
  it enters a list; so `SameVariant` says that from its start on the flag it will store
  is that of the name it derived, and `Quiet` that no installation is under way while a
  mode change is pending.
- `PlaceInv` is about the others: `Laid` says that the persisted set, or the mode if there
  is none, hides an entry exactly if it is in the hidden list. It holds under
  `Kempt`, which differs from `Lawful` in that a failed switch is harmless once there is
  a set; and `fresh` names, which nothing has placed yet, are exempt.

With `Exact` of `RecordsInv` they determine the lists from rows, set and mode (`Booted`),
and the lemma `BootValue` shows that the three classifications of a boot compute the same.

- `ModeStaysTracked`: `ModeTracked`, from `ModeInv`;
- `VariantsStayIsolated`: the action property `VariantIsolated`, from `ModeInv`: an update
  finds the entry of the variant it derived because that entry is on the mode's side;
- `RestartChangesNothing`: `RebootAgrees`, from both;
- `FailedSwitchRestores`: the action property `SwitchRestores`. What
  `FailedSwitchLeavesNoTrace` assumes of a name, `Placed`, follows from both invariants.

`FreeInstallProofs`, for any requests, kinds, mixes and numbers of faults and
heartbeats. `AnsweredOnce` needs to know that a request that is still in the map, or
not yet in it, has had no regular answer, and that before it enters the map no
timeout and no call is at work on it (`AnswerInv`). `UpgradeInv` extends
`UpgradeHidesFailure` to the code a handler has fetched and not delivered, and
`WaitInv` extends `NoLostWakeup` to the thread that holds `mutex_` on its way to wait.

- `FreeInstallTypeCorrect`, `AtMostOneAnswer`, `UpgradeHearsNoFailure`,
  `WaitersAreWoken`: `TypeOK`, `AnsweredOnce`, `UpgradeHidesFailure`, `NoLostWakeup`;
- `OnlyDownloadsUnwatched`: `UnwatchedOnlyLoading`. Its invariant (`Watched`) is
  stronger and simpler: an entry whose thread is done has a timeout, set or running,
  or a handler at work, or was reported as downloading. Whatever cancels one of these
  leaves another or removes the entry; deaths and their notices play no part.

`InstallerPoolProofs`, for one to three jobs, any event threads, chargers, tasks,
workers and mixes. `PoolInv == TypeOK /\ CounterInv /\ OneAtATime /\ PowerInv /\
StopInv`. `CounterInv` says that `g_taskCounter` is the number of counted operations
(so it is never decremented below 0, and 0 means that none is under way). `StopInv`
states `StopReaches` already for a job that has made its second look and has not
begun: that look is what makes the two-step interrupts sufficient. `PowerInv` says
that the charger flag is set only while plugged in, that a charger is past its last
look only while plugged in or `late`, and that a charger which is starting the jobs,
and will clear the flag, has the condition stored unless an unplug overtook it.

- `PoolInvariance`: `Spec => []PoolInv`;
- `IdleJobsExclude`, `PowerConditionFollows`, `IdleStopsReach`: the three invariants.

The assumptions are `UpdateAssumption` (packages have a version above 0 and at
least one module), `QuickFixAssumption` (patch versions are above 0),
`DualModeAssumption` (policies are 0..8, a policy set contains 4, 6 and 8, as
`IsValidPolicySet` demands), `FreeInstallAssumption`, `IdleAssumption` and
`PoolAssumption` (types of the constants; at least one worker and one place in the
queue). TLC evaluates all of them.

Only model-checked: `OldCodeReclaimed`, `EveryRequestAnswered`, `ConnectionReleased`
and `EveryTaskSettles`, which are liveness under fairness and outside the prover's
reach. Every invariant and action property of a passing run has a theorem.

## 6. Hazards and mutants

`PROJECT.json` lists the places where this code is exposed to what a test hardly
reaches (`hazards`), each at its line with the properties that would catch it,
or with a note on why none does. For each property of a passing run it names a
mutant: a plausible bug in one mapped definition under which TLC finds the
property violated, so that no property holds by the shape of the model.

## 7. Findings

Each is a run in which TLC violates a property that the repository states, in
`src/skills/bms-code-check/code_review_checklist/SKILL.md` or in a log message.

1. `late_drop` (`base_bundle_installer.cpp:7219`). An update to a version that
   lacks an installed module removes that module from memory, which puts the new
   info in place, and enters `UNINSTALL_START`. If a later step fails before
   `MarkInstallFinish`, `ROLL_BACK` is refused from that state; memory keeps the
   new version and the row the old one, and `RollbackCodePath` decides by memory
   and keeps the new code.
2. `skills_failure` (`base_bundle_installer.cpp:9779`). `CommitAppSkills` fails
   after row and memory were committed: the update is reported as failed and
   rolled back in part, but stays installed.
3. `replace_crash` (`base_bundle_installer.cpp:8602`). An installation at the
   installed version replaces modules without an exception record; a crash inside
   a rename loses the module's code.
4. `uninstall_crash` (`bundle_data_storage_rdb.cpp:44`). Rows with an unfinished
   mark are handed to the exception handler and also kept as valid: after a crash
   during an uninstallation the service lists a bundle without row and code until
   the next boot.
5. `quick_fix_crash` (`quick_fix_switcher.cpp:238`). The row becomes `SWITCH_END`,
   naming the displaced patch, before the bundle info stops using it; after a crash
   in between the boot deletes the directory of the patch in use.

The passing runs and the proofs exclude exactly these windows: through `Covered`
for 1 and 2, through `Stable` (labels without a crash) for 3, 4 and 5. They also
exclude faults for which TLC shows that a property fails but about which the
repository states nothing: a failing rename inside the recovery itself
(`recover`), and for quick fixes a row that cannot be deleted (`erase`), a bundle
info that cannot be saved (`info`) and a failing call inside `RestoreQuickFix`
(`RestoreFaults`). The hazards list has a note on each.

The same holds in the newer modules. A property there names its exceptions, and the
histories record when one applies.

- `DualMode`, fault `cross` (a failing installation of the other mode's package): TLC
  refutes `VariantIsolated` in eight steps. `RollBack` calls `DeleteBundleInfo` with
  the plain name (`bundle_data_mgr.cpp:7008`), which deletes the visible entry and its
  row, i.e. the variant that was not being installed. On the first boot this is the
  PRIMARY variant, although `system_bundle_installer.cpp:55` says that the two sides
  are independent. `dual_mode` leaves the fault out.
- `env.mixed`: an OTA package of another category than the only, hidden, entry, or of
  another policy than an application a user installed. The category checks of an OTA
  do not look at the other list, and the pairing that `bundle_data_mgr.cpp:797` calls
  inconsistent is reached; a clash may also remove the user's data.
- `env.adrift`: a switch that fails without an old set rotates the different-package
  entries and does not rotate them back; and pre-install records may mislead
  `ProcessUpdateDualPolicy`. Both last until the next boot.
- `env.torn`: the mode is read at four points of one installation and may change
  between them. `env.contract`: an installation between a mode change and its switch,
  or a switch without a mode change, defeats the rotation.
- `env.fresh`: an application that the current set excludes is visible when it is
  installed and stays so until the next switch or boot, which place it.
- A fresh installation of a name whose only variant is hidden is refused by the state
  machine, and the `RollBack` removes the data of the hidden one
  (`base_bundle_installer.cpp:5649`). An OTA of a hidden, non-removable application
  gets there.
- `FreeInstall`: `SendCallBack`'s `operator[]` recreates an entry that a concurrent
  answer has erased, with function code 0, so a second answer may go out and an
  upgrade may hear of a timeout. A query without a bundle name is answered
  `UNDEFINED_ERROR` and then installed and answered again. A progress report cancels
  the timeout and never sets it again (`Unwatched`). Entries without a callback keep
  the connection until they are acknowledged.
- `lost`: `StartUpdateSelinuxLabel` begins with `needStop_.store(false)`
  (`bms_update_selinux_mgr.cpp:60`): a stop that came between the second look and this
  store is forgotten, and the relabelling goes on until the next event or install. The
  scans do not have this window. `late` has two windows of a charger that an unplug
  overtakes. `"due"`: it has made its last look at the flag and stores the condition
  less than a second after the unplug. `"try"`: it has stored the condition and is
  starting the jobs, after which it clears the flag; if the device was unplugged and
  plugged in again meanwhile, the flag was the next charger's, which then gives up,
  and the device is plugged in without the condition until the next plug. TLC reaches
  this in 12 steps.
- `QuickFix`, two patches with a target path: TLC refutes `PatchInUse` without any
  fault. Deploying the second into the directory of the first, which is in use,
  empties it, and deleting either removes all of `patch`
  (`quick_fix_deleter.cpp:168`). A boot that finds the table empty and only an older
  `patch_<version>` left over may also drop a patch under `patch` from the bundle
  info, since `RestoreQuickFix` looks at `patch_<version>` alone; the files under
  `patch` then stay.
- A module uninstallation that failed after its mark (`base_bundle_installer.cpp:2777`,
  `2854`): the module stays listed, the mark stays in the row, and the next boot
  removes the module.

## 8. What is not modelled, and why

Inside the modelled parts:

- `BundleInstall`: installation for further users, keep-data uninstallation, a
  reboot after a module uninstallation that failed past its mark.
- `DualMode`: module contents and versions (a failing cross-mode update also writes
  the old modules into the visible variant), users, keep-data removal, a failing save
  in `UpdateBundleInfoPolicy`, the forced-installation lists, hot patches and per-user
  lists of an OTA, the early return of `RollBack` on a full disk.
- `FreeInstall`: allocation failures, the contents of wants and JSON and their parse
  errors, the thread of `LoadService`, two calls of the service center about one
  request at once, the bare `SendRequest` of other callers. The wait for a connection
  has no timeout in the code; the fairness says that the ability manager calls back.
- `IdleTasks`, `InstallerPool`: the bundles a job works through, its reports and
  cool-downs, the change of the user the conditions are about, the configuration
  switches; the entries of the installer host that do not use the pool, and the
  parallel batch of the boot (`AddTaskParallel`).

Parts without a module:

- `SingleDelayedTaskMgr`, `CriticalManager`, `RdbDataManager`: a task scheduled while
  its predecessor finishes, the reference count that keeps installd alive, reopening
  and delayed close of a store. The other models take a write of a row as atomic.
- Aging: a periodic chain that uninstalls through the operations of `BundleInstall`.
- Shared, clone, sandbox, plugin and multi-user installers: directories, indexes and
  rollbacks of their own beside those of `BundleInstall`; the removal of patches by an
  update, between `BundleInstall` and `QuickFix`.
- AOT, on-demand, app control, default application, overlay, shortcut and state
  tables: single-row writes next to an installation, or queries.
- Profile and archive parsing, resource rendering, IPC marshalling, permission and
  signature services, events and dumps: sequential data conversion or calls to other
  services, whose failure is already a failing step.
