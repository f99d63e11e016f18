---------------------------- MODULE BundleUpdate ----------------------------
(***************************************************************************)
(* One update of an installed bundle to another version.  The new code is  *)
(* extracted into +new-, the installed code is renamed to +old-, +new- is  *)
(* renamed to the real directory, the bundle info is committed, and +old-  *)
(* is deleted.  Before each stage the installer saves an exception record; *)
(* a failed update and every boot hand that record to InstallExceptionMgr, *)
(* which brings the directories back to one version.  The bundle's mutex   *)
(* is held throughout, so the operation runs alone but may crash anywhere. *)
(***************************************************************************)
EXTENDS InstallStates, Naturals

CONSTANTS
    Modules,    \* module package names of the bundle
    Packages,   \* versions offered for installation: [ver, mods]
    Downgrade,  \* whether the requests may lower the version
    Faults      \* kinds of calls that may fail, a subset of FaultKinds

\* save, drop: exception record written, deleted.  rename, recover: a rename
\* of the update itself, of InstallExceptionMgr.  remove: a directory removal.
\* step: any check or extraction before the renames.  late: a step between
\* the renames and the commit.  info, erase: a row of the bundle database
\* written, deleted.  dropped: late and info in an update that drops a module
\* too, which UninstallLower cannot undo.  skills: CommitAppSkills.  native,
\* unlist: of a module's uninstallation, a step between the mark and the
\* removal of its code, and the row without it.
FaultKinds ==
    {"save", "drop", "rename", "recover", "remove", "step", "late", "info",
     "dropped", "erase", "skills", "native", "unlist"}

Info == [ver : Nat \ {0}, mods : (SUBSET Modules) \ {{}}]
NoInfo == [ver |-> 0, mods |-> {}]

ASSUME UpdateAssumption ==
    Packages \subseteq Info /\ Faults \subseteq FaultKinds /\ Downgrade \in BOOLEAN

VARIABLES
    dir,     \* code directories: the version of each module's code, 0 if none
    rec,     \* the bundle's row in the install-exception database
    db,      \* the bundle's row in the bundle database
    mem,     \* bundleInfos_: the info the service works with
    mark,    \* the InstallMark inside the row and inside the info in memory
    state,   \* installStates_
    pc, ret, \* where the service is, and where InstallExceptionMgr returns to
    pkg, old,\* the package being installed and the info it replaces
    todo     \* modules the current loop has still to visit

vars == <<dir, rec, db, mem, mark, state, pc, ret, pkg, old, todo>>
op == <<ret, pkg, old, todo>>

\* "moduleTmp" holds the directories <module>_tmp inside the real directory.
DirNames == {"real", "new", "old", "temp", "moduleTmp"}
Empty == [m \in Modules |-> 0]
CodeOf(i) == [m \in Modules |-> IF m \in i.mods THEN i.ver ELSE 0]
Holds(c, i) == \A m \in i.mods : c[m] = i.ver
Exists(d) == dir[d] # Empty

Status == {"none", "CREATE_NEW_DIR", "RENAME_RELA_TO_OLD_PATH",
           "RENAME_NEW_TO_REAL_PATH", "DELETE_OLD_PATH"}
Mark == [status : {"INSTALL_FINISH", "UPDATING_NEW_START", "UPDATING_FINISH",
                   "UNINSTALL_BUNDLE_START", "UNINSTALL_PACKAGE_START"},
         package : SUBSET Modules]
Finished == [status |-> "INSTALL_FINISH", package |-> {}]
NoRecord == [status |-> "none", ver |-> 0]

Labels == {"idle", "off", "saveCreate", "extract", "saveRealToOld",
           "realToOld", "saveNewToReal", "newToReal", "lower", "late",
           "commit", "skills", "saveDeleteOld", "oldToTemp", "removeTemp",
           "removeOld", "drop", "finish", "rollback", "handle", "hCreate",
           "hRestore", "hRestoreDrop", "hRemoveNew", "hGone", "hOldToTemp",
           "hRemoveTemp", "hDrop"}

Init ==
    /\ db \in Packages
    /\ mem = db
    /\ dir = [d \in DirNames |-> IF d = "real" THEN CodeOf(db) ELSE Empty]
    /\ rec = NoRecord
    /\ mark = [db |-> Finished, mem |-> Finished]
    /\ state = "INSTALL_SUCCESS"
    /\ pc = "idle" /\ ret = "idle"
    /\ pkg = NoInfo /\ old = NoInfo /\ todo = {}

----------------------------------------------------------------------------
\* installd.  RenameFile deletes the target and then renames; a removal or a
\* rename that fails or is cut short leaves any part of what it was deleting.

Remnants(c) ==
    {[m \in Modules |-> IF m \in S THEN c[m] ELSE 0] : S \in SUBSET Modules}
Cut(d) == {[dir EXCEPT ![d] = c] : c \in Remnants(dir[d])}

RenameOk(s, d) ==
    IF Exists(s) THEN dir' = [dir EXCEPT ![d] = dir[s], ![s] = Empty]
    ELSE Exists(d) /\ UNCHANGED dir

RenameFails(s, d, fault) ==
    IF Exists(s) THEN fault \in Faults /\ dir' \in Cut(d)
    ELSE ~Exists(d) /\ UNCHANGED dir

RemoveOk(d) == dir' = [dir EXCEPT ![d] = Empty]
RemoveFails(d) == "remove" \in Faults /\ Exists(d) /\ dir' \in Cut(d)

\* InstallExceptionMgrRdb: a row per bundle, written and deleted whole.
Save(status, ver) == rec' = [status |-> status, ver |-> ver]
SaveFails == "save" \in Faults /\ UNCHANGED rec
DeleteRecord == rec' = NoRecord \/ ("drop" \in Faults /\ UNCHANGED rec)

Goto(l) == pc' = l
EndOperation == ret' = "idle" /\ pkg' = NoInfo /\ old' = NoInfo /\ todo' = {}
Rollback == pc' = "rollback" /\ todo' = pkg.mods /\ UNCHANGED <<ret, pkg, old>>

----------------------------------------------------------------------------
\* The update, in the order of ProcessBundleInstall.

\* CheckVersionCompatibility and CheckInstallAllowDowngrade: a package of
\* another version sets isFeatureNeedUninstall_, a lower one if allowed.
NeedsBundleUpdate(p) == p.ver > mem.ver \/ (Downgrade /\ p.ver < mem.ver)

\* The record an earlier update left is handled first; a failed check rolls
\* back at once.
StartUpdate ==
    /\ pc = "idle" /\ mem # NoInfo
    /\ \E p \in Packages :
         /\ NeedsBundleUpdate(p)
         /\ pkg' = p /\ old' = mem /\ todo' = p.mods
         /\ \/ Goto("handle") /\ ret' = "saveCreate"
            \/ "step" \in Faults /\ Goto("rollback") /\ UNCHANGED ret
    /\ UNCHANGED <<dir, rec, db, mem, mark, state>>

\* InnerProcessCodePathCreateNewDir: the result of the save is not looked at.
SaveCreate ==
    /\ pc = "saveCreate" /\ Goto("extract")
    /\ Save("CREATE_NEW_DIR", 0) \/ SaveFails
    /\ UNCHANGED <<dir, db, mem, mark, state, op>>

\* ProcessBundleUpdateStatus, once per module: extraction into +new-.  It may
\* fail before UPDATING_START, between the two states, and after
\* UPDATING_SUCCESS.
ExtractModule ==
    /\ pc = "extract"
    /\ \E m \in todo :
         IF Accepts(state, "UPDATING_START")
         THEN \/ /\ dir' = [dir EXCEPT !["new"] = [@ EXCEPT ![m] = pkg.ver]]
                 /\ state' = "UPDATING_SUCCESS"
                 /\ todo' = todo \ {m}
                 /\ UNCHANGED <<pc, ret, pkg, old>>
              \/ /\ "step" \in Faults
                 /\ \E v \in {0, pkg.ver} :
                      dir' = [dir EXCEPT !["new"] = [@ EXCEPT ![m] = v]]
                 /\ state' \in {state, "UPDATING_START", "UPDATING_SUCCESS"}
                 /\ Rollback
         ELSE Rollback /\ UNCHANGED <<dir, state>>
    /\ UNCHANGED <<rec, db, mem, mark>>

\* The steps that follow the module loop and precede the first rename.
Prepare ==
    /\ pc = "extract" /\ todo = {}
    /\ \/ Goto("saveRealToOld") /\ UNCHANGED op
       \/ "step" \in Faults /\ Rollback
    /\ UNCHANGED <<dir, rec, db, mem, mark, state>>

\* Mutant: a failed save of the record is only logged.
SaveRealToOldUnchecked ==
    /\ pc = "saveRealToOld" /\ Goto("realToOld")
    /\ Save("RENAME_RELA_TO_OLD_PATH", old.ver) \/ SaveFails
    /\ UNCHANGED <<dir, db, mem, mark, state, op>>

\* InnerProcessCodePathRealToOld
SaveRealToOld ==
    /\ pc = "saveRealToOld"
    /\ \/ Save("RENAME_RELA_TO_OLD_PATH", old.ver) /\ Goto("realToOld") /\ UNCHANGED op
       \/ SaveFails /\ Rollback
    /\ UNCHANGED <<dir, db, mem, mark, state>>

\* A real directory that is not there (errno ENOENT) is not an error.
RealToOld ==
    /\ pc = "realToOld"
    /\ \/ RenameOk("real", "old") /\ Goto("saveNewToReal") /\ UNCHANGED op
       \/ /\ RenameFails("real", "old", "rename")
          /\ IF Exists("real") THEN Rollback
             ELSE Goto("saveNewToReal") /\ UNCHANGED op
    /\ UNCHANGED <<rec, db, mem, mark, state>>

\* Mutant: the record carries the version of the package.
SaveNewToRealPackage ==
    /\ pc = "saveNewToReal"
    /\ \/ Save("RENAME_NEW_TO_REAL_PATH", pkg.ver) /\ Goto("newToReal") /\ UNCHANGED op
       \/ SaveFails /\ Rollback
    /\ UNCHANGED <<dir, db, mem, mark, state>>

\* InnerProcessCodePathNewToReal
SaveNewToReal ==
    /\ pc = "saveNewToReal"
    /\ \/ Save("RENAME_NEW_TO_REAL_PATH", old.ver) /\ Goto("newToReal") /\ UNCHANGED op
       \/ SaveFails /\ Rollback
    /\ UNCHANGED <<dir, db, mem, mark, state>>

NewToReal ==
    /\ pc = "newToReal"
    /\ \/ RenameOk("new", "real") /\ Goto("lower") /\ UNCHANGED op
       \/ RenameFails("new", "real", "rename") /\ Rollback
    /\ UNCHANGED <<rec, db, mem, mark, state>>

\* UninstallLowerVersionFeature: a module the package lacks is removed from
\* the info in memory, which thereby becomes the info of the new version;
\* storage is not written.  Its mark is that of the last module extracted.
UninstallLower ==
    /\ pc = "lower" /\ Goto("late")
    /\ state' = StateAfter(state, "UNINSTALL_START")
    /\ IF old.mods \subseteq pkg.mods THEN UNCHANGED <<mem, mark>>
       ELSE /\ mem' = pkg
            /\ \E m \in pkg.mods :
                 mark' = [mark EXCEPT !.mem =
                            [status |-> IF m \in old.mods THEN "UPDATING_FINISH"
                                        ELSE "UPDATING_NEW_START",
                             package |-> {m}]]
    /\ UNCHANGED <<dir, rec, db, op>>

FailsLate(kind) ==
    kind \in Faults /\ (old.mods \subseteq pkg.mods \/ "dropped" \in Faults)

\* ProcessBinFiles, the cross-app shared bundles, the driver files.
LateSteps ==
    /\ pc = "late"
    /\ \/ Goto("commit") /\ UNCHANGED op
       \/ FailsLate("late") /\ Rollback
    /\ UNCHANGED <<dir, rec, db, mem, mark, state>>

\* MarkInstallFinish: UpdateInnerBundleInfo saves the row, then the memory.
MarkInstallFinish ==
    /\ pc = "commit"
    /\ \/ /\ db' = pkg /\ mem' = pkg
          /\ mark' = [db |-> Finished, mem |-> Finished]
          /\ Goto("skills") /\ UNCHANGED op
       \/ FailsLate("info") /\ Rollback /\ UNCHANGED <<db, mem, mark>>
    /\ UNCHANGED <<dir, rec, state>>

CommitAppSkills ==
    /\ pc = "skills"
    /\ \/ Goto("saveDeleteOld") /\ UNCHANGED op
       \/ "skills" \in Faults /\ Rollback
    /\ UNCHANGED <<dir, rec, db, mem, mark, state>>

\* ProcessOldCodePath, in four steps; a failed save is only logged.
SaveDeleteOld ==
    /\ pc = "saveDeleteOld" /\ Goto("oldToTemp")
    /\ Save("DELETE_OLD_PATH", 0) \/ SaveFails
    /\ UNCHANGED <<dir, db, mem, mark, state, op>>

OldToTemp ==
    /\ pc = "oldToTemp"
    /\ \/ RenameOk("old", "temp") /\ Goto("removeTemp")
       \/ RenameFails("old", "temp", "rename") /\ Goto("removeOld")
    /\ UNCHANGED <<rec, db, mem, mark, state, op>>

\* Mutant: the record is dropped although the removal failed.
RemoveOldUnchecked ==
    /\ \E d \in {"temp", "old"} :
         /\ pc = (IF d = "temp" THEN "removeTemp" ELSE "removeOld")
         /\ RemoveOk(d) \/ RemoveFails(d)
    /\ Goto("drop")
    /\ UNCHANGED <<rec, db, mem, mark, state, op>>

RemoveOld ==
    /\ \E d \in {"temp", "old"} :
         /\ pc = (IF d = "temp" THEN "removeTemp" ELSE "removeOld")
         /\ \/ RemoveOk(d) /\ Goto("drop")
            \/ RemoveFails(d) /\ Goto("finish")
    /\ UNCHANGED <<rec, db, mem, mark, state, op>>

DropRecord ==
    /\ pc = "drop" /\ Goto("finish") /\ DeleteRecord
    /\ UNCHANGED <<dir, db, mem, mark, state, op>>

\* Mutant: no stateGuard.
FinishUnguarded ==
    /\ pc = "finish" /\ Goto("idle") /\ EndOperation
    /\ UNCHANGED <<dir, rec, db, mem, mark, state>>

\* The scope guard stateGuard, run on every return.
Finish ==
    /\ pc = "finish" /\ Goto("idle")
    /\ state' = StateAfter(state, "INSTALL_SUCCESS")
    /\ EndOperation
    /\ UNCHANGED <<dir, rec, db, mem, mark>>

----------------------------------------------------------------------------
\* RollBack, once per module of the package, then the guard codePathGuard.

\* A module the old version has: its _tmp directory goes, then
\* RollBackModuleInfo, in memory only.
RollBackOldModule(m) ==
    /\ m \in old.mods
    /\ dir' = [dir EXCEPT !["moduleTmp"] = [@ EXCEPT ![m] = 0]]
    /\ state' = StateAfter(state, "ROLL_BACK")
    /\ mem' = IF state' \in {"UPDATING_SUCCESS", "ROLL_BACK", "USER_CHANGE"}
              THEN [ver |-> old.ver, mods |-> mem.mods \cup old.mods]
              ELSE mem
    /\ UNCHANGED <<db, mark>>

\* Mutant: installedModules_ is not looked up.
RollBackAnyModule(m) ==
    LET info == [mem EXCEPT !.mods = @ \ {m}] IN
      /\ dir' = [dir EXCEPT !["real"] = [@ EXCEPT ![m] = 0]]
      /\ state' = StateAfter(state, "ROLL_BACK")
      /\ db' = info /\ mem' = info /\ UNCHANGED mark

\* A module it lacks: RemoveModuleDir in the real directory, then RemoveInfo,
\* which removes the module from the info in memory and saves that info.
RollBackNewModule(m) ==
    /\ m \notin old.mods
    /\ dir' = [dir EXCEPT !["real"] = [@ EXCEPT ![m] = 0]]
    /\ state' = StateAfter(state, "ROLL_BACK")
    /\ LET info == [mem EXCEPT !.mods = @ \ {m}] IN
         IF state' \in {"UNINSTALL_START", "ROLL_BACK"}
         THEN \/ db' = info /\ mem' = info /\ mark' = [mark EXCEPT !.db = mark.mem]
              \/ "info" \in Faults /\ UNCHANGED <<db, mem, mark>>
         ELSE UNCHANGED <<db, mem, mark>>

RollBackModule ==
    /\ pc = "rollback"
    /\ \E m \in todo :
         /\ RollBackOldModule(m) \/ RollBackNewModule(m)
         /\ todo' = todo \ {m}
    /\ UNCHANGED <<rec, pc, ret, pkg, old>>

\* codePathGuard does nothing for an installation at the same version.
RollbackCodePath ==
    /\ pc = "rollback" /\ todo = {}
    /\ Goto(IF pkg.ver = old.ver THEN "finish" ELSE "handle")
    /\ ret' = "finish"
    /\ UNCHANGED <<dir, rec, db, mem, mark, state, pkg, old, todo>>

----------------------------------------------------------------------------
\* InstallExceptionMgr::HandleBundleExceptionInfo.  FetchInnerBundleInfo reads
\* the memory: after a boot that is what was loaded from the database.

Handle ==
    /\ pc = "handle"
    /\ pc' = CASE rec.status = "none" -> ret
               [] rec.status = "CREATE_NEW_DIR" -> "hCreate"
               [] rec.status = "RENAME_RELA_TO_OLD_PATH" -> "hRestore"
               [] rec.status = "RENAME_NEW_TO_REAL_PATH" ->
                    IF mem = NoInfo THEN "hGone"
                    ELSE IF mem.ver = rec.ver THEN "hRestore" ELSE "hOldToTemp"
               [] rec.status = "DELETE_OLD_PATH" -> "hOldToTemp"
    /\ UNCHANGED <<dir, rec, db, mem, mark, state, op>>

\* InnerProcessCreateNewDir
HandleCreateNewDir ==
    /\ pc = "hCreate"
    /\ \/ RemoveOk("new") /\ Goto("hDrop")
       \/ RemoveFails("new") /\ Goto(ret)
    /\ UNCHANGED <<rec, db, mem, mark, state, op>>

\* Mutant: a real directory that exists is taken to be the old one.
HandleRestoreUnlessPresent ==
    /\ pc = "hRestore" /\ Goto("hRestoreDrop")
    /\ IF Exists("real") THEN UNCHANGED dir ELSE RenameOk("old", "real")
    /\ UNCHANGED <<rec, db, mem, mark, state, op>>

\* InnerProcessRealToOldPath, and InnerProcessNewToRealPath when the memory
\* still has the old version: +old- back to real, drop the record, remove +new-.
HandleRestore ==
    /\ pc = "hRestore"
    /\ \/ RenameOk("old", "real") /\ Goto("hRestoreDrop")
       \/ RenameFails("old", "real", "recover") /\ Goto("hRemoveNew")
    /\ UNCHANGED <<rec, db, mem, mark, state, op>>

HandleRestoreDrop ==
    /\ pc = "hRestoreDrop" /\ Goto("hRemoveNew") /\ DeleteRecord
    /\ UNCHANGED <<dir, db, mem, mark, state, op>>

HandleRemoveNew ==
    /\ pc = "hRemoveNew" /\ Goto(ret)
    /\ RemoveOk("new") \/ RemoveFails("new")
    /\ UNCHANGED <<rec, db, mem, mark, state, op>>

\* A bundle that is no longer installed: +new- goes, then version 0 is
\* compared with the record's.
HandleGone ==
    /\ pc = "hGone"
    /\ Goto(IF rec.ver = 0 THEN "hRestore" ELSE "hOldToTemp")
    /\ RemoveOk("new") \/ RemoveFails("new")
    /\ UNCHANGED <<rec, db, mem, mark, state, op>>

\* Mutant: the boot does not finish the deletion of +old-.
HandleOldLeft ==
    /\ pc = "hOldToTemp" /\ Goto(ret)
    /\ UNCHANGED <<dir, rec, db, mem, mark, state, op>>

\* InnerProcessDeleteOldPath
HandleOldToTemp ==
    /\ pc = "hOldToTemp"
    /\ \/ RenameOk("old", "temp") /\ Goto("hRemoveTemp")
       \/ RenameFails("old", "temp", "recover") /\ Goto(ret)
    /\ UNCHANGED <<rec, db, mem, mark, state, op>>

HandleRemoveTemp ==
    /\ pc = "hRemoveTemp"
    /\ \/ RemoveOk("temp") /\ Goto("hDrop")
       \/ RemoveFails("temp") /\ Goto(ret)
    /\ UNCHANGED <<rec, db, mem, mark, state, op>>

HandleDrop ==
    /\ pc = "hDrop" /\ Goto(ret) /\ DeleteRecord
    /\ UNCHANGED <<dir, db, mem, mark, state, op>>

----------------------------------------------------------------------------
\* The directory the current step is deleting, when there is one.
Deleting ==
    CASE pc = "realToOld" /\ Exists("real") -> {"old"}
      [] pc = "newToReal" /\ Exists("new") -> {"real"}
      [] pc = "hRestore" /\ Exists("old") -> {"real"}
      [] pc \in {"oldToTemp", "hOldToTemp"} /\ Exists("old") -> {"temp"}
      [] pc \in {"removeTemp", "hRemoveTemp"} -> {"temp"}
      [] pc = "removeOld" -> {"old"}
      [] pc \in {"hCreate", "hRemoveNew", "hGone"} -> {"new"}
      [] OTHER -> {}

LoseMemory ==
    /\ Goto("off") /\ EndOperation
    /\ mem' = NoInfo /\ mark' = [mark EXCEPT !.mem = Finished]
    /\ state' = "absent"
    /\ UNCHANGED <<rec, db>>

\* Power loss, or the death of the service, inside or between two steps.
\* Memory is lost; a deletion may be half done; a module directory that
\* RollBackNewModule removes may go without its info.
Crash ==
    /\ pc # "off" /\ LoseMemory
    /\ \/ UNCHANGED dir
       \/ \E d \in Deleting : dir' \in Cut(d)
       \/ /\ pc = "rollback"
          /\ \E m \in todo \ old.mods :
               dir' = [dir EXCEPT !["real"] = [@ EXCEPT ![m] = 0]]

\* Mutants: the boot leaves the records alone, or adds no state entry.
LoadAllUnhandled ==
    /\ pc = "off" /\ mark.db.status = "INSTALL_FINISH" /\ Goto("idle")
    /\ mem' = db /\ mark' = [mark EXCEPT !.mem = mark.db]
    /\ state' = IF db = NoInfo THEN "absent" ELSE "INSTALL_SUCCESS"
    /\ UNCHANGED <<dir, rec, db, op>>

LoadAllStateless ==
    /\ pc = "off" /\ mark.db.status = "INSTALL_FINISH" /\ Goto("handle")
    /\ mem' = db /\ mark' = [mark EXCEPT !.mem = mark.db]
    /\ UNCHANGED <<dir, rec, db, state, op>>

\* Boot: LoadDataFromPersistentStorage, then HandleAllBundleExceptionInfo.
\* This is the load of a row whose InstallMark is INSTALL_FINISH.
LoadAll ==
    /\ pc = "off" /\ mark.db.status = "INSTALL_FINISH" /\ Goto("handle")
    /\ mem' = db /\ mark' = [mark EXCEPT !.mem = mark.db]
    /\ state' = IF db = NoInfo THEN "absent" ELSE "INSTALL_SUCCESS"
    /\ UNCHANGED <<dir, rec, db, op>>

UpdateStep ==
    \/ SaveCreate \/ ExtractModule \/ Prepare
    \/ SaveRealToOld \/ RealToOld \/ SaveNewToReal \/ NewToReal
    \/ UninstallLower \/ LateSteps \/ MarkInstallFinish \/ CommitAppSkills
    \/ SaveDeleteOld \/ OldToTemp \/ RemoveOld \/ DropRecord \/ Finish
    \/ RollBackModule \/ RollbackCodePath

HandleStep ==
    \/ Handle \/ HandleCreateNewDir \/ HandleRestore \/ HandleRestoreDrop
    \/ HandleRemoveNew \/ HandleGone \/ HandleOldToTemp \/ HandleRemoveTemp
    \/ HandleDrop

Step == UpdateStep \/ HandleStep \/ LoadAll
Next == StartUpdate \/ Step \/ Crash

Spec == Init /\ [][Next]_vars

----------------------------------------------------------------------------
TypeOK ==
    /\ dir \in [DirNames -> [Modules -> Nat]]
    /\ rec \in [status : Status, ver : Nat]
    /\ db \in Info
    /\ mem \in Info \cup {NoInfo}
    /\ mark \in [db : Mark, mem : Mark]
    /\ state \in InstallState \cup {"absent"}
    /\ pc \in Labels /\ ret \in {"idle", "saveCreate", "finish"}
    /\ pkg \in Packages \cup {NoInfo} /\ old \in Info \cup {NoInfo}
    /\ todo \in SUBSET Modules

\* The record, with the committed version, says that +old- is to be restored.
ToRestore ==
    \/ rec.status = "RENAME_RELA_TO_OLD_PATH"
    \/ rec.status = "RENAME_NEW_TO_REAL_PATH" /\ rec.ver = db.ver

\* What a crash here, followed by an undisturbed boot, would leave as the
\* bundle's code.
Surviving == IF ToRestore /\ Exists("old") THEN dir["old"] ELSE dir["real"]

\* At every instant of an update, a rollback or a recovery, the code that a
\* reboot would leave is complete and of the version the database has: an
\* update interrupted anywhere ends wholly old or wholly new.
Recoverable == Holds(Surviving, db)

\* Whenever no operation runs, memory, database and real directory agree.
ConsistentWhenIdle ==
    pc = "idle" => mem = db /\ Holds(dir["real"], db)

\* An update that reports failure has put the version it found back.
FailedUpdateRestores ==
    pc = "finish" /\ ret = "finish" =>
        mem = old /\ db = old /\ Holds(dir["real"], old)

\* The update implements the store in which info and code change at once: the
\* row is the info, and the code is what would survive a crash.
Store == INSTANCE BundleStore WITH
           info <- db, code <- [m \in db.mods |-> Surviving[m]]
ImplementsStore == Store!Spec

----------------------------------------------------------------------------
\* The inductive invariant behind these properties.

\* The faults it covers: InstallExceptionMgr's own renames and CommitAppSkills
\* succeed, and an update that drops a module does not fail after its renames.
Covered == {"recover", "skills", "dropped"} \cap Faults = {}

\* The committed version's code is in place, and a record that would restore
\* +old- finds none; or it is in +old-, and the record restores it.
InPlace == Holds(dir["real"], db) /\ (ToRestore => dir["old"] = Empty)
Displaced == ToRestore /\ Holds(dir["old"], db)
Clean == Holds(dir["real"], db) /\ dir["old"] = Empty

HandlerLabels == {"handle", "hCreate", "hRestore", "hRestoreDrop", "hRemoveNew",
                  "hOldToTemp", "hRemoveTemp", "hDrop"}
SwitchedLabels == {"newToReal", "lower", "late", "commit"}
Recovering == pc \in HandlerLabels /\ ret # "idle"
Failing == pc = "finish" /\ ret = "finish"
Updating ==
    \/ pc \in {"saveCreate", "extract", "saveRealToOld", "realToOld",
               "saveNewToReal", "rollback"} \cup SwitchedLabels
    \/ Recovering \/ Failing

\* Where the committed code is.  Without a record, there is no +old-.
CodeInv ==
    /\ InPlace \/ Displaced
    /\ rec.status \in {"none", "CREATE_NEW_DIR"} => dir["old"] = Empty
    /\ pc \in {"saveCreate", "extract", "saveRealToOld", "realToOld", "hCreate",
              "hRestoreDrop", "hRemoveNew", "hRemoveTemp", "hDrop",
              "removeTemp", "drop"} \/ Failing => Clean
    /\ pc \in {"idle", "finish", "skills", "saveDeleteOld", "oldToTemp",
              "removeOld", "hOldToTemp"} => InPlace
    /\ pc \in {"saveNewToReal"} \cup SwitchedLabels => Displaced

\* What the record says, where the next step depends on it.
RecordInv ==
    /\ pc = "realToOld" => rec.status = "RENAME_RELA_TO_OLD_PATH"
    /\ pc \in SwitchedLabels =>
         rec = [status |-> "RENAME_NEW_TO_REAL_PATH", ver |-> old.ver]
    /\ pc = "hRestore" => ToRestore
    /\ pc \in {"skills", "saveDeleteOld", "oldToTemp", "removeOld",
              "hOldToTemp"} => ~ToRestore

\* The memory has what the row has, except after UninstallLower.
MemoryInv ==
    /\ db \in Packages /\ mark.db = Finished /\ pc # "hGone"
    /\ pc = "off" => mem = NoInfo /\ mark.mem = Finished
    /\ pc \notin {"off", "late", "commit"} \/
       (pc # "off" /\ old.mods \subseteq pkg.mods) =>
         mem = db /\ mark.mem = Finished

\* The package being installed, and where its code is.
PackageInv ==
    /\ Updating => /\ old = db /\ pkg \in Packages
                   /\ pkg.ver > old.ver \/ (Downgrade /\ pkg.ver < old.ver)
    /\ pc = "saveCreate" \/ (Recovering /\ ret = "saveCreate") => todo = pkg.mods
    /\ pc = "extract" => \A m \in pkg.mods \ todo : dir["new"][m] = pkg.ver
    /\ pc \in {"saveRealToOld", "realToOld", "saveNewToReal", "newToReal"} =>
         Holds(dir["new"], pkg)
    /\ pc \in {"lower", "late", "commit"} => Holds(dir["real"], pkg)
    /\ pc \notin {"idle", "off", "finish", "rollback"} \cup HandlerLabels =>
         ret = "saveCreate"
    /\ pc \in {"idle", "off"} => ret = "idle"

IInv == TypeOK /\ CodeInv /\ RecordInv /\ MemoryInv /\ PackageInv
=============================================================================
