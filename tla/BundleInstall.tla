--------------------------- MODULE BundleInstall ---------------------------
(***************************************************************************)
(* The other operations on a bundle, composed with BundleUpdate over the   *)
(* same directories, database row, memory and exception record: the first  *)
(* installation, an installation at the installed version (it replaces     *)
(* modules through <module>_tmp directories and adds new ones), the        *)
(* uninstallation of the bundle and of one module, and the boot-time       *)
(* BundleExceptionHandler, which acts on the InstallMark of the row.  One  *)
(* user has the bundle.                                                    *)
(***************************************************************************)
EXTENDS BundleUpdate

CONSTANTS
    Requests,  \* the operations callers ask for
    Stable     \* labels at which the service does not crash

InstallLabels ==
    Labels \cup {"iExtract", "iCommit", "iSkills", "iRollback", "iRemove",
                 "iErase", "mExtract", "mRename", "mCommit", "mSkills",
                 "uMark", "uErase", "uRemove", "umMark", "umRemove", "umInfo"}

\* Every operation starts from a free bundle mutex.
Begin(request, p, from, modules, l) ==
    /\ pc = "idle" /\ request \in Requests /\ Goto(l)
    /\ pkg' = p /\ old' = from /\ todo' = modules /\ UNCHANGED ret

InstallInit ==
    \/ Init
    \/ /\ db = NoInfo /\ mem = NoInfo
       /\ dir = [d \in DirNames |-> Empty]
       /\ rec = NoRecord
       /\ mark = [db |-> Finished, mem |-> Finished]
       /\ state = "absent"
       /\ pc = "idle" /\ ret = "idle"
       /\ pkg = NoInfo /\ old = NoInfo /\ todo = {}

----------------------------------------------------------------------------
\* First installation: the code goes straight into the real directory.

StartInstall ==
    /\ mem = NoInfo
    /\ \E p \in Packages :
         \/ Begin("install", p, NoInfo, p.mods, "iExtract")
         \/ "step" \in Faults /\ Begin("install", p, NoInfo, {}, "iRollback")
    /\ UNCHANGED <<dir, rec, db, mem, mark, state>>

\* ProcessBundleInstallStatus for the first module (its stateGuard, once set,
\* removes the state entry again), ProcessBundleUpdateStatus for the others.
InstallModule ==
    /\ pc = "iExtract"
    /\ \E m \in todo :
         LET start == IF todo = pkg.mods THEN "INSTALL_START" ELSE "UPDATING_START"
             done  == IF todo = pkg.mods THEN "INSTALL_START" ELSE "UPDATING_SUCCESS"
             fail  == IF todo = pkg.mods THEN {"absent", "INSTALL_START"}
                      ELSE {state, "UPDATING_START", "UPDATING_SUCCESS"}
         IN IF ~Accepts(state, start)
            THEN Goto("iRollback") /\ UNCHANGED <<dir, state, todo>>
            ELSE \/ /\ dir' = [dir EXCEPT !["real"] = [@ EXCEPT ![m] = pkg.ver]]
                    /\ state' = done /\ todo' = todo \ {m} /\ UNCHANGED pc
                 \/ /\ "step" \in Faults /\ state' \in fail
                    /\ \E v \in {0, pkg.ver} :
                         dir' = [dir EXCEPT !["real"] = [@ EXCEPT ![m] = v]]
                    /\ Goto("iRollback") /\ UNCHANGED todo
    /\ UNCHANGED <<rec, db, mem, mark, ret, pkg, old>>

InstallPrepare ==
    /\ pc = "iExtract" /\ todo = {}
    /\ Goto("iCommit") \/ ("step" \in Faults /\ Goto("iRollback"))
    /\ UNCHANGED <<dir, rec, db, mem, mark, state, op>>

\* MarkInstallFinish of a new bundle: AddInnerBundleInfo, SaveInnerBundleInfo.
InstallCommit ==
    /\ pc = "iCommit" /\ mem' = pkg
    /\ \/ /\ db' = pkg /\ mark' = [db |-> Finished, mem |-> Finished]
          /\ Goto("iSkills")
       \/ "info" \in Faults /\ Goto("iRollback") /\ UNCHANGED <<db, mark>>
    /\ UNCHANGED <<dir, rec, state, op>>

InstallSkills ==
    /\ pc = "iSkills"
    /\ Goto("finish") \/ ("skills" \in Faults /\ Goto("iRollback"))
    /\ UNCHANGED <<dir, rec, db, mem, mark, state, op>>

\* Mutant: the rollback of a new bundle leaves its directory.
InstallRollbackInfo ==
    /\ pc = "iRollback" /\ Goto("iErase")
    /\ UNCHANGED <<dir, rec, db, mem, mark, state, op>>

\* RollBack of a new bundle: RemoveBundleAndDataDir, which settles a left-over
\* record before it removes the code, and only then RemoveInfo.
InstallRollback ==
    /\ pc = "iRollback" /\ Goto("handle") /\ ret' = "iRemove"
    /\ UNCHANGED <<dir, rec, db, mem, mark, state, pkg, old, todo>>

InstallRemove ==
    /\ pc = "iRemove" /\ Goto("iErase")
    /\ RemoveOk("real") \/ RemoveFails("real")
    /\ UNCHANGED <<rec, db, mem, mark, state, op>>

\* UpdateBundleInstallState(s) for a state that deletes the bundle's data:
\* DeleteBundleInfo deletes the row of a bundle that is in memory (a failure
\* is only logged) and then the info in memory.
Erase(s) ==
    /\ state' = StateAfter(state, s)
    /\ mem' = NoInfo
    /\ \/ /\ mem # NoInfo /\ db' = NoInfo
          /\ mark' = [db |-> Finished, mem |-> Finished]
       \/ /\ mem = NoInfo \/ "erase" \in Faults
          /\ mark' = [mark EXCEPT !.mem = Finished] /\ UNCHANGED db

InstallErase ==
    /\ pc = "iErase" /\ Goto("finish")
    /\ IF Accepts(state, "UPDATING_FAIL") THEN Erase("UPDATING_FAIL")
       ELSE UNCHANGED <<db, mem, mark, state>>
    /\ UNCHANGED <<dir, rec, op>>

----------------------------------------------------------------------------
\* Installation at the installed version, with the replace flag.

StartModules ==
    /\ mem # NoInfo
    /\ \E p \in Packages :
         /\ p.ver = mem.ver
         /\ \/ Begin("modules", p, mem, p.mods, "mExtract")
            \/ "step" \in Faults /\ Begin("modules", p, mem, p.mods, "rollback")
    /\ UNCHANGED <<dir, rec, db, mem, mark, state>>

\* Mutant: every module is extracted into place.
ModuleDirInPlace(m) == "real"

\* GetModulePath: an existing module is extracted beside its directory, a new
\* module into place.
ModuleDir(m) == IF m \in old.mods THEN "moduleTmp" ELSE "real"

ExtractBeside ==
    /\ pc = "mExtract"
    /\ \E m \in todo :
         IF Accepts(state, "UPDATING_START")
         THEN \/ /\ dir' = [dir EXCEPT ![ModuleDir(m)] = [@ EXCEPT ![m] = pkg.ver]]
                 /\ state' = "UPDATING_SUCCESS"
                 /\ todo' = todo \ {m}
                 /\ UNCHANGED <<pc, ret, pkg, old>>
              \/ /\ "step" \in Faults
                 /\ \E v \in {0, pkg.ver} :
                      dir' = [dir EXCEPT ![ModuleDir(m)] = [@ EXCEPT ![m] = v]]
                 /\ state' \in {state, "UPDATING_START", "UPDATING_SUCCESS"}
                 /\ Rollback
         ELSE Rollback /\ UNCHANGED <<dir, state>>
    /\ UNCHANGED <<rec, db, mem, mark>>

PrepareModules ==
    /\ pc = "mExtract" /\ todo = {}
    /\ \/ /\ Goto("mRename") /\ todo' = pkg.mods \cap old.mods
          /\ UNCHANGED <<ret, pkg, old>>
       \/ "step" \in Faults /\ Rollback
    /\ UNCHANGED <<dir, rec, db, mem, mark, state>>

\* RenameAllTempDir: RenameFile deletes the module's directory first.
RenameModuleDir ==
    /\ pc = "mRename"
    /\ \E m \in todo :
         \/ /\ dir' = [dir EXCEPT !["real"] = [@ EXCEPT ![m] = dir["moduleTmp"][m]],
                                  !["moduleTmp"] = [@ EXCEPT ![m] = 0]]
            /\ todo' = todo \ {m} /\ UNCHANGED <<pc, ret, pkg, old>>
         \/ /\ "rename" \in Faults
            /\ \E v \in {0, dir["real"][m]} :
                 dir' = [dir EXCEPT !["real"] = [@ EXCEPT ![m] = v]]
            /\ Rollback
    /\ UNCHANGED <<rec, db, mem, mark, state>>

LateModules ==
    /\ pc = "mRename" /\ todo = {}
    /\ \/ Goto("mCommit") /\ UNCHANGED op
       \/ "late" \in Faults /\ Rollback
    /\ UNCHANGED <<dir, rec, db, mem, mark, state>>

CommitModules ==
    /\ pc = "mCommit"
    /\ \/ /\ db' = [old EXCEPT !.mods = @ \cup pkg.mods] /\ mem' = db'
          /\ mark' = [db |-> Finished, mem |-> Finished]
          /\ Goto("mSkills") /\ UNCHANGED op
       \/ "info" \in Faults /\ Rollback /\ UNCHANGED <<db, mem, mark>>
    /\ UNCHANGED <<dir, rec, state>>

SkillsOfModules ==
    /\ pc = "mSkills"
    /\ \/ Goto("finish") /\ UNCHANGED op
       \/ "skills" \in Faults /\ Rollback
    /\ UNCHANGED <<dir, rec, db, mem, mark, state>>

----------------------------------------------------------------------------
\* Uninstallation of the bundle.  A failure before RemoveBundle returns
\* without touching installStates_ again.

StartUninstall ==
    /\ mem # NoInfo /\ Accepts(state, "UNINSTALL_START")
    /\ Begin("uninstall", NoInfo, mem, {}, "uMark")
    /\ state' = "UNINSTALL_START"
    /\ UNCHANGED <<dir, rec, db, mem, mark>>

\* Mutant: the mark lacks the module.
SaveMarkUnnamed(m) ==
    db' = mem /\ mark' = [mark EXCEPT !.db = [m EXCEPT !.package = {}]]

\* The row is rewritten from the info in memory, with the mark.
SaveMark(m) == db' = mem /\ mark' = [mark EXCEPT !.db = m]

MarkUninstall ==
    /\ pc = "uMark"
    /\ \/ /\ SaveMark([status |-> "UNINSTALL_BUNDLE_START", package |-> {}])
          /\ Goto("uErase") /\ UNCHANGED op
       \/ /\ "info" \in Faults /\ Goto("idle")
          /\ EndOperation /\ UNCHANGED <<db, mark>>
    /\ UNCHANGED <<dir, rec, mem, state>>

\* RemoveBundle: the row and the memory first, then RemoveBundleAndDataDir,
\* which settles a left-over record before it removes the code.
UninstallErase ==
    /\ pc = "uErase" /\ Erase("UNINSTALL_SUCCESS")
    /\ Goto("handle") /\ ret' = "uRemove"
    /\ UNCHANGED <<dir, rec, pkg, old, todo>>

UninstallRemove ==
    /\ pc = "uRemove" /\ Goto("finish")
    /\ RemoveOk("real") \/ RemoveFails("real")
    /\ UNCHANGED <<rec, db, mem, mark, state, op>>

\* Uninstallation of one module.  stateGuard covers the failures, except for
\* the only module of a bundle.
StartUninstallModule ==
    /\ mem # NoInfo /\ Accepts(state, "UNINSTALL_START")
    /\ \E m \in mem.mods :
         Begin("uninstallModule", NoInfo, mem, {m}, "umMark")
    /\ state' = "UNINSTALL_START"
    /\ UNCHANGED <<dir, rec, db, mem, mark>>

IsOnlyModule(i, m) == i.mods = {m}

\* Mutant: the module is removed without a mark in the row.
MarkUninstallModuleNot ==
    /\ pc = "umMark" /\ Goto("umRemove")
    /\ UNCHANGED <<dir, rec, db, mem, mark, state, op>>

\* The mark, then SaveFirstInstallBundleInfo (of an only module) and
\* ProcessBundleUnInstallNative.  If one of these fails the mark stays; for an
\* only module stateGuard is dismissed by then, and the state stays too.
MarkUninstallModule ==
    /\ pc = "umMark"
    /\ \E m \in todo :
         \/ /\ SaveMark([status |-> "UNINSTALL_PACKAGE_START", package |-> {m}])
            /\ \/ /\ Goto(IF IsOnlyModule(old, m) THEN "uErase" ELSE "umRemove")
                  /\ UNCHANGED op
               \/ /\ "native" \in Faults /\ IsOnlyModule(old, m)
                  /\ Goto("idle") /\ EndOperation
               \/ /\ "native" \in Faults /\ ~IsOnlyModule(old, m)
                  /\ Goto("finish") /\ UNCHANGED op
         \/ /\ {"step", "info"} \cap Faults # {}
            /\ Goto("finish") /\ UNCHANGED <<db, mark, op>>
    /\ UNCHANGED <<dir, rec, mem, state>>

RemoveModuleDir ==
    /\ pc = "umRemove"
    /\ \E m \in todo :
         \/ /\ dir' = [dir EXCEPT !["real"] = [@ EXCEPT ![m] = 0]]
            /\ Goto("umInfo")
         \/ /\ "remove" \in Faults /\ Goto("finish")
            /\ \E v \in {0, dir["real"][m]} :
                 dir' = [dir EXCEPT !["real"] = [@ EXCEPT ![m] = v]]
    /\ UNCHANGED <<rec, db, mem, mark, state, op>>

RemoveModuleInfo ==
    /\ pc = "umInfo" /\ Goto("finish")
    /\ \/ /\ db' = [old EXCEPT !.mods = @ \ todo] /\ mem' = db'
          /\ mark' = [db |-> Finished, mem |-> Finished]
       \/ "unlist" \in Faults /\ UNCHANGED <<db, mem, mark>>
    /\ UNCHANGED <<dir, rec, state, op>>

----------------------------------------------------------------------------
\* BundleExceptionHandler, on the load of a row whose mark is not
\* INSTALL_FINISH.

\* What the handler makes of a row: it finishes an uninstallation.
Kept(i, k) ==
    CASE k.status = "UNINSTALL_BUNDLE_START" -> NoInfo
      [] k.status = "UNINSTALL_PACKAGE_START" ->
           IF i.mods \subseteq k.package THEN NoInfo
           ELSE [i EXCEPT !.mods = @ \ k.package]
      [] OTHER -> i

\* TransResult keeps a copy of the row in validInfos beside the one it hands
\* to the handler, so ProcessRsult puts even a deleted bundle into memory; the
\* handler does not write a row it keeps.
LoadMarked ==
    /\ pc = "off" /\ mark.db.status # "INSTALL_FINISH" /\ Goto("handle")
    /\ LET gone  == Kept(db, mark.db) = NoInfo
           mods  == IF gone THEN Modules ELSE mark.db.package
           left  == [m \in Modules |-> IF m \in mods THEN 0 ELSE dir["real"][m]]
           moved == [m \in Modules |-> IF m \in mods /\ dir["moduleTmp"][m] # 0
                                       THEN dir["moduleTmp"][m] ELSE dir["real"][m]]
       IN \/ /\ mark.db.status # "UPDATING_FINISH"
             /\ dir' = [dir EXCEPT !["real"] = left]
             /\ mem' = IF gone THEN db ELSE Kept(db, mark.db)
             /\ db' = IF gone THEN NoInfo ELSE db
          \/ /\ mark.db.status # "UPDATING_FINISH" /\ "remove" \in Faults
             /\ dir' \in Cut("real") /\ mem' = db /\ UNCHANGED db
             /\ \A m \in Modules \ mods : dir'["real"][m] = dir["real"][m]
          \/ /\ mark.db.status = "UPDATING_FINISH"
             /\ dir' = [dir EXCEPT !["real"] = moved, !["moduleTmp"] =
                          [m \in Modules |-> IF m \in mods THEN 0 ELSE @[m]]]
             /\ mem' = db /\ UNCHANGED db
    /\ mark' = [db |-> IF db' = NoInfo THEN Finished ELSE mark.db, mem |-> mark.db]
    /\ state' = "INSTALL_SUCCESS"
    /\ UNCHANGED <<rec, op>>

\* A crash as in BundleUpdate, or inside one of the deletions above.
InstallCrash ==
    /\ pc \notin Stable
    /\ \/ Crash
       \/ pc \in {"iRemove", "uRemove"} /\ dir' \in Cut("real") /\ LoseMemory
       \/ /\ pc = "mRename" /\ LoseMemory
          /\ \E m \in todo : dir' = [dir EXCEPT !["real"] = [@ EXCEPT ![m] = 0]]

InstallStep ==
    \/ InstallModule \/ InstallPrepare \/ InstallCommit \/ InstallSkills
    \/ InstallRollback \/ InstallRemove \/ InstallErase
    \/ ExtractBeside \/ PrepareModules \/ RenameModuleDir \/ LateModules
    \/ CommitModules \/ SkillsOfModules
    \/ MarkUninstall \/ UninstallErase \/ UninstallRemove
    \/ MarkUninstallModule \/ RemoveModuleDir \/ RemoveModuleInfo
    \/ LoadMarked

Request ==
    \/ "update" \in Requests /\ StartUpdate
    \/ StartInstall \/ StartModules \/ StartUninstall \/ StartUninstallModule

InstallNext == Request \/ Step \/ InstallStep \/ InstallCrash

InstallSpec == InstallInit /\ [][InstallNext]_vars
FairInstallSpec == InstallSpec /\ WF_vars(Step \/ InstallStep)

----------------------------------------------------------------------------
InstallTypeOK ==
    /\ dir \in [DirNames -> [Modules -> Nat]]
    /\ rec \in [status : Status, ver : Nat]
    /\ db \in Info \cup {NoInfo} /\ mem \in Info \cup {NoInfo}
    /\ mark \in [db : Mark, mem : Mark]
    /\ state \in InstallState \cup {"absent"}
    /\ pc \in InstallLabels
    /\ ret \in {"idle", "saveCreate", "finish", "iRemove", "uRemove"}
    /\ pkg \in Packages \cup {NoInfo} /\ old \in Info \cup {NoInfo}
    /\ todo \in SUBSET Modules

\* At every instant of every operation, the code that a reboot would leave is
\* complete and of the version the row says, for every module the boot-time
\* handler keeps.
RowRecoverable == Holds(Surviving, Kept(db, mark.db))

\* Whenever no operation runs, the bundle in memory is the one a reboot would
\* load, and its code is in place.  Where the uninstallation of a module fails
\* once its mark is saved, the row is that of the memory, but for the mark.
IdleAgrees ==
    pc = "idle" =>
        /\ Holds(dir["real"], mem)
        /\ \/ mem = Kept(db, mark.db)
           \/ /\ "native" \in Faults /\ mem = db
              /\ mark.db.status = "UNINSTALL_PACKAGE_START"

\* Whenever no operation runs, installStates_ is not left in the middle of
\* one: a bundle in memory is INSTALL_SUCCESS, any other has no entry.  Only an
\* uninstallation whose mark could not be saved, or that of an only module
\* which fails once its mark is saved, leaves UNINSTALL_START.
StateSettles ==
    pc = "idle" =>
        IF mem = NoInfo THEN state = "absent"
        ELSE \/ state = "INSTALL_SUCCESS"
             \/ {"info", "native"} \cap Faults # {} /\ state = "UNINSTALL_START"

\* A bundle that is not installed, after a failed first installation or an
\* uninstallation, has no code left in any of its directories.
NoOrphanCode ==
    pc = "idle" /\ mem = NoInfo =>
        \A d \in {"real", "new", "old", "temp"} : ~Exists(d)

\* If crashes stop, every operation ends, and the service keeps becoming idle
\* with neither +old- nor +temp- left: replaced code does not pile up.
OldCodeReclaimed ==
    <>[][~InstallCrash]_vars =>
        []<>(pc = "idle" /\ ~Exists("old") /\ ~Exists("temp"))
=============================================================================
