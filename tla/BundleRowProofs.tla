-------------------------- MODULE BundleRowProofs --------------------------
(***************************************************************************)
(* Proofs about all operations on a bundle, for every set of modules and   *)
(* packages: at every instant the code that a reboot would leave is the    *)
(* one the row describes, and whenever no operation runs the service       *)
(* agrees with the row, under the faults that InstallCovered names.        *)
(***************************************************************************)
EXTENDS BundleInstallProofs

\* The faults and crashes under which the row stays recoverable.  Left out are
\* the renames; CommitAppSkills; the late failure of an update that drops a
\* module; for the removal of one module, every failure after its mark was
\* saved; a crash inside RenameAllTempDir and one
\* between the mark of an uninstallation and the deletion of its row; and a row
\* that cannot be deleted, unless there are no crashes.
InstallCovered ==
    /\ {"recover", "skills", "dropped", "rename"} \cap Faults = {}
    /\ "uninstallModule" \in Requests => {"native", "unlist", "remove"} \cap Faults = {}
    /\ {"mRename", "uErase"} \subseteq Stable
    /\ "erase" \in Faults => InstallLabels \subseteq Stable

\* The bundle that a reboot would load.
Row == Kept(db, mark.db)

\* Its code is in place, and a record that would restore +old- finds none; or
\* it is in +old-, and the record restores it.
RowPlaced == Holds(dir["real"], Row) /\ (ToRestore => dir["old"] = Empty)
RowDisplaced == ToRestore /\ Holds(dir["old"], Row)
RowClean == Holds(dir["real"], Row) /\ dir["old"] = Empty

\* Where +old- may hold code.
LooseLabels == {"off", "handle", "hRestore", "hOldToTemp", "rollback", "saveNewToReal",
                "skills", "saveDeleteOld", "oldToTemp"} \cup SwitchedLabels

\* Where the code of the row is.
RowCode ==
    /\ RowPlaced \/ RowDisplaced
    /\ rec.status \in {"none", "CREATE_NEW_DIR"} \/ Row = NoInfo => dir["old"] = Empty
    /\ pc \notin LooseLabels \/ (pc = "rollback" /\ pkg.ver = old.ver) => RowClean
    /\ pc \in {"skills", "saveDeleteOld", "oldToTemp", "hOldToTemp"} => RowPlaced
    /\ pc \in {"saveNewToReal"} \cup SwitchedLabels => RowDisplaced

\* What the record says, where the next step depends on it.
RowRecord ==
    /\ pc = "realToOld" => rec.status = "RENAME_RELA_TO_OLD_PATH"
    /\ pc \in SwitchedLabels => rec = [status |-> "RENAME_NEW_TO_REAL_PATH", ver |-> old.ver]
    /\ pc = "hRestore" => ToRestore \/ dir["old"] = Empty

\* Where the info in memory is that of the package, and where the operation has
\* not yet changed the row.
Ahead == pc \in {"late", "commit"} /\ ~(old.mods \subseteq pkg.mods)
Fresh == pc \in FirstLabels \ {"iSkills"} \/ Handling("iRemove")
Pending == (AtUpdate /\ pc \notin {"skills", "mSkills"}) \/ pc \in {"uMark", "umMark"}

\* What the memory has of the row, and what the marks say.
RowMemory ==
    /\ mark.db.status \in {"INSTALL_FINISH", "UNINSTALL_BUNDLE_START", "UNINSTALL_PACKAGE_START"}
    /\ ~Ahead => mark.mem.status \in {"INSTALL_FINISH", "UNINSTALL_PACKAGE_START"}
    /\ "UNINSTALL_PACKAGE_START" \in {mark.db.status, mark.mem.status} => "uninstallModule" \in Requests
    /\ mark.db.status # "INSTALL_FINISH" /\ Row = NoInfo =>
         pc = "uErase" \/ ("erase" \in Faults /\ pc # "off")
    /\ pc \in RemovalLabels \ {"uMark", "uErase"} => "uninstallModule" \in Requests
    /\ Fresh \/ pc \in {"uErase", "uRemove"} \/ Handling("uRemove") => Row = NoInfo
    /\ pc \in {"umRemove", "umInfo"} => Row = [old EXCEPT !.mods = @ \ todo]
    /\ pc \notin {"off", "uErase", "umRemove", "umInfo"} /\ ~Ahead /\ ~Fresh =>
         mem = Row /\ Kept(mem, mark.mem) = mem
    /\ Pending => old = Row

\* The package being installed, and where its code is.
RowPackage ==
    /\ pc \in UpdateLabels \ {"skills"} \/ Handling("saveCreate") => pkg.ver # old.ver
    /\ pc \in ModuleLabels => pkg.ver = old.ver
    /\ pc = "saveCreate" \/ Handling("saveCreate") => todo = pkg.mods
    /\ pc = "extract" => \A m \in pkg.mods \ todo : dir["new"][m] = pkg.ver
    /\ pc \in {"saveRealToOld", "realToOld", "saveNewToReal", "newToReal"} => Holds(dir["new"], pkg)
    /\ pc \in {"lower", "late", "commit"} => Holds(dir["real"], pkg)
    /\ pc = "mExtract" => \A m \in pkg.mods \ todo : dir[ModuleDir(m)][m] = pkg.ver
    /\ pc = "mRename" => \A m \in todo : m \in old.mods /\ dir["moduleTmp"][m] = pkg.ver
    /\ pc \in {"mRename", "mCommit"} => \A m \in pkg.mods \ old.mods : dir["real"][m] = pkg.ver
    /\ pc = "iExtract" => \A m \in pkg.mods \ todo : dir["real"][m] = pkg.ver
    /\ pc = "iCommit" => Holds(dir["real"], pkg)

RowInv == TypeInv /\ RowCode /\ RowRecord /\ RowMemory /\ RowPackage

\* The version and the modules of an info.
LEMMA InfoFields ==
    ASSUME NEW i \in Info \cup {NoInfo}
    PROVE  i.ver \in Nat /\ i.mods \subseteq Modules
BY DEF Info, NoInfo

\* Steps that leave the row, the memory and the marks alone.
Untouched ==
    /\ UNCHANGED <<db, mem, mark>>
    /\ pc # "uErase" /\ pc' \notin {"off", "uErase"}
    /\ pc' \in RemovalLabels \ {"uMark"} => pc \in RemovalLabels \ {"uMark"} \/ "uninstallModule" \in Requests
    /\ Fresh' \/ pc' = "uRemove" \/ Handling("uRemove")' =>
         \/ Fresh \/ pc = "uRemove" \/ Handling("uRemove")
         \/ pc = "idle" /\ mem = NoInfo
    /\ pc' \in {"umRemove", "umInfo"} => pc = "umRemove" /\ old' = old /\ todo' = todo
    /\ ~Ahead' => ~Ahead
    /\ pc' \notin {"umRemove", "umInfo"} /\ ~Ahead' /\ ~Fresh' =>
         pc \notin {"off", "umRemove", "umInfo"} /\ ~Fresh
    /\ Pending' => \/ Pending /\ old' = old
                   \/ pc = "idle" /\ old' = mem

\* They keep what the memory has of the row.
LEMMA UntouchedMemory ==
    ASSUME RowMemory, Untouched
    PROVE  RowMemory'
<1>1. Row' = Row
  BY DEF Untouched, Row, Kept
<1>2. pc = "idle" => mem = Row
  BY DEF RowMemory, Ahead, Fresh, FirstLabels, Handling, HandleLabels, HandlerLabels
<1>3. /\ mark' = mark /\ Kept(mem, mark.mem)' = Kept(mem, mark.mem)
      /\ mem' = mem
  BY DEF Untouched, Kept
<1> QED
  BY <1>1, <1>2, <1>3 DEF RowMemory, Untouched

\* The steps of an operation, of a recovery and of a boot that do so.
LEMMA UntouchedSteps ==
    ASSUME BaseInv, RowMemory, InstallCovered,
           SaveCreate \/ Prepare \/ SaveRealToOld \/ SaveNewToReal \/ LateSteps \/ CommitAppSkills \/
              SaveDeleteOld \/ DropRecord \/ RollbackCodePath \/ Handle \/ HandleRestoreDrop \/ HandleDrop \/
              InstallSkills \/ InstallRollback \/ PrepareModules \/ LateModules \/ SkillsOfModules \/ RealToOld \/
              NewToReal \/ OldToTemp \/ HandleCreateNewDir \/ HandleRestore \/ HandleRemoveNew \/ HandleGone \/
              HandleOldToTemp \/ HandleRemoveTemp \/ InstallRemove \/ UninstallRemove \/ RemoveOld \/
              RenameModuleDir \/ RemoveModuleDir \/ ExtractModule \/ ExtractBeside \/ StartUpdate \/
              StartInstall \/ StartModules \/ StartUninstall \/ StartUninstallModule \/ InstallModule \/
              InstallPrepare \/ Finish
    PROVE  Untouched
<1> USE DEF Untouched, Goto, Rollback, op, Pending, Ahead, Fresh, AtUpdate, Handling, UpdateLabels,
            ModuleLabels, FirstLabels, RemovalLabels, HandleLabels, HandlerLabels
<1>0. /\ ret \in {"idle", "saveCreate", "finish", "iRemove", "uRemove"}
      /\ rec \in [status : Status, ver : Nat]
  BY Operands
<1>1. CASE SaveCreate
  BY Zenon, <1>0, <1>1 DEF SaveCreate
<1>2. CASE Prepare
  BY Zenon, <1>0, <1>2 DEF Prepare
<1>3. CASE SaveRealToOld
  BY Zenon, <1>0, <1>3 DEF SaveRealToOld
<1>4. CASE SaveNewToReal
  BY Zenon, <1>0, <1>4 DEF SaveNewToReal
<1>5. CASE LateSteps
  BY Zenon, <1>0, <1>5 DEF LateSteps, FailsLate, InstallCovered
<1>6. CASE CommitAppSkills
  BY Zenon, <1>0, <1>6 DEF CommitAppSkills, InstallCovered
<1>7. CASE SaveDeleteOld
  BY Zenon, <1>0, <1>7 DEF SaveDeleteOld
<1>8. CASE DropRecord
  BY Zenon, <1>0, <1>8 DEF DropRecord
<1>9. CASE RollbackCodePath
  BY Zenon, <1>0, <1>9 DEF RollbackCodePath
<1>10. CASE Handle
  BY Zenon, <1>0, <1>10 DEF Handle, Status
<1>11. CASE HandleRestoreDrop
  BY Zenon, <1>0, <1>11 DEF HandleRestoreDrop
<1>12. CASE HandleDrop
  BY Zenon, <1>0, <1>12 DEF HandleDrop
<1>13. CASE InstallSkills
  BY Zenon, <1>0, <1>13 DEF InstallSkills, InstallCovered
<1>14. CASE InstallRollback
  BY Zenon, <1>0, <1>14 DEF InstallRollback
<1>15. CASE PrepareModules
  BY Zenon, <1>0, <1>15 DEF PrepareModules
<1>16. CASE LateModules
  BY Zenon, <1>0, <1>16 DEF LateModules
<1>17. CASE SkillsOfModules
  BY Zenon, <1>0, <1>17 DEF SkillsOfModules, InstallCovered
<1>18. CASE RealToOld
  BY Zenon, <1>0, <1>18 DEF RealToOld
<1>19. CASE NewToReal
  BY Zenon, <1>0, <1>19 DEF NewToReal
<1>20. CASE OldToTemp
  BY Zenon, <1>0, <1>20 DEF OldToTemp
<1>21. CASE HandleCreateNewDir
  BY <1>0, <1>21 DEF HandleCreateNewDir
<1>22. CASE HandleRestore
  BY Zenon, <1>0, <1>22 DEF HandleRestore
<1>23. CASE HandleRemoveNew
  BY Zenon, <1>0, <1>23 DEF HandleRemoveNew
<1>24. CASE HandleGone
  BY Zenon, <1>0, <1>24 DEF HandleGone
<1>25. CASE HandleOldToTemp
  <2>1. /\ pc = "hOldToTemp" /\ pc' \in {"hRemoveTemp", ret}
        /\ UNCHANGED <<db, mem, mark, pkg, old, todo, ret>>
    BY Zenon, <1>25 DEF HandleOldToTemp
  <2> QED
    BY <1>0, <2>1
<1>26. CASE HandleRemoveTemp
  BY <1>0, <1>26 DEF HandleRemoveTemp
<1>27. CASE InstallRemove
  BY Zenon, <1>0, <1>27 DEF InstallRemove
<1>28. CASE UninstallRemove
  BY Zenon, <1>0, <1>28 DEF UninstallRemove
<1>29. CASE RemoveOld
  BY Zenon, <1>0, <1>29 DEF RemoveOld
<1>30. CASE RenameModuleDir
  BY Zenon, <1>0, <1>30 DEF RenameModuleDir
<1>31. CASE RemoveModuleDir
  BY Zenon, <1>0, <1>31 DEF RemoveModuleDir, InstallCovered, RowMemory, RemovalLabels
<1>32. CASE ExtractModule
  BY Zenon, <1>0, <1>32 DEF ExtractModule
<1>33. CASE ExtractBeside
  BY Zenon, <1>0, <1>33 DEF ExtractBeside
<1>34. CASE StartUpdate
  BY Zenon, <1>0, <1>34 DEF StartUpdate
<1>35. CASE StartInstall
  BY Zenon, <1>0, <1>35 DEF StartInstall, Begin
<1>36. CASE StartModules
  BY Zenon, <1>0, <1>36 DEF StartModules, Begin
<1>37. CASE StartUninstall
  BY Zenon, <1>0, <1>37 DEF StartUninstall, Begin
<1>38. CASE StartUninstallModule
  BY Zenon, <1>0, <1>38 DEF StartUninstallModule, Begin
<1>39. CASE InstallModule
  BY Zenon, <1>0, <1>39 DEF InstallModule
<1>40. CASE InstallPrepare
  BY Zenon, <1>0, <1>40 DEF InstallPrepare
<1>41. CASE Finish
  BY <1>0, <1>41 DEF Finish, EndOperation
<1> QED
  BY Zenon, <1>1, <1>2, <1>3, <1>4, <1>5, <1>6, <1>7, <1>8, <1>9, <1>10, <1>11, <1>12, <1>13, <1>14, <1>15,
     <1>16, <1>17, <1>18, <1>19, <1>20, <1>21, <1>22, <1>23, <1>24, <1>25, <1>26, <1>27, <1>28, <1>29, <1>30,
     <1>31, <1>32, <1>33, <1>34, <1>35, <1>36, <1>37, <1>38, <1>39, <1>40, <1>41

----------------------------------------------------------------------------
\* Where the code is, when the row does not change.
LEMMA SameRow ==
    ASSUME db' = db, mark'.db = mark.db
    PROVE  Row' = Row
  BY DEF Row, Kept

\* The row's code stays in place, when neither the row nor the code changes.
LEMMA SameClean ==
    ASSUME RowClean, db' = db, mark'.db = mark.db, dir'["real"] = dir["real"], dir'["old"] = dir["old"]
    PROVE  RowClean'
<1>1. Row' = Row
  BY SameRow
<1> QED
  BY <1>1 DEF RowClean, Holds, Empty

\* Outside the renames of an update, code in place and no +old- is enough.
LEMMA CleanCode ==
    ASSUME RowClean', pc' \notin {"saveNewToReal", "realToOld"} \cup SwitchedLabels
    PROVE  RowCode' /\ RowRecord'
  BY DEF RowCode, RowRecord, RowClean, RowPlaced

\* A step that leaves the code and the record alone goes where they are as the
\* next step needs them.
Still ==
    /\ db' = db /\ mark'.db = mark.db /\ rec' = rec
    /\ dir'["real"] = dir["real"] /\ dir'["old"] = dir["old"]
    /\ pc' \notin LooseLabels \/ (pc' = "rollback" /\ pkg'.ver = old'.ver) => RowClean
    /\ pc' \in {"skills", "saveDeleteOld", "oldToTemp", "hOldToTemp"} => RowPlaced
    /\ pc' \in {"saveNewToReal"} \cup SwitchedLabels => RowDisplaced
    /\ pc' = "realToOld" => rec.status = "RENAME_RELA_TO_OLD_PATH"
    /\ pc' \in SwitchedLabels => rec = [status |-> "RENAME_NEW_TO_REAL_PATH", ver |-> old'.ver]
    /\ pc' = "hRestore" => ToRestore \/ dir["old"] = Empty

\* Then they stay so.
LEMMA StillCode ==
    ASSUME RowCode, Still
    PROVE  RowCode' /\ RowRecord'
<1>1. Row' = Row
  BY SameRow DEF Still
<1>2. /\ ToRestore' <=> ToRestore
      /\ Empty' = Empty
  BY Zenon DEF ToRestore, Still, Empty
<1>3. /\ RowPlaced' <=> RowPlaced
      /\ RowDisplaced' <=> RowDisplaced
      /\ RowClean' <=> RowClean
  BY <1>1, <1>2 DEF Still, RowPlaced, RowDisplaced, RowClean, Holds
<1> QED
  BY <1>1, <1>2, <1>3 DEF RowCode, RowRecord, Still

\* Steps from one label to another where the code is in place and +old- is
\* gone, which change the record at most.
LEMMA CleanSteps ==
    ASSUME BaseInv, RowCode,
           StartUpdate \/ StartInstall \/ StartModules \/ StartUninstall \/
              StartUninstallModule \/ Finish \/ InstallPrepare \/ InstallSkills \/
              InstallRollback \/ PrepareModules \/ LateModules \/ SkillsOfModules \/
              SaveCreate \/ DropRecord \/ HandleRestoreDrop \/ HandleDrop \/ Prepare
    PROVE  RowCode' /\ RowRecord'
<1>0. ret \in {"idle", "saveCreate", "finish", "iRemove", "uRemove"}
  BY Operands
<1>1. /\ UNCHANGED <<dir, db, mark>> /\ pc \notin LooseLabels
      /\ pc' \notin {"saveNewToReal", "realToOld"} \cup SwitchedLabels
  <2> USE DEF Goto, Rollback, op, LooseLabels, SwitchedLabels
  <2>1. CASE StartUpdate
    BY <1>0, <2>1 DEF StartUpdate
  <2>2. CASE StartInstall
    BY <1>0, <2>2 DEF StartInstall, Begin
  <2>3. CASE StartModules
    BY Zenon, <1>0, <2>3 DEF StartModules, Begin
  <2>4. CASE StartUninstall
    BY <1>0, <2>4 DEF StartUninstall, Begin
  <2>5. CASE StartUninstallModule
    BY <1>0, <2>5 DEF StartUninstallModule, Begin
  <2>6. CASE Finish
    BY <1>0, <2>6 DEF Finish, EndOperation
  <2>7. CASE InstallPrepare
    BY <1>0, <2>7 DEF InstallPrepare
  <2>8. CASE InstallSkills
    BY <1>0, <2>8 DEF InstallSkills
  <2>9. CASE InstallRollback
    BY <1>0, <2>9 DEF InstallRollback
  <2>10. CASE PrepareModules
    BY Zenon, <1>0, <2>10 DEF PrepareModules
  <2>11. CASE LateModules
    BY <1>0, <2>11 DEF LateModules
  <2>12. CASE SkillsOfModules
    BY <1>0, <2>12 DEF SkillsOfModules
  <2>13. CASE SaveCreate
    BY Zenon, <1>0, <2>13 DEF SaveCreate
  <2>14. CASE DropRecord
    BY <1>0, <2>14 DEF DropRecord
  <2>15. CASE HandleRestoreDrop
    BY <1>0, <2>15 DEF HandleRestoreDrop
  <2>16. CASE HandleDrop
    BY Zenon, <1>0, <2>16 DEF HandleDrop
  <2>17. CASE Prepare
    BY <1>0, <2>17 DEF Prepare
  <2> QED
    BY Zenon, <2>1, <2>2, <2>3, <2>4, <2>5, <2>6, <2>7, <2>8, <2>9, <2>10, <2>11, <2>12, <2>13, <2>14, <2>15,
       <2>16, <2>17
<1>2. RowClean
  BY <1>1 DEF RowCode
<1> QED
  BY Zenon, <1>1, <1>2, SameClean, CleanCode

\* The extraction into +new- and the removals of +new-, +old- and +temp-.
LEMMA RemovalSteps ==
    ASSUME BaseInv, RowCode,
           ExtractModule \/ RemoveOld \/ HandleCreateNewDir \/ HandleRemoveNew \/ HandleGone \/
              HandleRemoveTemp
    PROVE  RowCode' /\ RowRecord'
<1>0. /\ ret \in {"idle", "saveCreate", "finish", "iRemove", "uRemove"}
      /\ dir \in Dirs /\ {"real", "new", "old", "temp"} \subseteq DirNames
  BY Operands DEF BaseInv, BaseType, DirNames
<1>1. CASE HandleGone
  <2>1. /\ pc = "hGone" /\ pc' \in {"hRestore", "hOldToTemp"} /\ UNCHANGED <<rec, db, mark>>
        /\ RemoveOk("new") \/ RemoveFails("new")
    BY Zenon, <1>1 DEF HandleGone, Goto
  <2>2. dir'["real"] = dir["real"] /\ dir'["old"] = dir["old"]
    BY <1>0, <2>1, RemoveElse
  <2>3. RowClean /\ pc' \notin {"saveNewToReal", "realToOld"} \cup SwitchedLabels
    BY <2>1 DEF RowCode, LooseLabels, SwitchedLabels
  <2> QED
    BY Zenon, <2>1, <2>2, <2>3, SameClean, CleanCode
<1>2. CASE HandleCreateNewDir \/ HandleRemoveNew
  <2>1. /\ pc \in {"hCreate", "hRemoveNew"} /\ pc' \in {ret, "hDrop"} /\ UNCHANGED <<rec, db, mark>>
        /\ RemoveOk("new") \/ RemoveFails("new")
    BY <1>2 DEF HandleCreateNewDir, HandleRemoveNew, Goto
  <2>2. dir'["real"] = dir["real"] /\ dir'["old"] = dir["old"]
    BY <1>0, <2>1, RemoveElse
  <2>3. RowClean /\ pc' \notin {"saveNewToReal", "realToOld"} \cup SwitchedLabels
    BY <1>0, <2>1 DEF RowCode, LooseLabels, SwitchedLabels
  <2> QED
    BY Zenon, <2>1, <2>2, <2>3, SameClean, CleanCode
<1>3. CASE HandleRemoveTemp
  <2>1. /\ pc = "hRemoveTemp" /\ pc' \in {ret, "hDrop"} /\ UNCHANGED <<rec, db, mark>>
        /\ RemoveOk("temp") \/ RemoveFails("temp")
    BY <1>3 DEF HandleRemoveTemp, Goto
  <2>2. dir'["real"] = dir["real"] /\ dir'["old"] = dir["old"]
    BY <1>0, <2>1, RemoveElse
  <2>3. RowClean /\ pc' \notin {"saveNewToReal", "realToOld"} \cup SwitchedLabels
    BY <1>0, <2>1 DEF RowCode, LooseLabels, SwitchedLabels
  <2> QED
    BY Zenon, <2>1, <2>2, <2>3, SameClean, CleanCode
<1>4. CASE RemoveOld
  <2>1. PICK d \in {"temp", "old"} : /\ pc = (IF d = "temp" THEN "removeTemp" ELSE "removeOld")
                                    /\ \/ RemoveOk(d) /\ pc' = "drop"
                                       \/ RemoveFails(d) /\ pc' = "finish"
    BY Zenon, <1>4 DEF RemoveOld, Goto
  <2>2. RowClean /\ pc' \notin {"saveNewToReal", "realToOld"} \cup SwitchedLabels /\ UNCHANGED <<rec, db, mark>>
    BY <1>4, <2>1 DEF RowCode, LooseLabels, SwitchedLabels, RemoveOld
  <2>3. dir'["real"] = dir["real"]
    BY <1>0, <2>1, RemoveElse
  <2>4. dir'["old"] = dir["old"]
    <3>1. CASE d = "temp"
      BY <1>0, <2>1, <3>1, RemoveElse
    <3>2. CASE d = "old"
      BY <1>0, <2>1, <2>2, <3>2 DEF RemoveOk, RemoveFails, Exists, RowClean, Dirs
    <3> QED
      BY <3>1, <3>2
  <2> QED
    BY Zenon, <2>2, <2>3, <2>4, SameClean, CleanCode
<1>5. CASE ExtractModule
  <2>1. pc = "extract" /\ pc' \in {"extract", "rollback"} /\ UNCHANGED <<rec, db, mark>>
    BY <1>5 DEF ExtractModule, Rollback
  <2>2. dir'["real"] = dir["real"] /\ dir'["old"] = dir["old"]
    <3>1. dir' = dir \/ \E c : dir' = [dir EXCEPT !["new"] = c]
      BY Zenon, <1>5 DEF ExtractModule
    <3> QED
      BY <1>0, <3>1 DEF Dirs
  <2>3. RowClean /\ pc' \notin {"saveNewToReal", "realToOld"} \cup SwitchedLabels
    BY <2>1 DEF RowCode, LooseLabels, SwitchedLabels
  <2> QED
    BY Zenon, <2>1, <2>2, <2>3, SameClean, CleanCode
<1> QED
  BY Zenon, <1>1, <1>2, <1>3, <1>4, <1>5

\* The row that a reboot keeps has the version of the row, and its code exists.
LEMMA RowVersion ==
    ASSUME InfoInv, Row # NoInfo
    PROVE  Row \in Info /\ Row.ver = db.ver
<1>1. db \in Info \cup {NoInfo}
  BY DEF InfoInv
<1> QED
  BY <1>1 DEF Row, Kept, Info, NoInfo

\* Nor is a directory that holds the code of a bundle a reboot keeps empty.
LEMMA RowCodeExists ==
    ASSUME InfoInv, Row # NoInfo, NEW c, Holds(c, Row)
    PROVE  c # Empty
<1>1. Row \in Info
  BY RowVersion
<1>2. PICK m \in Row.mods : c[m] = Row.ver
  BY <1>1 DEF Holds, Info
<1> QED
  BY <1>1, <1>2 DEF Info, Empty

\* Nothing is missing of a bundle that a reboot does not keep.
LEMMA NoRowCode == Row = NoInfo => \A c : Holds(c, Row)
  BY DEF NoInfo, Holds

\* The dispatch on the record: +old- is restored only if it has the code of the
\* row, and given up only if the code of the row is in place.
LEMMA HandleCode ==
    ASSUME BaseInv, InfoInv, RowCode, RowMemory, Handle
    PROVE  RowCode' /\ RowRecord'
<1>1. /\ pc = "handle" /\ UNCHANGED <<dir, rec, db, mark, pkg, old>> /\ rec.status \in Status
      /\ ret \in {"idle", "saveCreate", "finish", "iRemove", "uRemove"}
  BY Zenon, Operands DEF Handle, op
<1>2. \/ rec.status = "none" /\ pc' = ret
      \/ rec.status = "CREATE_NEW_DIR" /\ pc' = "hCreate"
      \/ rec.status = "RENAME_RELA_TO_OLD_PATH" /\ pc' = "hRestore"
      \/ rec.status = "RENAME_NEW_TO_REAL_PATH" /\ mem = NoInfo /\ pc' = "hGone"
      \/ rec.status = "RENAME_NEW_TO_REAL_PATH" /\ mem # NoInfo /\ mem.ver = rec.ver /\ pc' = "hRestore"
      \/ rec.status = "RENAME_NEW_TO_REAL_PATH" /\ mem # NoInfo /\ mem.ver # rec.ver /\ pc' = "hOldToTemp"
      \/ rec.status = "DELETE_OLD_PATH" /\ pc' = "hOldToTemp"
  BY <1>1 DEF Handle, Status
<1>3. Row = NoInfo \/ mem = Row
  BY Zenon, <1>1 DEF RowMemory, Ahead, Fresh
<1>4. Row = NoInfo => RowClean
  BY NoRowCode DEF RowCode, RowClean
<1>5. RowClean => RowPlaced
  BY DEF RowClean, RowPlaced
<1>6. ~ToRestore => RowPlaced
  BY Zenon DEF RowCode, RowDisplaced
<1>7. rec.status \in {"none", "CREATE_NEW_DIR"} => RowClean
  <2>1. ToRestore => rec.status \notin {"none", "CREATE_NEW_DIR"}
    BY DEF ToRestore
  <2> QED
    BY <1>6, <2>1 DEF RowCode, RowClean, RowPlaced
<1>8. mem = Row /\ mem # NoInfo => mem.ver = db.ver
  BY Zenon, RowVersion
<1>9. Still
  <2>1. pc' \in {"hCreate", "hGone"} \/ pc' = ret => RowClean
    BY Zenon, <1>2, <1>3, <1>4, <1>7, <1>1
  <2>2. pc' = "hOldToTemp" => RowPlaced
    BY Zenon, <1>1, <1>2, <1>3, <1>4, <1>5, <1>6, <1>8 DEF ToRestore
  <2>3. pc' = "hRestore" => ToRestore \/ dir["old"] = Empty
    BY Zenon, <1>1, <1>2, <1>3, <1>4, <1>8 DEF ToRestore, RowClean
  <2> QED
    BY Zenon, <1>1, <1>2, <2>1, <2>2, <2>3 DEF Still, LooseLabels, SwitchedLabels
<1> QED
  BY Zenon, <1>9, StillCode

\* Other steps that leave the code and the record alone.
LEMMA StillSteps ==
    ASSUME BaseInv, RowCode, RowRecord, RowPackage, InstallCovered,
           LateSteps \/ CommitAppSkills \/ UninstallLower \/ RollbackCodePath \/ LoadAll
    PROVE  RowCode' /\ RowRecord'
<1> USE DEF Goto, Rollback, op, LooseLabels, SwitchedLabels, Still
<1>1. CASE LateSteps
  <2>1. pkg.ver # old.ver /\ RowDisplaced /\ rec = [status |-> "RENAME_NEW_TO_REAL_PATH", ver |-> old.ver]
    BY Zenon, <1>1 DEF LateSteps, RowPackage, RowCode, RowRecord, UpdateLabels
  <2>2. Still
    BY Zenon, <1>1, <2>1 DEF LateSteps
  <2> QED
    BY Zenon, <2>2, StillCode
<1>2. CASE CommitAppSkills
  <2>1. Still
    BY <1>2 DEF CommitAppSkills, RowCode, InstallCovered
  <2> QED
    BY Zenon, <2>1, StillCode
<1>3. CASE UninstallLower
  <2>1. RowDisplaced /\ rec = [status |-> "RENAME_NEW_TO_REAL_PATH", ver |-> old.ver]
    BY <1>3 DEF UninstallLower, RowCode, RowRecord
  <2>2. mark'.db = mark.db
    BY <1>3 DEF UninstallLower, BaseInv, BaseType
  <2>3. Still
    BY Zenon, <1>3, <2>1, <2>2 DEF UninstallLower
  <2> QED
    BY Zenon, <2>3, StillCode
<1>4. CASE RollbackCodePath
  <2>1. Still
    BY <1>4 DEF RollbackCodePath, RowCode
  <2> QED
    BY Zenon, <2>1, StillCode
<1>5. CASE LoadAll
  <2>1. mark'.db = mark.db
    BY <1>5 DEF LoadAll, BaseInv, BaseType
  <2>2. Still
    BY <1>5, <2>1 DEF LoadAll
  <2> QED
    BY Zenon, <2>2, StillCode
<1> QED
  BY <1>1, <1>2, <1>3, <1>4, <1>5

\* The saves of the record during an update.
LEMMA SaveCode ==
    ASSUME BaseInv, InfoInv, RowCode, RowRecord, RowMemory, RowPackage,
           SaveRealToOld \/ SaveNewToReal \/ SaveDeleteOld
    PROVE  RowCode' /\ RowRecord'
<1> USE DEF Goto, Rollback, op, LooseLabels, SwitchedLabels
<1>1. CASE SaveRealToOld
  <2>1. /\ pc = "saveRealToOld" /\ UNCHANGED <<dir, db, mark>>
        /\ \/ pc' = "rollback"
           \/ pc' = "realToOld" /\ rec'.status = "RENAME_RELA_TO_OLD_PATH"
    BY <1>1 DEF SaveRealToOld, Save
  <2>2. RowClean
    BY <2>1 DEF RowCode
  <2>3. RowClean'
    BY <2>1, <2>2, SameClean
  <2>4. CASE pc' = "rollback"
    BY Zenon, <2>3, <2>4, CleanCode
  <2>5. CASE pc' = "realToOld" /\ rec'.status = "RENAME_RELA_TO_OLD_PATH"
    BY <2>3, <2>5 DEF RowCode, RowRecord, RowClean, RowPlaced
  <2> QED
    BY <2>1, <2>4, <2>5
<1>2. CASE SaveNewToReal
  <2>1. /\ pc = "saveNewToReal" /\ UNCHANGED <<dir, db, mark, pkg, old>>
        /\ \/ pc' = "rollback" /\ rec' = rec
           \/ pc' = "newToReal" /\ rec' = [status |-> "RENAME_NEW_TO_REAL_PATH", ver |-> old.ver]
    BY Zenon, <1>2 DEF SaveNewToReal, Save, SaveFails
  <2>2. RowDisplaced /\ pkg.ver # old.ver /\ old = Row /\ old # NoInfo
    BY <2>1 DEF RowCode, RowPackage, RowMemory, Pending, AtUpdate, UpdateLabels, BaseInv, OperandInv
  <2>3. CASE pc' = "rollback" /\ rec' = rec
    <3>1. Still
      BY Zenon, <2>1, <2>2, <2>3 DEF Still
    <3> QED
      BY Zenon, <3>1, StillCode
  <2>4. CASE pc' = "newToReal" /\ rec' = [status |-> "RENAME_NEW_TO_REAL_PATH", ver |-> old.ver]
    <3>1. Row' = Row /\ old.ver = db.ver
      BY Zenon, <2>1, <2>2, SameRow, RowVersion
    <3>2. RowDisplaced'
      BY <2>1, <2>2, <2>4, <3>1 DEF RowDisplaced, ToRestore, Holds
    <3> QED
      BY Zenon, <2>1, <2>2, <2>4, <3>1, <3>2 DEF RowCode, RowRecord
  <2> QED
    BY Zenon, <2>1, <2>3, <2>4
<1>3. CASE SaveDeleteOld
  <2>1. /\ pc = "saveDeleteOld" /\ UNCHANGED <<dir, db, mark, pkg, old>> /\ pc' = "oldToTemp"
        /\ rec' = rec \/ rec'.status = "DELETE_OLD_PATH"
    BY <1>3 DEF SaveDeleteOld, Save, SaveFails
  <2>2. RowPlaced
    BY Zenon, <2>1 DEF RowCode
  <2>3. CASE rec' = rec
    <3>1. Still
      BY Zenon, <2>1, <2>2, <2>3 DEF Still
    <3> QED
      BY Zenon, <3>1, StillCode
  <2>4. CASE rec'.status = "DELETE_OLD_PATH"
    <3>1. Row' = Row
      BY <2>1, SameRow
    <3>2. RowPlaced'
      BY <2>1, <2>2, <2>4, <3>1 DEF RowPlaced, ToRestore, Holds
    <3> QED
      BY <2>1, <2>4, <3>1, <3>2 DEF RowCode, RowRecord
  <2> QED
    BY Zenon, <2>1, <2>3, <2>4
<1> QED
  BY <1>1, <1>2, <1>3

\* The renames of whole directories.
LEMMA RenameCode ==
    ASSUME BaseInv, InfoInv, RowCode, RowRecord, RowMemory, RowPackage, InstallCovered,
           RealToOld \/ NewToReal \/ OldToTemp \/ HandleOldToTemp \/ HandleRestore
    PROVE  RowCode' /\ RowRecord'
<1> USE DEF Goto, Rollback, op, LooseLabels, SwitchedLabels
<1>0. /\ dir \in Dirs /\ {"real", "new", "old", "temp"} \subseteq DirNames
      /\ "rename" \notin Faults /\ "recover" \notin Faults
      /\ ret \in {"idle", "saveCreate", "finish", "iRemove", "uRemove"}
  BY Zenon, Operands DEF BaseInv, BaseType, DirNames, InstallCovered
<1>1. CASE RealToOld
  <2>1. pc = "realToOld" /\ UNCHANGED <<rec, db, mark, pkg, old>>
    BY Zenon, <1>1 DEF RealToOld
  <2>2. RowClean /\ old = Row /\ old # NoInfo /\ rec.status = "RENAME_RELA_TO_OLD_PATH"
    BY <2>1 DEF RowCode, RowRecord, RowMemory, Pending, AtUpdate, UpdateLabels, BaseInv, OperandInv
  <2>3. Exists("real")
    BY Zenon, <2>2, RowCodeExists DEF RowClean, Exists
  <2>4. pc' = "saveNewToReal" /\ dir' = [dir EXCEPT !["old"] = dir["real"], !["real"] = Empty]
    BY <1>0, <1>1, <2>3 DEF RealToOld, RenameOk, RenameFails
  <2>5. Row' = Row
    BY <2>1, SameRow
  <2>6. RowDisplaced'
    <3>1. dir'["old"] = dir["real"]
      BY Zenon, <1>0, <2>4 DEF Dirs
    <3> QED
      BY <2>1, <2>2, <2>5, <3>1 DEF RowDisplaced, RowClean, ToRestore, Holds
  <2> QED
    BY Zenon, <2>1, <2>2, <2>4, <2>5, <2>6 DEF RowCode, RowRecord
<1>2. CASE NewToReal
  <2>1. pc = "newToReal" /\ UNCHANGED <<rec, db, mark, pkg, old>> /\ pc' \in {"lower", "rollback"}
    BY Zenon, <1>2 DEF NewToReal
  <2>2. /\ RowDisplaced /\ pkg.ver # old.ver /\ old = Row /\ old # NoInfo
        /\ rec = [status |-> "RENAME_NEW_TO_REAL_PATH", ver |-> old.ver]
    BY Zenon, <2>1 DEF RowCode, RowRecord, RowPackage, RowMemory, Pending, AtUpdate, UpdateLabels,
       BaseInv, OperandInv
  <2>3. dir'["old"] = dir["old"]
    BY <1>0, <1>2 DEF NewToReal, RenameOk, RenameFails, Dirs
  <2>4. Row' = Row
    BY Zenon, <2>1, SameRow
  <2>5. RowDisplaced'
    BY <2>1, <2>2, <2>3, <2>4 DEF RowDisplaced, ToRestore, Holds
  <2> QED
    BY <2>1, <2>2, <2>4, <2>5 DEF RowCode, RowRecord
<1>3. CASE OldToTemp \/ HandleOldToTemp
  <2>1. /\ pc \in {"oldToTemp", "hOldToTemp"} /\ UNCHANGED <<rec, db, mark>>
        /\ pc' \in {"removeTemp", "removeOld", "hRemoveTemp", ret}
        /\ \/ RenameOk("old", "temp")
           \/ RenameFails("old", "temp", "rename")
           \/ RenameFails("old", "temp", "recover")
    BY Zenon, <1>3 DEF OldToTemp, HandleOldToTemp
  <2>2. RowPlaced
    BY <2>1 DEF RowCode
  <2>3. dir'["real"] = dir["real"] /\ dir'["old"] = Empty
    BY <1>0, <2>1 DEF RenameOk, RenameFails, Exists, Dirs
  <2>4. Row' = Row
    BY <2>1, SameRow
  <2>5. RowClean'
    BY <2>2, <2>3, <2>4 DEF RowPlaced, RowClean, Holds, Empty
  <2> QED
    BY Zenon, <1>0, <2>1, <2>5, CleanCode
<1>4. CASE HandleRestore
  <2>1. /\ pc = "hRestore" /\ UNCHANGED <<rec, db, mark>> /\ pc' \in {"hRestoreDrop", "hRemoveNew"}
        /\ RenameOk("old", "real") \/ RenameFails("old", "real", "recover")
    BY <1>4 DEF HandleRestore
  <2>2. Row' = Row
    BY Zenon, <2>1, SameRow
  <2>3. CASE Exists("old")
    <3>1. dir' = [dir EXCEPT !["real"] = dir["old"], !["old"] = Empty]
      BY <1>0, <2>1, <2>3 DEF RenameOk, RenameFails
    <3>2. dir'["real"] = dir["old"] /\ dir'["old"] = Empty
      BY Zenon, <1>0, <3>1 DEF Dirs
    <3>3. Holds(dir["old"], Row)
      BY <2>1, <2>3 DEF RowCode, RowRecord, RowPlaced, RowDisplaced, Exists
    <3> QED
      BY <2>1, <2>2, <3>2, <3>3, CleanCode DEF RowClean, Holds, Empty
  <2>4. CASE ~Exists("old")
    <3>1. dir' = dir
      BY Zenon, <2>1, <2>4 DEF RenameOk, RenameFails
    <3>2. Holds(dir["real"], Row)
      BY <2>4, RowCodeExists, NoRowCode DEF RowCode, RowPlaced, RowDisplaced, Exists
    <3> QED
      BY <2>1, <2>2, <2>4, <3>1, <3>2, CleanCode DEF RowClean, Holds, Empty, Exists
  <2> QED
    BY <2>3, <2>4
<1> QED
  BY Zenon, <1>1, <1>2, <1>3, <1>4

\* The steps that write or remove modules in the real directory.
LEMMA ModuleCode ==
    ASSUME BaseInv, InfoInv, RowCode, RowMemory, RowPackage, InstallCovered,
           InstallModule \/ InstallRemove \/ UninstallRemove \/ ExtractBeside \/ RenameModuleDir \/ RemoveModuleDir
    PROVE  RowCode' /\ RowRecord'
<1> USE DEF Goto, Rollback, op, LooseLabels, SwitchedLabels
<1>0. /\ dir \in Dirs /\ {"real", "old", "moduleTmp"} \subseteq DirNames
      /\ dir["real"] \in [Modules -> Nat] /\ todo \subseteq Modules
  BY Operands DEF BaseInv, BaseType, DirNames, Dirs
<1>1. CASE InstallModule \/ InstallRemove \/ UninstallRemove
  <2>1. /\ pc \in {"iExtract", "iRemove", "uRemove"} /\ pc' \in {"iExtract", "iRollback", "iErase", "finish"}
        /\ UNCHANGED <<db, mark>>
    BY Zenon, <1>1 DEF InstallModule, InstallRemove, UninstallRemove
  <2>2. Row = NoInfo /\ RowClean
    BY <2>1 DEF RowMemory, Fresh, FirstLabels, RowCode
  <2>3. dir'["old"] = dir["old"]
    <3>1. CASE InstallModule
      <4>1. dir' = dir \/ \E c : dir' = [dir EXCEPT !["real"] = c]
        BY Zenon, <3>1 DEF InstallModule
      <4> QED
        BY <1>0, <4>1 DEF Dirs
    <3>2. CASE InstallRemove \/ UninstallRemove
      BY Zenon, <1>0, <3>2, RemoveElse DEF InstallRemove, UninstallRemove
    <3> QED
      BY <1>1, <3>1, <3>2
  <2>4. RowClean'
    <3>1. Row' = NoInfo
      BY Zenon, <2>1, <2>2, SameRow
    <3>2. Holds(dir["real"], Row)'
      BY <3>1 DEF Holds, NoInfo
    <3> QED
      BY <2>2, <2>3, <3>2 DEF RowClean, Empty
  <2> QED
    BY Zenon, <2>1, <2>4, CleanCode
<1>2. CASE ExtractBeside
  <2>1. pc = "mExtract" /\ pc' \in {"mExtract", "rollback"} /\ UNCHANGED <<db, mark>>
    BY Zenon, <1>2 DEF ExtractBeside
  <2>2. Row = old /\ RowClean
    BY <2>1 DEF RowMemory, RowCode, Pending, AtUpdate, ModuleLabels
  <2>3. \/ dir' = dir
        \/ \E m \in Modules : \E v : dir' = [dir EXCEPT ![ModuleDir(m)] = [@ EXCEPT ![m] = v]]
    BY Zenon, <1>0, <1>2 DEF ExtractBeside
  <2>4. /\ dir'["old"] = dir["old"]
        /\ \A m \in old.mods : dir'["real"][m] = dir["real"][m]
    <3>1. CASE dir' = dir
      BY Zenon, <3>1
    <3>2. ASSUME NEW m \in Modules, NEW v, dir' = [dir EXCEPT ![ModuleDir(m)] = [@ EXCEPT ![m] = v]]
          PROVE  /\ dir'["old"] = dir["old"]
                 /\ \A k \in old.mods : dir'["real"][k] = dir["real"][k]
      <4>1. CASE ModuleDir(m) = "moduleTmp"
        BY <1>0, <3>2, <4>1 DEF Dirs
      <4>2. CASE ModuleDir(m) = "real" /\ m \notin old.mods
        BY <1>0, <3>2, <4>2 DEF Dirs
      <4> QED
        BY <4>1, <4>2 DEF ModuleDir
    <3> QED
      BY <2>3, <3>1, <3>2
  <2>5. RowClean'
    BY <2>1, <2>2, <2>4, SameRow DEF RowClean, Holds, Empty
  <2> QED
    BY Zenon, <2>1, <2>5, CleanCode
<1>3. CASE RenameModuleDir
  <2>1. pc = "mRename" /\ UNCHANGED <<db, mark>>
    BY Zenon, <1>3 DEF RenameModuleDir
  <2>2. PICK m \in todo : /\ pc' = "mRename"
                          /\ dir' = [dir EXCEPT !["real"] = [@ EXCEPT ![m] = dir["moduleTmp"][m]],
                                                !["moduleTmp"] = [@ EXCEPT ![m] = 0]]
    BY Zenon, <1>3, <2>1 DEF RenameModuleDir, InstallCovered
  <2>3. Row = old /\ RowClean /\ dir["moduleTmp"][m] = old.ver
    BY <2>1, <2>2 DEF RowMemory, RowCode, RowPackage, Pending, AtUpdate, ModuleLabels
  <2>4. /\ dir'["old"] = dir["old"]
        /\ \A k \in Modules : dir'["real"][k] = IF k = m THEN old.ver ELSE dir["real"][k]
    BY Zenon, <1>0, <2>2, <2>3 DEF Dirs
  <2>5. old.mods \subseteq Modules
    BY Zenon, InfoFields DEF InfoInv
  <2>6. RowClean'
    BY Zenon, <2>1, <2>3, <2>4, <2>5, SameRow DEF RowClean, Holds, Empty
  <2> QED
    BY Zenon, <2>2, <2>6, CleanCode
<1>4. CASE RemoveModuleDir
  <2>1. pc = "umRemove" /\ UNCHANGED <<db, mark>> /\ pc' \in {"umInfo", "finish"}
    BY <1>4 DEF RemoveModuleDir
  <2>2. RowClean /\ Row.mods \subseteq Modules \ todo
    <3>1. old.mods \subseteq Modules /\ old \in Info \cup {NoInfo}
      BY Zenon, InfoFields DEF InfoInv
    <3>2. Row = [old EXCEPT !.mods = @ \ todo] /\ RowClean
      BY <2>1 DEF RowMemory, RowCode
    <3> QED
      BY Zenon, <3>1, <3>2 DEF Info, NoInfo
  <2>3. \E m \in todo : \E v : dir' = [dir EXCEPT !["real"] = [@ EXCEPT ![m] = v]]
    BY Zenon, <1>4 DEF RemoveModuleDir
  <2>4. /\ dir'["old"] = dir["old"]
        /\ \A k \in Modules \ todo : dir'["real"][k] = dir["real"][k]
    BY Zenon, <1>0, <2>3 DEF Dirs
  <2>5. RowClean'
    BY <2>1, <2>2, <2>4, SameRow DEF RowClean, Holds, Empty
  <2> QED
    BY Zenon, <2>1, <2>5, CleanCode
<1> QED
  BY Zenon, <1>1, <1>2, <1>3, <1>4

\* The steps that write the row.  After a commit the memory, the row and the
\* marks agree.
LEMMA CommittedMemory ==
    ASSUME mem' = db', mark' = [db |-> Finished, mem |-> Finished],
           pc' \in {"skills", "iSkills", "mSkills", "finish"}
    PROVE  RowMemory' /\ Row' = db'
<1>1. \A b : Kept(b, Finished) = b
  BY Zenon DEF Kept, Finished
<1>2. /\ ~Ahead' /\ ~Fresh' /\ ~Pending' /\ ~Handling("uRemove")' /\ pc' \notin RemovalLabels \cup {"off", "uRemove"}
  BY DEF Ahead, Fresh, Pending, AtUpdate, Handling, HandleLabels, HandlerLabels, UpdateLabels, ModuleLabels,
     FirstLabels, RemovalLabels
<1>3. Row' = db' /\ Kept(mem, mark.mem)' = mem'
  BY Zenon, <1>1 DEF Row
<1> QED
  BY <1>2, <1>3 DEF RowMemory, Finished, RemovalLabels

\* MarkInstallFinish of an update.
LEMMA CommitUpdate ==
    ASSUME BaseInv, InfoInv, RowCode, RowRecord, RowMemory, RowPackage, InstallCovered, MarkInstallFinish
    PROVE  RowCode' /\ RowRecord' /\ RowMemory'
<1>0. pc = "commit"
  BY Zenon DEF MarkInstallFinish
<1>1. /\ pkg \in Info /\ pkg.ver # old.ver /\ Holds(dir["real"], pkg) /\ RowDisplaced
      /\ rec = [status |-> "RENAME_NEW_TO_REAL_PATH", ver |-> old.ver]
  BY Zenon, <1>0, UpdateAssumption DEF BaseInv, OperandInv, AtUpdate, UpdateLabels, RowPackage, RowCode,
     RowRecord,
     SwitchedLabels
<1>2. CASE /\ db' = pkg /\ mem' = pkg /\ mark' = [db |-> Finished, mem |-> Finished]
           /\ pc' = "skills" /\ UNCHANGED <<dir, rec>>
  <2>1. RowMemory' /\ Row' = pkg
    BY Zenon, <1>2, CommittedMemory
  <2>2. ~ToRestore'
    BY Zenon, <1>1, <1>2 DEF ToRestore
  <2>3. RowPlaced' /\ pkg # NoInfo
    <3>1. Holds(dir["real"], Row)'
      BY Zenon, <1>1, <1>2, <2>1 DEF Holds
    <3>2. pkg # NoInfo
      BY <1>1 DEF Info, NoInfo
    <3> QED
      BY Zenon, <2>2, <3>1, <3>2 DEF RowPlaced
  <2> QED
    BY Zenon, <1>1, <1>2, <2>1, <2>3 DEF RowCode, RowRecord, LooseLabels, SwitchedLabels
<1>3. CASE FailsLate("info") /\ Rollback /\ UNCHANGED <<db, mem, mark, dir, rec>>
  <2>1. old.mods \subseteq pkg.mods
    BY Zenon, <1>3 DEF FailsLate, InstallCovered
  <2>2. Untouched
    BY Zenon, <1>0, <1>3, <2>1 DEF Rollback, Untouched, Pending, Ahead, Fresh, AtUpdate, Handling,
       UpdateLabels,
            ModuleLabels, FirstLabels, RemovalLabels, HandleLabels, HandlerLabels
  <2>3. Still
    BY <1>1, <1>3 DEF Rollback, Still, LooseLabels, SwitchedLabels
  <2> QED
    BY Zenon, <2>2, <2>3, UntouchedMemory, StillCode
<1> QED
  BY <1>2, <1>3 DEF MarkInstallFinish, Goto

\* The commit of an installation at the installed version.
LEMMA CommitAdded ==
    ASSUME BaseInv, InfoInv, RowCode, RowMemory, RowPackage, CommitModules
    PROVE  RowCode' /\ RowRecord' /\ RowMemory'
<1>0. pc = "mCommit" /\ UNCHANGED <<dir, rec>>
  BY Zenon DEF CommitModules
<1>1. /\ old \in Info /\ pkg.ver = old.ver /\ Row = old /\ RowClean
      /\ \A m \in pkg.mods \ old.mods : dir["real"][m] = pkg.ver
  BY <1>0 DEF BaseInv, OperandInv, InfoInv, AtUpdate, ModuleLabels, RowPackage, RowCode, RowMemory, Pending,
     LooseLabels, SwitchedLabels
<1>2. CASE /\ db' = [old EXCEPT !.mods = @ \cup pkg.mods] /\ mem' = db'
           /\ mark' = [db |-> Finished, mem |-> Finished] /\ pc' = "mSkills"
  <2>1. RowMemory' /\ Row' = db'
    BY <1>2, CommittedMemory
  <2>2. db'.ver = old.ver /\ db'.mods = old.mods \cup pkg.mods
    BY Zenon, <1>1, <1>2 DEF Info
  <2>3. RowClean'
    BY <1>0, <1>1, <2>1, <2>2 DEF RowClean, Holds, Empty
  <2> QED
    BY <1>2, <2>1, <2>3, CleanCode DEF SwitchedLabels
<1>3. CASE Rollback /\ UNCHANGED <<db, mem, mark>>
  <2>1. Untouched
    BY Zenon, <1>0, <1>3 DEF Rollback, Untouched, Pending, Ahead, Fresh, AtUpdate, Handling, UpdateLabels,
            ModuleLabels, FirstLabels, RemovalLabels, HandleLabels, HandlerLabels
  <2>2. RowClean' /\ pc' = "rollback"
    BY Zenon, <1>0, <1>1, <1>3, SameClean DEF Rollback
  <2> QED
    BY Zenon, <2>1, <2>2, UntouchedMemory, CleanCode DEF SwitchedLabels
<1> QED
  BY <1>2, <1>3 DEF CommitModules, Goto

\* The commit of a first installation.
LEMMA CommitFirst ==
    ASSUME BaseInv, RowCode, RowMemory, RowPackage, InstallCommit
    PROVE  RowCode' /\ RowRecord' /\ RowMemory'
<1>0. pc = "iCommit" /\ mem' = pkg /\ UNCHANGED <<dir, rec, ret, pkg, old, todo>>
  BY Zenon DEF InstallCommit, op
<1>1. Row = NoInfo /\ RowClean /\ Holds(dir["real"], pkg)
  BY <1>0 DEF RowPackage, RowCode, RowMemory, Fresh, FirstLabels, LooseLabels, SwitchedLabels
<1>2. CASE db' = pkg /\ mark' = [db |-> Finished, mem |-> Finished] /\ pc' = "iSkills"
  <2>1. RowMemory' /\ Row' = pkg
    BY Zenon, <1>0, <1>2, CommittedMemory
  <2>2. RowClean'
    BY <1>0, <1>1, <2>1 DEF RowClean, Holds, Empty
  <2> QED
    BY Zenon, <1>2, <2>1, <2>2, CleanCode DEF SwitchedLabels
<1>3. CASE pc' = "iRollback" /\ UNCHANGED <<db, mark>>
  <2>1. RowClean' /\ Row' = Row
    BY Zenon, <1>0, <1>1, <1>3, SameClean, SameRow
  <2>2. /\ ~Ahead' /\ Fresh' /\ ~Pending' /\ ~Handling("uRemove")' /\ pc' \notin RemovalLabels \cup {"off", "uRemove"}
        /\ ~Ahead /\ pc \notin RemovalLabels
    BY <1>0, <1>3 DEF Ahead, Fresh, Pending, AtUpdate, Handling, HandleLabels, HandlerLabels, UpdateLabels,
       ModuleLabels,
       FirstLabels, RemovalLabels
  <2>3. RowMemory'
    BY <1>1, <1>3, <2>1, <2>2 DEF RowMemory, RemovalLabels
  <2> QED
    BY <1>3, <2>1, <2>3, CleanCode DEF SwitchedLabels
<1> QED
  BY Zenon, <1>2, <1>3 DEF InstallCommit, Goto

\* UpdateBundleInstallState with a state that deletes the bundle's data, after
\* which nothing of the bundle is in memory or kept by a reboot.
LEMMA EraseRow ==
    ASSUME BaseInv, RowCode, RowMemory, InstallCovered, InstallErase \/ UninstallErase
    PROVE  RowCode' /\ RowRecord' /\ RowMemory'
<1>1. /\ pc \in {"iErase", "uErase"} /\ dir' = dir
      /\ pc' = "finish" \/ (pc' = "handle" /\ ret' = "uRemove")
  BY DEF InstallErase, UninstallErase, Goto
<1>2. Row = NoInfo /\ RowClean /\ ~Ahead
  BY <1>1 DEF RowMemory, RowCode, Fresh, FirstLabels, LooseLabels, SwitchedLabels, Ahead
<1>3. mem' = NoInfo
  <2>1. CASE Accepts(state, "UPDATING_FAIL") \/ UninstallErase
    BY <2>1 DEF InstallErase, UninstallErase, Erase
  <2>2. CASE ~Accepts(state, "UPDATING_FAIL") /\ InstallErase
    <3>1. mem' = mem /\ AtFirst
      BY <2>2 DEF InstallErase, AtFirst, FirstLabels
    <3>2. state \notin Installing
      BY <2>2, StateTable
    <3>3. mem = NoInfo
      BY <3>1, <3>2 DEF BaseInv, StateInv, Busy, Installing
    <3> QED
      BY <3>1, <3>3
  <2> QED
    BY <2>1, <2>2
<1>4. \/ /\ db' = NoInfo /\ mark' = [db |-> Finished, mem |-> Finished]
      \/ /\ db' = db /\ mark' \in {mark, [mark EXCEPT !.mem = Finished]}
         /\ pc = "uErase" => "erase" \in Faults
  <2>1. pc = "uErase" => mem # NoInfo
    BY DEF BaseInv, OperandInv, RemovalLabels
  <2> QED
    BY Zenon, <2>1 DEF InstallErase, UninstallErase, Erase
<1>5. /\ Row' = NoInfo /\ Kept(mem, mark.mem)' = mem'
      /\ mark'.mem \in {mark.mem, Finished} /\ mark'.db \in {mark.db, Finished}
      /\ pc = "uErase" /\ mark'.db # Finished => "erase" \in Faults
  <2>1. \A k : Kept(NoInfo, k) = NoInfo
    BY Zenon DEF Kept, NoInfo
  <2>2. mark = [db |-> mark.db, mem |-> mark.mem]
    BY DEF BaseInv, BaseType
  <2>3. Row' = NoInfo
    <3>1. CASE db' = NoInfo
      BY <2>1, <3>1 DEF Row
    <3>2. CASE db' = db /\ mark' \in {mark, [mark EXCEPT !.mem = Finished]}
      BY Zenon, <1>2, <2>2, <3>2, SameRow
    <3> QED
      BY <1>4, <3>1, <3>2
  <2> QED
    BY <1>3, <1>4, <2>1, <2>2, <2>3
<1>6. RowClean'
  BY <1>1, <1>2, <1>5 DEF RowClean, Holds, NoInfo, Empty
<1>7. RowMemory'
  <2>1. /\ ~Ahead' /\ ~Pending' /\ pc' \notin RemovalLabels \cup {"off", "uRemove"}
    BY <1>1 DEF Ahead, Pending, AtUpdate, Handling, HandleLabels, HandlerLabels, UpdateLabels, ModuleLabels,
       RemovalLabels
  <2>2. Finished.status = "INSTALL_FINISH"
    BY DEF Finished
  <2>3. mark'.db.status # "INSTALL_FINISH" => "erase" \in Faults
    BY <1>1, <1>2, <1>5, <2>2 DEF RowMemory
  <2>4. /\ mark'.db.status \in {"INSTALL_FINISH", "UNINSTALL_BUNDLE_START", "UNINSTALL_PACKAGE_START"}
        /\ mark'.mem.status \in {"INSTALL_FINISH", "UNINSTALL_PACKAGE_START"}
        /\ "UNINSTALL_PACKAGE_START" \in {mark'.db.status, mark'.mem.status} => "uninstallModule" \in Requests
    BY <1>2, <1>5, <2>2 DEF RowMemory
  <2> QED
    BY <1>3, <1>5, <2>1, <2>3, <2>4 DEF RowMemory, RemovalLabels
<1> QED
  BY <1>1, <1>6, <1>7, CleanCode DEF SwitchedLabels

\* The marks of an uninstallation, saved with the row.
LEMMA MarkRow ==
    ASSUME BaseInv, InfoInv, RowCode, RowMemory, InstallCovered, MarkUninstall \/ MarkUninstallModule
    PROVE  RowCode' /\ RowRecord' /\ RowMemory'
<1>0. /\ pc \in {"uMark", "umMark"} /\ UNCHANGED <<dir, rec, mem>>
      /\ mark = [db |-> mark.db, mem |-> mark.mem]
  BY Zenon DEF MarkUninstall, MarkUninstallModule, BaseInv, BaseType
<1>1. /\ Row = old /\ mem = Row /\ old \in Info /\ RowClean /\ ~Ahead /\ Kept(mem, mark.mem) = mem
      /\ pc = "umMark" => "uninstallModule" \in Requests
  BY <1>0 DEF RowMemory, Ahead, Fresh, FirstLabels, Handling, HandleLabels, HandlerLabels, Pending, RowCode,
     LooseLabels, SwitchedLabels,
     BaseInv, OperandInv, InfoInv, RemovalLabels
<1>2. CASE UNCHANGED <<db, mark>> /\ pc' \in {"idle", "finish"}
  <2>1. Untouched
    BY Zenon, <1>0, <1>1, <1>2 DEF Untouched, Pending, Ahead, Fresh, AtUpdate, Handling, UpdateLabels,
            ModuleLabels, FirstLabels, RemovalLabels, HandleLabels, HandlerLabels
  <2>2. RowClean'
    BY <1>0, <1>1, <1>2, SameClean
  <2> QED
    BY Zenon, <1>2, <2>1, <2>2, UntouchedMemory, CleanCode DEF SwitchedLabels
<1>3. ASSUME NEW k \in Mark, db' = mem, mark' = [mark EXCEPT !.db = k], old' = old, todo' = todo,
             \/ k.status = "UNINSTALL_BUNDLE_START" /\ pc' = "uErase"
             \/ k.status = "UNINSTALL_PACKAGE_START" /\ pc = "umMark" /\ k.package = todo
                /\ IF old.mods \subseteq todo THEN pc' = "uErase" ELSE pc' = "umRemove"
      PROVE  RowCode' /\ RowRecord' /\ RowMemory'
  <2>1. mark'.db = k /\ mark'.mem = mark.mem
    BY <1>0, <1>3
  <2>2. Row' = Kept(old, k)
    BY <1>1, <1>3, <2>1 DEF Row
  <2>3. /\ pc' = "uErase" => Row' = NoInfo
        /\ pc' = "umRemove" => Row' = [old EXCEPT !.mods = @ \ todo]
    BY Zenon, <1>3, <2>2 DEF Kept
  <2>4. Row'.mods \subseteq old.mods /\ (Row'.ver = old.ver \/ Row'.mods = {})
    <3>1. CASE Row' = NoInfo
      BY Zenon, <3>1 DEF NoInfo
    <3>2. CASE Row' = [old EXCEPT !.mods = @ \ todo]
      <4>1. old = [ver |-> old.ver, mods |-> old.mods]
        BY Zenon, <1>1 DEF Info
      <4> QED
        BY Zenon, <3>2, <4>1
    <3> QED
      BY Zenon, <1>3, <2>3, <3>1, <3>2
  <2>5. RowClean'
    BY <1>0, <1>1, <2>4 DEF RowClean, Holds, Empty
  <2>6. Row' = NoInfo => pc' = "uErase"
    BY <1>1, <1>3, <2>3 DEF Info, NoInfo
  <2>7. /\ ~Ahead' /\ ~Fresh' /\ ~Pending' /\ pc' \notin {"off", "uRemove"} /\ ~Handling("uRemove")'
    BY <1>3 DEF Ahead, Fresh, FirstLabels, Pending, AtUpdate, Handling, HandleLabels, HandlerLabels,
       UpdateLabels, ModuleLabels
  <2>8. RowMemory'
    BY <1>1, <1>3, <2>1, <2>3, <2>6, <2>7 DEF RowMemory, RemovalLabels
  <2> QED
    BY <1>3, <2>5, <2>8, CleanCode DEF SwitchedLabels
<1>4. CASE MarkUninstall
  <2>1. [status |-> "UNINSTALL_BUNDLE_START", package |-> {}] \in Mark
    BY Zenon DEF Mark
  <2> QED
    BY Zenon, <1>2, <1>3, <1>4, <2>1 DEF MarkUninstall, SaveMark, Goto, op
<1>5. CASE MarkUninstallModule
  <2>0. "native" \notin Faults
    BY Zenon, <1>1, <1>5 DEF MarkUninstallModule, InstallCovered
  <2>1. pc = "umMark" /\ UNCHANGED <<old, todo>>
    BY Zenon, <1>5, <2>0 DEF MarkUninstallModule, op
  <2>2. PICK m \in todo : \/ /\ SaveMark([status |-> "UNINSTALL_PACKAGE_START", package |-> {m}])
                             /\ pc' = (IF IsOnlyModule(old, m) THEN "uErase" ELSE "umRemove")
                          \/ pc' = "finish" /\ UNCHANGED <<db, mark>>
    BY Zenon, <1>5, <2>0 DEF MarkUninstallModule, Goto
  <2>3. todo = {m} /\ m \in Modules
    BY Zenon, <2>1, <2>2 DEF InfoInv
  <2>4. [status |-> "UNINSTALL_PACKAGE_START", package |-> {m}] \in Mark
    BY <2>3 DEF Mark
  <2>5. old.mods \subseteq todo <=> IsOnlyModule(old, m)
    BY <1>1, <2>3 DEF IsOnlyModule, Info
  <2>6. CASE pc' = "finish" /\ UNCHANGED <<db, mark>>
    BY <1>2, <2>6
  <2>7. CASE /\ SaveMark([status |-> "UNINSTALL_PACKAGE_START", package |-> {m}])
             /\ pc' = (IF IsOnlyModule(old, m) THEN "uErase" ELSE "umRemove")
    BY <1>3, <2>1, <2>3, <2>4, <2>5, <2>7 DEF SaveMark
  <2> QED
    BY Zenon, <2>2, <2>6, <2>7
<1> QED
  BY Zenon, <1>4, <1>5

\* RemoveModuleInfo: the row without the module, as a reboot would have left it.
LEMMA ForgetModule ==
    ASSUME BaseInv, InfoInv, RowCode, RowMemory, InstallCovered, RemoveModuleInfo
    PROVE  RowCode' /\ RowRecord' /\ RowMemory'
<1>1. pc = "umInfo" /\ pc' = "finish" /\ dir' = dir
  BY DEF RemoveModuleInfo, Goto
<1>2. "unlist" \notin Faults /\ RowClean /\ Row = [old EXCEPT !.mods = @ \ todo]
  BY <1>1 DEF RowMemory, RowCode, RemovalLabels, InstallCovered, LooseLabels, SwitchedLabels
<1>3. db' = Row /\ mem' = db' /\ mark' = [db |-> Finished, mem |-> Finished]
  BY Zenon, <1>2 DEF RemoveModuleInfo
<1>4. RowMemory' /\ Row' = db'
  BY <1>1, <1>3, CommittedMemory
<1>5. RowClean'
  BY <1>1, <1>2, <1>3, <1>4 DEF RowClean, Holds, Empty
<1> QED
  BY <1>1, <1>4, <1>5, CleanCode DEF SwitchedLabels

\* RollBack of one module: the info in memory is already the one to restore,
\* and the row that RemoveInfo saves is the one a reboot would keep.
LEMMA RollbackRow ==
    ASSUME BaseInv, InfoInv, RowCode, RowMemory, RollBackModule
    PROVE  RowCode' /\ RowRecord' /\ RowMemory'
<1>1. /\ pc = "rollback" /\ pc' = "rollback" /\ UNCHANGED <<rec, ret, pkg, old>>
      /\ dir \in Dirs /\ {"real", "old", "moduleTmp"} \subseteq DirNames
      /\ mark = [db |-> mark.db, mem |-> mark.mem]
  BY Zenon DEF RollBackModule, BaseInv, BaseType, DirNames
<1>2. /\ Row = old /\ mem = Row /\ old \in Info /\ Kept(mem, mark.mem) = mem /\ ~Ahead
      /\ pkg.ver = old.ver => RowClean
  BY <1>1 DEF RowMemory, Ahead, Fresh, FirstLabels, Handling, HandleLabels, HandlerLabels, Pending, AtUpdate,
     RowCode, LooseLabels,
     SwitchedLabels, BaseInv, OperandInv, InfoInv
<1>3. PICK m \in todo : RollBackOldModule(m) \/ RollBackNewModule(m)
  BY DEF RollBackModule
<1>4. CASE RollBackOldModule(m)
  <2>1. UNCHANGED <<db, mark>> /\ dir' = [dir EXCEPT !["moduleTmp"] = [@ EXCEPT ![m] = 0]]
    BY <1>4 DEF RollBackOldModule
  <2>2. mem' = mem
    <3>1. mem' \in {mem, [ver |-> old.ver, mods |-> mem.mods \cup old.mods]}
      BY Zenon, <1>4 DEF RollBackOldModule
    <3>2. [ver |-> old.ver, mods |-> mem.mods \cup old.mods] = mem
      BY Zenon, <1>2 DEF Info
    <3> QED
      BY Zenon, <3>1, <3>2
  <2>3. Untouched
    BY Zenon, <1>1, <1>2, <2>1, <2>2 DEF Untouched, Pending, Ahead, Fresh, AtUpdate, Handling, UpdateLabels,
            ModuleLabels, FirstLabels, RemovalLabels, HandleLabels, HandlerLabels
  <2>4. dir'["real"] = dir["real"] /\ dir'["old"] = dir["old"]
    BY Zenon, <1>1, <2>1 DEF Dirs
  <2>5. Still
    BY <1>1, <1>2, <2>1, <2>4 DEF Still, LooseLabels, SwitchedLabels
  <2> QED
    BY Zenon, <2>3, <2>5, UntouchedMemory, StillCode
<1>5. CASE RollBackNewModule(m)
  <2>1. /\ m \notin old.mods /\ dir' = [dir EXCEPT !["real"] = [@ EXCEPT ![m] = 0]]
        /\ \/ UNCHANGED <<db, mem, mark>>
           \/ /\ db' = [mem EXCEPT !.mods = @ \ {m}] /\ mem' = [mem EXCEPT !.mods = @ \ {m}]
              /\ mark' = [mark EXCEPT !.db = mark.mem]
    BY <1>5 DEF RollBackNewModule
  <2>2. [mem EXCEPT !.mods = @ \ {m}] = mem
    BY <1>2, <2>1 DEF Info
  <2>3. /\ mem' = mem /\ mark'.mem = mark.mem /\ mark'.db \in {mark.db, mark.mem}
        /\ Row' = Row /\ db'.ver = db.ver
    <3>1. Row' = Row
      BY Zenon, <1>1, <1>2, <2>1, <2>2 DEF Row
    <3>2. db.ver = Row.ver
      BY <1>2, RowVersion DEF Info, NoInfo
    <3> QED
      BY Zenon, <1>1, <1>2, <2>1, <2>2, <3>1, <3>2
  <2>4. /\ dir'["old"] = dir["old"]
        /\ \A k \in old.mods : dir'["real"][k] = dir["real"][k]
    BY <1>1, <2>1 DEF Dirs
  <2>5. ToRestore' <=> ToRestore
    BY Zenon, <1>1, <2>3 DEF ToRestore
  <2>6. /\ RowPlaced' <=> RowPlaced
        /\ RowDisplaced' <=> RowDisplaced
        /\ RowClean' <=> RowClean
    BY Zenon, <1>2, <2>3, <2>4, <2>5 DEF RowPlaced, RowDisplaced, RowClean, Holds, Empty
  <2>7. RowCode' /\ RowRecord'
    BY Zenon, <1>1, <1>2, <2>3, <2>4, <2>6 DEF RowCode, RowRecord, LooseLabels, SwitchedLabels, Empty
  <2>8. /\ ~Ahead' /\ ~Fresh' /\ ~Handling("uRemove")' /\ pc' \notin RemovalLabels \cup {"off", "uRemove"}
    BY <1>1 DEF Ahead, Fresh, FirstLabels, Handling, HandleLabels, HandlerLabels, RemovalLabels
  <2>9. Row # NoInfo /\ Kept(mem, mark.mem)' = Kept(mem, mark.mem)
    BY <1>2, <2>3 DEF Info, NoInfo, Kept
  <2>10. RowMemory'
    BY <1>1, <1>2, <2>3, <2>8, <2>9 DEF RowMemory, RemovalLabels
  <2> QED
    BY <2>7, <2>10
<1> QED
  BY Zenon, <1>3, <1>4, <1>5

\* UninstallLowerVersionFeature changes the memory only.
LEMMA LowerMemory ==
    ASSUME BaseInv, RowMemory, UninstallLower
    PROVE  RowMemory'
<1>1. /\ pc = "lower" /\ pc' = "late" /\ UNCHANGED <<db, ret, pkg, old>> /\ mark'.db = mark.db
  BY DEF UninstallLower, Goto, op, BaseInv, BaseType
<1>2. Row' = Row
  BY <1>1, SameRow
<1>3. /\ Row = old /\ mem = Row /\ Kept(mem, mark.mem) = mem /\ ~Ahead /\ ~Fresh
  BY Zenon, <1>1 DEF RowMemory, Ahead, Fresh, FirstLabels, Handling, HandleLabels, HandlerLabels, Pending, AtUpdate,
     UpdateLabels
<1>4. ~Fresh' /\ ~Handling("uRemove")' /\ pc' \notin RemovalLabels \cup {"off", "uRemove"} /\ pc \notin RemovalLabels
  BY <1>1 DEF Fresh, FirstLabels, Handling, HandleLabels, HandlerLabels, RemovalLabels
<1>5. CASE old.mods \subseteq pkg.mods
  <2>1. mem' = mem /\ mark' = mark /\ ~Ahead'
    BY <1>1, <1>5 DEF UninstallLower, Ahead
  <2>2. Kept(mem, mark.mem)' = Kept(mem, mark.mem)
    BY <2>1 DEF Kept
  <2> QED
    BY <1>1, <1>2, <1>3, <1>4, <2>1, <2>2 DEF RowMemory, RemovalLabels
<1>6. CASE ~(old.mods \subseteq pkg.mods)
  <2>1. Ahead' /\ mark'.mem.status \in {"UPDATING_FINISH", "UPDATING_NEW_START"}
    BY <1>1, <1>6 DEF UninstallLower, Ahead, BaseInv, BaseType
  <2> QED
    BY <1>1, <1>2, <1>3, <1>4, <2>1 DEF RowMemory, RemovalLabels
<1> QED
  BY Zenon, <1>5, <1>6

\* The boot puts into memory what the row keeps.
LEMMA LoadRow ==
    ASSUME BaseInv, InfoInv, RowCode, RowRecord, RowMemory, RowPackage, InstallCovered, LoadAll \/ LoadMarked
    PROVE  RowCode' /\ RowRecord' /\ RowMemory'
<1>1. /\ pc = "off" /\ pc' = "handle" /\ UNCHANGED <<rec, ret, pkg, old>> /\ ret = "idle"
      /\ dir \in Dirs /\ {"real", "old"} \subseteq DirNames /\ mark = [db |-> mark.db, mem |-> mark.mem]
  BY Zenon DEF LoadAll, LoadMarked, Goto, op, BaseInv, BaseType, OperandInv, DirNames
<1>2. /\ ~Ahead' /\ ~Fresh' /\ ~Pending' /\ ~Handling("uRemove")' /\ pc' \notin RemovalLabels \cup {"off", "uRemove"}
      /\ ~Ahead
  BY <1>1 DEF Ahead, Fresh, Pending, AtUpdate, Handling, HandleLabels, HandlerLabels, UpdateLabels,
     ModuleLabels,
     FirstLabels, RemovalLabels
<1>3. CASE LoadAll
  <2>1. /\ db' = db /\ mark'.db = mark.db /\ mark'.mem = mark.db /\ mem' = db /\ mark.db.status = "INSTALL_FINISH"
    BY <1>1, <1>3 DEF LoadAll
  <2>2. Row' = db /\ Kept(mem, mark.mem)' = mem'
    BY <2>1 DEF Row, Kept
  <2>3. RowMemory'
    BY <1>2, <2>1, <2>2 DEF RowMemory, RemovalLabels
  <2> QED
    BY <1>3, <2>3, StillSteps
<1>4. CASE LoadMarked
  <2>1. /\ Row # NoInfo /\ mark.db.status = "UNINSTALL_PACKAGE_START"
        /\ "uninstallModule" \in Requests /\ "remove" \notin Faults
    <3>1. Row # NoInfo
      BY Zenon, <1>1, <1>4 DEF LoadMarked, RowMemory
    <3>2. mark.db.status # "UNINSTALL_BUNDLE_START"
      BY <3>1 DEF Row, Kept
    <3> QED
      BY Zenon, <1>4, <3>1, <3>2 DEF LoadMarked, RowMemory, InstallCovered
  <2>2. db \in Info /\ Row = [db EXCEPT !.mods = @ \ mark.db.package] /\ Row \in Info
    <3>1. db \in Info \cup {NoInfo} /\ Row \in Info
      BY <2>1, RowVersion DEF InfoInv
    <3>2. Row = [db EXCEPT !.mods = @ \ mark.db.package] /\ ~(db.mods \subseteq mark.db.package)
      BY <2>1 DEF Row, Kept
    <3>3. db # NoInfo
      BY <3>2 DEF NoInfo
    <3> QED
      BY Zenon, <3>1, <3>2, <3>3
  <2>3. /\ db' = db /\ mem' = Row
        /\ dir' = [dir EXCEPT !["real"] = [m \in Modules |-> IF m \in mark.db.package THEN 0 ELSE dir["real"][m]]]
        /\ mark' = [db |-> IF db' = NoInfo THEN Finished ELSE mark.db, mem |-> mark.db]
    BY Zenon, <1>4, <2>1 DEF LoadMarked, Row
  <2>4. mark'.db = mark.db /\ mark'.mem = mark.db
    BY <2>2, <2>3 DEF Info, NoInfo
  <2>5. Row' = Row
    BY Zenon, <2>3, <2>4, SameRow
  <2>6. Kept(mem, mark.mem)' = mem'
    <3>1. Row.mods \cap mark.db.package = {} /\ Row.mods # {} /\ [Row EXCEPT !.mods = @ \ mark.db.package] = Row
      BY Zenon, <2>2 DEF Info
    <3>2. Kept(Row, mark.db) = Row
      BY Zenon, <2>1, <3>1 DEF Kept
    <3> QED
      BY <2>3, <2>4, <3>2
  <2>7. RowMemory'
    BY <1>2, <2>1, <2>3, <2>4, <2>5, <2>6 DEF RowMemory, RemovalLabels
  <2>8. /\ dir'["old"] = dir["old"]
        /\ \A m \in Row.mods : dir'["real"][m] = dir["real"][m]
    BY Zenon, <1>1, <2>2, <2>3 DEF Dirs, Info
  <2>9. ToRestore' <=> ToRestore
    BY Zenon, <1>1, <2>3 DEF ToRestore
  <2>10. /\ RowPlaced' <=> RowPlaced
         /\ RowDisplaced' <=> RowDisplaced
    <3>1. Holds(dir["real"], Row)' <=> Holds(dir["real"], Row)
      BY <2>5, <2>8 DEF Holds
    <3>2. Holds(dir["old"], Row)' <=> Holds(dir["old"], Row)
      BY <2>5, <2>8 DEF Holds
    <3>3. (dir["old"] = Empty)' <=> dir["old"] = Empty
      BY Zenon, <2>8 DEF Empty
    <3> QED
      BY Zenon, <2>9, <3>1, <3>2, <3>3 DEF RowPlaced, RowDisplaced
  <2>11. RowCode' /\ RowRecord'
    BY Zenon, <1>1, <2>5, <2>8, <2>10 DEF RowCode, RowRecord, LooseLabels, SwitchedLabels, Empty
  <2> QED
    BY Zenon, <2>7, <2>11
<1> QED
  BY Zenon, <1>3, <1>4

\* A crash leaves the code of the row where the record finds it.
LEMMA CrashRow ==
    ASSUME BaseInv, InfoInv, RowCode, RowRecord, RowMemory, InstallCovered, InstallCrash
    PROVE  RowCode' /\ RowRecord' /\ RowMemory'
<1>1. /\ pc' = "off" /\ mem' = NoInfo /\ UNCHANGED <<rec, db>> /\ mark' = [mark EXCEPT !.mem = Finished]
      /\ dir \in Dirs /\ DirNames = {"real", "new", "old", "temp", "moduleTmp"}
      /\ mark = [db |-> mark.db, mem |-> mark.mem] /\ pc \in InstallLabels \ Stable
  BY DEF InstallCrash, Crash, LoseMemory, Goto, BaseInv, BaseType, DirNames
<1>2. mark'.db = mark.db /\ mark'.mem = Finished
  BY <1>1
<1>3. Row' = Row
  BY <1>1, <1>2, SameRow
<1>4. mark.db.status # "INSTALL_FINISH" => Row # NoInfo
  BY <1>1 DEF RowMemory, InstallCovered
<1>5. RowMemory'
  <2>1. /\ ~Ahead' /\ ~Fresh' /\ ~Pending' /\ ~Handling("uRemove")' /\ pc' \notin RemovalLabels \cup {"uRemove"}
    BY <1>1 DEF Ahead, Fresh, Pending, AtUpdate, Handling, HandleLabels, HandlerLabels, UpdateLabels,
       ModuleLabels,
       FirstLabels, RemovalLabels
  <2>2. Finished.status = "INSTALL_FINISH"
    BY DEF Finished
  <2> QED
    BY <1>1, <1>2, <1>3, <1>4, <2>1, <2>2 DEF RowMemory, RemovalLabels
<1>6. ToRestore' <=> ToRestore
  BY <1>1 DEF ToRestore
<1>7. SUFFICES /\ RowPlaced' \/ RowDisplaced'
               /\ rec.status \in {"none", "CREATE_NEW_DIR"} \/ Row = NoInfo => dir'["old"] = Empty
  BY Zenon, <1>1, <1>3, <1>5 DEF RowCode, RowRecord, LooseLabels, SwitchedLabels, Empty
<1>8. CASE dir'["real"] = dir["real"] /\ dir'["old"] = dir["old"]
  BY Zenon, <1>3, <1>6, <1>8 DEF RowCode, RowPlaced, RowDisplaced, Holds, Empty
<1>9. CASE RowClean /\ dir'["old"] = Empty /\ \A m \in Row.mods : dir'["real"][m] = dir["real"][m]
  BY Zenon, <1>3, <1>9 DEF RowPlaced, RowClean, Holds, Empty
<1>10. CASE RowDisplaced /\ dir'["old"] = dir["old"]
  BY Zenon, <1>3, <1>6, <1>10 DEF RowCode, RowDisplaced, Holds, Empty
<1>11. CASE Row = NoInfo /\ dir'["old"] = dir["old"]
  <2>1. dir["old"] = Empty
    BY Zenon, <1>11 DEF RowCode
  <2>2. Holds(dir["real"], Row)'
    BY Zenon, <1>3, <1>11 DEF Holds, NoInfo
  <2> QED
    BY <1>11, <2>1, <2>2 DEF RowPlaced, Empty
<1>12. CASE Crash
  <2>1. CASE dir' = dir
    BY Zenon, <1>8, <2>1
  <2>2. ASSUME NEW d \in Deleting, dir' \in Cut(d)
        PROVE  /\ RowPlaced' \/ RowDisplaced'
               /\ rec.status \in {"none", "CREATE_NEW_DIR"} \/ Row = NoInfo => dir'["old"] = Empty
    <3>1. \/ d \in {"new", "temp"}
          \/ d = "old" /\ pc \in {"realToOld", "removeOld"}
          \/ d = "real" /\ (pc = "newToReal" \/ (pc = "hRestore" /\ dir["old"] # Empty))
      BY <2>2 DEF Deleting, Exists
    <3>2. \A e \in DirNames : e # d => dir'[e] = dir[e]
      BY Zenon, <1>1, <2>2, <3>1, CutElse
    <3>3. CASE d \in {"new", "temp"}
      BY <1>1, <1>8, <3>2, <3>3
    <3>4. CASE d = "old" /\ pc \in {"realToOld", "removeOld"}
      <4>1. RowClean
        BY <3>4 DEF RowCode, LooseLabels, SwitchedLabels
      <4>2. dir'["old"] = Empty
        BY <1>1, <2>2, <3>4, <4>1, CutEmpty DEF RowClean
      <4> QED
        BY Zenon, <1>1, <1>9, <3>2, <3>4, <4>1, <4>2
    <3>5. CASE d = "real" /\ (pc = "newToReal" \/ (pc = "hRestore" /\ dir["old"] # Empty))
      <4>1. RowDisplaced
        BY Zenon, <3>5 DEF RowCode, RowRecord, SwitchedLabels, RowPlaced
      <4> QED
        BY Zenon, <1>1, <1>10, <3>2, <3>5, <4>1
    <3> QED
      BY <3>1, <3>3, <3>4, <3>5
  <2>3. ASSUME pc = "rollback", NEW m \in todo \ old.mods, dir' = [dir EXCEPT !["real"] = [@ EXCEPT ![m] = 0]]
        PROVE  /\ RowPlaced' \/ RowDisplaced'
               /\ rec.status \in {"none", "CREATE_NEW_DIR"} \/ Row = NoInfo => dir'["old"] = Empty
    <3>1. Row = old
      BY Zenon, <2>3 DEF RowMemory, Pending, AtUpdate
    <3>2. dir'["old"] = dir["old"] /\ \A k \in old.mods : dir'["real"][k] = dir["real"][k]
      BY <1>1, <2>3 DEF Dirs
    <3>3. CASE RowPlaced
      BY Zenon, <1>3, <1>6, <3>1, <3>2, <3>3 DEF RowCode, RowPlaced, Holds, Empty
    <3>4. CASE RowDisplaced
      BY Zenon, <1>10, <3>2, <3>4
    <3> QED
      BY Zenon, <3>3, <3>4 DEF RowCode
  <2> QED
    BY <1>12, <2>1, <2>2, <2>3 DEF Crash
<1>13. CASE ~Crash
  <2>1. pc # "mRename"
    BY <1>1 DEF InstallCovered
  <2>2. pc \in {"iRemove", "uRemove"} /\ dir' \in Cut("real")
    BY <1>13, <2>1 DEF InstallCrash
  <2>3. Row = NoInfo /\ dir'["old"] = dir["old"]
    BY Zenon, <1>1, <2>2, CutElse DEF RowMemory, Fresh, FirstLabels
  <2> QED
    BY <1>11, <2>3
<1> QED
  BY Zenon, <1>12, <1>13

----------------------------------------------------------------------------
\* Where the package's code is: nothing is said outside an installation.
Unpackaged ==
    /\ pc \notin (UpdateLabels \ {"skills"}) \cup ModuleLabels \cup {"iExtract", "iCommit"}
    /\ ~Handling("saveCreate")

\* There, RowPackage holds.
LEMMA UnpackagedPackage == ASSUME Unpackaged' PROVE RowPackage'
  BY Zenon DEF Unpackaged, RowPackage, UpdateLabels, ModuleLabels

\* The steps that end outside it.
LEMMA UnpackagedSteps ==
    ASSUME BaseInv,
           MarkInstallFinish \/ CommitAppSkills \/ SaveDeleteOld \/ OldToTemp \/ RemoveOld
              \/ DropRecord \/ Finish \/ RollBackModule \/ RollbackCodePath \/ LoadAll \/
              InstallCommit \/ InstallSkills \/ InstallRollback \/ InstallRemove \/
              InstallErase \/ SkillsOfModules \/ MarkUninstall \/ UninstallErase \/
              UninstallRemove \/ MarkUninstallModule \/ RemoveModuleDir \/ RemoveModuleInfo \/
              LoadMarked \/ StartUninstall \/ StartUninstallModule \/ InstallCrash
    PROVE  RowPackage'
<1>1. Unpackaged'
  <2> USE DEF Goto, Rollback, op, Unpackaged, Handling, UpdateLabels, ModuleLabels, HandleLabels, HandlerLabels
  <2>1. CASE MarkInstallFinish
    BY Zenon, <2>1 DEF MarkInstallFinish
  <2>2. CASE CommitAppSkills
    BY Zenon, <2>2 DEF CommitAppSkills
  <2>3. CASE SaveDeleteOld
    BY Zenon, <2>3 DEF SaveDeleteOld
  <2>4. CASE OldToTemp
    BY Zenon, <2>4 DEF OldToTemp
  <2>5. CASE RemoveOld
    BY <2>5 DEF RemoveOld
  <2>6. CASE DropRecord
    BY Zenon, <2>6 DEF DropRecord
  <2>7. CASE Finish
    BY Zenon, <2>7 DEF Finish, EndOperation
  <2>8. CASE RollBackModule
    BY Zenon, <2>8 DEF RollBackModule
  <2>9. CASE RollbackCodePath
    BY Zenon, <2>9 DEF RollbackCodePath
  <2>10. CASE LoadAll
    BY Zenon, <2>10 DEF LoadAll, BaseInv, OperandInv
  <2>11. CASE InstallCommit
    BY Zenon, <2>11 DEF InstallCommit
  <2>12. CASE InstallSkills
    BY Zenon, <2>12 DEF InstallSkills
  <2>13. CASE InstallRollback
    BY Zenon, <2>13 DEF InstallRollback
  <2>14. CASE InstallRemove
    BY Zenon, <2>14 DEF InstallRemove
  <2>15. CASE InstallErase
    BY Zenon, <2>15 DEF InstallErase
  <2>16. CASE SkillsOfModules
    BY Zenon, <2>16 DEF SkillsOfModules
  <2>17. CASE MarkUninstall
    BY Zenon, <2>17 DEF MarkUninstall
  <2>18. CASE UninstallErase
    BY Zenon, <2>18 DEF UninstallErase
  <2>19. CASE UninstallRemove
    BY Zenon, <2>19 DEF UninstallRemove
  <2>20. CASE MarkUninstallModule
    BY Zenon, <2>20 DEF MarkUninstallModule
  <2>21. CASE RemoveModuleDir
    BY Zenon, <2>21 DEF RemoveModuleDir
  <2>22. CASE RemoveModuleInfo
    <3>1. pc' = "finish"
      BY Zenon, <2>22 DEF RemoveModuleInfo
    <3> QED
      BY Zenon, <3>1
  <2>23. CASE LoadMarked
    <3>1. pc = "off" /\ pc' = "handle" /\ ret' = ret
      BY Zenon, <2>23 DEF LoadMarked
    <3> QED
      BY Zenon, <3>1 DEF BaseInv, OperandInv
  <2>24. CASE StartUninstall
    BY Zenon, <2>24 DEF StartUninstall, Begin
  <2>25. CASE StartUninstallModule
    BY Zenon, <2>25 DEF StartUninstallModule, Begin
  <2>26. CASE InstallCrash
    BY <2>26 DEF InstallCrash, Crash, LoseMemory
  <2> QED
    BY Zenon, <2>1, <2>2, <2>3, <2>4, <2>5, <2>6, <2>7, <2>8, <2>9, <2>10, <2>11, <2>12, <2>13, <2>14, <2>15,
       <2>16, <2>17, <2>18, <2>19, <2>20, <2>21, <2>22, <2>23, <2>24, <2>25, <2>26
<1> QED
  BY <1>1, UnpackagedPackage

\* The handling of the record before an update keeps the package.
LEMMA HandlePackage ==
    ASSUME BaseInv, RowPackage,
           Handle \/ HandleCreateNewDir \/ HandleRestore \/ HandleRestoreDrop \/
              HandleRemoveNew \/ HandleGone \/ HandleOldToTemp \/ HandleRemoveTemp \/
              HandleDrop
    PROVE  RowPackage'
<1>0. /\ ret \in {"idle", "saveCreate", "finish", "iRemove", "uRemove"}
      /\ rec \in [status : Status, ver : Nat]
  BY Operands
<1>1. pc \in HandleLabels /\ pc' \in HandleLabels \cup {ret} /\ UNCHANGED <<ret, pkg, old, todo>>
  <2> USE DEF Goto, op, HandleLabels, HandlerLabels
  <2>1. CASE Handle
    BY Zenon, <1>0, <2>1 DEF Handle, Status
  <2>2. CASE HandleCreateNewDir
    BY Zenon, <1>0, <2>2 DEF HandleCreateNewDir
  <2>3. CASE HandleRestore
    BY Zenon, <1>0, <2>3 DEF HandleRestore
  <2>4. CASE HandleRestoreDrop
    BY Zenon, <1>0, <2>4 DEF HandleRestoreDrop
  <2>5. CASE HandleRemoveNew
    BY Zenon, <1>0, <2>5 DEF HandleRemoveNew
  <2>6. CASE HandleGone
    BY Zenon, <1>0, <2>6 DEF HandleGone
  <2>7. CASE HandleOldToTemp
    BY Zenon, <1>0, <2>7 DEF HandleOldToTemp
  <2>8. CASE HandleRemoveTemp
    BY Zenon, <1>0, <2>8 DEF HandleRemoveTemp
  <2>9. CASE HandleDrop
    BY <1>0, <2>9 DEF HandleDrop
  <2> QED
    BY Zenon, <2>1, <2>2, <2>3, <2>4, <2>5, <2>6, <2>7, <2>8, <2>9
<1>2. CASE ret = "saveCreate"
  <2>1. pkg.ver # old.ver /\ todo = pkg.mods
    BY Zenon, <1>1, <1>2 DEF RowPackage, Handling
  <2> QED
    BY Zenon, <1>1, <1>2, <2>1 DEF RowPackage, Handling, HandleLabels, HandlerLabels, UpdateLabels,
       ModuleLabels
<1>3. CASE ret # "saveCreate"
  <2>1. Unpackaged'
    BY Zenon, <1>0, <1>1, <1>3 DEF Unpackaged, Handling, HandleLabels, HandlerLabels, UpdateLabels,
       ModuleLabels
  <2> QED
    BY Zenon, <2>1, UnpackagedPackage
<1> QED
  BY Zenon, <1>2, <1>3

\* The beginnings of an installation.
LEMMA StartPackage ==
    ASSUME InfoInv, StartUpdate \/ StartModules \/ StartInstall
    PROVE  RowPackage'
<1>0. mem.ver \in Nat /\ \A p \in Packages : p.ver \in Nat
  BY Zenon, UpdateAssumption, InfoFields DEF InfoInv
<1>1. \/ Unpackaged'
      \/ pc' = "handle" /\ ret' = "saveCreate" /\ pkg'.ver # old'.ver /\ todo' = pkg'.mods
      \/ pc' = "mExtract" /\ pkg'.ver = old'.ver /\ todo' = pkg'.mods
      \/ pc' = "iExtract" /\ todo' = pkg'.mods
  <2> USE DEF Goto, Begin, Unpackaged, Handling, UpdateLabels, ModuleLabels, HandleLabels, HandlerLabels
  <2>1. CASE StartUpdate
    BY <1>0, <2>1 DEF StartUpdate, NeedsBundleUpdate
  <2>2. CASE StartModules
    BY Zenon, <2>2 DEF StartModules
  <2>3. CASE StartInstall
    BY <2>3 DEF StartInstall
  <2> QED
    BY Zenon, <2>1, <2>2, <2>3
<1>2. CASE Unpackaged'
  BY Zenon, <1>2, UnpackagedPackage
<1>3. CASE pc' = "handle" /\ ret' = "saveCreate" /\ pkg'.ver # old'.ver /\ todo' = pkg'.mods
  BY Zenon, <1>3 DEF RowPackage, UpdateLabels, ModuleLabels
<1>4. CASE pc' = "mExtract" /\ pkg'.ver = old'.ver /\ todo' = pkg'.mods
  BY Zenon, <1>4 DEF RowPackage, UpdateLabels, ModuleLabels, Handling, HandleLabels, HandlerLabels
<1>5. CASE pc' = "iExtract" /\ todo' = pkg'.mods
  BY Zenon, <1>5 DEF RowPackage, UpdateLabels, ModuleLabels, Handling, HandleLabels, HandlerLabels
<1> QED
  BY Zenon, <1>1, <1>2, <1>3, <1>4, <1>5

\* The steps of an installation that leave its directories alone.
LEMMA SamePackage ==
    ASSUME RowPackage,
           SaveCreate \/ Prepare \/ SaveRealToOld \/ SaveNewToReal \/ UninstallLower \/ LateSteps \/
              InstallPrepare \/ PrepareModules \/ LateModules \/ CommitModules
    PROVE  RowPackage'
<1>1. CASE pc' = "rollback" \/ pc' = "iRollback"
  <2>1. Unpackaged'
    BY <1>1 DEF Unpackaged, UpdateLabels, ModuleLabels, Handling, HandleLabels, HandlerLabels
  <2> QED
    BY <2>1, UnpackagedPackage
<1>2. CASE ~(pc' = "rollback" \/ pc' = "iRollback")
  <2>0. UNCHANGED <<dir, pkg, old, ret>>
    BY <1>2 DEF SaveCreate, Prepare, SaveRealToOld, SaveNewToReal, UninstallLower, LateSteps, InstallPrepare,
       PrepareModules, LateModules, CommitModules, Rollback, Goto, op
  <2> USE DEF Goto, Rollback, op, RowPackage, UpdateLabels, ModuleLabels, Handling, HandleLabels, HandlerLabels
  <2>1. CASE SaveCreate
    BY Zenon, <2>0, <2>1 DEF SaveCreate
  <2>2. CASE Prepare
    BY Zenon, <1>2, <2>0, <2>2 DEF Prepare, Holds
  <2>3. CASE SaveRealToOld
    BY Zenon, <1>2, <2>0, <2>3 DEF SaveRealToOld, Holds
  <2>4. CASE SaveNewToReal
    BY Zenon, <1>2, <2>0, <2>4 DEF SaveNewToReal, Holds
  <2>5. CASE UninstallLower
    BY <2>0, <2>5 DEF UninstallLower, Holds
  <2>6. CASE LateSteps
    BY Zenon, <1>2, <2>0, <2>6 DEF LateSteps, Holds
  <2>7. CASE InstallPrepare
    BY Zenon, <1>2, <2>0, <2>7 DEF InstallPrepare, Holds
  <2>8. CASE PrepareModules
    BY Zenon, <1>2, <2>0, <2>8 DEF PrepareModules, ModuleDir
  <2>9. CASE LateModules
    BY Zenon, <1>2, <2>0, <2>9 DEF LateModules
  <2>10. CASE CommitModules
    BY <1>2, <2>0, <2>10 DEF CommitModules
  <2> QED
    BY Zenon, <2>1, <2>2, <2>3, <2>4, <2>5, <2>6, <2>7, <2>8, <2>9, <2>10
<1> QED
  BY Zenon, <1>1, <1>2

\* The extractions and the renames.
LEMMA CodePackage ==
    ASSUME BaseInv, InfoInv, RowPackage, RowCode, RowMemory, InstallCovered,
           ExtractModule \/ RealToOld \/ NewToReal \/ InstallModule \/ ExtractBeside \/ RenameModuleDir
    PROVE  RowPackage'
<1>0. /\ dir \in Dirs /\ DirNames = {"real", "new", "old", "temp", "moduleTmp"}
      /\ todo \subseteq Modules /\ pkg.mods \subseteq Modules
  BY Operands DEF BaseInv, BaseType, DirNames
<1>1. CASE pc' = "rollback" \/ pc' = "iRollback"
  <2>1. Unpackaged'
    BY <1>1 DEF Unpackaged, UpdateLabels, ModuleLabels, Handling, HandleLabels, HandlerLabels
  <2> QED
    BY <2>1, UnpackagedPackage
<1>2. CASE ~(pc' = "rollback" \/ pc' = "iRollback")
  <2>0. UNCHANGED <<pkg, old, ret>>
    BY Zenon, <1>2 DEF ExtractModule, RealToOld, NewToReal, InstallModule, ExtractBeside,
       RenameModuleDir, Rollback, Goto, op
  <2> USE DEF UpdateLabels, ModuleLabels, Handling, HandleLabels, HandlerLabels
  <2>1. CASE ExtractModule
    <3>1. PICK m \in todo : /\ dir' = [dir EXCEPT !["new"] = [@ EXCEPT ![m] = pkg.ver]]
                            /\ todo' = todo \ {m} /\ pc = "extract" /\ pc' = "extract"
      BY Zenon, <1>2, <2>1 DEF ExtractModule, Rollback
    <3>2. \A k \in pkg.mods \ todo' : dir'["new"][k] = pkg.ver
      BY Zenon, <1>0, <3>1 DEF Dirs, RowPackage
    <3> QED
      BY Zenon, <2>0, <3>1, <3>2 DEF RowPackage
  <2>2. CASE RealToOld
    <3>1. /\ pc = "realToOld" /\ pc' = "saveNewToReal"
          /\ RenameOk("real", "old") \/ RenameFails("real", "old", "rename")
      BY Zenon, <1>2, <2>2 DEF RealToOld, Rollback, Goto
    <3>2. dir'["new"] = dir["new"]
      BY <1>0, <3>1 DEF RenameOk, RenameFails, Dirs, InstallCovered
    <3> QED
      BY Zenon, <2>0, <3>1, <3>2 DEF RowPackage, Holds
  <2>3. CASE NewToReal
    <3>1. pc = "newToReal" /\ pc' = "lower" /\ RenameOk("new", "real")
      BY Zenon, <1>2, <2>3 DEF NewToReal, Rollback, Goto
    <3>2. Holds(dir["new"], pkg) /\ pkg \in Info
      BY Zenon, <3>1, UpdateAssumption DEF RowPackage, BaseInv, OperandInv, AtUpdate
    <3>3. PICK m \in pkg.mods : dir["new"][m] = pkg.ver
      BY Zenon, <3>2 DEF Holds, Info
    <3>4. dir["new"] # Empty
      BY Zenon, <1>0, <3>2, <3>3 DEF Empty, Info
    <3>5. dir'["real"] = dir["new"]
      BY Zenon, <1>0, <3>1, <3>4 DEF RenameOk, Exists, Dirs
    <3> QED
      BY Zenon, <2>0, <3>1, <3>2, <3>5 DEF RowPackage, Holds
  <2>4. CASE InstallModule
    <3>1. PICK m \in todo : /\ dir' = [dir EXCEPT !["real"] = [@ EXCEPT ![m] = pkg.ver]]
                            /\ todo' = todo \ {m} /\ pc = "iExtract" /\ pc' = "iExtract"
      BY Zenon, <1>2, <2>4 DEF InstallModule, Goto
    <3>2. \A k \in pkg.mods \ todo' : dir'["real"][k] = pkg.ver
      BY Zenon, <1>0, <3>1 DEF Dirs, RowPackage
    <3> QED
      BY Zenon, <2>0, <3>1, <3>2 DEF RowPackage
  <2>5. CASE ExtractBeside
    <3>1. PICK m \in todo : /\ dir' = [dir EXCEPT ![ModuleDir(m)] = [@ EXCEPT ![m] = pkg.ver]]
                            /\ todo' = todo \ {m} /\ pc = "mExtract" /\ pc' = "mExtract"
      BY Zenon, <1>2, <2>5 DEF ExtractBeside, Rollback
    <3>2. \A k \in Modules : ModuleDir(k)' = ModuleDir(k) /\ ModuleDir(k) \in {"moduleTmp", "real"}
      BY Zenon, <2>0 DEF ModuleDir
    <3>3. \A k \in pkg.mods \ todo' : dir'[ModuleDir(k)][k] = pkg.ver
      <4> SUFFICES ASSUME NEW k \in pkg.mods \ todo' PROVE dir'[ModuleDir(k)][k] = pkg.ver
        OBVIOUS
      <4>1. CASE k = m
        BY Zenon, <1>0, <3>1, <3>2, <4>1 DEF Dirs
      <4>2. CASE k # m
        <5>1. dir[ModuleDir(k)][k] = pkg.ver
          BY Zenon, <3>1, <4>2 DEF RowPackage
        <5>2. dir'[ModuleDir(k)][k] = dir[ModuleDir(k)][k]
          BY Zenon, <1>0, <3>1, <3>2, <4>2 DEF Dirs
        <5> QED
          BY Zenon, <5>1, <5>2
      <4> QED
        BY Zenon, <4>1, <4>2
    <3>4. \A k \in pkg.mods \ todo' : dir'[ModuleDir(k)'][k] = pkg.ver
      <4>1. \A k : ModuleDir(k)' = ModuleDir(k)
        BY Zenon, <2>0 DEF ModuleDir
      <4> QED
        BY Zenon, <3>3, <4>1
    <3>5. pkg.ver = old.ver
      BY <3>1 DEF RowPackage
    <3> QED
      BY Zenon, <2>0, <3>1, <3>4, <3>5 DEF RowPackage
  <2>6. CASE RenameModuleDir
    <3>1. PICK m \in todo : /\ dir' = [dir EXCEPT !["real"] = [@ EXCEPT ![m] = dir["moduleTmp"][m]],
                                                  !["moduleTmp"] = [@ EXCEPT ![m] = 0]]
                            /\ todo' = todo \ {m} /\ pc = "mRename" /\ pc' = "mRename"
      BY Zenon, <1>2, <2>6 DEF RenameModuleDir, Rollback
    <3>2. /\ \A k \in Modules \ {m} : dir'["real"][k] = dir["real"][k] /\ dir'["moduleTmp"][k] = dir["moduleTmp"][k]
      BY Zenon, <1>0, <3>1 DEF Dirs
    <3>3. m \in old.mods /\ pkg.ver = old.ver
      BY Zenon, <3>1 DEF RowPackage
    <3>4. /\ \A k \in todo' : k \in old.mods /\ dir'["moduleTmp"][k] = pkg.ver
          /\ \A k \in pkg.mods \ old.mods : dir'["real"][k] = pkg.ver
      BY Zenon, <1>0, <3>1, <3>2, <3>3 DEF RowPackage
    <3> QED
      BY Zenon, <2>0, <3>1, <3>3, <3>4 DEF RowPackage
  <2> QED
    BY <2>1, <2>2, <2>3, <2>4, <2>5, <2>6
<1> QED
  BY Zenon, <1>1, <1>2

----------------------------------------------------------------------------
\* The steps of an update and of a recovery that do not write the row.
LEMMA QuietRow ==
    ASSUME RowInv, InstallCovered,
           SaveCreate \/ Prepare \/ SaveRealToOld \/ SaveNewToReal \/ LateSteps \/ CommitAppSkills \/ SaveDeleteOld \/
              DropRecord \/ RollbackCodePath \/ Handle \/ HandleRestoreDrop \/ HandleDrop \/ RealToOld \/ NewToReal \/
              OldToTemp \/ HandleCreateNewDir \/ HandleRestore \/ HandleRemoveNew \/ HandleGone \/ HandleOldToTemp \/
              HandleRemoveTemp \/ RemoveOld \/ ExtractModule \/ StartUpdate \/ Finish
    PROVE  RowCode' /\ RowRecord' /\ RowMemory' /\ RowPackage'
<1>0. BaseInv /\ InfoInv /\ RowCode /\ RowRecord /\ RowMemory /\ RowPackage
  BY DEF RowInv, TypeInv
<1>1. RowMemory'
  BY Zenon, <1>0, UntouchedSteps, UntouchedMemory
<1>2. RowCode' /\ RowRecord'
  BY Zenon, <1>0, CleanSteps, RemovalSteps, HandleCode, StillSteps, SaveCode, RenameCode
<1>3. RowPackage'
  BY Zenon, <1>0, UnpackagedSteps, HandlePackage, StartPackage, SamePackage, CodePackage
<1> QED
  BY <1>1, <1>2, <1>3

\* The other operations: the steps that do not write the row.
LEMMA QuietInstallRow ==
    ASSUME RowInv, InstallCovered,
           InstallSkills \/ InstallRollback \/ PrepareModules \/ LateModules \/ SkillsOfModules \/ InstallRemove \/
              UninstallRemove \/ RenameModuleDir \/ RemoveModuleDir \/ ExtractBeside \/ StartInstall \/
                 StartModules \/
              StartUninstall \/ StartUninstallModule \/ InstallModule \/ InstallPrepare
    PROVE  RowCode' /\ RowRecord' /\ RowMemory' /\ RowPackage'
<1>0. BaseInv /\ InfoInv /\ RowCode /\ RowRecord /\ RowMemory /\ RowPackage
  BY DEF RowInv, TypeInv
<1>1. RowMemory'
  BY Zenon, <1>0, UntouchedSteps, UntouchedMemory
<1>2. RowCode' /\ RowRecord'
  BY Zenon, <1>0, CleanSteps, ModuleCode
<1>3. RowPackage'
  BY Zenon, <1>0, UnpackagedSteps, StartPackage, SamePackage, CodePackage
<1> QED
  BY Zenon, <1>1, <1>2, <1>3

\* The steps that write the row or the info in memory.
LEMMA WritingRow ==
    ASSUME RowInv, InstallCovered,
           UninstallLower \/ MarkInstallFinish \/ CommitModules \/ InstallCommit \/ InstallErase \/ UninstallErase \/
              MarkUninstall \/ MarkUninstallModule \/ RemoveModuleInfo \/ RollBackModule \/ LoadAll \/ LoadMarked \/
              InstallCrash
    PROVE  RowCode' /\ RowRecord' /\ RowMemory' /\ RowPackage'
<1>0. BaseInv /\ InfoInv /\ RowCode /\ RowRecord /\ RowMemory /\ RowPackage
  BY Zenon DEF RowInv, TypeInv
<1>1. RowCode' /\ RowRecord' /\ RowMemory'
  BY Zenon, <1>0, StillSteps, LowerMemory, CommitUpdate, CommitAdded, CommitFirst, EraseRow, MarkRow,
     ForgetModule,
     RollbackRow, LoadRow, CrashRow
<1>2. RowPackage'
  BY Zenon, <1>0, UnpackagedSteps, SamePackage
<1> QED
  BY <1>1, <1>2

\* Every step keeps the invariant.
LEMMA NextRow ==
    ASSUME RowInv, InstallCovered, [InstallNext]_vars
    PROVE  RowInv'
<1>1. TypeInv'
  <2>1. TypeCovered
    BY Zenon DEF InstallCovered, TypeCovered
  <2> QED
    BY <2>1, NextType DEF RowInv
<1>2. RowCode' /\ RowRecord' /\ RowMemory' /\ RowPackage'
  <2>1. CASE UNCHANGED vars
    <3>0. /\ UNCHANGED <<dir, rec, db, mem, mark, state, pc, ret, pkg, old, todo>>
          /\ RowPackage /\ RowMemory
      BY Zenon, <2>1 DEF vars, op, RowInv
    <3>1. RowPackage'
      <4>1. /\ \A m : ModuleDir(m)' = ModuleDir(m)
            /\ Handling("saveCreate")' <=> Handling("saveCreate")
        BY Zenon, <3>0 DEF ModuleDir, Handling
      <4>2. /\ Holds(dir["new"], pkg)' <=> Holds(dir["new"], pkg)
            /\ Holds(dir["real"], pkg)' <=> Holds(dir["real"], pkg)
        BY Zenon, <3>0 DEF Holds
      <4>3. /\ pc' = "extract" => \A m \in pkg'.mods \ todo' : dir'["new"][m] = pkg'.ver
            /\ pc' = "mExtract" => \A m \in pkg'.mods \ todo' : dir'[ModuleDir(m)'][m] = pkg'.ver
        BY Zenon, <3>0, <4>1 DEF RowPackage
      <4>4. /\ pc' = "mRename" => \A m \in todo' : m \in old'.mods /\ dir'["moduleTmp"][m] = pkg'.ver
            /\ pc' \in {"mRename", "mCommit"} => \A m \in pkg'.mods \ old'.mods : dir'["real"][m] = pkg'.ver
            /\ pc' = "iExtract" => \A m \in pkg'.mods \ todo' : dir'["real"][m] = pkg'.ver
        BY Zenon, <3>0 DEF RowPackage
      <4> QED
        BY Zenon, <3>0, <4>1, <4>2, <4>3, <4>4 DEF RowPackage
    <3>2. RowMemory'
      <4>1. /\ Row' = Row /\ Kept(mem, mark.mem)' = Kept(mem, mark.mem)
        BY Zenon, <3>0 DEF Row, Kept
      <4>2. /\ Ahead' <=> Ahead
            /\ Fresh' <=> Fresh
            /\ Pending' <=> Pending
            /\ Handling("uRemove")' <=> Handling("uRemove")
        BY Zenon, <3>0 DEF Ahead, Fresh, Pending, AtUpdate, Handling
      <4> QED
        BY Zenon, <3>0, <4>1, <4>2 DEF RowMemory
    <3>3. Still
      BY Zenon, <2>1 DEF vars, RowInv, RowCode, RowRecord, Still
    <3>4. RowCode' /\ RowRecord'
      BY Zenon, <3>3, StillCode DEF RowInv
    <3> QED
      BY Zenon, <3>1, <3>2, <3>4
  <2>2. CASE InstallNext
    BY Zenon, <2>2, QuietRow, QuietInstallRow, WritingRow
       DEF InstallNext, Request, Step, UpdateStep, HandleStep, InstallStep
  <2> QED
    BY Zenon, <2>1, <2>2
<1> QED
  BY <1>1, <1>2 DEF RowInv

\* The initial states.
LEMMA InitRow == InstallInit => RowInv
<1> SUFFICES ASSUME InstallInit PROVE RowInv
  OBVIOUS
<1>1. /\ mem = db /\ rec = NoRecord /\ mark = [db |-> Finished, mem |-> Finished] /\ pc = "idle"
      /\ dir["old"] = Empty /\ Holds(dir["real"], db)
  <2>1. CASE Init
    <3>1. db.mods \subseteq Modules
      BY Zenon, <2>1, UpdateAssumption DEF Init, Info
    <3> QED
      BY Zenon, <2>1, <3>1 DEF Init, DirNames, Holds, CodeOf
  <2>2. CASE ~Init
    <3>1. /\ db = NoInfo /\ mem = NoInfo /\ dir = [d \in DirNames |-> Empty] /\ rec = NoRecord
          /\ mark = [db |-> Finished, mem |-> Finished] /\ pc = "idle"
      BY Zenon, <2>2 DEF InstallInit
    <3>2. dir["old"] = Empty
      BY Zenon, <3>1 DEF DirNames
    <3>3. Holds(dir["real"], NoInfo)
      BY Zenon DEF Holds, NoInfo
    <3> QED
      BY Zenon, <3>1, <3>2, <3>3
  <2> QED
    BY Zenon, <2>1, <2>2
<1>2. Row = db /\ Kept(mem, mark.mem) = mem
  BY Zenon, <1>1 DEF Row, Kept, Finished
<1>3. RowClean
  BY Zenon, <1>1, <1>2 DEF RowClean
<1>4. RowCode /\ RowRecord
  BY Zenon, <1>1, <1>3 DEF RowCode, RowRecord, RowClean, RowPlaced, SwitchedLabels
<1>5. RowMemory
  BY Zenon, <1>1, <1>2 DEF RowMemory, Ahead, Fresh, FirstLabels, Pending, AtUpdate, UpdateLabels,
     ModuleLabels, Handling,
     HandleLabels, HandlerLabels, RemovalLabels, Finished
<1>6. RowPackage
  BY Zenon, <1>1 DEF RowPackage, UpdateLabels, ModuleLabels, Handling, HandleLabels, HandlerLabels
<1> QED
  BY <1>4, <1>5, <1>6, InitType DEF RowInv

\* In every behaviour with the covered faults and crashes.
THEOREM RowInvariant == ASSUME InstallCovered PROVE InstallSpec => []RowInv
<1>1. RowInv /\ [InstallNext]_vars => RowInv'
  BY NextRow
<1> QED
  BY InitRow, <1>1, PTL DEF InstallSpec

\* At every instant of every operation, the code that a reboot would leave is
\* complete and of the version the row says, for every module that the boot-time
\* handler keeps: for every set of modules and packages and every sequence of
\* requests, with the faults and crashes of InstallCovered.
THEOREM RowStaysRecoverable == ASSUME InstallCovered PROVE InstallSpec => []RowRecoverable
<1>1. RowInv => RowRecoverable
  <2> SUFFICES ASSUME RowInv PROVE Holds(Surviving, Row)
    BY DEF RowRecoverable, Row
  <2>1. CASE Row = NoInfo
    BY Zenon, <2>1, NoRowCode
  <2>2. CASE Row # NoInfo
    <3>1. Holds(dir["old"], Row) => dir["old"] # Empty
      BY Zenon, <2>2, RowCodeExists DEF RowInv, TypeInv
    <3> QED
      BY Zenon, <3>1 DEF RowInv, RowCode, RowPlaced, RowDisplaced, Surviving, Exists
  <2> QED
    BY <2>1, <2>2
<1> QED
  BY RowInvariant, <1>1, PTL

\* Whenever no operation runs, the bundle in memory is the one a reboot would
\* load, and its code is in place.
THEOREM MemoryAgreesWhenIdle == ASSUME InstallCovered PROVE InstallSpec => []IdleAgrees
<1>1. RowInv => IdleAgrees
  BY DEF RowInv, RowMemory, RowCode, RowClean, Row, Ahead, Fresh, FirstLabels, Handling, HandleLabels,
     HandlerLabels,
     LooseLabels, SwitchedLabels, IdleAgrees
<1> QED
  BY RowInvariant, <1>1, PTL
=============================================================================
