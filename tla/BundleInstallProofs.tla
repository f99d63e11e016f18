------------------------ MODULE BundleInstallProofs ------------------------
(***************************************************************************)
(* Proofs about all operations on a bundle, for every set of modules and   *)
(* packages: that installStates_ is settled whenever no operation runs,    *)
(* whatever fails and wherever the service crashes; that every piece of    *)
(* state has its type; and that, without crashes, no code is left of a     *)
(* bundle that is gone.                                                    *)
(***************************************************************************)
EXTENDS BundleInstall, TLAPS

Dirs == [DirNames -> [Modules -> Nat]]

\* An info that may have lost its modules, or none.
Bundle == [ver : Nat \ {0}, mods : SUBSET Modules] \cup {NoInfo}

HandleLabels == HandlerLabels \cup {"hGone"}
UpdateLabels == {"saveCreate", "extract", "saveRealToOld", "realToOld",
                 "saveNewToReal", "newToReal", "lower", "late", "commit", "skills"}
ModuleLabels == {"mExtract", "mRename", "mCommit", "mSkills"}
FirstLabels == {"iExtract", "iCommit", "iSkills", "iRollback", "iRemove", "iErase"}
RemovalLabels == {"uMark", "uErase", "umMark", "umRemove", "umInfo"}

\* Where an operation is, the handling of a record on its behalf included.
Handling(l) == pc \in HandleLabels /\ ret = l
AtUpdate == pc \in UpdateLabels \cup ModuleLabels \cup {"rollback"} \/ Handling("saveCreate")
AtFirst == pc \in FirstLabels \/ Handling("iRemove")
AtRest == pc = "idle" \/ Handling("idle")

\* The states of a bundle in memory, and of a first installation.
Busy == {"INSTALL_START", "INSTALL_SUCCESS", "UPDATING_START", "UPDATING_SUCCESS",
         "UNINSTALL_START", "ROLL_BACK"}
Installing == {"INSTALL_START", "UPDATING_START", "UPDATING_SUCCESS"}

BaseType ==
    /\ dir \in Dirs
    /\ rec \in [status : Status, ver : Nat]
    /\ db \in Bundle /\ mem \in Bundle /\ old \in Bundle
    /\ mark \in [db : Mark, mem : Mark]
    /\ pc \in InstallLabels
    /\ ret \in {"idle", "saveCreate", "finish", "iRemove", "uRemove"}
    /\ pkg \in Packages \cup {NoInfo} /\ todo \in SUBSET Modules

\* An uninstallation may end without a state of its own.
MayStick == {"info", "native"} \cap Faults # {}

\* A bundle in memory has an entry in installStates_, one that is not has none,
\* but for a first installation before its commit and after its failure.
StateInv ==
    /\ pc = "off" => mem = NoInfo
    /\ mem # NoInfo => state \in Busy
    /\ mem = NoInfo => state = "absent" \/ (AtFirst /\ state \in Installing)
    /\ AtFirst => state \in Installing \cup {"absent"}
    /\ pc \in RemovalLabels => state = "UNINSTALL_START"
    /\ AtRest /\ mem # NoInfo =>
          state = "INSTALL_SUCCESS" \/ (MayStick /\ state = "UNINSTALL_START")

\* Which operations have a package, an old version and an info in memory.
OperandInv ==
    /\ mark.db.status # "INSTALL_FINISH" => db # NoInfo
    /\ AtUpdate => pkg \in Packages /\ old # NoInfo /\ mem # NoInfo
    /\ pc \in RemovalLabels => old # NoInfo /\ mem # NoInfo
    /\ AtFirst => pkg \in Packages
    /\ pc \in {"iExtract", "iCommit"} => mem = NoInfo
    /\ pc = "iExtract" => todo \subseteq pkg.mods /\ (todo = pkg.mods \/ state # "absent")
    /\ pc = "iCommit" => state # "absent"
    /\ pc = "iSkills" => mem # NoInfo
    /\ pc = "off" => ret = "idle"

BaseInv == BaseType /\ StateInv /\ OperandInv

----------------------------------------------------------------------------
\* Directories.

\* Writing one module's directory.
LEMMA PutType ==
    ASSUME dir \in Dirs, NEW d \in DirNames, NEW m \in Modules, NEW v \in Nat
    PROVE  [dir EXCEPT ![d] = [@ EXCEPT ![m] = v]] \in Dirs
  BY DEF Dirs

\* Replacing a directory.
LEMMA SetType ==
    ASSUME dir \in Dirs, NEW d \in DirNames, NEW c \in [Modules -> Nat]
    PROVE  [dir EXCEPT ![d] = c] \in Dirs
  BY DEF Dirs

\* What an interrupted deletion leaves.
LEMMA CutType ==
    ASSUME dir \in Dirs, NEW d \in DirNames, dir' \in Cut(d)
    PROVE  dir' \in Dirs
<1>1. Remnants(dir[d]) \subseteq [Modules -> Nat]
  BY DEF Dirs, Remnants
<1>2. PICK c \in Remnants(dir[d]) : dir' = [dir EXCEPT ![d] = c]
  BY DEF Cut
<1> QED
  BY Zenon, <1>1, <1>2, SetType

\* A rename or a removal, however it ends.
LEMMA MoveType ==
    ASSUME dir \in Dirs, NEW s \in DirNames, NEW d \in DirNames, NEW f,
           RenameOk(s, d) \/ RenameFails(s, d, f) \/ RemoveOk(d) \/ RemoveFails(d)
    PROVE  dir' \in Dirs
<1>1. Empty \in [Modules -> Nat] /\ dir[s] \in [Modules -> Nat]
  BY DEF Empty, Dirs
<1>2. CASE dir' = [dir EXCEPT ![d] = dir[s], ![s] = Empty]
  BY <1>1, <1>2 DEF Dirs
<1>3. CASE dir' = [dir EXCEPT ![d] = Empty]
  BY Zenon, <1>1, <1>3, SetType
<1>4. CASE dir' \in Cut(d)
  BY <1>4, CutType
<1> QED
  BY <1>2, <1>3, <1>4 DEF RenameOk, RenameFails, RemoveOk, RemoveFails

\* A removal touches one directory.
LEMMA CutElse ==
    ASSUME dir \in Dirs, NEW d \in DirNames, NEW e \in DirNames, d # e, dir' \in Cut(d)
    PROVE  dir'[e] = dir[e]
  BY DEF Cut, Dirs

\* So does a removal that may fail.
LEMMA RemoveElse ==
    ASSUME dir \in Dirs, NEW d \in DirNames, NEW e \in DirNames, d # e, RemoveOk(d) \/ RemoveFails(d)
    PROVE  dir'[e] = dir[e]
<1>1. CASE RemoveOk(d)
  BY <1>1 DEF RemoveOk, Dirs
<1> QED
  BY Zenon, <1>1, CutElse DEF RemoveFails

\* What an interrupted deletion leaves of a directory that is not there.
LEMMA CutEmpty ==
    ASSUME dir \in Dirs, NEW d \in DirNames, dir[d] = Empty, dir' \in Cut(d)
    PROVE  dir'[d] = Empty
<1>1. Remnants(dir[d]) = {Empty}
  BY DEF Remnants, Empty
<1> QED
  BY <1>1 DEF Cut, Dirs

----------------------------------------------------------------------------
\* What UpdateBundleInstallState makes of the states that occur.
LEMMA StateTable ==
    /\ \A s \in Busy : /\ StateAfter(s, "INSTALL_SUCCESS") = "INSTALL_SUCCESS"
                       /\ StateAfter(s, "ROLL_BACK") \in Busy
                       /\ StateAfter(s, "UNINSTALL_START") \in Busy
    /\ \A s \in Installing : /\ Accepts(s, "UPDATING_FAIL")
                             /\ StateAfter(s, "UPDATING_FAIL") = "absent"
                             /\ ~Accepts(s, "INSTALL_START")
    /\ StateAfter("UNINSTALL_START", "UNINSTALL_SUCCESS") = "absent"
    /\ StateAfter("absent", "INSTALL_SUCCESS") = "absent"
    /\ ~Accepts("absent", "UPDATING_FAIL") /\ ~Accepts("absent", "UPDATING_START")
  BY DEF Busy, Installing, StateAfter, Accepts, transferStates_, IsDeleteDataState

----------------------------------------------------------------------------
\* Steps that leave the row, the memory and the state alone.
Quiet ==
    /\ UNCHANGED <<db, mem, mark, state, pkg, old>>
    /\ rec' \in [status : Status, ver : Nat] /\ todo' \in SUBSET Modules
    /\ pc' \in InstallLabels \ {"off", "iExtract", "iCommit", "iSkills"}
    /\ ret' \in {"idle", "saveCreate", "finish", "iRemove", "uRemove"}
    /\ AtUpdate' => AtUpdate
    /\ AtFirst' => AtFirst
    /\ AtFirst => AtFirst' \/ mem # NoInfo
    /\ AtRest' => AtRest
    /\ pc' \in RemovalLabels => pc \in RemovalLabels

\* They keep the invariant.
LEMMA QuietBase ==
    ASSUME BaseInv, Quiet, dir' \in Dirs
    PROVE  BaseInv'
<1>1. BaseType'
  BY DEF BaseInv, BaseType, Quiet
<1>2. StateInv'
  BY DEF BaseInv, StateInv, Quiet
<1>3. OperandInv'
  BY DEF BaseInv, OperandInv, Quiet
<1> QED
  BY <1>1, <1>2, <1>3 DEF BaseInv

\* The type of the directories, when they do not change.
LEMMA DirsKept ==
    ASSUME BaseInv, dir' = dir
    PROVE  dir' \in Dirs
  BY DEF BaseInv, BaseType

\* The modules of the package and the version of the old info.
LEMMA Operands ==
    ASSUME BaseInv
    PROVE  /\ pkg.mods \in SUBSET Modules /\ old.ver \in Nat /\ pkg.ver \in Nat
           /\ rec \in [status : Status, ver : Nat] /\ todo \in SUBSET Modules
           /\ ret \in {"idle", "saveCreate", "finish", "iRemove", "uRemove"}
  BY UpdateAssumption DEF BaseInv, BaseType, Bundle, Info, NoInfo

\* The steps that leave the directories alone too.
LEMMA QuietSteps ==
    ASSUME BaseInv,
           SaveCreate \/ Prepare \/ SaveRealToOld \/ SaveNewToReal \/ LateSteps \/
              CommitAppSkills \/ SaveDeleteOld \/ DropRecord \/ RollbackCodePath \/
              Handle \/ HandleRestoreDrop \/ HandleDrop \/ InstallSkills \/
              InstallRollback \/ PrepareModules \/ LateModules \/ SkillsOfModules
    PROVE  Quiet /\ dir' = dir
<1> USE Operands DEF Quiet,
      AtUpdate, AtFirst, AtRest, Handling, UpdateLabels, ModuleLabels, FirstLabels,
         RemovalLabels, HandleLabels, HandlerLabels, InstallLabels, Labels, Status,
         Goto, op
<1>1. CASE SaveCreate
  BY <1>1 DEF SaveCreate, Save, SaveFails
<1>2. CASE Prepare
  BY <1>2 DEF Prepare, Rollback
<1>3. CASE SaveRealToOld
  BY <1>3 DEF SaveRealToOld, Save, SaveFails, Rollback
<1>4. CASE SaveNewToReal
  BY <1>4 DEF SaveNewToReal, Save, SaveFails, Rollback
<1>5. CASE LateSteps
  BY <1>5 DEF LateSteps, Rollback
<1>6. CASE CommitAppSkills
  BY <1>6 DEF CommitAppSkills, Rollback
<1>7. CASE SaveDeleteOld
  BY <1>7 DEF SaveDeleteOld, Save, SaveFails
<1>8. CASE DropRecord
  BY <1>8 DEF DropRecord, DeleteRecord, NoRecord
<1>9. CASE RollbackCodePath
  BY <1>9 DEF RollbackCodePath
<1>10. CASE Handle
  BY <1>10 DEF Handle
<1>11. CASE HandleRestoreDrop
  BY <1>11 DEF HandleRestoreDrop, DeleteRecord, NoRecord
<1>12. CASE HandleDrop
  BY <1>12 DEF HandleDrop, DeleteRecord, NoRecord
<1>13. CASE InstallSkills
  BY <1>13 DEF InstallSkills, BaseInv, OperandInv
<1>14. CASE InstallRollback
  BY <1>14 DEF InstallRollback
<1>15. CASE PrepareModules
  BY <1>15 DEF PrepareModules, Rollback
<1>16. CASE LateModules
  BY <1>16 DEF LateModules, Rollback
<1>17. CASE SkillsOfModules
  BY <1>17 DEF SkillsOfModules, Rollback
<1> QED
  BY Zenon, <1>1, <1>2, <1>3, <1>4, <1>5, <1>6, <1>7, <1>8, <1>9, <1>10, <1>11, <1>12, <1>13, <1>14, <1>15,
     <1>16, <1>17

\* The renames and the removals of directories.
LEMMA QuietMoves ==
    ASSUME BaseInv,
           RealToOld \/ NewToReal \/ OldToTemp \/ HandleCreateNewDir \/ HandleRestore \/
              HandleRemoveNew \/ HandleGone \/ HandleOldToTemp \/ HandleRemoveTemp \/
              InstallRemove \/ UninstallRemove \/ RemoveOld
    PROVE  Quiet /\ dir' \in Dirs
<1> USE Operands DEF Quiet,
      AtUpdate, AtFirst, AtRest, Handling, UpdateLabels, ModuleLabels, FirstLabels,
         RemovalLabels, HandleLabels, HandlerLabels, InstallLabels, Labels, Status,
         Goto, op
<1>0. dir \in Dirs /\ {"real", "new", "old", "temp"} \subseteq DirNames
  BY Zenon DEF DirNames, BaseInv, BaseType
<1>1. CASE RealToOld
  <2>1. Quiet
    BY <1>1 DEF RealToOld, Rollback
  <2>2. \E f : RenameOk("real", "old") \/ RenameFails("real", "old", f) \/ RemoveOk("old") \/ RemoveFails("old")
    BY Zenon, <1>1 DEF RealToOld
  <2> QED
    BY <1>0, <2>1, <2>2, MoveType
<1>2. CASE NewToReal
  <2>1. Quiet
    BY Zenon, <1>2 DEF NewToReal, Rollback
  <2>2. \E f : RenameOk("new", "real") \/ RenameFails("new", "real", f) \/ RemoveOk("real") \/ RemoveFails("real")
    BY Zenon, <1>2 DEF NewToReal
  <2> QED
    BY <1>0, <2>1, <2>2, MoveType
<1>3. CASE OldToTemp
  <2>1. Quiet
    BY <1>3 DEF OldToTemp
  <2>2. \E f : RenameOk("old", "temp") \/ RenameFails("old", "temp", f) \/ RemoveOk("temp") \/ RemoveFails("temp")
    BY Zenon, <1>3 DEF OldToTemp
  <2> QED
    BY <1>0, <2>1, <2>2, MoveType
<1>4. CASE HandleCreateNewDir
  <2>1. Quiet
    BY <1>4 DEF HandleCreateNewDir
  <2>2. \E f : RenameOk("new", "new") \/ RenameFails("new", "new", f) \/ RemoveOk("new") \/ RemoveFails("new")
    BY Zenon, <1>4 DEF HandleCreateNewDir
  <2> QED
    BY <1>0, <2>1, <2>2, MoveType
<1>5. CASE HandleRestore
  <2>1. Quiet
    BY <1>5 DEF HandleRestore
  <2>2. \E f : RenameOk("old", "real") \/ RenameFails("old", "real", f) \/ RemoveOk("real") \/ RemoveFails("real")
    BY <1>5 DEF HandleRestore
  <2> QED
    BY <1>0, <2>1, <2>2, MoveType
<1>6. CASE HandleRemoveNew
  <2>1. Quiet
    BY <1>6 DEF HandleRemoveNew
  <2>2. \E f : RenameOk("new", "new") \/ RenameFails("new", "new", f) \/ RemoveOk("new") \/ RemoveFails("new")
    BY <1>6 DEF HandleRemoveNew
  <2> QED
    BY <1>0, <2>1, <2>2, MoveType
<1>7. CASE HandleGone
  <2>1. Quiet
    BY <1>7 DEF HandleGone
  <2>2. \E f : RenameOk("new", "new") \/ RenameFails("new", "new", f) \/ RemoveOk("new") \/ RemoveFails("new")
    BY <1>7 DEF HandleGone
  <2> QED
    BY <1>0, <2>1, <2>2, MoveType
<1>8. CASE HandleOldToTemp
  <2>1. Quiet
    BY <1>8 DEF HandleOldToTemp
  <2>2. \E f : RenameOk("old", "temp") \/ RenameFails("old", "temp", f) \/ RemoveOk("temp") \/ RemoveFails("temp")
    BY Zenon, <1>8 DEF HandleOldToTemp
  <2> QED
    BY <1>0, <2>1, <2>2, MoveType
<1>9. CASE HandleRemoveTemp
  <2>1. Quiet
    BY <1>9 DEF HandleRemoveTemp
  <2>2. \E f : RenameOk("temp", "temp") \/ RenameFails("temp", "temp", f) \/ RemoveOk("temp") \/ RemoveFails("temp")
    BY Zenon, <1>9 DEF HandleRemoveTemp
  <2> QED
    BY <1>0, <2>1, <2>2, MoveType
<1>10. CASE InstallRemove
  <2>1. Quiet
    BY <1>10 DEF InstallRemove
  <2>2. \E f : RenameOk("real", "real") \/ RenameFails("real", "real", f) \/ RemoveOk("real") \/ RemoveFails("real")
    BY <1>10 DEF InstallRemove
  <2> QED
    BY <1>0, <2>1, <2>2, MoveType
<1>11. CASE UninstallRemove
  <2>1. Quiet
    BY <1>11 DEF UninstallRemove
  <2>2. \E f : RenameOk("real", "real") \/ RenameFails("real", "real", f) \/ RemoveOk("real") \/ RemoveFails("real")
    BY Zenon, <1>11 DEF UninstallRemove
  <2> QED
    BY <1>0, <2>1, <2>2, MoveType
<1>12. CASE RemoveOld
  <2>1. PICK d \in {"temp", "old"} : /\ pc = (IF d = "temp" THEN "removeTemp" ELSE "removeOld")
                                    /\ \/ RemoveOk(d) /\ pc' = "drop"
                                       \/ RemoveFails(d) /\ pc' = "finish"
    BY Zenon, <1>12 DEF RemoveOld
  <2>2. Quiet
    BY <1>12, <2>1 DEF RemoveOld
  <2>3. \E f : RenameOk(d, d) \/ RenameFails(d, d, f) \/ RemoveOk(d) \/ RemoveFails(d)
    BY <2>1
  <2> QED
    BY <1>0, <2>2, <2>3, MoveType
<1> QED
  BY Zenon, <1>1, <1>2, <1>3, <1>4, <1>5, <1>6, <1>7, <1>8, <1>9, <1>10, <1>11, <1>12

\* The beginnings of an operation on an installed bundle.
LEMMA StartBase ==
    ASSUME BaseInv,
           StartUpdate \/ StartModules \/ StartUninstall \/ StartUninstallModule
    PROVE  BaseInv'
<1> USE Operands DEF Goto, Labels, InstallLabels
<1>1. /\ UNCHANGED <<dir, rec, db, mem, mark>> /\ mem # NoInfo /\ old' = mem
      /\ ret' \in {ret, "saveCreate"} /\ todo' \in SUBSET Modules
      /\ \/ /\ pkg' \in Packages /\ state' = state
            /\ pc' \in {"rollback", "mExtract"} \/ (pc' = "handle" /\ ret' = "saveCreate")
         \/ pkg' = NoInfo /\ state' = "UNINSTALL_START" /\ pc' \in {"uMark", "umMark"}
  <2>1. CASE StartUpdate
    BY <2>1, UpdateAssumption DEF StartUpdate, Info
  <2>2. CASE StartModules
    BY <2>2, UpdateAssumption DEF StartModules, Begin, Info
  <2>3. CASE StartUninstall
    BY Zenon, <2>3 DEF StartUninstall, Begin
  <2>4. CASE StartUninstallModule
    BY <2>4 DEF StartUninstallModule, Begin, BaseInv, BaseType, Bundle, NoInfo
  <2> QED
    BY Zenon, <2>1, <2>2, <2>3, <2>4
<1>2. /\ pc' # "off" /\ ~AtFirst' /\ ~AtRest' /\ pc' \notin {"iExtract", "iCommit", "iSkills"}
      /\ pc' \in RemovalLabels => state' = "UNINSTALL_START"
      /\ AtUpdate' => pkg' \in Packages
  BY <1>1 DEF AtFirst, AtRest, AtUpdate, Handling, FirstLabels, HandleLabels, HandlerLabels, RemovalLabels,
     UpdateLabels, ModuleLabels
<1>3. BaseType'
  BY <1>1 DEF BaseInv, BaseType
<1>4. StateInv'
  BY Zenon, <1>1, <1>2 DEF BaseInv, StateInv, Busy
<1>5. OperandInv'
  BY <1>1, <1>2 DEF BaseInv, OperandInv
<1> QED
  BY Zenon, <1>3, <1>4, <1>5 DEF BaseInv

\* The extraction of a module, in an update or beside the installed one.
LEMMA ExtractBase ==
    ASSUME BaseInv, ExtractModule \/ ExtractBeside
    PROVE  BaseInv'
<1> USE Operands DEF Rollback
<1>1. /\ UNCHANGED <<rec, db, mem, mark, ret, pkg, old>> /\ todo' \in SUBSET Modules
      /\ pc \in {"extract", "mExtract"} /\ pc' \in {pc, "rollback"}
      /\ state' \in {state, "UPDATING_START", "UPDATING_SUCCESS"}
  BY DEF ExtractModule, ExtractBeside
<1>2. dir' \in Dirs
  <2>1. dir \in Dirs /\ {"new", "real", "moduleTmp"} \subseteq DirNames /\ 0 \in Nat
    BY DEF BaseInv, BaseType, DirNames
  <2>2. \/ dir' = dir
        \/ \E m \in Modules, d \in {"new", "real", "moduleTmp"}, v \in {0, pkg.ver} :
              dir' = [dir EXCEPT ![d] = [@ EXCEPT ![m] = v]]
    BY Zenon DEF ExtractModule, ExtractBeside, ModuleDir
  <2> QED
    BY <2>1, <2>2, PutType
<1>3. /\ AtUpdate /\ mem # NoInfo
      /\ pc' # "off" /\ ~AtFirst' /\ ~AtRest' /\ pc' \notin RemovalLabels \cup {"iExtract", "iCommit", "iSkills"}
      /\ pc' \in InstallLabels
  BY Zenon, <1>1 DEF BaseInv, OperandInv, AtFirst, AtRest, AtUpdate, Handling, FirstLabels, HandleLabels,
     HandlerLabels, RemovalLabels, UpdateLabels, ModuleLabels, InstallLabels, Labels
<1>4. BaseType'
  BY <1>1, <1>2, <1>3 DEF BaseInv, BaseType
<1>5. StateInv'
  BY <1>1, <1>3 DEF BaseInv, StateInv, Busy
<1>6. OperandInv'
  BY <1>1, <1>3 DEF BaseInv, OperandInv
<1> QED
  BY Zenon, <1>4, <1>5, <1>6 DEF BaseInv

\* The steps of an operation on an installed bundle that change its info.
LEMMA InfoBase ==
    ASSUME BaseInv,
           UninstallLower \/ MarkInstallFinish \/ CommitModules \/ RollBackModule \/ RemoveModuleInfo
    PROVE  BaseInv'
<1> USE Operands
<1>1. /\ old \in Bundle \ {NoInfo} /\ mem \in Bundle \ {NoInfo} /\ state \in Busy
      /\ pc \in {"lower", "commit", "mCommit", "rollback"} => pkg \in Packages
  BY Zenon DEF UninstallLower, MarkInstallFinish, CommitModules, RollBackModule, RemoveModuleInfo, BaseInv,
     BaseType, StateInv, OperandInv, AtUpdate, UpdateLabels, ModuleLabels, RemovalLabels
<1>2. \A i \in Bundle \ {NoInfo}, M \in SUBSET Modules :
          [i EXCEPT !.mods = M] \in Bundle \ {NoInfo}
  BY DEF Bundle, NoInfo
<1>3. Packages \subseteq Bundle \ {NoInfo} /\ \A i \in Bundle : i.mods \in SUBSET Modules
  BY UpdateAssumption DEF Bundle, NoInfo, Info
<1>4. /\ mem' \in Bundle \ {NoInfo}
      /\ db' = db \/ db' = mem'
      /\ state' \in Busy
  <2>1. CASE UninstallLower
    BY Zenon, <1>1, <1>3, <2>1, StateTable DEF UninstallLower
  <2>2. CASE MarkInstallFinish
    BY <1>1, <1>3, <2>2 DEF MarkInstallFinish
  <2>3. CASE CommitModules
    BY Zenon, <1>1, <1>2, <1>3, <2>3 DEF CommitModules
  <2>4. CASE RollBackModule
    <3>1. state' = StateAfter(state, "ROLL_BACK")
      BY <2>4 DEF RollBackModule, RollBackOldModule, RollBackNewModule
    <3>2. [ver |-> old.ver, mods |-> mem.mods \cup old.mods] \in Bundle \ {NoInfo}
      BY <1>1 DEF Bundle, NoInfo
    <3>3. \A m : [mem EXCEPT !.mods = @ \ {m}] \in Bundle \ {NoInfo}
      BY <1>1, <1>2, <1>3
    <3> QED
      BY Zenon, <1>1, <2>4, <3>1, <3>2, <3>3, StateTable
      DEF RollBackModule, RollBackOldModule, RollBackNewModule
  <2>5. CASE RemoveModuleInfo
    BY <1>1, <1>2, <1>3, <2>5 DEF RemoveModuleInfo
  <2> QED
    BY <2>1, <2>2, <2>3, <2>4, <2>5
<1>5. /\ UNCHANGED <<rec, ret, pkg, old>> /\ todo' \in SUBSET Modules
      /\ pc' \in {"late", "skills", "mSkills", "rollback", "finish"}
      /\ pc' # "finish" => AtUpdate
  BY DEF UninstallLower, MarkInstallFinish, CommitModules, RollBackModule, RemoveModuleInfo, Rollback,
     Goto, op, AtUpdate, UpdateLabels, ModuleLabels
<1>6. mark' \in [db : Mark, mem : Mark]
  <2>1. mark \in [db : Mark, mem : Mark] /\ Finished \in Mark
    BY DEF BaseInv, BaseType, Mark, Finished
  <2>2. CASE UninstallLower
    BY <1>1, <1>3, <2>1, <2>2 DEF UninstallLower, Mark
  <2>3. CASE ~UninstallLower
    <3>1. \/ mark' = mark \/ mark' = [db |-> Finished, mem |-> Finished]
          \/ mark' = [mark EXCEPT !.db = mark.mem]
      BY <2>3 DEF MarkInstallFinish, CommitModules, RollBackModule, RollBackOldModule,
         RollBackNewModule, RemoveModuleInfo
    <3> QED
      BY <2>1, <3>1
  <2> QED
    BY <2>2, <2>3
<1>7. dir' \in Dirs
  <2>1. dir \in Dirs /\ {"real", "moduleTmp"} \subseteq DirNames /\ 0 \in Nat
    BY DEF BaseInv, BaseType, DirNames
  <2>2. \/ dir' = dir
        \/ \E m \in Modules, d \in {"real", "moduleTmp"} : dir' = [dir EXCEPT ![d] = [@ EXCEPT ![m] = 0]]
    BY DEF UninstallLower, MarkInstallFinish, CommitModules, RollBackModule, RollBackOldModule,
       RollBackNewModule, RemoveModuleInfo
  <2> QED
    BY <2>1, <2>2, PutType
<1>8. /\ AtUpdate' => AtUpdate
      /\ pc' # "off" /\ ~AtFirst' /\ ~AtRest' /\ pc' \notin RemovalLabels \cup {"iExtract", "iCommit", "iSkills"}
      /\ pc' \in InstallLabels
  BY Zenon, <1>5 DEF AtFirst, AtRest, AtUpdate, Handling, FirstLabels, HandleLabels, HandlerLabels,
     RemovalLabels, UpdateLabels, ModuleLabels, InstallLabels, Labels
<1>9. mark'.db.status # "INSTALL_FINISH" => db' # NoInfo
  <2>1. mark'.db = Finished \/ (mark'.db = mark.db /\ db' = db) \/ db' = mem'
    BY Zenon, <1>6 DEF UninstallLower, MarkInstallFinish, CommitModules, RollBackModule, RollBackOldModule,
         RollBackNewModule, RemoveModuleInfo, BaseInv, BaseType
  <2> QED
    BY <1>4, <2>1 DEF BaseInv, OperandInv, Finished
<1>10. BaseType'
  BY <1>4, <1>5, <1>6, <1>7, <1>8 DEF BaseInv, BaseType
<1>11. StateInv'
  BY Zenon, <1>4, <1>8 DEF StateInv
<1>12. OperandInv'
  BY <1>1, <1>4, <1>5, <1>8, <1>9 DEF BaseInv, OperandInv
<1> QED
  BY Zenon, <1>10, <1>11, <1>12 DEF BaseInv

\* The bundle leaves the memory; its row goes, or stays as it is.
LEMMA ForgetBase ==
    ASSUME BaseInv, dir' = dir, rec' = rec, pkg' = pkg, old' = old, todo' = todo,
           mem' = NoInfo, state' = "absent",
           \/ db' = NoInfo /\ mark' = [db |-> Finished, mem |-> Finished]
           \/ db' = db /\ mark' \in {mark, [mark EXCEPT !.mem = Finished]},
           \/ pc' = "finish" /\ ret' = ret
           \/ pc' = "handle" /\ ret' = "uRemove"
    PROVE  BaseInv'
<1>1. /\ ~AtUpdate' /\ ~AtFirst' /\ ~AtRest' /\ pc' \in InstallLabels
      /\ pc' \notin RemovalLabels \cup {"off", "iExtract", "iCommit", "iSkills"}
  BY DEF AtRest, AtFirst, AtUpdate, Handling, FirstLabels, HandleLabels, HandlerLabels, RemovalLabels,
     UpdateLabels, ModuleLabels, InstallLabels, Labels
<1>2. /\ mark' \in [db : Mark, mem : Mark]
      /\ mark'.db = Finished \/ (mark'.db = mark.db /\ db' = db)
  BY DEF BaseInv, BaseType, Mark, Finished
<1>3. BaseType'
  BY <1>1, <1>2 DEF BaseInv, BaseType, Bundle
<1>4. StateInv'
  BY <1>1 DEF StateInv
<1>5. OperandInv'
  BY <1>1, <1>2 DEF BaseInv, OperandInv, Finished
<1> QED
  BY <1>3, <1>4, <1>5 DEF BaseInv

\* The first installation.
LEMMA FirstBase ==
    ASSUME BaseInv,
           StartInstall \/ InstallModule \/ InstallPrepare \/ InstallCommit \/ InstallErase
    PROVE  BaseInv'
<1> USE Operands DEF Goto, op
<1>1. CASE StartInstall
  <2>1. /\ UNCHANGED <<dir, rec, db, mem, mark, state, ret>> /\ mem = NoInfo /\ state = "absent"
        /\ pkg' \in Packages /\ old' = NoInfo /\ todo' \in SUBSET Modules
        /\ (pc' = "iExtract" /\ todo' = pkg'.mods) \/ pc' = "iRollback"
    BY <1>1, UpdateAssumption DEF StartInstall, Begin, Info, BaseInv, StateInv, AtFirst, FirstLabels,
       Handling,
       HandleLabels, HandlerLabels
  <2>2. /\ ~AtUpdate' /\ ~AtRest' /\ pc' \notin RemovalLabels \cup {"off", "iCommit", "iSkills"}
        /\ pc' \in InstallLabels
    BY Zenon, <2>1 DEF AtRest, AtUpdate, Handling, HandleLabels, HandlerLabels, RemovalLabels, UpdateLabels,
       ModuleLabels, InstallLabels, Labels
  <2>3. BaseType'
    BY <2>1, <2>2 DEF BaseInv, BaseType, Bundle
  <2>4. StateInv'
    BY <2>1, <2>2 DEF StateInv
  <2>5. OperandInv'
    BY Zenon, <2>1, <2>2 DEF BaseInv, OperandInv
  <2> QED
    BY Zenon, <2>3, <2>4, <2>5 DEF BaseInv
<1>2. CASE InstallModule \/ InstallPrepare
  <2>1. /\ UNCHANGED <<rec, db, mem, mark, ret, pkg, old>> /\ todo' \subseteq todo
        /\ pc = "iExtract" /\ pc' \in {"iExtract", "iCommit", "iRollback"}
    BY Zenon, <1>2 DEF InstallModule, InstallPrepare
  <2>2. /\ pkg \in Packages /\ todo \subseteq pkg.mods /\ (todo = pkg.mods \/ state # "absent")
        /\ mem = NoInfo /\ state \in Installing \cup {"absent"}
    BY <2>1 DEF BaseInv, OperandInv, StateInv, AtFirst, FirstLabels
  <2>3. pkg.mods # {}
    BY Zenon, <2>2, UpdateAssumption DEF Info
  <2>4. /\ state' \in Installing \cup {"absent"}
        /\ pc' \in {"iExtract", "iCommit"} => state' # "absent"
    BY <1>2, <2>2, <2>3 DEF InstallModule, InstallPrepare, Installing
  <2>5. dir' \in Dirs
    <3>1. dir \in Dirs /\ "real" \in DirNames /\ 0 \in Nat
      BY Zenon DEF BaseInv, BaseType, DirNames
    <3>2. dir' = dir \/ \E m \in Modules, v \in {0, pkg.ver} :
                           dir' = [dir EXCEPT !["real"] = [@ EXCEPT ![m] = v]]
      BY <1>2 DEF InstallModule, InstallPrepare
    <3> QED
      BY <3>1, <3>2, PutType
  <2>6. /\ ~AtUpdate' /\ AtFirst' /\ ~AtRest' /\ pc' \notin RemovalLabels \cup {"off", "iSkills"}
        /\ pc' \in InstallLabels
    BY Zenon, <2>1 DEF AtRest, AtFirst, AtUpdate, Handling, FirstLabels, HandleLabels, HandlerLabels,
       RemovalLabels,
       UpdateLabels, ModuleLabels, InstallLabels, Labels
  <2>7. BaseType'
    BY <2>1, <2>5, <2>6 DEF BaseInv, BaseType
  <2>8. StateInv'
    BY Zenon, <2>1, <2>2, <2>4, <2>6 DEF StateInv
  <2>9. OperandInv'
    BY Zenon, <2>1, <2>2, <2>4, <2>6 DEF BaseInv, OperandInv
  <2> QED
    BY <2>7, <2>8, <2>9 DEF BaseInv
<1>3. CASE InstallCommit
  <2>1. /\ UNCHANGED <<dir, rec, state, ret, pkg, old, todo>> /\ mem' = pkg /\ pc = "iCommit"
        /\ pc' \in {"iSkills", "iRollback"}
        /\ \/ db' = pkg /\ mark' = [db |-> Finished, mem |-> Finished]
           \/ UNCHANGED <<db, mark>>
    BY Zenon, <1>3 DEF InstallCommit
  <2>2. pkg \in Packages /\ state \in Installing
    BY Zenon, <2>1 DEF BaseInv, OperandInv, StateInv, AtFirst, FirstLabels
  <2>3. pkg \in Bundle \ {NoInfo} /\ Finished \in Mark
    BY <2>2, UpdateAssumption DEF Bundle, NoInfo, Info, Mark, Finished
  <2>4. /\ ~AtUpdate' /\ ~AtRest' /\ pc' \notin RemovalLabels \cup {"off", "iExtract", "iCommit"}
        /\ pc' \in InstallLabels
    BY Zenon, <2>1 DEF AtRest, AtUpdate, Handling, HandleLabels, HandlerLabels, RemovalLabels,
       UpdateLabels, ModuleLabels, InstallLabels, Labels
  <2>5. BaseType'
    BY <2>1, <2>3, <2>4 DEF BaseInv, BaseType
  <2>6. StateInv'
    BY Zenon, <2>1, <2>2, <2>3, <2>4 DEF StateInv, Installing, Busy
  <2>7. OperandInv'
    BY Zenon, <2>1, <2>2, <2>3, <2>4 DEF BaseInv, OperandInv, Finished
  <2> QED
    BY <2>5, <2>6, <2>7 DEF BaseInv
<1>4. CASE InstallErase
  <2>1. /\ UNCHANGED <<dir, rec, ret, pkg, old, todo>> /\ pc' = "finish" /\ AtFirst
        /\ IF Accepts(state, "UPDATING_FAIL") THEN Erase("UPDATING_FAIL")
           ELSE UNCHANGED <<db, mem, mark, state>>
    BY Zenon, <1>4 DEF InstallErase, AtFirst, FirstLabels
  <2>2. /\ mem' = NoInfo /\ state' = "absent"
        /\ \/ db' = NoInfo /\ mark' = [db |-> Finished, mem |-> Finished]
           \/ db' = db /\ mark' \in {mark, [mark EXCEPT !.mem = Finished]}
    <3>1. CASE state \in Installing
      BY <2>1, <3>1, StateTable DEF Erase
    <3>2. CASE state = "absent"
      BY <2>1, <3>2, StateTable DEF BaseInv, StateInv, Busy
    <3> QED
      BY <2>1, <3>1, <3>2 DEF BaseInv, StateInv
  <2> QED
    BY Zenon, <2>1, <2>2, ForgetBase
<1> QED
  BY Zenon, <1>1, <1>2, <1>3, <1>4

\* The uninstallations, but for their beginnings.
LEMMA RemovalBase ==
    ASSUME BaseInv, MarkUninstall \/ UninstallErase \/ MarkUninstallModule
    PROVE  BaseInv'
<1> USE Operands DEF Goto, op
<1>1. /\ pc \in RemovalLabels /\ state = "UNINSTALL_START" /\ mem \in Bundle \ {NoInfo} /\ old # NoInfo
      /\ UNCHANGED <<dir, rec>>
  BY Zenon DEF MarkUninstall, UninstallErase, MarkUninstallModule, RemovalLabels, BaseInv, BaseType, StateInv,
     OperandInv
<1>2. CASE UninstallErase
  <2>1. mem' = NoInfo /\ state' = "absent"
    BY <1>1, <1>2, StateTable DEF UninstallErase, Erase
  <2>2. \/ db' = NoInfo /\ mark' = [db |-> Finished, mem |-> Finished]
        \/ db' = db /\ mark' \in {mark, [mark EXCEPT !.mem = Finished]}
    BY <1>2 DEF UninstallErase, Erase
  <2>3. /\ UNCHANGED <<pkg, old, todo>>
        /\ \/ pc' = "finish" /\ ret' = ret
           \/ pc' = "handle" /\ ret' = "uRemove"
    BY <1>2 DEF UninstallErase
  <2> QED
    BY <1>1, <2>1, <2>2, <2>3, ForgetBase
<1>3. CASE MarkUninstall \/ MarkUninstallModule
  <2>1. /\ UNCHANGED <<mem, state>>
        /\ \/ db' = mem /\ \E k \in Mark : mark' = [mark EXCEPT !.db = k]
           \/ UNCHANGED <<db, mark>>
    <3>1. \A m \in Modules :
             [status |-> "UNINSTALL_PACKAGE_START", package |-> {m}] \in Mark
      BY DEF Mark
    <3>2. \A m \in todo : m \in Modules
      OBVIOUS
    <3>3. CASE MarkUninstall
      <4>1. [status |-> "UNINSTALL_BUNDLE_START", package |-> {}] \in Mark
        BY DEF Mark
      <4> QED
        BY Zenon, <3>3, <4>1 DEF MarkUninstall, SaveMark
    <3>4. CASE MarkUninstallModule
      BY Zenon, <3>1, <3>2, <3>4 DEF MarkUninstallModule, SaveMark
    <3> QED
      BY <1>3, <3>3, <3>4
  <2>2. \/ pc' \in {"uErase", "umRemove", "finish"} /\ UNCHANGED <<ret, pkg, old, todo>>
        \/ pc' = "idle" /\ ret' = "idle" /\ pkg' = NoInfo /\ old' = NoInfo /\ todo' = {} /\ MayStick
    BY Zenon, <1>3 DEF MarkUninstall, MarkUninstallModule, EndOperation, MayStick
  <2>3. /\ mark' \in [db : Mark, mem : Mark] /\ db' \in Bundle
        /\ db' # NoInfo \/ (db' = db /\ mark' = mark)
    BY <1>1, <2>1 DEF BaseInv, BaseType
  <2>4. /\ ~AtUpdate' /\ ~AtFirst' /\ pc' \in InstallLabels
        /\ pc' \notin {"off", "iExtract", "iCommit", "iSkills"}
        /\ AtRest' => MayStick
        /\ pc' \in RemovalLabels => old' # NoInfo
    BY <1>1, <2>2 DEF AtRest, AtFirst, AtUpdate, Handling, FirstLabels, HandleLabels, HandlerLabels,
       RemovalLabels,
       UpdateLabels, ModuleLabels, InstallLabels, Labels
  <2>5. BaseType'
    BY <1>1, <2>1, <2>2, <2>3, <2>4 DEF BaseInv, BaseType, Bundle
  <2>6. StateInv'
    BY <1>1, <2>1, <2>4 DEF BaseInv, StateInv
  <2>7. OperandInv'
    BY <1>1, <2>1, <2>3, <2>4 DEF BaseInv, OperandInv
  <2> QED
    BY <2>5, <2>6, <2>7 DEF BaseInv
<1> QED
  BY Zenon, <1>2, <1>3

\* The renames and removals of module directories.
LEMMA ModuleMoves ==
    ASSUME BaseInv, RenameModuleDir \/ RemoveModuleDir
    PROVE  Quiet /\ dir' \in Dirs
<1> USE Operands DEF Rollback, Goto, op
<1>1. dir \in Dirs /\ {"real", "moduleTmp"} \subseteq DirNames /\ 0 \in Nat
  BY Zenon DEF BaseInv, BaseType, DirNames
<1>2. Quiet
  BY Zenon DEF RenameModuleDir, RemoveModuleDir, Quiet, AtUpdate, AtFirst, AtRest, Handling, UpdateLabels,
     ModuleLabels,
     FirstLabels, RemovalLabels, HandleLabels, HandlerLabels, InstallLabels, Labels
<1>3. dir' \in Dirs
  <2>1. PICK m \in Modules :
          \/ \E v \in {0, dir["real"][m]} : dir' = [dir EXCEPT !["real"] = [@ EXCEPT ![m] = v]]
          \/ dir' = [dir EXCEPT !["real"] = [@ EXCEPT ![m] = dir["moduleTmp"][m]],
                                !["moduleTmp"] = [@ EXCEPT ![m] = 0]]
    BY DEF RenameModuleDir, RemoveModuleDir
  <2>2. dir["real"][m] \in Nat /\ dir["moduleTmp"][m] \in Nat
    BY <1>1 DEF Dirs
  <2>3. CASE \E v \in {0, dir["real"][m]} : dir' = [dir EXCEPT !["real"] = [@ EXCEPT ![m] = v]]
    <3>1. PICK v \in {0, dir["real"][m]} : dir' = [dir EXCEPT !["real"] = [@ EXCEPT ![m] = v]]
      BY Zenon, <2>3
    <3>2. v \in Nat /\ "real" \in DirNames
      BY <1>1, <2>2
    <3> QED
      BY Zenon, <1>1, <3>1, <3>2, PutType
  <2>4. CASE dir' = [dir EXCEPT !["real"] = [@ EXCEPT ![m] = dir["moduleTmp"][m]],
                                !["moduleTmp"] = [@ EXCEPT ![m] = 0]]
    BY <1>1, <2>2, <2>4 DEF Dirs
  <2> QED
    BY Zenon, <2>1, <2>3, <2>4
<1> QED
  BY <1>2, <1>3

\* Finish: stateGuard settles the state of a bundle in memory.
LEMMA FinishBase ==
    ASSUME BaseInv, Finish
    PROVE  BaseInv'
<1>1. /\ UNCHANGED <<dir, rec, db, mem, mark>> /\ pc' = "idle" /\ ret' = "idle" /\ pc = "finish"
      /\ pkg' = NoInfo /\ old' = NoInfo /\ todo' = {} /\ state' = StateAfter(state, "INSTALL_SUCCESS")
  BY Zenon DEF Finish, EndOperation, Goto
<1>2. /\ mem # NoInfo => state' = "INSTALL_SUCCESS"
      /\ mem = NoInfo => state' = "absent"
  BY <1>1, StateTable DEF BaseInv, StateInv, AtFirst, Handling, FirstLabels, HandleLabels, HandlerLabels
<1>3. ~AtUpdate' /\ ~AtFirst' /\ pc' \in InstallLabels /\ pc' \notin RemovalLabels
  BY <1>1 DEF AtFirst, AtUpdate, Handling, FirstLabels, HandleLabels, HandlerLabels, RemovalLabels,
     UpdateLabels, ModuleLabels, InstallLabels, Labels
<1>4. BaseType'
  BY <1>1, <1>3 DEF BaseInv, BaseType, Bundle
<1>5. StateInv'
  BY Zenon, <1>1, <1>2, <1>3 DEF StateInv, Busy
<1>6. OperandInv'
  BY <1>1, <1>3 DEF BaseInv, OperandInv
<1> QED
  BY <1>4, <1>5, <1>6 DEF BaseInv

\* The two loads of a row at boot.
LEMMA LoadBase ==
    ASSUME BaseInv, LoadAll \/ LoadMarked
    PROVE  BaseInv'
<1>1. /\ pc = "off" /\ pc' = "handle" /\ UNCHANGED <<rec, op>>
      /\ mark'.mem = mark.db /\ dir' \in Dirs
      /\ \/ db' = db /\ mark'.db = mark.db
         \/ db' = NoInfo /\ mark'.db = Finished
      /\ mark' = [db |-> mark'.db, mem |-> mark'.mem]
      /\ mem' \in Bundle /\ state' = (IF mem' = NoInfo THEN "absent" ELSE "INSTALL_SUCCESS")
  <2>1. mark = [db |-> mark.db, mem |-> mark.mem] /\ mark.db \in Mark /\ dir \in Dirs /\ db \in Bundle
    BY DEF BaseInv, BaseType
  <2>2. CASE LoadAll
    BY <2>1, <2>2 DEF LoadAll, Goto
  <2>3. CASE LoadMarked
    <3> DEFINE gone  == Kept(db, mark.db) = NoInfo
               mods  == IF gone THEN Modules ELSE mark.db.package
               left  == [m \in Modules |-> IF m \in mods THEN 0 ELSE dir["real"][m]]
               moved == [m \in Modules |-> IF m \in mods /\ dir["moduleTmp"][m] # 0
                                           THEN dir["moduleTmp"][m] ELSE dir["real"][m]]
               gives == [m \in Modules |-> IF m \in mods THEN 0 ELSE dir["moduleTmp"][m]]
    <3>1. /\ pc = "off" /\ pc' = "handle" /\ UNCHANGED <<rec, op>> /\ state' = "INSTALL_SUCCESS"
          /\ mark' = [db |-> IF db' = NoInfo THEN Finished ELSE mark.db, mem |-> mark.db]
          /\ mark.db.status # "INSTALL_FINISH"
      BY Zenon, <2>3 DEF LoadMarked, Goto
    <3>2. db # NoInfo
      BY Zenon, <3>1 DEF BaseInv, OperandInv
    <3>3. /\ \/ dir' = [dir EXCEPT !["real"] = left]
             \/ dir' \in Cut("real")
             \/ dir' = [dir EXCEPT !["real"] = moved, !["moduleTmp"] = gives]
          /\ db' \in {db, NoInfo} /\ mem' \in {db, Kept(db, mark.db)}
          /\ mem' = Kept(db, mark.db) => ~gone
      BY Zenon, <2>3, <3>2 DEF LoadMarked
    <3>4. "real" \in DirNames /\ "moduleTmp" \in DirNames
      BY DEF DirNames
    <3>5. left \in [Modules -> Nat] /\ moved \in [Modules -> Nat] /\ gives \in [Modules -> Nat]
      BY Zenon, <2>1, <3>4 DEF Dirs
    <3>6. dir' \in Dirs
      <4>1. CASE dir' = [dir EXCEPT !["real"] = left]
        BY Zenon, <2>1, <3>4, <3>5, <4>1, SetType
      <4>2. CASE dir' \in Cut("real")
        BY Zenon, <2>1, <3>4, <4>2, CutType
      <4>3. CASE dir' = [dir EXCEPT !["real"] = moved, !["moduleTmp"] = gives]
        BY <2>1, <3>4, <3>5, <4>3 DEF Dirs
      <4> QED
        BY Zenon, <3>3, <4>1, <4>2, <4>3
    <3>7. Kept(db, mark.db) \in Bundle
      BY <2>1 DEF Kept, Bundle, NoInfo, Mark
    <3>8. mem' \in Bundle /\ mem' # NoInfo
      BY <2>1, <3>2, <3>3, <3>7
    <3> QED
      BY Zenon, <2>1, <3>1, <3>3, <3>6, <3>8
  <2> QED
    BY <2>2, <2>3
<1>2. /\ pc' \in InstallLabels /\ ret' = ret /\ UNCHANGED <<pkg, old, todo>>
      /\ AtUpdate' => ret = "saveCreate"
      /\ AtFirst' => ret = "iRemove"
      /\ pc' \notin RemovalLabels \cup {"iExtract", "iCommit", "iSkills"}
  BY <1>1 DEF op, AtFirst, AtUpdate, Handling, FirstLabels, HandleLabels, HandlerLabels, RemovalLabels,
     UpdateLabels, ModuleLabels, InstallLabels, Labels
<1>3. ret = "idle"
  BY Zenon, <1>1 DEF BaseInv, OperandInv
<1>4. /\ mark' \in [db : Mark, mem : Mark] /\ db' \in Bundle
      /\ mark'.db.status # "INSTALL_FINISH" => db' # NoInfo
  <2>1. mark \in [db : Mark, mem : Mark] /\ db \in Bundle
    BY Zenon DEF BaseInv, BaseType
  <2>2. mark.db \in Mark
    BY <2>1
  <2>3. Finished \in Mark /\ Finished.status = "INSTALL_FINISH"
    BY DEF Finished, Mark
  <2>4. NoInfo \in Bundle
    BY Zenon DEF Bundle
  <2>5. mark.db.status # "INSTALL_FINISH" => db # NoInfo
    BY Zenon DEF BaseInv, OperandInv
  <2>6. /\ mark'.db \in Mark /\ mark'.mem \in Mark /\ db' \in Bundle
        /\ mark'.db.status # "INSTALL_FINISH" => db' # NoInfo
    BY Zenon, <1>1, <2>1, <2>2, <2>3, <2>4, <2>5
  <2>7. mark' = [db |-> mark'.db, mem |-> mark'.mem]
    BY Zenon, <1>1
  <2> QED
    BY <2>6, <2>7
<1>5. BaseType'
  BY <1>1, <1>2, <1>4 DEF BaseInv, BaseType, op
<1>6. StateInv'
  BY Zenon, <1>1, <1>2, <1>3 DEF StateInv, Busy
<1>7. OperandInv'
  BY <1>2, <1>3, <1>4, <1>1 DEF OperandInv
<1> QED
  BY <1>5, <1>6, <1>7 DEF BaseInv

\* A crash, between two steps or inside a deletion.
LEMMA CrashBase ==
    ASSUME BaseInv, InstallCrash
    PROVE  BaseInv'
<1>1. /\ pc' = "off" /\ mem' = NoInfo /\ state' = "absent" /\ UNCHANGED <<rec, db>>
      /\ ret' = "idle" /\ pkg' = NoInfo /\ old' = NoInfo /\ todo' = {}
      /\ mark' = [mark EXCEPT !.mem = Finished]
  BY DEF InstallCrash, Crash, LoseMemory, Goto, EndOperation
<1>2. dir' \in Dirs
  <2>1. dir \in Dirs /\ "real" \in DirNames /\ 0 \in Nat /\ todo \subseteq Modules
    BY DEF BaseInv, BaseType, DirNames
  <2>2. Deleting \subseteq DirNames
    BY DEF Deleting, DirNames
  <2>3. \/ dir' = dir
        \/ \E d \in DirNames : dir' \in Cut(d)
        \/ \E m \in Modules : dir' = [dir EXCEPT !["real"] = [@ EXCEPT ![m] = 0]]
    <3>1. \/ dir' = dir
          \/ \E d \in Deleting \cup {"real"} : dir' \in Cut(d)
          \/ \E m \in todo : dir' = [dir EXCEPT !["real"] = [@ EXCEPT ![m] = 0]]
      <4>1. CASE Crash
        BY Zenon, <4>1 DEF Crash
      <4>2. CASE ~Crash
        BY Zenon, <4>2 DEF InstallCrash
      <4> QED
        BY <4>1, <4>2
    <3> QED
      BY <2>1, <2>2, <3>1
  <2>4. CASE \E d \in DirNames : dir' \in Cut(d)
    BY <2>1, <2>4, CutType
  <2>5. CASE \E m \in Modules : dir' = [dir EXCEPT !["real"] = [@ EXCEPT ![m] = 0]]
    BY <2>1, <2>5 DEF Dirs
  <2> QED
    BY <2>1, <2>3, <2>4, <2>5
<1>3. /\ ~AtUpdate' /\ ~AtFirst' /\ ~AtRest' /\ pc' \notin RemovalLabels
      /\ pc' \in InstallLabels
  BY <1>1 DEF AtFirst, AtUpdate, AtRest, Handling, FirstLabels, HandleLabels, HandlerLabels, RemovalLabels,
     UpdateLabels, ModuleLabels, InstallLabels, Labels
<1>4. mark' \in [db : Mark, mem : Mark] /\ mark'.db = mark.db
  BY <1>1 DEF BaseInv, BaseType, Mark, Finished
<1>5. BaseType'
  BY <1>1, <1>2, <1>3, <1>4 DEF BaseInv, BaseType, Bundle
<1>6. StateInv'
  BY <1>1, <1>3 DEF StateInv
<1>7. OperandInv'
  BY <1>1, <1>3, <1>4 DEF BaseInv, OperandInv
<1> QED
  BY <1>5, <1>6, <1>7 DEF BaseInv

\* The initial states: a bundle that is installed, or is not.
LEMMA InitBase == InstallInit => BaseInv
<1> SUFFICES ASSUME InstallInit PROVE BaseInv
  OBVIOUS
<1>1. /\ db \in Packages \cup {NoInfo} /\ mem = db /\ dir \in Dirs
      /\ rec = NoRecord /\ mark = [db |-> Finished, mem |-> Finished]
      /\ state = (IF mem = NoInfo THEN "absent" ELSE "INSTALL_SUCCESS")
      /\ pc = "idle" /\ ret = "idle" /\ pkg = NoInfo /\ old = NoInfo /\ todo = {}
  <2>1. \A p \in Packages : p # NoInfo /\ CodeOf(p) \in [Modules -> Nat]
    BY UpdateAssumption DEF Info, NoInfo, CodeOf
  <2>2. Empty \in [Modules -> Nat]
    BY DEF Empty
  <2> QED
    BY Zenon, <2>1, <2>2 DEF InstallInit, Init, Dirs
<1>2. Packages \subseteq Bundle /\ NoInfo \in Bundle
  BY UpdateAssumption DEF Info, Bundle
<1>3. ~AtUpdate /\ ~AtFirst /\ pc \notin RemovalLabels /\ pc \in InstallLabels
  BY Zenon, <1>1 DEF AtFirst, AtUpdate, Handling, FirstLabels, HandleLabels, HandlerLabels, RemovalLabels,
     UpdateLabels, ModuleLabels, InstallLabels, Labels
<1>4. BaseType
  BY Zenon, <1>1, <1>2, <1>3 DEF BaseType, NoRecord, Status, Finished, Mark
<1>5. StateInv
  BY Zenon, <1>1, <1>3 DEF StateInv, Busy
<1>6. OperandInv
  BY Zenon, <1>1, <1>3 DEF OperandInv, Finished
<1> QED
  BY <1>4, <1>5, <1>6 DEF BaseInv

\* Every step keeps the invariant.
LEMMA NextBase ==
    ASSUME BaseInv, [InstallNext]_vars
    PROVE  BaseInv'
<1>1. CASE UNCHANGED vars
  <2>1. BaseType'
    BY Zenon, <1>1 DEF vars, BaseInv, BaseType
  <2>2. StateInv'
    BY Zenon, <1>1 DEF vars, BaseInv, StateInv, AtFirst, AtRest, Handling
  <2>3. OperandInv'
    BY Zenon, <1>1 DEF vars, BaseInv, OperandInv, AtFirst, AtUpdate, AtRest, Handling
  <2> QED
    BY <2>1, <2>2, <2>3 DEF BaseInv
<1>2. CASE Request
  BY Zenon, <1>2, StartBase, FirstBase DEF Request
<1>3. CASE Step
  <2>1. CASE UpdateStep
    BY Zenon, <2>1, QuietSteps, QuietMoves, QuietBase, ExtractBase, InfoBase, FinishBase, DirsKept
       DEF UpdateStep
  <2>2. CASE HandleStep
    BY Zenon, <2>2, QuietSteps, QuietMoves, QuietBase, DirsKept DEF HandleStep
  <2>3. CASE LoadAll
    BY <2>3, LoadBase
  <2> QED
    BY <1>3, <2>1, <2>2, <2>3 DEF Step
<1>4. CASE InstallStep
  BY Zenon, <1>4, QuietSteps, QuietMoves, QuietBase, ExtractBase, InfoBase, FirstBase, RemovalBase,
     ModuleMoves, LoadBase, DirsKept DEF InstallStep
<1>5. CASE InstallCrash
  BY <1>5, CrashBase
<1> QED
  BY Zenon, <1>1, <1>2, <1>3, <1>4, <1>5 DEF InstallNext

\* In every behaviour, whatever fails and wherever the service crashes.
THEOREM BaseInvariant == InstallSpec => []BaseInv
<1> QED
  BY InitBase, NextBase, PTL DEF InstallSpec

\* Whenever no operation runs, installStates_ has INSTALL_SUCCESS for a bundle in
\* memory and no entry for any other, but for the UNINSTALL_START of an
\* uninstallation whose mark could not be saved: for every fault, every crash
\* and every sequence of requests.
THEOREM StatesSettle == InstallSpec => []StateSettles
<1>1. BaseInv => StateSettles
  BY Zenon DEF BaseInv, StateInv, StateSettles, MayStick, AtRest, AtFirst, FirstLabels, Handling, HandleLabels,
     HandlerLabels
<1> QED
  BY BaseInvariant, <1>1, PTL

----------------------------------------------------------------------------
\* Faults without which an info never loses all of its modules.
TypeCovered == {"dropped", "skills"} \cap Faults = {}

\* Where the info in memory has every module that a rollback would put back.
Restorable ==
    \/ pc \in (UpdateLabels \ {"late", "commit", "skills"}) \cup (ModuleLabels \ {"mSkills"}) \cup {"rollback"}
    \/ pc \in {"late", "commit"} /\ old.mods \subseteq pkg.mods
    \/ Handling("saveCreate")

InfoInv ==
    /\ db \in Info \cup {NoInfo} /\ mem \in Info \cup {NoInfo} /\ old \in Info \cup {NoInfo}
    /\ Restorable => old.mods \subseteq mem.mods
    /\ pc = "umMark" => \E m \in Modules : todo = {m}
    /\ pc \in {"umRemove", "umInfo"} => old.mods \ todo # {}

TypeInv == BaseInv /\ InfoInv

\* Steps that leave the infos alone.
LEMMA InfoKept ==
    ASSUME InfoInv, UNCHANGED <<db, mem, old>>, Restorable' => Restorable,
           pc' # "umMark", pc' \in {"umRemove", "umInfo"} => pc = "umRemove" /\ todo' = todo
    PROVE  InfoInv'
  BY DEF InfoInv

\* They do not reach a rollback from where it could not restore the modules.
LEMMA InfoSteps ==
    ASSUME BaseInv, InfoInv, TypeCovered,
           SaveCreate \/ Prepare \/ SaveRealToOld \/ SaveNewToReal \/ LateSteps \/
              CommitAppSkills \/ SaveDeleteOld \/ DropRecord \/ RollbackCodePath \/
              Handle \/ HandleRestoreDrop \/ HandleDrop \/ InstallSkills \/
              InstallRollback \/ PrepareModules \/ LateModules \/ SkillsOfModules \/
              RealToOld \/ NewToReal \/ OldToTemp \/ HandleCreateNewDir \/ HandleRestore \/
              HandleRemoveNew \/ HandleGone \/ HandleOldToTemp \/ HandleRemoveTemp \/
              InstallRemove \/ UninstallRemove \/ RemoveOld \/
              RenameModuleDir \/ RemoveModuleDir \/ ExtractModule \/ ExtractBeside \/
              StartInstall \/ InstallModule \/ InstallPrepare \/ Finish
    PROVE  InfoInv'
<1> USE DEF Goto, Rollback, op, Restorable, Handling, UpdateLabels, ModuleLabels, HandleLabels, HandlerLabels
<1>0. /\ mem # NoInfo => mem \in Info
      /\ NoInfo \in Info \cup {NoInfo}
      /\ ret \in {"idle", "saveCreate", "finish", "iRemove", "uRemove"}
  BY Zenon, Operands DEF InfoInv
<1>1. CASE SaveCreate
  BY Zenon, <1>0, <1>1, InfoKept DEF SaveCreate
<1>2. CASE Prepare
  BY Zenon, <1>0, <1>2, InfoKept DEF Prepare
<1>3. CASE SaveRealToOld
  BY Zenon, <1>0, <1>3, InfoKept DEF SaveRealToOld
<1>4. CASE SaveNewToReal
  BY Zenon, <1>0, <1>4, InfoKept DEF SaveNewToReal
<1>5. CASE LateSteps
  BY Zenon, <1>0, <1>5, InfoKept DEF LateSteps, FailsLate, TypeCovered
<1>6. CASE CommitAppSkills
  BY Zenon, <1>0, <1>6, InfoKept DEF CommitAppSkills, TypeCovered
<1>7. CASE SaveDeleteOld
  BY Zenon, <1>0, <1>7, InfoKept DEF SaveDeleteOld
<1>8. CASE DropRecord
  BY Zenon, <1>0, <1>8, InfoKept DEF DropRecord
<1>9. CASE RollbackCodePath
  BY Zenon, <1>0, <1>9, InfoKept DEF RollbackCodePath
<1>10. CASE Handle
  BY Zenon, <1>10, Operands, InfoKept DEF Handle, Status
<1>11. CASE HandleRestoreDrop
  BY Zenon, <1>0, <1>11, InfoKept DEF HandleRestoreDrop
<1>12. CASE HandleDrop
  BY Zenon, <1>0, <1>12, InfoKept DEF HandleDrop
<1>13. CASE InstallSkills
  BY Zenon, <1>0, <1>13, InfoKept DEF InstallSkills
<1>14. CASE InstallRollback
  BY Zenon, <1>0, <1>14, InfoKept DEF InstallRollback
<1>15. CASE PrepareModules
  BY Zenon, <1>0, <1>15, InfoKept DEF PrepareModules
<1>16. CASE LateModules
  BY Zenon, <1>0, <1>16, InfoKept DEF LateModules
<1>17. CASE SkillsOfModules
  BY Zenon, <1>0, <1>17, InfoKept DEF SkillsOfModules, TypeCovered
<1>18. CASE RealToOld
  BY Zenon, <1>0, <1>18, InfoKept DEF RealToOld
<1>19. CASE NewToReal
  BY Zenon, <1>0, <1>19, InfoKept DEF NewToReal
<1>20. CASE OldToTemp
  BY Zenon, <1>0, <1>20, InfoKept DEF OldToTemp
<1>21. CASE HandleCreateNewDir
  BY Zenon, <1>0, <1>21, InfoKept DEF HandleCreateNewDir
<1>22. CASE HandleRestore
  BY Zenon, <1>0, <1>22, InfoKept DEF HandleRestore
<1>23. CASE HandleRemoveNew
  BY Zenon, <1>0, <1>23, InfoKept DEF HandleRemoveNew
<1>24. CASE HandleGone
  BY Zenon, <1>0, <1>24, InfoKept DEF HandleGone
<1>25. CASE HandleOldToTemp
  BY Zenon, <1>0, <1>25, InfoKept DEF HandleOldToTemp
<1>26. CASE HandleRemoveTemp
  BY Zenon, <1>0, <1>26, InfoKept DEF HandleRemoveTemp
<1>27. CASE InstallRemove
  BY Zenon, <1>0, <1>27, InfoKept DEF InstallRemove
<1>28. CASE UninstallRemove
  BY Zenon, <1>0, <1>28, InfoKept DEF UninstallRemove
<1>29. CASE RemoveOld
  BY Zenon, <1>0, <1>29, InfoKept DEF RemoveOld
<1>30. CASE RenameModuleDir
  BY Zenon, <1>0, <1>30, InfoKept DEF RenameModuleDir
<1>31. CASE RemoveModuleDir
  BY Zenon, <1>0, <1>31, InfoKept DEF RemoveModuleDir
<1>32. CASE ExtractModule
  BY Zenon, <1>0, <1>32, InfoKept DEF ExtractModule
<1>33. CASE ExtractBeside
  BY Zenon, <1>0, <1>33, InfoKept DEF ExtractBeside
<1>34. CASE StartInstall
  BY Zenon, <1>0, <1>34, InfoKept DEF StartInstall, Begin, InfoInv
<1>35. CASE InstallModule
  BY Zenon, <1>0, <1>35, InfoKept DEF InstallModule
<1>36. CASE InstallPrepare
  BY Zenon, <1>0, <1>36, InfoKept DEF InstallPrepare
<1>37. CASE Finish
  BY Zenon, <1>0, <1>37, InfoKept DEF Finish, EndOperation, InfoInv
<1> QED
  BY Zenon, <1>1, <1>2, <1>3, <1>4, <1>5, <1>6, <1>7, <1>8, <1>9, <1>10, <1>11, <1>12, <1>13, <1>14, <1>15,
     <1>16, <1>17, <1>18, <1>19, <1>20, <1>21, <1>22, <1>23, <1>24, <1>25, <1>26, <1>27, <1>28, <1>29, <1>30,
     <1>31, <1>32, <1>33, <1>34, <1>35, <1>36, <1>37

\* BundleExceptionHandler removes the bundle rather than its last module.
LEMMA KeptType ==
    ASSUME NEW i \in Info \cup {NoInfo}, NEW k
    PROVE  Kept(i, k) \in Info \cup {NoInfo}
  BY DEF Kept, Info, NoInfo

\* The steps that write infos.
LEMMA InfoWrites ==
    ASSUME BaseInv, InfoInv, TypeCovered,
           StartUpdate \/ StartModules \/ StartUninstall \/ StartUninstallModule \/
              UninstallLower \/ MarkInstallFinish \/ CommitModules \/ RollBackModule \/
              RemoveModuleInfo \/ InstallCommit \/ InstallErase \/ MarkUninstall \/
              UninstallErase \/ MarkUninstallModule \/ LoadAll \/ LoadMarked \/ InstallCrash
    PROVE  InfoInv'
<1> USE DEF Goto, Rollback, op, Restorable, Handling, UpdateLabels, ModuleLabels, HandleLabels, HandlerLabels
<1>0. /\ pkg \in Packages => pkg \in Info
      /\ NoInfo \in Info \cup {NoInfo} /\ NoInfo \notin Info
      /\ db \in Info \cup {NoInfo} /\ mem \in Info \cup {NoInfo} /\ old \in Info \cup {NoInfo}
  BY Zenon, UpdateAssumption DEF InfoInv, Info, NoInfo
<1>1. CASE StartUpdate \/ StartModules \/ StartUninstall \/ StartUninstallModule
  <2>1. /\ UNCHANGED <<db, mem>> /\ old' = mem /\ pc' \notin {"umRemove", "umInfo"}
        /\ pc' = "umMark" => \E m \in mem.mods : todo' = {m}
    BY Zenon, <1>1 DEF StartUpdate, StartModules, StartUninstall, StartUninstallModule, Begin
  <2>2. mem.mods \subseteq Modules
    <3>1. NoInfo.mods = {} /\ (mem \in Info => mem.mods \in SUBSET Modules)
      BY Zenon DEF Info, NoInfo
    <3> QED
      BY Zenon, <1>0, <3>1
  <2> QED
    BY Zenon, <1>0, <2>1, <2>2 DEF InfoInv
<1>2. CASE UninstallLower
  <2>1. /\ pc = "lower" /\ pc' = "late" /\ UNCHANGED <<db, old, pkg>>
        /\ IF old.mods \subseteq pkg.mods THEN mem' = mem ELSE mem' = pkg
    BY Zenon, <1>2 DEF UninstallLower
  <2>2. pkg \in Info
    BY Zenon, <1>0, <2>1 DEF BaseInv, OperandInv, AtUpdate
  <2> QED
    BY <1>0, <2>1, <2>2 DEF InfoInv
<1>3. CASE MarkInstallFinish
  <2>1. pc = "commit" /\ pkg \in Info
    BY Zenon, <1>0, <1>3 DEF MarkInstallFinish, BaseInv, OperandInv, AtUpdate
  <2>2. CASE db' = pkg /\ mem' = pkg /\ pc' = "skills" /\ old' = old
    BY Zenon, <1>0, <2>1, <2>2 DEF InfoInv
  <2>3. CASE FailsLate("info") /\ pc' = "rollback" /\ UNCHANGED <<db, mem, old, pkg>>
    BY <2>1, <2>3, InfoKept DEF FailsLate, TypeCovered
  <2> QED
    BY Zenon, <1>3, <2>2, <2>3 DEF MarkInstallFinish
<1>4. CASE CommitModules
  <2>1. pc = "mCommit" /\ pkg \in Info /\ old \in Info
    BY <1>0, <1>4 DEF CommitModules, BaseInv, OperandInv, AtUpdate
  <2>2. CASE db' = [old EXCEPT !.mods = @ \cup pkg.mods] /\ mem' = db' /\ pc' = "mSkills" /\ old' = old
    <3>1. db' \in Info
      BY Zenon, <2>1, <2>2 DEF Info
    <3> QED
      BY <2>1, <2>2, <3>1 DEF InfoInv
  <2>3. CASE pc' = "rollback" /\ UNCHANGED <<db, mem, old, pkg>>
    BY <2>1, <2>3, InfoKept
  <2> QED
    BY Zenon, <1>4, <2>2, <2>3 DEF CommitModules
<1>5. CASE RollBackModule
  <2>1. pc = "rollback" /\ old \in Info /\ mem \in Info /\ old.mods \subseteq mem.mods
    BY Zenon, <1>0, <1>5 DEF RollBackModule, BaseInv, OperandInv, AtUpdate, InfoInv
  <2>2. pc' = "rollback" /\ old' = old
    BY <1>5, <2>1 DEF RollBackModule
  <2>3. PICK m \in todo : RollBackOldModule(m) \/ RollBackNewModule(m)
    BY Zenon, <1>5 DEF RollBackModule
  <2>4. CASE mem' = mem /\ db' = db
    BY Zenon, <1>0, <2>1, <2>2, <2>4 DEF InfoInv
  <2>5. CASE mem' = [ver |-> old.ver, mods |-> mem.mods \cup old.mods] /\ db' = db
    <3>1. mem' \in Info
      BY <2>1, <2>5 DEF Info
    <3> QED
      BY Zenon, <1>0, <2>1, <2>2, <2>5, <3>1 DEF InfoInv
  <2>6. CASE m \notin old.mods /\ mem' = [mem EXCEPT !.mods = @ \ {m}] /\ db' = mem'
    <3>1. mem' \in Info /\ old.mods \subseteq mem'.mods
      BY <2>1, <2>6 DEF Info
    <3> QED
      BY <1>0, <2>1, <2>2, <2>6, <3>1 DEF InfoInv
  <2> QED
    BY Zenon, <2>3, <2>4, <2>5, <2>6 DEF RollBackOldModule, RollBackNewModule
<1>6. CASE RemoveModuleInfo
  <2>1. pc = "umInfo" /\ old \in Info /\ old.mods \ todo # {} /\ pc' = "finish" /\ old' = old
    BY Zenon, <1>0, <1>6 DEF RemoveModuleInfo, BaseInv, OperandInv, RemovalLabels, InfoInv
  <2>2. CASE mem' = mem /\ db' = db
    BY Zenon, <1>0, <2>1, <2>2 DEF InfoInv
  <2>3. CASE db' = [old EXCEPT !.mods = @ \ todo] /\ mem' = db'
    <3>1. db' \in Info
      BY Zenon, <2>1, <2>3 DEF Info
    <3> QED
      BY <1>0, <2>1, <2>3, <3>1 DEF InfoInv
  <2> QED
    BY Zenon, <1>6, <2>2, <2>3 DEF RemoveModuleInfo
<1>7. CASE InstallCommit
  BY Zenon, <1>0, <1>7 DEF InstallCommit, InfoInv, BaseInv, OperandInv, AtFirst, FirstLabels
<1>8. CASE InstallErase
  BY Zenon, <1>0, <1>8 DEF InstallErase, Erase, InfoInv
<1>9. CASE UninstallErase
  BY Zenon, <1>0, <1>9 DEF UninstallErase, Erase, InfoInv
<1>10. CASE MarkUninstall
  BY <1>0, <1>10 DEF MarkUninstall, SaveMark, EndOperation, InfoInv
<1>11. CASE MarkUninstallModule
  <2>1. pc = "umMark" /\ old \in Info /\ mem' = mem /\ db' \in {db, mem}
    BY <1>0, <1>11 DEF MarkUninstallModule, SaveMark, BaseInv, OperandInv, RemovalLabels
  <2>2. CASE pc' = "idle" /\ old' = NoInfo
    BY Zenon, <1>0, <2>1, <2>2 DEF InfoInv
  <2>3. CASE \E m \in todo : /\ pc' \in {"uErase", "umRemove", "finish"} /\ old' = old /\ todo' = todo
                             /\ pc' = "umRemove" => old.mods # {m}
    <3>1. PICK m \in todo : /\ pc' \in {"uErase", "umRemove", "finish"} /\ old' = old /\ todo' = todo
                            /\ pc' = "umRemove" => old.mods # {m}
      BY Zenon, <2>3
    <3>2. todo = {m}
      BY Zenon, <2>1, <3>1 DEF InfoInv
    <3>3. old.mods # {}
      BY <2>1 DEF Info
    <3>4. pc' = "umRemove" => old.mods # {m}
      BY Zenon, <3>1
    <3>5. pc' = "umRemove" => old.mods \ todo # {}
      BY <3>2, <3>3, <3>4
    <3> QED
      BY Zenon, <1>0, <2>1, <3>1, <3>5 DEF InfoInv
  <2> QED
    BY Zenon, <1>11, <2>2, <2>3 DEF MarkUninstallModule, IsOnlyModule, EndOperation
<1>12. CASE LoadAll
  BY Zenon, <1>0, <1>12 DEF LoadAll, InfoInv, BaseInv, OperandInv
<1>13. CASE LoadMarked
  <2>1. pc = "off" /\ pc' = "handle" /\ old' = old /\ ret' = ret /\ ret = "idle"
    BY Zenon, <1>13 DEF LoadMarked, BaseInv, OperandInv
  <2>2. Kept(db, mark.db) \in Info \cup {NoInfo}
    BY Zenon, <1>0, KeptType
  <2>3. mem' \in {db, Kept(db, mark.db)} /\ db' \in {db, NoInfo}
    BY Zenon, <1>13 DEF LoadMarked
  <2> QED
    BY Zenon, <1>0, <2>1, <2>2, <2>3 DEF InfoInv
<1>14. CASE InstallCrash
  BY Zenon, <1>0, <1>14 DEF InstallCrash, Crash, LoseMemory, EndOperation, InfoInv
<1> QED
  BY Zenon, <1>1, <1>2, <1>3, <1>4, <1>5, <1>6, <1>7, <1>8, <1>9, <1>10, <1>11, <1>12, <1>13, <1>14

\* Every step keeps the invariant.
LEMMA NextType ==
    ASSUME TypeInv, TypeCovered, [InstallNext]_vars
    PROVE  TypeInv'
<1>0. BaseInv /\ InfoInv
  BY DEF TypeInv
<1>1. BaseInv'
  BY <1>0, NextBase
<1>2. InfoInv'
  <2>1. CASE UNCHANGED vars
    BY Zenon, <1>0, <2>1 DEF vars, InfoInv, Restorable, Handling
  <2>2. CASE InstallNext
    BY Zenon, <1>0, <2>2, InfoSteps, InfoWrites DEF InstallNext, Request, Step, UpdateStep, HandleStep,
       InstallStep
  <2> QED
    BY <2>1, <2>2
<1> QED
  BY <1>1, <1>2 DEF TypeInv

\* The initial states.
LEMMA InitType == InstallInit => TypeInv
<1>1. InstallInit => InfoInv
  BY UpdateAssumption DEF InstallInit, Init, InfoInv, Restorable, Handling, HandleLabels, HandlerLabels,
     UpdateLabels, ModuleLabels
<1> QED
  BY Zenon, <1>1, InitBase DEF TypeInv

\* In every behaviour without the two faults.
THEOREM TypeInvariant == ASSUME TypeCovered PROVE InstallSpec => []TypeInv
<1>1. TypeInv /\ [InstallNext]_vars => TypeInv'
  BY NextType
<1> QED
  BY InitType, <1>1, PTL DEF InstallSpec

\* Every variable keeps its type through every operation, fault and crash, and a
\* row or an info in memory has at least one module, as long as CommitAppSkills
\* succeeds and an update that drops a module does not fail after its renames.
THEOREM InstallTypes == ASSUME TypeCovered PROVE InstallSpec => []InstallTypeOK
<1>1. TypeInv => InstallTypeOK
  BY Zenon DEF TypeInv, BaseInv, BaseType, InfoInv, InstallTypeOK, StateInv, Dirs, InstallState, Busy,
     Installing
<1> QED
  BY TypeInvariant, <1>1, PTL

----------------------------------------------------------------------------
\* What the removal of all code rests on: no crash, and no failure to save a
\* record, to remove a directory or to rename one back.
TidyCovered ==
    /\ InstallLabels \subseteq Stable
    /\ {"save", "remove", "recover", "skills", "dropped"} \cap Faults = {}

NothingLeft == dir["new"] = Empty /\ dir["old"] = Empty

\* InstallExceptionMgr, called now, removes or restores what +new- and +old- hold.
Owed ==
    \/ NothingLeft
    \/ rec.status = "CREATE_NEW_DIR" /\ dir["old"] = Empty
    \/ rec.status = "RENAME_RELA_TO_OLD_PATH"
    \/ rec.status = "RENAME_NEW_TO_REAL_PATH" /\ mem # NoInfo /\ mem.ver = rec.ver

\* Where +new-, +old- and +temp- may hold code.
NewLabels == {"extract", "saveRealToOld", "realToOld", "saveNewToReal", "newToReal", "rollback",
              "handle", "hCreate", "hRestore", "hRestoreDrop", "hRemoveNew"}
OldLabels == {"saveNewToReal", "newToReal", "lower", "late", "commit", "skills", "saveDeleteOld",
              "oldToTemp", "removeOld", "rollback", "handle", "hRestore"}
TidyDirs ==
    /\ pc \notin {"removeTemp", "hRemoveTemp"} => dir["temp"] = Empty
    /\ pc \notin NewLabels => dir["new"] = Empty
    /\ pc \notin OldLabels => dir["old"] = Empty
    /\ pc \in {"handle", "rollback"} => Owed
    /\ pc = "rollback" /\ pkg.ver = old.ver => NothingLeft

\* The record of the stage that an update is in.
StageLabels == {"extract", "saveRealToOld", "realToOld", "saveNewToReal"} \cup SwitchedLabels
TidyStage ==
    /\ pc \in {"extract", "saveRealToOld"} => rec.status = "CREATE_NEW_DIR"
    /\ pc \in {"realToOld", "saveNewToReal"} => rec.status = "RENAME_RELA_TO_OLD_PATH"
    /\ pc \in SwitchedLabels => rec = [status |-> "RENAME_NEW_TO_REAL_PATH", ver |-> old.ver]

\* The version that a rollback finds in memory, and the real directory of a
\* bundle that is not in memory: no code, but for an installation and an
\* uninstallation before they remove it.
Changing == pc \in UpdateLabels \ {"skills"} \/ Handling("saveCreate")
Removing ==
    \/ pc \in {"iExtract", "iCommit", "iRollback", "iRemove", "uRemove"}
    \/ Handling("iRemove") \/ Handling("uRemove")
TidyMemory ==
    /\ Restorable => mem.ver = old.ver
    /\ Changing => pkg.ver # old.ver
    /\ pc # "off" /\ ~Handling("idle")
    /\ Handling("finish") => mem # NoInfo
    /\ mem = NoInfo /\ ~Removing => dir["real"] = Empty
    /\ pc = "iErase" => dir["real"] = Empty

TidyInv == TypeInv /\ TidyDirs /\ TidyStage /\ TidyMemory

\* A rename that succeeds.
LEMMA Renamed ==
    ASSUME dir \in Dirs, NEW s \in DirNames, NEW d \in DirNames, s # d, RenameOk(s, d)
    PROVE  /\ dir'[s] = Empty
           /\ \A e \in DirNames \ {s, d} : dir'[e] = dir[e]
           /\ dir[s] = Empty => dir' = dir /\ dir[d] # Empty
  BY Zenon DEF RenameOk, Exists, Dirs

\* A rename that fails, or had nothing to rename.
LEMMA NotRenamed ==
    ASSUME dir \in Dirs, NEW s \in DirNames, NEW d \in DirNames, NEW f, RenameFails(s, d, f)
    PROVE  /\ \A e \in DirNames \ {d} : dir'[e] = dir[e]
           /\ dir[d] = Empty => dir'[d] = Empty
           /\ f \notin Faults => dir[s] = Empty
<1>1. CASE dir[s] # Empty
  BY Zenon, <1>1, CutElse, CutEmpty DEF RenameFails, Exists
<1>2. CASE dir[s] = Empty
  BY <1>2 DEF RenameFails, Exists
<1> QED
  BY Zenon, <1>1, <1>2

\* Neither touches another directory.
LEMMA Elsewhere ==
    ASSUME dir \in Dirs, NEW s \in DirNames, NEW d \in DirNames, s # d, NEW f,
           RenameOk(s, d) \/ RenameFails(s, d, f), NEW e \in DirNames \ {s, d}
    PROVE  dir'[e] = dir[e]
<1>1. CASE RenameOk(s, d)
  BY Zenon, <1>1, Renamed
<1>2. CASE RenameFails(s, d, f)
  BY Zenon, <1>2, NotRenamed
<1> QED
  BY Zenon, <1>1, <1>2

\* The renames of an update and what they leave alone.
LEMMA UpdateRenames ==
    ASSUME dir \in Dirs
    PROVE  /\ RenameOk("real", "old") \/ RenameFails("real", "old", "rename") => dir'["temp"] = dir["temp"]
           /\ RenameOk("new", "real") \/ RenameFails("new", "real", "rename")
              => dir'["temp"] = dir["temp"] /\ dir'["old"] = dir["old"]
           /\ RenameOk("new", "real") => dir'["new"] = Empty
           /\ RenameOk("old", "temp") \/ RenameFails("old", "temp", "rename") => dir'["real"] = dir["real"]
           /\ RenameOk("old", "real") \/ RenameFails("old", "real", "recover") => dir'["temp"] = dir["temp"]
<1>1. {"real", "new", "old", "temp"} \subseteq DirNames
  BY DEF DirNames
<1> QED
  BY <1>1, Elsewhere, Renamed

\* A removal, which never fails here.
LEMMA Removed ==
    ASSUME dir \in Dirs, TidyCovered, NEW d \in DirNames, RemoveOk(d) \/ RemoveFails(d)
    PROVE  dir'[d] = Empty /\ \A e \in DirNames \ {d} : dir'[e] = dir[e]
<1>1. RemoveOk(d)
  BY Zenon DEF TidyCovered, RemoveFails
<1> QED
  BY <1>1 DEF RemoveOk, Dirs

\* Steps that leave the infos alone.
LEMMA TidyMemoryKept ==
    ASSUME TidyMemory, UNCHANGED <<mem, pkg, old>>,
           Restorable' => Restorable, Changing' => Changing,
           pc' \notin {"off", "iErase"}, ~(Handling("idle")'),
           \/ mem # NoInfo
           \/ Removing' /\ ~(Handling("finish")')
           \/ ~Removing /\ ~(Handling("finish")') /\ dir'["real"] = dir["real"]
    PROVE  TidyMemory'
  BY Zenon DEF TidyMemory

\* The steps of an operation on a bundle in memory.
LEMMA TidyMemoryUpdate ==
    ASSUME BaseInv, TidyMemory, TidyCovered,
           SaveCreate \/ ExtractModule \/ Prepare \/ SaveRealToOld \/ RealToOld \/ SaveNewToReal \/
              NewToReal \/ LateSteps \/ CommitAppSkills \/ RollbackCodePath \/ ExtractBeside \/
              PrepareModules \/ RenameModuleDir \/ LateModules \/ SkillsOfModules \/
              MarkUninstallModule \/ RemoveModuleDir
    PROVE  TidyMemory'
<1> USE DEF Goto, Rollback, op, Restorable, Changing, Removing, Handling, UpdateLabels, ModuleLabels,
      HandleLabels, HandlerLabels
<1>0. /\ pc \in UpdateLabels \cup ModuleLabels \cup {"rollback", "umMark", "umRemove"} => mem # NoInfo
      /\ {"skills", "dropped"} \cap Faults = {}
  BY Zenon DEF BaseInv, OperandInv, AtUpdate, RemovalLabels, TidyCovered
<1>1. CASE SaveCreate
  BY Zenon, <1>0, <1>1, TidyMemoryKept DEF SaveCreate
<1>2. CASE ExtractModule
  BY Zenon, <1>0, <1>2, TidyMemoryKept DEF ExtractModule
<1>3. CASE Prepare
  BY Zenon, <1>0, <1>3, TidyMemoryKept DEF Prepare
<1>4. CASE SaveRealToOld
  BY Zenon, <1>0, <1>4, TidyMemoryKept DEF SaveRealToOld
<1>5. CASE RealToOld
  BY Zenon, <1>0, <1>5, TidyMemoryKept DEF RealToOld
<1>6. CASE SaveNewToReal
  BY Zenon, <1>0, <1>6, TidyMemoryKept DEF SaveNewToReal
<1>7. CASE NewToReal
  BY Zenon, <1>0, <1>7, TidyMemoryKept DEF NewToReal
<1>8. CASE LateSteps
  BY Zenon, <1>0, <1>8, TidyMemoryKept DEF LateSteps, FailsLate
<1>9. CASE CommitAppSkills
  BY Zenon, <1>0, <1>9, TidyMemoryKept DEF CommitAppSkills
<1>10. CASE RollbackCodePath
  BY Zenon, <1>0, <1>10, TidyMemoryKept DEF RollbackCodePath
<1>11. CASE ExtractBeside
  BY Zenon, <1>0, <1>11, TidyMemoryKept DEF ExtractBeside
<1>12. CASE PrepareModules
  BY Zenon, <1>0, <1>12, TidyMemoryKept DEF PrepareModules
<1>13. CASE RenameModuleDir
  BY Zenon, <1>0, <1>13, TidyMemoryKept DEF RenameModuleDir
<1>14. CASE LateModules
  BY Zenon, <1>0, <1>14, TidyMemoryKept DEF LateModules
<1>15. CASE SkillsOfModules
  BY Zenon, <1>0, <1>15, TidyMemoryKept DEF SkillsOfModules
<1>16. CASE MarkUninstallModule
  <2>1. CASE UNCHANGED <<pkg, old>>
    BY Zenon, <1>0, <1>16, <2>1, TidyMemoryKept DEF MarkUninstallModule
  <2>2. CASE pc' = "idle"
    BY Zenon, <1>0, <1>16, <2>2 DEF MarkUninstallModule, TidyMemory
  <2> QED
    BY Zenon, <1>16, <2>1, <2>2 DEF MarkUninstallModule
<1>17. CASE RemoveModuleDir
  BY Zenon, <1>0, <1>17, TidyMemoryKept DEF RemoveModuleDir
<1> QED
  BY Zenon, <1>1, <1>2, <1>3, <1>4, <1>5, <1>6, <1>7, <1>8, <1>9, <1>10, <1>11, <1>12, <1>13, <1>14, <1>15,
     <1>16, <1>17

\* The deletion of the old code.
LEMMA TidyMemoryDelete ==
    ASSUME BaseInv, TidyMemory, TidyCovered,
           SaveDeleteOld \/ OldToTemp \/ RemoveOld \/ DropRecord
    PROVE  TidyMemory'
<1> USE DEF Goto, op, Restorable, Changing, Removing, Handling, UpdateLabels, ModuleLabels,
      HandleLabels, HandlerLabels
<1>0. dir \in Dirs /\ {"real", "old", "temp"} \subseteq DirNames
  BY Zenon DEF BaseInv, BaseType, DirNames
<1>1. CASE SaveDeleteOld \/ DropRecord
  BY Zenon, <1>1, TidyMemoryKept DEF SaveDeleteOld, DropRecord
<1>2. CASE OldToTemp
  <2>1. /\ pc = "oldToTemp" /\ pc' \in {"removeTemp", "removeOld"} /\ UNCHANGED <<mem, pkg, old>>
        /\ RenameOk("old", "temp") \/ RenameFails("old", "temp", "rename")
    BY Zenon, <1>2 DEF OldToTemp
  <2>2. dir'["real"] = dir["real"]
    BY Zenon, <1>0, <2>1, UpdateRenames
  <2> QED
    BY Zenon, <2>1, <2>2, TidyMemoryKept
<1>3. CASE RemoveOld
  <2>1. PICK d \in {"old", "temp"} : RemoveOk(d) \/ RemoveFails(d)
    BY Zenon, <1>3 DEF RemoveOld
  <2>2. dir'["real"] = dir["real"]
    BY Zenon, <1>0, <2>1, Removed
  <2>3. pc \in {"removeTemp", "removeOld"} /\ pc' \in {"drop", "finish"} /\ UNCHANGED <<mem, pkg, old>>
    BY <1>3 DEF RemoveOld
  <2> QED
    BY Zenon, <2>2, <2>3, TidyMemoryKept
<1> QED
  BY <1>1, <1>2, <1>3

\* The handling of a record: a removal goes on after it, any other operation
\* has the bundle in memory.
LEMMA TidyMemoryHandle ==
    ASSUME BaseInv, TidyMemory, HandleStep
    PROVE  TidyMemory'
<1>1. /\ pc \in HandleLabels /\ pc' \in HandleLabels \cup {ret} /\ UNCHANGED <<mem, pkg, old, ret>>
      /\ ret \in {"saveCreate", "finish", "iRemove", "uRemove"}
  <2>1. pc \in HandleLabels /\ UNCHANGED <<mem, pkg, old, ret>>
    BY DEF HandleStep, Handle, HandleCreateNewDir, HandleRestore, HandleRestoreDrop, HandleRemoveNew,
       HandleGone,
       HandleOldToTemp, HandleRemoveTemp, HandleDrop, HandleLabels, HandlerLabels, op
  <2>2. pc' \in HandleLabels \cup {ret}
    <3>1. CASE Handle
      BY Zenon, <3>1, Operands DEF Handle, Status, HandleLabels, HandlerLabels
    <3>2. CASE ~Handle
      BY Zenon, <3>2 DEF HandleStep, HandleCreateNewDir, HandleRestore, HandleRestoreDrop,
         HandleRemoveNew, HandleGone,
         HandleOldToTemp, HandleRemoveTemp, HandleDrop, HandleLabels, HandlerLabels, Goto
    <3> QED
      BY <3>1, <3>2
  <2> QED
    BY <2>1, <2>2, Operands DEF TidyMemory, Handling
<1>2. CASE ret \in {"saveCreate", "finish"}
  <2>1. mem # NoInfo
    BY Zenon, <1>1, <1>2 DEF TidyMemory, BaseInv, OperandInv, AtUpdate, Handling
  <2> QED
    BY Zenon, <1>1, <1>2, <2>1, TidyMemoryKept
    DEF Restorable, Changing, Handling, UpdateLabels, ModuleLabels, HandleLabels, HandlerLabels
<1>3. CASE ret \in {"iRemove", "uRemove"}
  BY Zenon, <1>1, <1>3, TidyMemoryKept
  DEF Restorable, Changing, Removing, Handling, UpdateLabels, ModuleLabels, HandleLabels, HandlerLabels
<1> QED
  BY Zenon, <1>1, <1>2, <1>3

\* Steps after which the bundle is in memory.
LEMMA TidyMemoryWith ==
    ASSUME mem' # NoInfo, Restorable' => mem'.ver = old'.ver, Changing' => pkg'.ver # old'.ver,
           pc' \notin {"off", "iErase"}, ~(Handling("idle")')
    PROVE  TidyMemory'
  BY Zenon DEF TidyMemory

\* Steps after which it is not, or need not be.
LEMMA TidyMemoryWithout ==
    ASSUME ~Restorable', ~Changing', pc' # "off", ~(Handling("idle")'), ~(Handling("finish")'),
           (Removing' /\ pc' # "iErase") \/ dir'["real"] = Empty \/
              (mem' = mem /\ ~Removing /\ TidyMemory /\ dir' = dir /\ pc' # "iErase")
    PROVE  TidyMemory'
  BY DEF TidyMemory

\* The beginnings and the end of an operation.
LEMMA TidyMemoryBegin ==
    ASSUME BaseInv, TidyMemory, Request \/ Finish
    PROVE  TidyMemory'
<1> USE DEF Goto, Restorable, Changing, Removing, Handling, UpdateLabels, ModuleLabels, HandleLabels, HandlerLabels
<1>1. CASE StartUpdate
  <2>1. /\ mem' = mem /\ mem # NoInfo /\ old' = mem /\ pkg' \in Packages /\ NeedsBundleUpdate(pkg')
        /\ pc' = "rollback" \/ (pc' = "handle" /\ ret' = "saveCreate")
    BY Zenon, <1>1 DEF StartUpdate
  <2>2. mem.ver \in Nat /\ pkg'.ver \in Nat
    BY <2>1, UpdateAssumption DEF BaseInv, BaseType, Bundle, NoInfo, Info
  <2>3. pkg'.ver # old'.ver
    BY <2>1, <2>2 DEF NeedsBundleUpdate
  <2> QED
    BY Zenon, <2>1, <2>3, TidyMemoryWith
<1>2. CASE StartModules \/ StartUninstall \/ StartUninstallModule
  <2>1. /\ mem' = mem /\ mem # NoInfo /\ old' = mem /\ pc' \in {"mExtract", "rollback", "uMark", "umMark"}
    BY Zenon, <1>2 DEF StartModules, StartUninstall, StartUninstallModule, Begin
  <2> QED
    BY Zenon, <2>1, TidyMemoryWith
<1>3. CASE StartInstall
  BY Zenon, <1>3, TidyMemoryWithout DEF StartInstall, Begin
<1>4. CASE Finish
  BY Zenon, <1>4, TidyMemoryWithout DEF Finish
<1> QED
  BY Zenon, <1>1, <1>2, <1>3, <1>4 DEF Request

\* The first installation.
LEMMA TidyMemoryInstall ==
    ASSUME BaseInv, TidyMemory, TidyCovered,
           InstallModule \/ InstallPrepare \/ InstallCommit \/ InstallSkills \/ InstallRollback \/
              InstallRemove \/ InstallErase
    PROVE  TidyMemory'
<1> USE DEF Goto, op, Restorable, Changing, Removing, Handling, UpdateLabels, ModuleLabels, HandleLabels,
      HandlerLabels
<1>0. /\ dir \in Dirs /\ "real" \in DirNames
      /\ pc = "iSkills" => mem # NoInfo
      /\ {"remove", "skills"} \cap Faults = {}
  BY Zenon DEF BaseInv, BaseType, DirNames, OperandInv, TidyCovered
<1>1. CASE InstallModule
  BY Zenon, <1>1, TidyMemoryWithout DEF InstallModule
<1>2. CASE InstallPrepare
  BY Zenon, <1>2, TidyMemoryWithout DEF InstallPrepare
<1>3. CASE InstallCommit
  <2>1. pkg # NoInfo /\ mem' = pkg /\ pc' \in {"iSkills", "iRollback"}
    <3>1. pkg \in Packages /\ mem' = pkg /\ pc' \in {"iSkills", "iRollback"}
      BY Zenon, <1>3 DEF InstallCommit, BaseInv, OperandInv, AtFirst, FirstLabels
    <3>2. pkg.ver # 0 /\ NoInfo.ver = 0
      BY <3>1, UpdateAssumption DEF Info, NoInfo
    <3> QED
      BY Zenon, <3>1, <3>2
  <2> QED
    BY Zenon, <2>1, TidyMemoryWith
<1>4. CASE InstallSkills
  BY Zenon, <1>0, <1>4, TidyMemoryWith DEF InstallSkills
<1>5. CASE InstallRollback
  BY Zenon, <1>0, <1>5, TidyMemoryWithout DEF InstallRollback
<1>6. CASE InstallRemove
  <2>1. pc' = "iErase" /\ dir'["real"] = Empty
    BY Zenon, <1>0, <1>6, Removed DEF InstallRemove
  <2> QED
    BY Zenon, <2>1, TidyMemoryWithout
<1>7. CASE InstallErase
  <2>1. pc' = "finish" /\ dir'["real"] = Empty
    BY Zenon, <1>7 DEF InstallErase, TidyMemory
  <2> QED
    BY Zenon, <2>1, TidyMemoryWithout
<1> QED
  BY Zenon, <1>1, <1>2, <1>3, <1>4, <1>5, <1>6, <1>7

\* The uninstallation of the bundle.
LEMMA TidyMemoryUninstall ==
    ASSUME BaseInv, TidyMemory, TidyCovered,
           MarkUninstall \/ UninstallErase \/ UninstallRemove
    PROVE  TidyMemory'
<1> USE DEF Goto, op, Restorable, Changing, Removing, Handling, UpdateLabels, ModuleLabels, HandleLabels,
      HandlerLabels
<1>0. /\ dir \in Dirs /\ "real" \in DirNames
      /\ pc = "uMark" => mem # NoInfo
      /\ "remove" \notin Faults
  BY Zenon DEF BaseInv, BaseType, DirNames, OperandInv, RemovalLabels, TidyCovered
<1>1. CASE MarkUninstall
  BY Zenon, <1>0, <1>1, TidyMemoryWith DEF MarkUninstall
<1>2. CASE UninstallErase
  BY Zenon, <1>0, <1>2, TidyMemoryWithout DEF UninstallErase
<1>3. CASE UninstallRemove
  <2>1. pc' = "finish" /\ dir'["real"] = Empty
    BY Zenon, <1>0, <1>3, Removed DEF UninstallRemove
  <2> QED
    BY Zenon, <2>1, TidyMemoryWithout
<1> QED
  BY Zenon, <1>1, <1>2, <1>3

\* The steps that change the info of a bundle and keep it in memory.
LEMMA TidyMemoryInfo ==
    ASSUME BaseInv, TidyMemory, TidyCovered,
           UninstallLower \/ MarkInstallFinish \/ CommitModules \/ RollBackModule \/ RemoveModuleInfo
    PROVE  TidyMemory'
<1> USE DEF Goto, Rollback, op
<1>1. /\ old \in Bundle \ {NoInfo} /\ mem \in Bundle \ {NoInfo}
      /\ pc \in {"lower", "commit"} => pkg # NoInfo
  <2>1. pc \in {"lower", "commit", "mCommit", "rollback", "umInfo"}
    BY Zenon DEF UninstallLower, MarkInstallFinish, CommitModules, RollBackModule, RemoveModuleInfo
  <2>2. old \in Bundle \ {NoInfo} /\ mem \in Bundle \ {NoInfo}
    BY Zenon, <2>1 DEF BaseInv, BaseType, OperandInv, AtUpdate, UpdateLabels, ModuleLabels,
       RemovalLabels
  <2>3. pc \in {"lower", "commit"} => pkg \in Packages
    BY Zenon DEF BaseInv, OperandInv, AtUpdate, UpdateLabels
  <2>4. NoInfo \notin Packages
    BY UpdateAssumption DEF Info, NoInfo
  <2> QED
    BY Zenon, <2>2, <2>3, <2>4
<1>2. /\ \A i \in Bundle \ {NoInfo} : \A M : [i EXCEPT !.mods = M] # NoInfo /\ [i EXCEPT !.mods = M].ver = i.ver
      /\ \A M : [ver |-> old.ver, mods |-> M] # NoInfo
  BY Zenon, <1>1 DEF Bundle, NoInfo
<1>3. /\ pc \in {"lower", "commit", "mCommit", "rollback", "umInfo"} /\ UNCHANGED <<pkg, old, ret>>
      /\ pc' \in {"late", "skills", "mSkills", "rollback", "finish"}
      /\ pc' = "late" => pc = "lower"
  BY Zenon DEF UninstallLower, MarkInstallFinish, CommitModules, RollBackModule, RemoveModuleInfo
<1>4. /\ Changing' => Changing
      /\ ~(Handling("idle")')
      /\ Restorable' => pc' = "rollback" \/ (pc' = "late" /\ old.mods \subseteq pkg.mods)
  BY Zenon, <1>3 DEF Changing, Restorable, Handling, UpdateLabels, ModuleLabels, HandleLabels, HandlerLabels
<1>5. CASE UninstallLower
  BY <1>1, <1>3, <1>4, <1>5, TidyMemoryWith DEF UninstallLower, TidyMemory, Restorable, UpdateLabels
<1>6. CASE MarkInstallFinish
  BY Zenon, <1>1, <1>3, <1>4, <1>6, TidyMemoryWith DEF MarkInstallFinish, FailsLate, TidyCovered,
     TidyMemory, Restorable
<1>7. CASE CommitModules
  BY <1>1, <1>2, <1>3, <1>4, <1>7, TidyMemoryWith DEF CommitModules, TidyMemory, Restorable, ModuleLabels
<1>8. CASE RollBackModule
  <2>1. mem.ver = old.ver
    BY Zenon, <1>8 DEF RollBackModule, TidyMemory, Restorable
  <2>2. \/ mem' = mem
        \/ mem' = [ver |-> old.ver, mods |-> mem.mods \cup old.mods]
        \/ \E m : mem' = [mem EXCEPT !.mods = @ \ {m}]
    BY Zenon, <1>8 DEF RollBackModule, RollBackOldModule, RollBackNewModule
  <2>3. \A m : [mem EXCEPT !.mods = @ \ {m}] # NoInfo /\ [mem EXCEPT !.mods = @ \ {m}].ver = mem.ver
    BY <1>1 DEF Bundle, NoInfo
  <2>4. mem' # NoInfo /\ mem'.ver = old.ver
    <3>1. CASE mem' = mem
      BY <1>1, <2>1, <3>1
    <3>2. CASE mem' = [ver |-> old.ver, mods |-> mem.mods \cup old.mods]
      BY <1>2, <3>2
    <3>3. CASE \E m : mem' = [mem EXCEPT !.mods = @ \ {m}]
      BY Zenon, <2>1, <2>3, <3>3
    <3> QED
      BY Zenon, <2>2, <3>1, <3>2, <3>3
  <2> QED
    BY Zenon, <1>3, <1>4, <2>4, TidyMemoryWith DEF TidyMemory
<1>9. CASE RemoveModuleInfo
  <2>1. mem' # NoInfo /\ pc' = "finish"
    BY <1>1, <1>2, <1>9 DEF RemoveModuleInfo
  <2> QED
    BY Zenon, <1>3, <1>4, <2>1, TidyMemoryWith DEF TidyMemory
<1> QED
  BY Zenon, <1>5, <1>6, <1>7, <1>8, <1>9

\* Steps that leave nothing, or find nothing and leave it so.
LEMMA TidyNothing ==
    ASSUME NothingLeft', dir'["temp"] = Empty, pc' \notin StageLabels
    PROVE  TidyDirs' /\ TidyStage'
  BY Zenon DEF TidyDirs, TidyStage, Owed, NothingLeft, StageLabels, SwitchedLabels

\* The operations other than an update leave its directories alone.
LEMMA TidyAside ==
    ASSUME BaseInv, TidyDirs,
           \/ Request \/ DropRecord \/ Finish \/ HandleDrop \/ (InstallStep /\ ~LoadMarked)
    PROVE  TidyDirs' /\ TidyStage'
<1> USE DEF Goto, Rollback, op, NewLabels, OldLabels, StageLabels, SwitchedLabels
<1>0. /\ dir \in Dirs /\ {"real", "new", "old", "temp", "moduleTmp"} \subseteq DirNames
      /\ ret \in {"idle", "saveCreate", "finish", "iRemove", "uRemove"}
  BY Operands DEF BaseInv, BaseType, DirNames
<1>1. /\ pc \notin NewLabels \cup OldLabels \cup {"removeTemp", "hRemoveTemp"}
      /\ pc' \notin StageLabels
  <2>1. CASE Request
    BY Zenon, <2>1 DEF Request, StartUpdate, StartInstall, StartModules, StartUninstall,
       StartUninstallModule, Begin
  <2>2. CASE DropRecord \/ Finish \/ HandleDrop
    BY Zenon, <1>0, <2>2 DEF DropRecord, Finish, HandleDrop
  <2>3. CASE InstallModule \/ InstallPrepare \/ InstallCommit \/ InstallSkills \/ InstallRollback \/
             InstallRemove \/ InstallErase
    BY Zenon, <2>3 DEF InstallModule, InstallPrepare, InstallCommit, InstallSkills, InstallRollback,
       InstallRemove,
       InstallErase
  <2>4. CASE ExtractBeside \/ PrepareModules \/ RenameModuleDir \/ LateModules \/ CommitModules \/ SkillsOfModules
    BY Zenon, <2>4 DEF ExtractBeside, PrepareModules, RenameModuleDir, LateModules, CommitModules, SkillsOfModules
  <2>5. CASE MarkUninstall \/ UninstallErase \/ UninstallRemove \/ MarkUninstallModule \/ RemoveModuleDir \/
             RemoveModuleInfo
    BY Zenon, <2>5 DEF MarkUninstall, UninstallErase, UninstallRemove, MarkUninstallModule, RemoveModuleDir,
       RemoveModuleInfo
  <2> QED
    BY Zenon, <2>1, <2>2, <2>3, <2>4, <2>5 DEF InstallStep
<1>2. dir'["new"] = dir["new"] /\ dir'["old"] = dir["old"] /\ dir'["temp"] = dir["temp"]
  <2>1. CASE Request \/ DropRecord \/ Finish \/ HandleDrop
    BY Zenon, <2>1 DEF Request, StartUpdate, StartInstall, StartModules, StartUninstall, StartUninstallModule,
       DropRecord, Finish, HandleDrop
  <2>2. CASE InstallPrepare \/ InstallCommit \/ InstallSkills \/ InstallRollback \/ InstallErase
    BY Zenon, <2>2 DEF InstallPrepare, InstallCommit, InstallSkills, InstallRollback, InstallErase
  <2>3. CASE PrepareModules \/ LateModules \/ CommitModules \/ SkillsOfModules
    BY <2>3 DEF PrepareModules, LateModules, CommitModules, SkillsOfModules
  <2>4. CASE MarkUninstall \/ UninstallErase \/ MarkUninstallModule \/ RemoveModuleInfo
    BY Zenon, <2>4 DEF MarkUninstall, UninstallErase, MarkUninstallModule, RemoveModuleInfo
  <2>5. CASE InstallRemove \/ UninstallRemove
    <3>1. RemoveOk("real") \/ RemoveFails("real")
      BY <2>5 DEF InstallRemove, UninstallRemove
    <3> QED
      BY <1>0, <3>1, RemoveElse
  <2>6. CASE InstallModule \/ ExtractBeside \/ RemoveModuleDir
    <3>1. \/ dir' = dir
          \/ \E m, v : \E d \in {"real", "moduleTmp"} : dir' = [dir EXCEPT ![d] = [@ EXCEPT ![m] = v]]
      BY Zenon, <2>6 DEF InstallModule, ExtractBeside, RemoveModuleDir, ModuleDir
    <3> QED
      BY <1>0, <3>1 DEF Dirs
  <2>7. CASE RenameModuleDir
    BY Zenon, <1>0, <2>7 DEF RenameModuleDir, Dirs
  <2> QED
    BY Zenon, <2>1, <2>2, <2>3, <2>4, <2>5, <2>6, <2>7 DEF InstallStep
<1>3. NothingLeft' /\ dir'["temp"] = Empty
  BY Zenon, <1>1, <1>2 DEF TidyDirs, NothingLeft
<1> QED
  BY Zenon, <1>1, <1>3, TidyNothing

\* A rollback finds the old version in memory.
LEMMA RollbackMemory ==
    ASSUME BaseInv', TidyMemory', pc' = "rollback"
    PROVE  mem' # NoInfo /\ mem'.ver = old'.ver
  BY Zenon DEF BaseInv, OperandInv, AtUpdate, TidyMemory, Restorable

\* The handling of a record removes what it finds in +new- and +old-.
LEMMA TidyHandle ==
    ASSUME BaseInv, TidyDirs, TidyCovered, HandleStep
    PROVE  TidyDirs' /\ TidyStage'
<1> USE DEF Goto, op, NewLabels, OldLabels, StageLabels, SwitchedLabels
<1>0. /\ dir \in Dirs /\ {"real", "new", "old", "temp"} \subseteq DirNames /\ "recover" \notin Faults
      /\ ret \in {"idle", "saveCreate", "finish", "iRemove", "uRemove"}
  BY Operands DEF BaseInv, BaseType, DirNames, TidyCovered
<1>1. CASE Handle
  <2>1. /\ Owed /\ dir["temp"] = Empty /\ pc' \notin StageLabels /\ UNCHANGED <<dir, rec, mem>>
        /\ pc' \notin {"handle", "rollback", "removeTemp", "hRemoveTemp"}
    BY <1>0, <1>1, Operands DEF Handle, TidyDirs, Status
  <2>2. CASE NothingLeft
    BY Zenon, <2>1, <2>2, TidyNothing DEF NothingLeft
  <2>3. CASE ~NothingLeft
    <3>1. \/ pc' = "hCreate" /\ dir["old"] = Empty
          \/ pc' = "hRestore"
      BY Zenon, <1>1, <2>1, <2>3 DEF Handle, Owed
    <3> QED
      BY Zenon, <2>1, <3>1 DEF TidyDirs, TidyStage
  <2> QED
    BY <2>2, <2>3
<1>2. CASE HandleCreateNewDir \/ HandleRemoveNew
  <2>1. /\ pc \in {"hCreate", "hRemoveNew"} /\ pc' \in {"hDrop", ret}
        /\ RemoveOk("new") \/ RemoveFails("new")
    BY Zenon, <1>2 DEF HandleCreateNewDir, HandleRemoveNew
  <2>2. dir'["new"] = Empty /\ dir'["old"] = Empty /\ dir'["temp"] = Empty
    BY Zenon, <1>0, <2>1, Removed DEF TidyDirs
  <2> QED
    BY Zenon, <1>0, <2>1, <2>2, TidyNothing DEF NothingLeft
<1>3. CASE HandleRestore
  <2>1. /\ pc = "hRestore" /\ pc' \in {"hRestoreDrop", "hRemoveNew"} /\ dir["temp"] = Empty
        /\ RenameOk("old", "real") \/ RenameFails("old", "real", "recover")
    BY Zenon, <1>3 DEF HandleRestore, TidyDirs
  <2>2. dir'["temp"] = Empty
    BY Zenon, <1>0, <2>1, UpdateRenames
  <2>3. dir'["old"] = Empty
    BY <1>0, <2>1, Renamed, NotRenamed
  <2> QED
    BY Zenon, <2>1, <2>2, <2>3 DEF TidyDirs, TidyStage
<1>4. CASE HandleRestoreDrop
  BY Zenon, <1>4 DEF HandleRestoreDrop, TidyDirs, TidyStage
<1>5. CASE HandleGone
  <2>1. /\ pc = "hGone" /\ pc' \in {"hRestore", "hOldToTemp"}
        /\ RemoveOk("new") \/ RemoveFails("new")
    BY Zenon, <1>5 DEF HandleGone
  <2>2. dir'["new"] = Empty /\ dir'["old"] = Empty /\ dir'["temp"] = Empty
    BY Zenon, <1>0, <2>1, Removed DEF TidyDirs
  <2> QED
    BY <2>1, <2>2, TidyNothing DEF NothingLeft
<1>6. CASE HandleOldToTemp
  <2>1. /\ pc = "hOldToTemp" /\ pc' \in {"hRemoveTemp", ret}
        /\ RenameOk("old", "temp") \/ RenameFails("old", "temp", "recover")
        /\ dir["new"] = Empty /\ dir["old"] = Empty /\ dir["temp"] = Empty
    BY Zenon, <1>6 DEF HandleOldToTemp, TidyDirs
  <2>2. dir'["new"] = Empty /\ dir'["old"] = Empty /\ dir'["temp"] = Empty
    BY Zenon, <1>0, <2>1, Renamed, NotRenamed
  <2> QED
    BY Zenon, <1>0, <2>1, <2>2, TidyNothing DEF NothingLeft
<1>7. CASE HandleRemoveTemp
  <2>1. /\ pc = "hRemoveTemp" /\ pc' \in {"hDrop", ret}
        /\ RemoveOk("temp") \/ RemoveFails("temp")
    BY Zenon, <1>7 DEF HandleRemoveTemp
  <2>2. dir'["new"] = Empty /\ dir'["old"] = Empty /\ dir'["temp"] = Empty
    BY Zenon, <1>0, <2>1, Removed DEF TidyDirs
  <2> QED
    BY Zenon, <1>0, <2>1, <2>2, TidyNothing DEF NothingLeft
<1>8. CASE HandleDrop
  BY <1>8, TidyAside
<1> QED
  BY Zenon, <1>1, <1>2, <1>3, <1>4, <1>5, <1>6, <1>7, <1>8 DEF HandleStep

\* The steps of an update, and its rollback.
LEMMA TidyUpdate ==
    ASSUME BaseInv, TidyDirs, TidyStage, TidyMemory, BaseInv', TidyMemory', TidyCovered, UpdateStep
    PROVE  TidyDirs' /\ TidyStage'
<1> USE DEF Goto, Rollback, op, NewLabels, OldLabels, SwitchedLabels
<1>0. /\ dir \in Dirs /\ {"real", "new", "old", "temp", "moduleTmp"} \subseteq DirNames
      /\ {"save", "skills"} \cap Faults = {}
      /\ pc \in UpdateLabels \ {"skills"} => pkg.ver # old.ver
      /\ pc' = "rollback" => mem' # NoInfo /\ mem'.ver = old'.ver
  BY Zenon, RollbackMemory DEF BaseInv, BaseType, DirNames, TidyCovered, TidyMemory, Changing
<1>1. CASE SaveCreate
  <2>1. /\ pc = "saveCreate" /\ pc' = "extract" /\ dir' = dir
        /\ rec' = [status |-> "CREATE_NEW_DIR", ver |-> 0]
    BY Zenon, <1>0, <1>1 DEF SaveCreate, Save, SaveFails
  <2>2. rec'.status = "CREATE_NEW_DIR"
    BY <2>1
  <2> QED
    BY Zenon, <2>1, <2>2 DEF TidyDirs, TidyStage
<1>2. CASE ExtractModule \/ Prepare
  <2>1. /\ pc = "extract" /\ pc' \in {"extract", "saveRealToOld", "rollback"} /\ UNCHANGED <<rec, pkg, old>>
        /\ dir'["old"] = dir["old"] /\ dir'["temp"] = dir["temp"]
    <3>1. CASE ExtractModule
      <4>1. dir' = dir \/ \E m, v : dir' = [dir EXCEPT !["new"] = [@ EXCEPT ![m] = v]]
        BY Zenon, <3>1 DEF ExtractModule
      <4>2. dir'["old"] = dir["old"] /\ dir'["temp"] = dir["temp"]
        BY Zenon, <1>0, <4>1 DEF Dirs
      <4> QED
        BY <3>1, <4>2 DEF ExtractModule
    <3>2. CASE Prepare
      BY Zenon, <3>2 DEF Prepare
    <3> QED
      BY Zenon, <1>2, <3>1, <3>2
  <2> QED
    BY Zenon, <1>0, <2>1 DEF TidyDirs, TidyStage, Owed, UpdateLabels
<1>3. CASE SaveRealToOld
  <2>1. /\ pc = "saveRealToOld" /\ pc' = "realToOld" /\ dir' = dir
        /\ rec' = [status |-> "RENAME_RELA_TO_OLD_PATH", ver |-> old.ver]
    BY Zenon, <1>0, <1>3 DEF SaveRealToOld, Save, SaveFails
  <2>2. rec'.status = "RENAME_RELA_TO_OLD_PATH"
    BY <2>1
  <2> QED
    BY Zenon, <2>1, <2>2 DEF TidyDirs, TidyStage
<1>4. CASE RealToOld
  <2>1. /\ pc = "realToOld" /\ pc' \in {"saveNewToReal", "rollback"} /\ UNCHANGED <<rec, pkg, old>>
        /\ RenameOk("real", "old") \/ RenameFails("real", "old", "rename")
    BY Zenon, <1>4 DEF RealToOld
  <2>2. dir'["temp"] = dir["temp"]
    BY Zenon, <1>0, <2>1, UpdateRenames
  <2> QED
    BY Zenon, <1>0, <2>1, <2>2 DEF TidyDirs, TidyStage, Owed, UpdateLabels
<1>5. CASE SaveNewToReal
  BY Zenon, <1>0, <1>5 DEF SaveNewToReal, Save, SaveFails, TidyDirs, TidyStage
<1>6. CASE NewToReal
  <2>1. /\ pc = "newToReal" /\ UNCHANGED <<rec, pkg, old, mem>>
        /\ \/ pc' = "lower" /\ RenameOk("new", "real")
           \/ pc' = "rollback" /\ RenameFails("new", "real", "rename")
    BY Zenon, <1>6 DEF NewToReal
  <2>2. dir'["temp"] = dir["temp"] /\ dir'["old"] = dir["old"]
    BY Zenon, <1>0, <2>1, UpdateRenames
  <2>3. pc' = "lower" => dir'["new"] = Empty
    BY Zenon, <1>0, <2>1, UpdateRenames
  <2>4. CASE pc' = "lower"
    BY Zenon, <2>1, <2>2, <2>3, <2>4 DEF TidyDirs, TidyStage
  <2>5. CASE pc' = "rollback"
    <3>1. dir["temp"] = Empty /\ rec = [status |-> "RENAME_NEW_TO_REAL_PATH", ver |-> old.ver]
      BY Zenon, <2>1 DEF TidyDirs, TidyStage
    <3>2. rec.status = "RENAME_NEW_TO_REAL_PATH" /\ rec.ver = old.ver
      BY <3>1
    <3>3. rec' = rec /\ old' = old /\ pkg' = pkg /\ mem' = mem /\ pkg.ver # old.ver
      BY Zenon, <1>0, <2>1 DEF UpdateLabels
    <3>4. Owed'
      BY Zenon, <1>0, <2>5, <3>2, <3>3 DEF Owed
    <3> QED
      BY Zenon, <2>2, <2>5, <3>1, <3>3, <3>4 DEF TidyDirs, TidyStage
  <2> QED
    BY Zenon, <2>1, <2>4, <2>5
<1>7. CASE UninstallLower \/ LateSteps \/ MarkInstallFinish \/ CommitAppSkills
  <2>1. /\ pc \in {"lower", "late", "commit", "skills"} /\ UNCHANGED <<dir, rec, pkg, old>>
        /\ pc' \in {"late", "commit", "skills", "saveDeleteOld", "rollback"}
        /\ pc' \in SwitchedLabels \cup {"rollback"} => pc \in SwitchedLabels
    BY <1>0, <1>7 DEF UninstallLower, LateSteps, MarkInstallFinish, CommitAppSkills
  <2> QED
    <3>1. CASE pc' # "rollback"
      BY Zenon, <2>1, <3>1 DEF TidyDirs, TidyStage
    <3>2. CASE pc' = "rollback"
      <4>1. dir["new"] = Empty /\ rec = [status |-> "RENAME_NEW_TO_REAL_PATH", ver |-> old.ver] /\ dir["temp"] = Empty
        BY Zenon, <2>1, <3>2 DEF TidyDirs, TidyStage
      <4>2. rec.status = "RENAME_NEW_TO_REAL_PATH" /\ rec.ver = old.ver
        BY Zenon, <4>1
      <4>3. pkg.ver # old.ver
        BY Zenon, <1>0, <2>1, <3>2 DEF UpdateLabels
      <4> QED
        BY Zenon, <1>0, <2>1, <3>2, <4>1, <4>2, <4>3 DEF TidyDirs, TidyStage, Owed
    <3> QED
      BY Zenon, <3>1, <3>2
<1>8. CASE SaveDeleteOld
  BY Zenon, <1>8 DEF SaveDeleteOld, TidyDirs, TidyStage
<1>9. CASE OldToTemp
  <2>1. /\ pc = "oldToTemp"
        /\ \/ pc' = "removeTemp" /\ RenameOk("old", "temp")
           \/ pc' = "removeOld" /\ RenameFails("old", "temp", "rename")
        /\ dir["temp"] = Empty /\ dir["new"] = Empty
    BY Zenon, <1>9 DEF OldToTemp, TidyDirs
  <2>2. /\ dir'["new"] = Empty
        /\ pc' = "removeTemp" => dir'["old"] = Empty
        /\ pc' = "removeOld" => dir'["temp"] = Empty
    <3>1. CASE pc' = "removeTemp" /\ RenameOk("old", "temp")
      <4>1. dir'["new"] = dir["new"] /\ dir'["old"] = Empty
        BY Zenon, <1>0, <3>1, Renamed
      <4> QED
        BY Zenon, <2>1, <3>1, <4>1
    <3>2. CASE pc' = "removeOld" /\ RenameFails("old", "temp", "rename")
      <4>1. dir'["new"] = dir["new"] /\ (dir["temp"] = Empty => dir'["temp"] = Empty)
        <5>1. CASE dir["old"] = Empty
          BY Zenon, <3>2, <5>1 DEF RenameFails, Exists
        <5>2. CASE dir["old"] # Empty
          <6>1. dir' \in Cut("temp")
            BY Zenon, <3>2, <5>2 DEF RenameFails, Exists
          <6> QED
            BY Zenon, <1>0, <6>1, CutElse, CutEmpty
        <5> QED
          BY <5>1, <5>2
      <4> QED
        BY Zenon, <2>1, <3>2, <4>1
    <3> QED
      BY Zenon, <2>1, <3>1, <3>2
  <2> QED
    BY Zenon, <2>1, <2>2 DEF TidyDirs, TidyStage
<1>10. CASE RemoveOld
  <2>1. \/ pc = "removeTemp" /\ (RemoveOk("temp") \/ RemoveFails("temp"))
        \/ pc = "removeOld" /\ (RemoveOk("old") \/ RemoveFails("old"))
    BY Zenon, <1>10 DEF RemoveOld
  <2>2. dir'["new"] = Empty /\ dir'["old"] = Empty /\ dir'["temp"] = Empty
    <3>1. CASE pc = "removeTemp"
      BY Zenon, <1>0, <2>1, <3>1, Removed DEF TidyDirs
    <3>2. CASE pc = "removeOld"
      BY Zenon, <1>0, <2>1, <3>2, Removed DEF TidyDirs
    <3> QED
      BY Zenon, <2>1, <3>1, <3>2
  <2>3. pc' \in {"drop", "finish"}
    BY <1>10 DEF RemoveOld
  <2> QED
    BY Zenon, <2>2, <2>3, TidyNothing DEF NothingLeft, StageLabels
<1>11. CASE DropRecord \/ Finish
  BY Zenon, <1>11, TidyAside
<1>12. CASE RollBackModule
  <2>1. /\ pc = "rollback" /\ pc' = "rollback" /\ UNCHANGED <<rec, pkg, old>>
        /\ mem.ver = old.ver /\ mem # NoInfo
    BY Zenon, <1>12 DEF RollBackModule, TidyMemory, Restorable, BaseInv, OperandInv, AtUpdate
  <2>2. \E m : \E d \in {"real", "moduleTmp"} : dir' = [dir EXCEPT ![d] = [@ EXCEPT ![m] = 0]]
    BY Zenon, <1>12 DEF RollBackModule, RollBackOldModule, RollBackNewModule
  <2>3. dir'["new"] = dir["new"] /\ dir'["old"] = dir["old"] /\ dir'["temp"] = dir["temp"]
    BY Zenon, <1>0, <2>2 DEF Dirs
  <2> QED
    BY Zenon, <1>0, <2>1, <2>3 DEF TidyDirs, TidyStage, Owed, NothingLeft
<1>13. CASE RollbackCodePath
  BY Zenon, <1>13 DEF RollbackCodePath, TidyDirs, TidyStage, Owed, NothingLeft
<1> QED
  BY Zenon, <1>1, <1>2, <1>3, <1>4, <1>5, <1>6, <1>7, <1>8, <1>9, <1>10, <1>11, <1>12, <1>13 DEF UpdateStep

\* Every step keeps the invariant.
LEMMA NextTidy ==
    ASSUME TidyInv, BaseInv', TidyCovered, [InstallNext]_vars
    PROVE  TidyDirs' /\ TidyStage' /\ TidyMemory'
<1>0. BaseInv /\ TidyDirs /\ TidyStage /\ TidyMemory
  BY DEF TidyInv, TypeInv
<1>1. CASE UNCHANGED vars
  <2>1. /\ dir' = dir /\ rec' = rec /\ mem' = mem /\ pc' = pc /\ ret' = ret /\ pkg' = pkg /\ old' = old
        /\ todo' = todo /\ db' = db
    BY <1>1 DEF vars
  <2>2. TidyDirs' /\ TidyStage'
    BY Zenon, <1>0, <2>1 DEF TidyDirs, TidyStage, Owed, NothingLeft
  <2>3. TidyMemory'
    BY Zenon, <1>0, <2>1 DEF TidyMemory, Changing, Removing, Restorable, Handling
  <2> QED
    BY <2>2, <2>3
<1>2. CASE Request
  BY Zenon, <1>0, <1>2, TidyMemoryBegin, TidyAside
<1>3. CASE UpdateStep
  <2>1. TidyMemory'
    BY Zenon, <1>0, <1>3, TidyMemoryBegin, TidyMemoryUpdate, TidyMemoryDelete, TidyMemoryInfo DEF UpdateStep
  <2> QED
    BY Zenon, <1>0, <1>3, <2>1, TidyUpdate
<1>4. CASE HandleStep
  BY Zenon, <1>0, <1>4, TidyMemoryHandle, TidyHandle
<1>5. CASE LoadAll \/ LoadMarked
  BY <1>0, <1>5 DEF LoadAll, LoadMarked, TidyMemory
<1>6. CASE InstallStep /\ ~LoadMarked
  <2>1. TidyMemory'
    BY Zenon, <1>0, <1>6, TidyMemoryInstall, TidyMemoryUpdate, TidyMemoryUninstall, TidyMemoryInfo
       DEF InstallStep
  <2> QED
    BY Zenon, <1>0, <1>6, <2>1, TidyAside
<1>7. CASE InstallCrash
  BY Zenon, <1>0, <1>7 DEF InstallCrash, TidyCovered, BaseInv, BaseType
<1> QED
  BY Zenon, <1>1, <1>2, <1>3, <1>4, <1>5, <1>6, <1>7 DEF InstallNext, Step

\* Without crashes, and if records are saved and directories removed and
\* renamed back, every operation leaves its directories as the next one expects.
THEOREM TidyInvariant == ASSUME TidyCovered PROVE InstallSpec => []TidyInv
<1>1. TypeCovered
  BY DEF TidyCovered, TypeCovered
<1>2. ASSUME InstallInit PROVE TidyDirs /\ TidyStage /\ TidyMemory
  <2>1. /\ pc = "idle" /\ dir["new"] = Empty /\ dir["old"] = Empty /\ dir["temp"] = Empty
        /\ mem = NoInfo => dir["real"] = Empty
    <3>1. NoInfo \notin Packages
      BY UpdateAssumption DEF Info, NoInfo
    <3>2. pc = "idle" /\ \E x : dir = [d \in DirNames |-> IF d = "real" THEN x ELSE Empty] /\ (mem = NoInfo => x = Empty)
      BY Zenon, <1>2, <3>1 DEF InstallInit, Init
    <3> QED
      BY <3>2 DEF DirNames
  <2> QED
    BY Zenon, <2>1 DEF TidyDirs, TidyStage, TidyMemory, Changing, Removing, Restorable, Handling,
       UpdateLabels,
       ModuleLabels, HandleLabels, HandlerLabels, SwitchedLabels
<1>3. TidyInv /\ [InstallNext]_vars => TidyInv'
  <2> SUFFICES ASSUME TidyInv, [InstallNext]_vars
               PROVE  TidyInv'
    OBVIOUS
  <2>1. TypeInv'
    BY Zenon, <1>1, NextType DEF TidyInv
  <2>2. BaseInv'
    BY <2>1 DEF TypeInv
  <2>3. TidyDirs' /\ TidyStage' /\ TidyMemory'
    BY Zenon, <2>2, NextTidy
  <2> QED
    BY Zenon, <2>1, <2>3 DEF TidyInv
<1>4. InstallInit => TidyInv
  BY Zenon, <1>2, InitType DEF TidyInv
<1> QED
  BY <1>3, <1>4, PTL DEF InstallSpec

\* Whenever no operation runs, a bundle that is not in memory has no code left
\* in its real directory nor in +new-, +old- and +temp-: for every sequence of
\* requests, every package, and failures of the steps that TidyCovered allows.
THEOREM NothingIsOrphaned == ASSUME TidyCovered PROVE InstallSpec => []NoOrphanCode
<1>1. TidyInv => NoOrphanCode
  BY Zenon DEF TidyInv, TidyDirs, TidyMemory, NoOrphanCode, Exists, NewLabels, OldLabels, Removing,
     Handling, HandleLabels,
     HandlerLabels
<1> QED
  BY TidyInvariant, <1>1, PTL

=============================================================================
