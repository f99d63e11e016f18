------------------------- MODULE BundleUpdateProofs -------------------------
(***************************************************************************)
(* Proofs that every update, however it fails or is interrupted, keeps the *)
(* inductive invariant IInv, with one lemma per action, and what follows.  *)
(***************************************************************************)
EXTENDS BundleUpdate, TLAPS

\* A directory that holds the code of an installed version exists.
LEMMA HoldsExists ==
    ASSUME NEW c \in [Modules -> Nat], NEW i \in Info, Holds(c, i)
    PROVE  c # Empty
<1>1. PICK m \in Modules : m \in i.mods /\ i.ver # 0
  BY DEF Info
<1> QED
  BY <1>1 DEF Holds, Empty

\* Deleting a directory that is not there leaves nothing of it.
LEMMA RemnantsOfEmpty == Remnants(Empty) = {Empty}
  BY DEF Remnants, Empty

\* What an interrupted deletion leaves is again a code directory.
LEMMA RemnantsType ==
    ASSUME NEW c \in [Modules -> Nat]
    PROVE  Remnants(c) \subseteq [Modules -> Nat]
  BY DEF Remnants

\* UpdateBundleInstallState leaves an entry of the enumeration, or none.
LEMMA StateAfterType ==
    ASSUME NEW s \in InstallState \cup {"absent"}, NEW t \in InstallState
    PROVE  StateAfter(s, t) \in InstallState \cup {"absent"}
  BY DEF StateAfter

\* A loaded, settled bundle satisfies the inductive invariant.
LEMMA InitIInv == Init => IInv
<1> SUFFICES ASSUME Init PROVE IInv
  OBVIOUS
<1> USE UpdateAssumption DEF Init
<1>1. db \in Info /\ Empty \in [Modules -> Nat] /\ CodeOf(db) \in [Modules -> Nat]
  BY DEF Empty, CodeOf, Info
<1>2. TypeOK
  BY <1>1 DEF TypeOK, DirNames, NoRecord, Status, Mark, Finished, InstallState, Labels
<1>3. Holds(dir["real"], db) /\ dir["old"] = Empty
  BY <1>1 DEF Holds, CodeOf, DirNames, Info
<1> QED
  BY <1>2, <1>3 DEF IInv, CodeInv, RecordInv, MemoryInv, PackageInv, InPlace,
     NoRecord, Failing, Updating, Recovering, HandlerLabels, SwitchedLabels

----------------------------------------------------------------------------
\* What the directory operations do to each directory.

\* The missing directory is a code directory.
LEMMA EmptyType == Empty \in [Modules -> Nat]
  BY DEF Empty

\* A successful RenameDir moves the source, or finds the target in place of a
\* source that is gone, and touches no other directory.
LEMMA RenameOkFacts ==
    ASSUME TypeOK, NEW s \in DirNames, NEW d \in DirNames, s # d, RenameOk(s, d)
    PROVE  /\ dir' \in [DirNames -> [Modules -> Nat]]
           /\ \A e \in DirNames \ {s, d} : dir'[e] = dir[e]
           /\ dir'[s] = Empty /\ dir'[d] # Empty
           /\ dir[s] # Empty => dir'[d] = dir[s]
           /\ dir[s] = Empty => dir'[d] = dir[d]
  BY EmptyType DEF TypeOK, RenameOk, Exists

\* An interrupted deletion of d changes no other directory.
LEMMA CutFacts ==
    ASSUME TypeOK, NEW d \in DirNames, dir' \in Cut(d)
    PROVE  /\ dir' \in [DirNames -> [Modules -> Nat]]
           /\ \A e \in DirNames \ {d} : dir'[e] = dir[e]
           /\ dir[d] = Empty => dir'[d] = Empty
  BY RemnantsOfEmpty, RemnantsType DEF TypeOK, Cut

\* A successful RemoveDir of d changes no other directory.
LEMMA RemoveOkFacts ==
    ASSUME TypeOK, NEW d \in DirNames, RemoveOk(d)
    PROVE  /\ dir' \in [DirNames -> [Modules -> Nat]]
           /\ \A e \in DirNames \ {d} : dir'[e] = dir[e]
           /\ dir'[d] = Empty
  BY EmptyType DEF TypeOK, RemoveOk

\* StartUpdate: the package differs in version, and old is what the row has.
LEMMA StartUpdatePreserves ==
    ASSUME IInv, Covered, StartUpdate
    PROVE  IInv'
<1> USE UpdateAssumption DEF StartUpdate, NeedsBundleUpdate
<1>1. TypeOK'
  BY DEF IInv, TypeOK, MemoryInv, PackageInv, Updating, SwitchedLabels, Goto, op,
     Labels, Status, Info
<1>2. CodeInv'
  BY Zenon DEF IInv, TypeOK, CodeInv, RecordInv, PackageInv, InPlace, Displaced, Clean,
     ToRestore, Failing, Updating, Recovering, HandlerLabels, SwitchedLabels,
     Holds, Goto, op, Info
<1>3. RecordInv'
  BY DEF IInv, TypeOK, RecordInv, PackageInv, ToRestore, Updating, SwitchedLabels, Goto, op
<1>4. MemoryInv'
  BY DEF IInv, TypeOK, MemoryInv, PackageInv, Updating, SwitchedLabels, Covered,
     Goto, op
<1>5. PackageInv'
  BY DEF IInv, TypeOK, PackageInv, MemoryInv, Updating, Recovering, Failing,
     HandlerLabels, SwitchedLabels, Holds, Covered, Goto, op
<1> QED
  BY <1>1, <1>2, <1>3, <1>4, <1>5 DEF IInv

\* SaveCreate: a CREATE_NEW_DIR record restores nothing, and there is no +old-.
LEMMA SaveCreatePreserves ==
    ASSUME IInv, Covered, SaveCreate
    PROVE  IInv'
<1> USE UpdateAssumption DEF SaveCreate, Save, SaveFails
<1>1. TypeOK'
  BY DEF IInv, TypeOK, MemoryInv, PackageInv, Updating, SwitchedLabels, Goto, op,
     Labels, Status, Info
<1>2. CodeInv'
  BY Zenon DEF IInv, TypeOK, CodeInv, RecordInv, PackageInv, InPlace, Displaced, Clean,
     ToRestore, Failing, Updating, Recovering, HandlerLabels, SwitchedLabels,
     Holds, Goto, op, Info
<1>3. RecordInv'
  BY DEF IInv, TypeOK, RecordInv, PackageInv, ToRestore, Updating, SwitchedLabels, Goto, op
<1>4. MemoryInv'
  BY DEF IInv, TypeOK, MemoryInv, PackageInv, Updating, SwitchedLabels, Covered,
     Goto, op
<1>5. PackageInv'
  BY DEF IInv, TypeOK, PackageInv, MemoryInv, Updating, Recovering, Failing,
     HandlerLabels, SwitchedLabels, Holds, Covered, Goto, op
<1> QED
  BY <1>1, <1>2, <1>3, <1>4, <1>5 DEF IInv

\* Prepare: all modules are extracted into +new- before the first rename.
LEMMA PreparePreserves ==
    ASSUME IInv, Covered, Prepare
    PROVE  IInv'
<1> USE UpdateAssumption DEF Prepare, Rollback
<1>1. TypeOK'
  BY DEF IInv, TypeOK, MemoryInv, PackageInv, Updating, SwitchedLabels, Goto, op,
     Labels, Status, Info
<1>2. CodeInv'
  BY Zenon DEF IInv, TypeOK, CodeInv, RecordInv, PackageInv, InPlace, Displaced, Clean,
     ToRestore, Failing, Updating, Recovering, HandlerLabels, SwitchedLabels,
     Holds, Goto, op, Info
<1>3. RecordInv'
  BY Zenon DEF IInv, TypeOK, RecordInv, PackageInv, ToRestore, Updating, SwitchedLabels, Goto, op
<1>4. MemoryInv'
  BY Zenon DEF IInv, TypeOK, MemoryInv, PackageInv, Updating, SwitchedLabels, Covered,
     Goto, op
<1>5. PackageInv'
  BY DEF IInv, TypeOK, PackageInv, MemoryInv, Updating, Recovering, Failing,
     HandlerLabels, SwitchedLabels, Holds, Covered, Goto, op
<1> QED
  BY <1>1, <1>2, <1>3, <1>4, <1>5 DEF IInv

\* SaveRealToOld: the record comes before the rename, while there is no +old-.
LEMMA SaveRealToOldPreserves ==
    ASSUME IInv, Covered, SaveRealToOld
    PROVE  IInv'
<1> USE UpdateAssumption DEF SaveRealToOld, Save, SaveFails, Rollback
<1>1. TypeOK'
  BY DEF IInv, TypeOK, MemoryInv, PackageInv, Updating, SwitchedLabels, Goto, op,
     Labels, Status, Info
<1>2. CodeInv'
  BY Zenon DEF IInv, TypeOK, CodeInv, RecordInv, PackageInv, InPlace, Displaced, Clean,
     ToRestore, Failing, Updating, Recovering, HandlerLabels, SwitchedLabels,
     Holds, Goto, op, Info
<1>3. RecordInv'
  BY DEF IInv, TypeOK, RecordInv, PackageInv, ToRestore, Updating, SwitchedLabels, Goto, op
<1>4. MemoryInv'
  BY Zenon DEF IInv, TypeOK, MemoryInv, PackageInv, Updating, SwitchedLabels, Covered,
     Goto, op
<1>5. PackageInv'
  BY Zenon DEF IInv, TypeOK, PackageInv, MemoryInv, Updating, Recovering, Failing,
     HandlerLabels, SwitchedLabels, Holds, Covered, Goto, op
<1> QED
  BY <1>1, <1>2, <1>3, <1>4, <1>5 DEF IInv

\* SaveNewToReal: the version in the record is the committed one, so that the
\* record still restores +old-.
LEMMA SaveNewToRealPreserves ==
    ASSUME IInv, Covered, SaveNewToReal
    PROVE  IInv'
<1> USE UpdateAssumption DEF SaveNewToReal, Save, SaveFails, Rollback
<1>1. TypeOK'
  BY DEF IInv, TypeOK, MemoryInv, PackageInv, Updating, SwitchedLabels, Goto, op,
     Labels, Status, Info
<1>2. CodeInv'
  BY DEF IInv, TypeOK, CodeInv, RecordInv, PackageInv, InPlace, Displaced, Clean,
     ToRestore, Failing, Updating, Recovering, HandlerLabels, SwitchedLabels,
     Holds, Goto, op, Info
<1>3. RecordInv'
  BY DEF IInv, TypeOK, RecordInv, PackageInv, ToRestore, Updating, SwitchedLabels, Goto, op
<1>4. MemoryInv'
  BY Zenon DEF IInv, TypeOK, MemoryInv, PackageInv, Updating, SwitchedLabels, Covered,
     Goto, op
<1>5. PackageInv'
  BY Zenon DEF IInv, TypeOK, PackageInv, MemoryInv, Updating, Recovering, Failing,
     HandlerLabels, SwitchedLabels, Holds, Covered, Goto, op
<1> QED
  BY <1>1, <1>2, <1>3, <1>4, <1>5 DEF IInv

\* LateSteps: a late failure finds the memory as it was, by Covered.
LEMMA LateStepsPreserves ==
    ASSUME IInv, Covered, LateSteps
    PROVE  IInv'
<1> USE UpdateAssumption DEF LateSteps, Rollback
<1>1. TypeOK'
  BY DEF IInv, TypeOK, MemoryInv, PackageInv, Updating, SwitchedLabels, Goto, op,
     Labels, Status, Info
<1>2. CodeInv'
  BY Zenon DEF IInv, TypeOK, CodeInv, RecordInv, PackageInv, InPlace, Displaced, Clean,
     ToRestore, Failing, Updating, Recovering, HandlerLabels, SwitchedLabels,
     Holds, Goto, op, Info
<1>3. RecordInv'
  BY DEF IInv, TypeOK, RecordInv, PackageInv, ToRestore, Updating, SwitchedLabels, Goto, op
<1>4. MemoryInv'
  BY Zenon DEF IInv, TypeOK, MemoryInv, PackageInv, Updating, SwitchedLabels, Covered,
     FailsLate, Goto, op
<1>5. PackageInv'
  BY DEF IInv, TypeOK, PackageInv, MemoryInv, Updating, Recovering, Failing,
     HandlerLabels, SwitchedLabels, Holds, Covered, Goto, op
<1> QED
  BY <1>1, <1>2, <1>3, <1>4, <1>5 DEF IInv

\* CommitAppSkills: nothing fails here, by Covered.
LEMMA CommitAppSkillsPreserves ==
    ASSUME IInv, Covered, CommitAppSkills
    PROVE  IInv'
<1> USE UpdateAssumption DEF CommitAppSkills, Rollback, Covered
<1>1. TypeOK'
  BY DEF IInv, TypeOK, MemoryInv, PackageInv, Updating, SwitchedLabels, Goto, op,
     Labels, Status, Info
<1>2. CodeInv'
  BY Zenon DEF IInv, TypeOK, CodeInv, RecordInv, PackageInv, InPlace, Displaced, Clean,
     ToRestore, Failing, Updating, Recovering, HandlerLabels, SwitchedLabels,
     Holds, Goto, op, Info
<1>3. RecordInv'
  BY DEF IInv, TypeOK, RecordInv, PackageInv, ToRestore, Updating, SwitchedLabels, Goto, op
<1>4. MemoryInv'
  BY Zenon DEF IInv, TypeOK, MemoryInv, PackageInv, Updating, SwitchedLabels, Covered,
     Goto, op
<1>5. PackageInv'
  BY DEF IInv, TypeOK, PackageInv, MemoryInv, Updating, Recovering, Failing,
     HandlerLabels, SwitchedLabels, Holds, Covered, Goto, op
<1> QED
  BY Zenon, <1>1, <1>2, <1>3, <1>4, <1>5 DEF IInv

\* SaveDeleteOld: once the row is new, no record restores +old- any more.
LEMMA SaveDeleteOldPreserves ==
    ASSUME IInv, Covered, SaveDeleteOld
    PROVE  IInv'
<1> USE UpdateAssumption DEF SaveDeleteOld, Save, SaveFails
<1>1. TypeOK'
  BY DEF IInv, TypeOK, MemoryInv, PackageInv, Updating, SwitchedLabels, Goto, op,
     Labels, Status, Info
<1>2. CodeInv'
  BY DEF IInv, TypeOK, CodeInv, RecordInv, PackageInv, InPlace, Displaced, Clean,
     ToRestore, Failing, Updating, Recovering, HandlerLabels, SwitchedLabels,
     Holds, Goto, op, Info
<1>3. RecordInv'
  BY DEF IInv, TypeOK, RecordInv, PackageInv, ToRestore, Updating, SwitchedLabels, Goto, op
<1>4. MemoryInv'
  BY Zenon DEF IInv, TypeOK, MemoryInv, PackageInv, Updating, SwitchedLabels, Covered,
     Goto, op
<1>5. PackageInv'
  BY DEF IInv, TypeOK, PackageInv, MemoryInv, Updating, Recovering, Failing,
     HandlerLabels, SwitchedLabels, Holds, Covered, Goto, op
<1> QED
  BY Zenon, <1>1, <1>2, <1>3, <1>4, <1>5 DEF IInv

\* DropRecord: the record goes only after +old- has gone.
LEMMA DropRecordPreserves ==
    ASSUME IInv, Covered, DropRecord
    PROVE  IInv'
<1> USE UpdateAssumption DEF DropRecord, DeleteRecord, NoRecord
<1>1. TypeOK'
  BY DEF IInv, TypeOK, MemoryInv, PackageInv, Updating, SwitchedLabels, Goto, op,
     Labels, Status, Info
<1>2. CodeInv'
  BY Zenon DEF IInv, TypeOK, CodeInv, RecordInv, PackageInv, InPlace, Displaced, Clean,
     ToRestore, Failing, Updating, Recovering, HandlerLabels, SwitchedLabels,
     Holds, Goto, op, Info
<1>3. RecordInv'
  BY Zenon DEF IInv, TypeOK, RecordInv, PackageInv, ToRestore, Updating, SwitchedLabels, Goto, op
<1>4. MemoryInv'
  BY Zenon DEF IInv, TypeOK, MemoryInv, PackageInv, Updating, SwitchedLabels, Covered,
     Goto, op
<1>5. PackageInv'
  BY DEF IInv, TypeOK, PackageInv, MemoryInv, Updating, Recovering, Failing,
     HandlerLabels, SwitchedLabels, Holds, Covered, Goto, op
<1> QED
  BY Zenon, <1>1, <1>2, <1>3, <1>4, <1>5 DEF IInv

\* Finish: the operation ends with the committed code in place.
LEMMA FinishPreserves ==
    ASSUME IInv, Covered, Finish
    PROVE  IInv'
<1> USE UpdateAssumption DEF Finish, EndOperation
<1>1. TypeOK'
  BY Zenon, StateAfterType DEF IInv, TypeOK, MemoryInv, PackageInv, Updating, SwitchedLabels, Goto, op,
     Labels, Status, Info, InstallState
<1>2. CodeInv'
  BY Zenon DEF IInv, TypeOK, CodeInv, RecordInv, PackageInv, InPlace, Displaced, Clean,
     ToRestore, Failing, Updating, Recovering, HandlerLabels, SwitchedLabels,
     Holds, Goto, op, Info
<1>3. RecordInv'
  BY Zenon DEF IInv, TypeOK, RecordInv, PackageInv, ToRestore, Updating, SwitchedLabels, Goto, op
<1>4. MemoryInv'
  BY Zenon DEF IInv, TypeOK, MemoryInv, PackageInv, Updating, SwitchedLabels, Covered,
     Goto, op
<1>5. PackageInv'
  BY Zenon DEF IInv, TypeOK, PackageInv, MemoryInv, Updating, Recovering, Failing,
     HandlerLabels, SwitchedLabels, Holds, Covered, Goto, op
<1> QED
  BY SMTT(30), <1>1, <1>2, <1>3, <1>4, <1>5 DEF IInv

\* RollbackCodePath: the guard hands the record to InstallExceptionMgr.
LEMMA RollbackCodePathPreserves ==
    ASSUME IInv, Covered, RollbackCodePath
    PROVE  IInv'
<1> USE UpdateAssumption DEF RollbackCodePath, Rollback
<1>1. TypeOK'
  BY Zenon DEF IInv, TypeOK, MemoryInv, PackageInv, Updating, SwitchedLabels, Goto, op,
     Labels, Status, Info
<1>2. CodeInv'
  BY DEF IInv, TypeOK, CodeInv, RecordInv, PackageInv, InPlace, Displaced, Clean,
     ToRestore, Failing, Updating, Recovering, HandlerLabels, SwitchedLabels,
     Holds, Goto, op, Info
<1>3. RecordInv'
  BY Zenon DEF IInv, TypeOK, RecordInv, PackageInv, ToRestore, Updating, SwitchedLabels, Goto, op
<1>4. MemoryInv'
  BY Zenon DEF IInv, TypeOK, MemoryInv, PackageInv, Updating, SwitchedLabels, Covered,
     Goto, op
<1>5. PackageInv'
  BY Zenon DEF IInv, TypeOK, PackageInv, MemoryInv, Updating, Recovering, Failing,
     HandlerLabels, SwitchedLabels, Holds, Covered, Goto, op
<1> QED
  BY Zenon, <1>1, <1>2, <1>3, <1>4, <1>5 DEF IInv

\* HandleRestoreDrop: the record goes when the code is back in place.
LEMMA HandleRestoreDropPreserves ==
    ASSUME IInv, Covered, HandleRestoreDrop
    PROVE  IInv'
<1> USE UpdateAssumption DEF HandleRestoreDrop, DeleteRecord, NoRecord
<1>1. TypeOK'
  BY DEF IInv, TypeOK, MemoryInv, PackageInv, Updating, SwitchedLabels, Goto, op,
     Labels, Status, Info
<1>2. CodeInv'
  BY Zenon DEF IInv, TypeOK, CodeInv, RecordInv, PackageInv, InPlace, Displaced, Clean,
     ToRestore, Failing, Updating, Recovering, HandlerLabels, SwitchedLabels,
     Holds, Goto, op, Info
<1>3. RecordInv'
  BY Zenon DEF IInv, TypeOK, RecordInv, PackageInv, ToRestore, Updating, SwitchedLabels, Goto, op
<1>4. MemoryInv'
  BY Zenon DEF IInv, TypeOK, MemoryInv, PackageInv, Updating, SwitchedLabels, Covered,
     Goto, op
<1>5. PackageInv'
  BY DEF IInv, TypeOK, PackageInv, MemoryInv, Updating, Recovering, Failing,
     HandlerLabels, SwitchedLabels, Holds, Covered, Goto, op
<1> QED
  BY Zenon, <1>1, <1>2, <1>3, <1>4, <1>5 DEF IInv

\* HandleDrop: the record goes when +old- and +new- have gone.
LEMMA HandleDropPreserves ==
    ASSUME IInv, Covered, HandleDrop
    PROVE  IInv'
<1> USE UpdateAssumption DEF HandleDrop, DeleteRecord, NoRecord
<1>1. TypeOK'
  BY SMTT(30) DEF IInv, TypeOK, MemoryInv, PackageInv, Updating, SwitchedLabels, Goto, op,
     Labels, Status, Info
<1>2. CodeInv'
  BY Zenon DEF IInv, TypeOK, CodeInv, RecordInv, PackageInv, InPlace, Displaced, Clean,
     ToRestore, Failing, Updating, Recovering, HandlerLabels, SwitchedLabels,
     Holds, Goto, op, Info
<1>3. RecordInv'
  BY Zenon DEF IInv, TypeOK, RecordInv, PackageInv, ToRestore, Updating, SwitchedLabels, Goto, op
<1>4. MemoryInv'
  BY Zenon DEF IInv, TypeOK, MemoryInv, PackageInv, Updating, SwitchedLabels, Covered,
     Goto, op
<1>5. PackageInv'
  BY Zenon DEF IInv, TypeOK, PackageInv, MemoryInv, Updating, Recovering, Failing,
     HandlerLabels, SwitchedLabels, Holds, Covered, Goto, op
<1> QED
  BY Zenon, <1>1, <1>2, <1>3, <1>4, <1>5 DEF IInv

\* Handle: the memory has the committed version, so the branch taken agrees
\* with ToRestore.
LEMMA HandlePreserves ==
    ASSUME IInv, Covered, Handle
    PROVE  IInv'
<1> DEFINE Unmoved == UNCHANGED <<dir, rec, db, mem, mark, state, ret, pkg, old, todo>>
<1>1. mem = db /\ mem # NoInfo
  BY DEF IInv, TypeOK, MemoryInv, Handle, Info, NoInfo
<1>2. \/ rec.status = "none" /\ pc' = ret
      \/ rec.status = "CREATE_NEW_DIR" /\ pc' = "hCreate"
      \/ ToRestore /\ pc' = "hRestore"
      \/ ~ToRestore /\ pc' = "hOldToTemp"
  BY <1>1 DEF IInv, TypeOK, Status, Handle, ToRestore
<1>3. pc = "handle" /\ Unmoved
  BY DEF Handle, op
<1> HIDE DEF Unmoved
<1>4. TypeOK'
  BY <1>2, <1>3 DEF Unmoved, IInv, TypeOK, Labels
<1>5. CodeInv'
  BY Zenon, <1>2, <1>3 DEF Unmoved, IInv, TypeOK, CodeInv, InPlace, Displaced, Clean, ToRestore,
     Failing, SwitchedLabels, Holds
<1>6. RecordInv'
  BY Zenon, <1>2, <1>3 DEF Unmoved, IInv, TypeOK, RecordInv, ToRestore, SwitchedLabels
<1>7. MemoryInv'
  BY Zenon, <1>2, <1>3 DEF Unmoved, IInv, TypeOK, MemoryInv
<1>8. PackageInv'
  BY <1>2, <1>3 DEF Unmoved, IInv, TypeOK, PackageInv, Updating, Recovering, Failing,
     HandlerLabels, SwitchedLabels
<1> QED
  BY <1>4, <1>5, <1>6, <1>7, <1>8 DEF IInv

\* LoadAll: the boot loads the row and turns to the record.
LEMMA LoadAllPreserves ==
    ASSUME IInv, Covered, LoadAll
    PROVE  IInv'
<1> USE UpdateAssumption DEF LoadAll
<1>1. TypeOK'
  BY Zenon DEF IInv, TypeOK, MemoryInv, PackageInv, Updating, SwitchedLabels, Goto, op,
     Labels, Status, Info, InstallState
<1>2. CodeInv'
  BY Zenon DEF IInv, TypeOK, CodeInv, RecordInv, PackageInv, InPlace, Displaced, Clean,
     ToRestore, Failing, Updating, Recovering, HandlerLabels, SwitchedLabels,
     Holds, Goto, op, Info
<1>3. RecordInv'
  BY Zenon DEF IInv, TypeOK, RecordInv, PackageInv, ToRestore, Updating, SwitchedLabels, Goto, op
<1>4. MemoryInv'
  BY Zenon DEF IInv, TypeOK, MemoryInv, PackageInv, Updating, SwitchedLabels, Covered,
     Goto, op
<1>5. PackageInv'
  BY DEF IInv, TypeOK, PackageInv, MemoryInv, Updating, Recovering, Failing,
     HandlerLabels, SwitchedLabels, Holds, Covered, Goto, op
<1> QED
  BY Zenon, <1>1, <1>2, <1>3, <1>4, <1>5 DEF IInv

\* UninstallLower: only the memory moves ahead of the row.
LEMMA UninstallLowerPreserves ==
    ASSUME IInv, Covered, UninstallLower
    PROVE  IInv'
<1> USE UpdateAssumption DEF UninstallLower
<1>1. TypeOK'
  <2>1. pc' \in Labels /\ UNCHANGED <<dir, rec, db, op>>
    BY Zenon DEF Goto, Labels
  <2>2. state' \in InstallState \cup {"absent"}
    BY Zenon, StateAfterType DEF IInv, TypeOK, InstallState
  <2>3. mem' \in Info \cup {NoInfo}
    BY DEF IInv, TypeOK, PackageInv, Updating, SwitchedLabels
  <2>4. mark' \in [db : Mark, mem : Mark]
    BY DEF IInv, TypeOK, PackageInv, Updating, SwitchedLabels, Info, Mark
  <2> QED
    BY Zenon, <2>1, <2>2, <2>3, <2>4 DEF IInv, TypeOK, op
<1>2. CodeInv'
  BY Zenon DEF IInv, TypeOK, CodeInv, RecordInv, PackageInv, InPlace, Displaced, Clean,
     ToRestore, Failing, Updating, Recovering, HandlerLabels, SwitchedLabels,
     Holds, Goto, op, Info
<1>3. RecordInv'
  BY DEF IInv, TypeOK, RecordInv, PackageInv, ToRestore, Updating, SwitchedLabels, Goto, op
<1>4. MemoryInv'
  BY Zenon DEF IInv, TypeOK, MemoryInv, PackageInv, Updating, SwitchedLabels, Covered,
     Goto, op
<1>5. PackageInv'
  BY DEF IInv, TypeOK, PackageInv, MemoryInv, Updating, Recovering, Failing,
     HandlerLabels, SwitchedLabels, Holds, Covered, Goto, op
<1> QED
  BY SMTT(30), <1>1, <1>2, <1>3, <1>4, <1>5 DEF IInv

\* MarkInstallFinish: with the row replaced, the same record no longer restores
\* +old-, and the code of the new version is in place.
LEMMA MarkInstallFinishPreserves ==
    ASSUME IInv, Covered, MarkInstallFinish
    PROVE  IInv'
<1> USE UpdateAssumption DEF MarkInstallFinish, Rollback
<1>1. TypeOK'
  BY SMTT(30) DEF IInv, TypeOK, MemoryInv, PackageInv, Updating, SwitchedLabels, Goto, op,
     Labels, Status, Info, Mark, Finished
<1>2. CodeInv' /\ RecordInv'
  <2>1. pc = "commit" /\ UNCHANGED <<rec, dir>>
    OBVIOUS
  <2>2. rec = [status |-> "RENAME_NEW_TO_REAL_PATH", ver |-> old.ver] /\ Displaced
    BY Zenon, <2>1 DEF IInv, CodeInv, RecordInv, SwitchedLabels
  <2>3. Holds(dir["real"], pkg) /\ pkg.ver # old.ver
    <3>1. /\ Holds(dir["real"], pkg) /\ pkg \in Info /\ old \in Info
          /\ pkg.ver > old.ver \/ pkg.ver < old.ver
      BY Zenon, <2>1 DEF IInv, TypeOK, PackageInv, Updating, SwitchedLabels
    <3> QED
      BY <3>1 DEF Info
  <2>4. CASE db' = pkg /\ pc' = "skills"
    <3>1. ~ToRestore' /\ rec'.status = "RENAME_NEW_TO_REAL_PATH" /\ Holds(dir["real"], db)'
      BY <2>1, <2>2, <2>3, <2>4 DEF ToRestore, Holds
    <3> QED
      BY Zenon, <2>4, <3>1 DEF CodeInv, RecordInv, InPlace, Failing, SwitchedLabels
  <2>5. CASE db' = db /\ pc' = "rollback"
    <3>1. Displaced' /\ rec'.status = "RENAME_NEW_TO_REAL_PATH"
      BY <2>1, <2>2, <2>5 DEF Displaced, ToRestore, Holds
    <3> QED
      BY Zenon, <2>5, <3>1 DEF CodeInv, RecordInv, Failing, SwitchedLabels
  <2> QED
    BY Zenon, <2>4, <2>5 DEF Goto
<1>4. MemoryInv'
  BY DEF IInv, TypeOK, MemoryInv, PackageInv, Updating, SwitchedLabels, Covered,
     FailsLate, Goto, op
<1>5. PackageInv'
  BY Zenon DEF IInv, TypeOK, PackageInv, MemoryInv, Updating, Recovering, Failing,
     HandlerLabels, SwitchedLabels, Holds, Covered, Goto, op
<1> QED
  BY Zenon, <1>1, <1>2, <1>4, <1>5 DEF IInv

----------------------------------------------------------------------------
\* The steps that change directories.  Where the committed code is in place it
\* cannot be missing, so the renames of InstallExceptionMgr do not fail.

\* The directory with the committed code is not empty.
LEMMA CommittedCodeExists ==
    ASSUME IInv
    PROVE  /\ db \in Info
           /\ Holds(dir["real"], db) => dir["real"] # Empty
           /\ Holds(dir["old"], db) => dir["old"] # Empty
  BY HoldsExists DEF IInv, TypeOK, DirNames

\* ExtractModule: only +new- is written.
LEMMA ExtractModulePreserves ==
    ASSUME IInv, Covered, ExtractModule
    PROVE  IInv'
<1> USE UpdateAssumption
<1>1. PICK m \in todo :
        \/ /\ \E v \in {0, pkg.ver} : dir' = [dir EXCEPT !["new"] = [@ EXCEPT ![m] = v]]
           /\ state' \in {state, "UPDATING_START", "UPDATING_SUCCESS"} /\ Rollback
        \/ /\ dir' = [dir EXCEPT !["new"] = [@ EXCEPT ![m] = pkg.ver]]
           /\ state' = "UPDATING_SUCCESS" /\ todo' = todo \ {m}
           /\ UNCHANGED <<pc, ret, pkg, old>>
        \/ Rollback /\ UNCHANGED <<dir, state>>
  BY SMTT(30) DEF ExtractModule
<1>2. /\ pc = "extract" /\ UNCHANGED <<rec, db, mem, mark>>
      /\ pkg \in Info /\ todo \subseteq Modules
  BY Zenon DEF ExtractModule, IInv, TypeOK, PackageInv, Updating
<1>3. /\ dir' \in [DirNames -> [Modules -> Nat]]
      /\ dir'["real"] = dir["real"] /\ dir'["old"] = dir["old"]
  BY <1>1, <1>2 DEF IInv, TypeOK, Info, DirNames
<1>4. TypeOK'
  <2>1. /\ UNCHANGED <<ret, pkg, old>> /\ todo' \subseteq Modules /\ pc' \in Labels
        /\ state' \in InstallState \cup {"absent"}
    BY <1>1, <1>2 DEF IInv, TypeOK, Rollback, Labels, InstallState, Info
  <2> QED
    BY Zenon, <1>2, <1>3, <2>1 DEF IInv, TypeOK
<1>5. CodeInv'
  BY Zenon, <1>1, <1>2, <1>3 DEF IInv, CodeInv, InPlace, Displaced, Clean, ToRestore, Rollback,
     Failing, SwitchedLabels, Holds
<1>6. RecordInv' /\ MemoryInv'
  BY <1>1, <1>2 DEF IInv, RecordInv, MemoryInv, PackageInv, ToRestore, Rollback, SwitchedLabels
<1>7. PackageInv'
  <2>1. CASE pc' = "rollback"
    BY Zenon, <2>1, <1>1, <1>2 DEF IInv, PackageInv, Updating, Rollback, SwitchedLabels, HandlerLabels
  <2>2. CASE pc' # "rollback"
    <3>1. \A n \in pkg.mods \ todo' : dir'["new"][n] = pkg.ver
      BY <2>2, <1>1, <1>2 DEF IInv, TypeOK, PackageInv, Rollback, DirNames, Info
    <3> QED
      BY Zenon, <2>2, <3>1, <1>1, <1>2 DEF IInv, PackageInv, Updating, Rollback, Recovering,
         Failing, SwitchedLabels, HandlerLabels
  <2> QED
    BY Zenon, <2>1, <2>2
<1> QED
  BY <1>4, <1>5, <1>6, <1>7 DEF IInv

\* RealToOld: the code moves to +old-, which the record restores; a torn rename
\* has lost nothing but an empty +old-.
LEMMA RealToOldPreserves ==
    ASSUME IInv, Covered, RealToOld
    PROVE  IInv'
<1> USE UpdateAssumption
<1>1. UNCHANGED <<rec, db, mem, mark, state>>
  BY DEF RealToOld
<1>2. /\ pc = "realToOld" /\ dir' \in [DirNames -> [Modules -> Nat]] /\ dir'["new"] = dir["new"]
      /\ \/ /\ dir'["old"] = dir["real"] /\ pc' = "saveNewToReal" /\ UNCHANGED op
         \/ dir'["real"] = dir["real"] /\ dir'["old"] = dir["old"] /\ Rollback
  <2>1. pc = "realToOld" /\ TypeOK /\ dir["real"] # Empty /\ dir["old"] = Empty
    BY CommittedCodeExists DEF RealToOld, IInv, CodeInv, Clean
  <2>2. CASE RenameOk("real", "old") /\ pc' = "saveNewToReal" /\ UNCHANGED op
    BY Zenon, <2>1, <2>2, RenameOkFacts DEF DirNames
  <2>3. CASE dir' \in Cut("old") /\ Rollback
    BY Zenon, <2>1, <2>3, CutFacts DEF DirNames
  <2> QED
    BY Zenon, <2>1, <2>2, <2>3 DEF RealToOld, RenameFails, Exists, Goto
<1>3. TypeOK'
  <2>1. pkg.mods \subseteq Modules
    BY <1>2 DEF IInv, PackageInv, Updating, SwitchedLabels, Info
  <2>2. UNCHANGED <<ret, pkg, old>> /\ todo' \in SUBSET Modules /\ pc' \in Labels
    BY <1>2, <2>1 DEF IInv, TypeOK, Rollback, Labels, op
  <2> QED
    BY Zenon, <1>1, <1>2, <2>2 DEF IInv, TypeOK
<1>4. CodeInv'
  BY Zenon, <1>1, <1>2 DEF IInv, TypeOK, CodeInv, RecordInv, InPlace, Displaced, Clean, ToRestore,
     Failing, SwitchedLabels, Holds, Rollback, op
<1>5. RecordInv' /\ MemoryInv'
  BY Zenon, <1>1, <1>2 DEF IInv, TypeOK, RecordInv, MemoryInv, PackageInv, ToRestore, SwitchedLabels,
     Rollback, op
<1>6. PackageInv'
  BY <1>1, <1>2 DEF IInv, TypeOK, PackageInv, Updating, Recovering, Failing,
     HandlerLabels, SwitchedLabels, Holds, Rollback, op
<1> QED
  BY <1>3, <1>4, <1>5, <1>6 DEF IInv

\* NewToReal: whatever becomes of the real directory, +old- has the code.
LEMMA NewToRealPreserves ==
    ASSUME IInv, Covered, NewToReal
    PROVE  IInv'
<1> USE UpdateAssumption
<1>1. UNCHANGED <<rec, db, mem, mark, state>>
  BY DEF NewToReal
<1>2. /\ pc = "newToReal" /\ dir' \in [DirNames -> [Modules -> Nat]] /\ dir'["old"] = dir["old"]
      /\ \/ dir'["real"] = dir["new"] /\ pc' = "lower" /\ UNCHANGED op
         \/ Rollback
  <2>1. pc = "newToReal" /\ TypeOK /\ dir["new"] # Empty
    BY Zenon, HoldsExists DEF NewToReal, IInv, TypeOK, PackageInv, Updating, SwitchedLabels, DirNames
  <2>2. CASE RenameOk("new", "real") /\ pc' = "lower" /\ UNCHANGED op
    BY Zenon, <2>1, <2>2, RenameOkFacts DEF DirNames
  <2>3. CASE dir' \in Cut("real") /\ Rollback
    BY Zenon, <2>1, <2>3, CutFacts DEF DirNames
  <2> QED
    BY Zenon, <2>1, <2>2, <2>3 DEF NewToReal, RenameFails, Exists, Goto
<1>3. TypeOK'
  <2>1. pkg.mods \subseteq Modules
    BY <1>2 DEF IInv, PackageInv, Updating, SwitchedLabels, Info
  <2>2. UNCHANGED <<ret, pkg, old>> /\ todo' \in SUBSET Modules /\ pc' \in Labels
    BY <1>2, <2>1 DEF IInv, TypeOK, Rollback, Labels, op
  <2> QED
    BY Zenon, <1>1, <1>2, <2>2 DEF IInv, TypeOK
<1>4. CodeInv'
  <2>1. Displaced' /\ rec'.status = rec.status /\ rec.status \notin {"none", "CREATE_NEW_DIR"}
    BY Zenon, <1>1, <1>2 DEF IInv, CodeInv, Displaced, ToRestore, SwitchedLabels, Holds
  <2> QED
    BY Zenon, <1>2, <2>1 DEF CodeInv, Failing, SwitchedLabels, Rollback
<1>5. RecordInv' /\ MemoryInv'
  <2>1. RecordInv'
    BY Zenon, <1>1, <1>2 DEF IInv, RecordInv, SwitchedLabels, Rollback, op
  <2>2. MemoryInv'
    BY Zenon, <1>1, <1>2 DEF IInv, MemoryInv, Rollback, op
  <2> QED
    BY <2>1, <2>2
<1>6. PackageInv'
  BY <1>1, <1>2 DEF IInv, TypeOK, PackageInv, Updating, Recovering, Failing,
     HandlerLabels, SwitchedLabels, Holds, Rollback, op
<1> QED
  BY <1>3, <1>4, <1>5, <1>6 DEF IInv

\* OldToTemp: no record restores +old-, so it may go.
LEMMA OldToTempPreserves ==
    ASSUME IInv, Covered, OldToTemp
    PROVE  IInv'
<1> USE UpdateAssumption
<1>1. UNCHANGED <<rec, db, mem, mark, state>>
  BY DEF OldToTemp
<1>2. /\ pc = "oldToTemp" /\ dir' \in [DirNames -> [Modules -> Nat]] /\ dir'["real"] = dir["real"] /\ UNCHANGED op
      /\ \/ dir'["old"] = Empty /\ pc' = "removeTemp"
         \/ dir'["old"] = dir["old"] /\ pc' = "removeOld"
  <2>1. pc = "oldToTemp" /\ TypeOK /\ UNCHANGED op
    BY DEF OldToTemp, IInv, op
  <2>2. CASE RenameOk("old", "temp") /\ pc' = "removeTemp"
    BY Zenon, <2>1, <2>2, RenameOkFacts DEF DirNames
  <2>3. CASE dir' \in Cut("temp") /\ pc' = "removeOld"
    BY <2>1, <2>3, CutFacts DEF DirNames
  <2> QED
    BY <2>1, <2>2, <2>3 DEF OldToTemp, RenameFails, Exists, Goto, TypeOK
<1>3. TypeOK'
  BY Zenon, <1>1, <1>2 DEF IInv, TypeOK, PackageInv, Updating, SwitchedLabels, Rollback, Labels, Info, op
<1>4. CodeInv'
  BY Zenon, <1>1, <1>2 DEF IInv, TypeOK, CodeInv, RecordInv, InPlace, Displaced, Clean, ToRestore,
     Failing, SwitchedLabels, Holds, Rollback, op
<1>5. RecordInv' /\ MemoryInv'
  BY Zenon, <1>1, <1>2 DEF IInv, TypeOK, RecordInv, MemoryInv, PackageInv, ToRestore, SwitchedLabels,
     Rollback, op
<1>6. PackageInv'
  BY Zenon, <1>1, <1>2 DEF IInv, TypeOK, PackageInv, Updating, Recovering, Failing,
     HandlerLabels, SwitchedLabels, Holds, Rollback, op
<1> QED
  BY <1>3, <1>4, <1>5, <1>6 DEF IInv

\* RemoveOld: as OldToTemp.
LEMMA RemoveOldPreserves ==
    ASSUME IInv, Covered, RemoveOld
    PROVE  IInv'
<1> USE UpdateAssumption
<1>1. UNCHANGED <<rec, db, mem, mark, state>>
  BY DEF RemoveOld
<1>2. /\ dir' \in [DirNames -> [Modules -> Nat]] /\ dir'["real"] = dir["real"] /\ UNCHANGED op
      /\ pc \in {"removeTemp", "removeOld"} /\ pc' \in {"drop", "finish"}
      /\ dir["old"] = Empty => dir'["old"] = Empty
      /\ pc' = "drop" => dir'["old"] = Empty
  <2>1. PICK d \in {"temp", "old"} :
          /\ pc = (IF d = "temp" THEN "removeTemp" ELSE "removeOld")
          /\ \/ RemoveOk(d) /\ pc' = "drop"
             \/ dir' \in Cut(d) /\ pc' = "finish"
    BY Zenon DEF RemoveOld, RemoveFails, Goto
  <2>2. TypeOK /\ UNCHANGED op /\ (pc = "removeTemp" => dir["old"] = Empty)
    BY Zenon DEF RemoveOld, IInv, CodeInv, Clean, op
  <2>3. CASE RemoveOk(d) /\ pc' = "drop"
    BY Zenon, <2>1, <2>2, <2>3, RemoveOkFacts DEF DirNames
  <2>4. CASE dir' \in Cut(d) /\ pc' = "finish"
    BY Zenon, <2>1, <2>2, <2>4, CutFacts DEF DirNames
  <2> QED
    BY <2>1, <2>3, <2>4
<1>3. TypeOK'
  BY Zenon, <1>1, <1>2 DEF IInv, TypeOK, PackageInv, Updating, SwitchedLabels, Rollback, Labels, Info, op
<1>4. CodeInv'
  BY Zenon, <1>1, <1>2 DEF IInv, TypeOK, CodeInv, RecordInv, PackageInv, InPlace, Displaced, Clean,
     ToRestore, Failing, HandlerLabels, SwitchedLabels, Holds, op
<1>5. RecordInv' /\ MemoryInv'
  BY Zenon, <1>1, <1>2 DEF IInv, TypeOK, RecordInv, MemoryInv, PackageInv, ToRestore, SwitchedLabels,
     Rollback, op
<1>6. PackageInv'
  BY Zenon, <1>1, <1>2 DEF IInv, TypeOK, PackageInv, Updating, Recovering, Failing,
     HandlerLabels, SwitchedLabels, Holds, Rollback, op
<1> QED
  BY <1>3, <1>4, <1>5, <1>6 DEF IInv

\* HandleCreateNewDir: only +new- is removed.
LEMMA HandleCreateNewDirPreserves ==
    ASSUME IInv, Covered, HandleCreateNewDir
    PROVE  IInv'
<1>1. UNCHANGED <<rec, db, mem, mark, state, ret, pkg, old, todo>>
  BY Zenon DEF HandleCreateNewDir, op
<1>2. /\ dir' \in [DirNames -> [Modules -> Nat]] /\ dir'["real"] = dir["real"] /\ dir'["old"] = dir["old"]
      /\ pc = "hCreate" /\ pc' \in {"hDrop", ret}
  BY Zenon, RemoveOkFacts, CutFacts DEF HandleCreateNewDir, RemoveFails, Goto, IInv, DirNames
<1>3. TypeOK'
  BY Zenon, <1>1, <1>2 DEF IInv, TypeOK, Labels
<1>4. CodeInv'
  BY Zenon, <1>1, <1>2 DEF IInv, TypeOK, CodeInv, RecordInv, InPlace, Displaced, Clean, ToRestore,
     Failing, SwitchedLabels, Holds
<1>5. RecordInv' /\ MemoryInv'
  BY Zenon, <1>1, <1>2 DEF IInv, TypeOK, RecordInv, MemoryInv, ToRestore, SwitchedLabels
<1>6. PackageInv'
  BY <1>1, <1>2 DEF IInv, TypeOK, PackageInv, Updating, Recovering, Failing, HandlerLabels,
     SwitchedLabels
<1> QED
  BY <1>3, <1>4, <1>5, <1>6 DEF IInv

\* HandleRemoveNew: only +new- is removed.
LEMMA HandleRemoveNewPreserves ==
    ASSUME IInv, Covered, HandleRemoveNew
    PROVE  IInv'
<1>1. UNCHANGED <<rec, db, mem, mark, state, ret, pkg, old, todo>>
  BY Zenon DEF HandleRemoveNew, op
<1>2. /\ dir' \in [DirNames -> [Modules -> Nat]] /\ dir'["real"] = dir["real"] /\ dir'["old"] = dir["old"]
      /\ pc = "hRemoveNew" /\ pc' = ret
  BY Zenon, RemoveOkFacts, CutFacts DEF HandleRemoveNew, RemoveFails, Goto, IInv, DirNames
<1>3. TypeOK'
  BY Zenon, <1>1, <1>2 DEF IInv, TypeOK, Labels
<1>4. CodeInv'
  BY Zenon, <1>1, <1>2 DEF IInv, TypeOK, CodeInv, RecordInv, InPlace, Displaced, Clean, ToRestore,
     Failing, SwitchedLabels, Holds
<1>5. RecordInv' /\ MemoryInv'
  BY Zenon, <1>1, <1>2 DEF IInv, TypeOK, RecordInv, MemoryInv, ToRestore, SwitchedLabels
<1>6. PackageInv'
  BY Zenon, <1>1, <1>2 DEF IInv, TypeOK, PackageInv, Updating, Recovering, Failing, HandlerLabels,
     SwitchedLabels
<1> QED
  BY <1>3, <1>4, <1>5, <1>6 DEF IInv

\* HandleRemoveTemp: only +temp- is removed.
LEMMA HandleRemoveTempPreserves ==
    ASSUME IInv, Covered, HandleRemoveTemp
    PROVE  IInv'
<1>1. UNCHANGED <<rec, db, mem, mark, state, ret, pkg, old, todo>>
  BY Zenon DEF HandleRemoveTemp, op
<1>2. /\ dir' \in [DirNames -> [Modules -> Nat]] /\ dir'["real"] = dir["real"] /\ dir'["old"] = dir["old"]
      /\ pc = "hRemoveTemp" /\ pc' \in {"hDrop", ret}
  BY Zenon, RemoveOkFacts, CutFacts DEF HandleRemoveTemp, RemoveFails, Goto, IInv, DirNames
<1>3. TypeOK'
  BY Zenon, <1>1, <1>2 DEF IInv, TypeOK, Labels
<1>4. CodeInv'
  BY Zenon, <1>1, <1>2 DEF IInv, TypeOK, CodeInv, RecordInv, InPlace, Displaced, Clean, ToRestore,
     Failing, SwitchedLabels, Holds
<1>5. RecordInv' /\ MemoryInv'
  BY Zenon, <1>1, <1>2 DEF IInv, TypeOK, RecordInv, MemoryInv, ToRestore, SwitchedLabels
<1>6. PackageInv'
  BY Zenon, <1>1, <1>2 DEF IInv, TypeOK, PackageInv, Updating, Recovering, Failing, HandlerLabels,
     SwitchedLabels
<1> QED
  BY <1>3, <1>4, <1>5, <1>6 DEF IInv

\* HandleRestore: +old- replaces whatever the real directory holds.
LEMMA HandleRestorePreserves ==
    ASSUME IInv, Covered, HandleRestore
    PROVE  IInv'
<1>1. UNCHANGED <<rec, db, mem, mark, state, ret, pkg, old, todo>>
  BY SMTT(30) DEF HandleRestore, op
<1>2. /\ dir' \in [DirNames -> [Modules -> Nat]] /\ pc = "hRestore" /\ pc' = "hRestoreDrop"
      /\ Holds(dir'["real"], db) /\ dir'["old"] = Empty
  <2>1. /\ TypeOK /\ pc = "hRestore" /\ "recover" \notin Faults
        /\ \/ Holds(dir["old"], db) /\ dir["old"] # Empty
           \/ Holds(dir["real"], db) /\ dir["real"] # Empty /\ dir["old"] = Empty
    BY CommittedCodeExists DEF HandleRestore, IInv, CodeInv, RecordInv, InPlace, Displaced,
       Covered
  <2>2. RenameOk("old", "real") /\ pc' = "hRestoreDrop"
    BY Zenon, <2>1 DEF HandleRestore, RenameFails, Exists, Goto
  <2> QED
    BY Zenon, <2>1, <2>2, RenameOkFacts DEF DirNames
<1>3. TypeOK'
  BY Zenon, <1>1, <1>2 DEF IInv, TypeOK, Labels
<1>4. CodeInv'
  BY Zenon, <1>1, <1>2 DEF IInv, TypeOK, CodeInv, RecordInv, InPlace, Displaced, Clean, ToRestore,
     Failing, SwitchedLabels, Holds
<1>5. RecordInv' /\ MemoryInv'
  BY Zenon, <1>1, <1>2 DEF IInv, TypeOK, RecordInv, MemoryInv, ToRestore, SwitchedLabels
<1>6. PackageInv'
  BY Zenon, <1>1, <1>2 DEF IInv, TypeOK, PackageInv, Updating, Recovering, Failing, HandlerLabels,
     SwitchedLabels
<1> QED
  BY <1>3, <1>4, <1>5, <1>6 DEF IInv

\* HandleOldToTemp: +old- is not the committed code here.
LEMMA HandleOldToTempPreserves ==
    ASSUME IInv, Covered, HandleOldToTemp
    PROVE  IInv'
<1>1. UNCHANGED <<rec, db, mem, mark, state, ret, pkg, old, todo>>
  BY DEF HandleOldToTemp, op
<1>2. /\ dir' \in [DirNames -> [Modules -> Nat]] /\ dir'["real"] = dir["real"] /\ dir'["old"] = Empty
      /\ pc = "hOldToTemp" /\ pc' \in {"hRemoveTemp", ret}
  <2>1. TypeOK /\ pc = "hOldToTemp" /\ "recover" \notin Faults
    BY DEF HandleOldToTemp, IInv, Covered
  <2>2. CASE RenameOk("old", "temp") /\ pc' = "hRemoveTemp"
    BY Zenon, <2>1, <2>2, RenameOkFacts DEF DirNames
  <2>3. CASE dir["old"] = Empty /\ UNCHANGED dir /\ pc' = ret
    BY Zenon, <2>1, <2>3 DEF TypeOK
  <2> QED
    BY <2>1, <2>2, <2>3 DEF HandleOldToTemp, RenameFails, Exists, Goto
<1>3. TypeOK'
  BY Zenon, <1>1, <1>2 DEF IInv, TypeOK, Labels
<1>4. CodeInv'
  BY Zenon, <1>1, <1>2 DEF IInv, TypeOK, CodeInv, RecordInv, InPlace, Displaced, Clean, ToRestore,
     Failing, SwitchedLabels, Holds
<1>5. RecordInv' /\ MemoryInv'
  BY Zenon, <1>1, <1>2 DEF IInv, TypeOK, RecordInv, MemoryInv, ToRestore, SwitchedLabels
<1>6. PackageInv'
  BY Zenon, <1>1, <1>2 DEF IInv, TypeOK, PackageInv, Updating, Recovering, Failing, HandlerLabels,
     SwitchedLabels
<1> QED
  BY <1>3, <1>4, <1>5, <1>6 DEF IInv

\* A rollback takes from the info in memory only what the old version lacks,
\* so what it saves is the committed info.
LEMMA RollBackModuleFacts ==
    ASSUME IInv, RollBackModule
    PROVE  /\ UNCHANGED <<db, mem, mark>> /\ state' \in InstallState \cup {"absent"}
           /\ dir' \in [DirNames -> [Modules -> Nat]]
           /\ dir'["old"] = dir["old"]
           /\ \A n \in db.mods : dir'["real"][n] = dir["real"][n]
<1>1. /\ pc = "rollback" /\ UNCHANGED <<rec, pc, ret, pkg, old>>
      /\ mem = db /\ old = db /\ db \in Info /\ mark = [db |-> Finished, mem |-> Finished]
      /\ state \in InstallState \cup {"absent"}
  <2>1. pc = "rollback" /\ UNCHANGED <<rec, pc, ret, pkg, old>>
    BY DEF RollBackModule
  <2>2. mem = db /\ mark.db = Finished /\ mark.mem = Finished
    BY Zenon, <2>1 DEF IInv, MemoryInv
  <2>3. old = db
    BY <2>1 DEF IInv, PackageInv, Updating
  <2>4. db \in Info /\ state \in InstallState \cup {"absent"}
    BY Zenon DEF IInv, TypeOK
  <2>5. mark = [db |-> Finished, mem |-> Finished]
    BY <2>2 DEF IInv, TypeOK
  <2> QED
    BY Zenon, <2>1, <2>2, <2>3, <2>4, <2>5
<1>2. PICK m \in todo : (RollBackOldModule(m) \/ RollBackNewModule(m)) /\ todo' = todo \ {m}
  BY SMTT(30) DEF RollBackModule
<1>3. StateAfter(state, "ROLL_BACK") \in InstallState \cup {"absent"}
  BY Zenon, <1>1, StateAfterType DEF InstallState
<1>4. m \in Modules /\ dir \in [DirNames -> [Modules -> Nat]]
  BY Zenon, <1>2 DEF IInv, TypeOK
<1>5. CASE RollBackOldModule(m)
  BY Zenon, <1>1, <1>3, <1>4, <1>5 DEF RollBackOldModule, Info, DirNames
<1>6. CASE RollBackNewModule(m)
  <2>1. m \notin db.mods /\ db.mods \ {m} = db.mods
    BY <1>1, <1>6 DEF RollBackNewModule
  <2>2. [mem EXCEPT !.mods = @ \ {m}] = db /\ [mark EXCEPT !.db = mark.mem] = mark
    BY <1>1, <2>1 DEF Info
  <2>3. UNCHANGED <<db, mem, mark>>
    BY <1>1, <1>6, <2>2 DEF RollBackNewModule
  <2>4. /\ dir' = [dir EXCEPT !["real"] = [@ EXCEPT ![m] = 0]]
        /\ state' = StateAfter(state, "ROLL_BACK")
    BY <1>6 DEF RollBackNewModule
  <2> QED
    BY <1>3, <1>4, <2>1, <2>3, <2>4 DEF DirNames
<1> QED
  BY Zenon, <1>2, <1>5, <1>6

\* RollBackModule: no module of the committed version is touched.
LEMMA RollBackModulePreserves ==
    ASSUME IInv, Covered, RollBackModule
    PROVE  IInv'
<1> USE UpdateAssumption
<1>1. /\ pc = "rollback" /\ UNCHANGED <<rec, pc, ret, pkg, old>>
      /\ todo' \subseteq todo
  BY SMTT(30) DEF RollBackModule
<1>2. TypeOK'
  BY Zenon, <1>1, RollBackModuleFacts DEF IInv, TypeOK
<1>3. CodeInv'
  BY Zenon, <1>1, RollBackModuleFacts DEF IInv, CodeInv, InPlace, Displaced, Clean, ToRestore,
     Failing, SwitchedLabels, Holds
<1>4. RecordInv' /\ MemoryInv'
  <2>1. UNCHANGED <<db, mem, mark>>
    BY Zenon, RollBackModuleFacts
  <2>2. RecordInv'
    BY Zenon, <1>1, <2>1 DEF IInv, RecordInv, ToRestore, SwitchedLabels
  <2>3. MemoryInv'
    BY Zenon, <1>1, <2>1 DEF IInv, MemoryInv, ToRestore, SwitchedLabels
  <2> QED
    BY <2>2, <2>3
<1>5. PackageInv'
  BY Zenon, <1>1, RollBackModuleFacts DEF IInv, PackageInv, Updating, Recovering, Failing,
     HandlerLabels, SwitchedLabels
<1> QED
  BY <1>2, <1>3, <1>4, <1>5 DEF IInv

\* Crash: the directory being deleted is never the one a reboot would use.
LEMMA CrashPreserves ==
    ASSUME IInv, Covered, Crash
    PROVE  IInv'
<1> USE UpdateAssumption
<1>1. /\ UNCHANGED <<rec, db>> /\ pc' = "off" /\ mem' = NoInfo /\ state' = "absent"
      /\ mark' = [mark EXCEPT !.mem = Finished]
      /\ ret' = "idle" /\ pkg' = NoInfo /\ old' = NoInfo /\ todo' = {}
  BY DEF Crash, LoseMemory, EndOperation, Goto
<1>2. /\ dir' \in [DirNames -> [Modules -> Nat]]
      /\ dir["old"] = Empty => dir'["old"] = Empty
      /\ InPlace' \/ Displaced'
  <2>1. CASE UNCHANGED dir
    BY Zenon, <1>1, <2>1 DEF IInv, TypeOK, CodeInv, InPlace, Displaced, ToRestore, Holds
  <2>2. CASE \E d \in Deleting : dir' \in Cut(d)
    <3>1. PICK d \in Deleting : dir' \in Cut(d)
      BY Zenon, <2>2
    <3>2. /\ d \in {"old", "real", "temp", "new"}
          /\ d = "old" => InPlace /\ (ToRestore => dir["old"] = Empty)
          /\ d = "real" => Displaced
      BY Zenon, <3>1 DEF Deleting, IInv, CodeInv, RecordInv, InPlace, Displaced, Clean, Exists,
         SwitchedLabels
    <3>3. /\ dir' \in [DirNames -> [Modules -> Nat]]
          /\ \A e \in DirNames \ {d} : dir'[e] = dir[e]
          /\ dir[d] = Empty => dir'[d] = Empty
      BY <3>1, <3>2, CutFacts DEF IInv, DirNames
    <3>4. CASE d = "old"
      BY <1>1, <3>2, <3>3, <3>4 DEF InPlace, ToRestore, Holds, DirNames
    <3>5. CASE d = "real"
      BY Zenon, <1>1, <3>2, <3>3, <3>5 DEF Displaced, ToRestore, Holds, DirNames
    <3>6. CASE d \in {"temp", "new"}
      <4>1. dir'["real"] = dir["real"] /\ dir'["old"] = dir["old"]
        BY Zenon, <3>3, <3>6 DEF DirNames
      <4> QED
        BY <1>1, <3>3, <4>1 DEF IInv, CodeInv, InPlace, Displaced, ToRestore, Holds
    <3> QED
      BY <3>2, <3>4, <3>5, <3>6
  <2>3. CASE /\ pc = "rollback"
             /\ \E m \in todo \ old.mods :
                  dir' = [dir EXCEPT !["real"] = [@ EXCEPT ![m] = 0]]
    <3>1. /\ dir' \in [DirNames -> [Modules -> Nat]] /\ dir'["old"] = dir["old"]
          /\ \A n \in db.mods : dir'["real"][n] = dir["real"][n]
      BY <2>3 DEF IInv, TypeOK, PackageInv, Updating, Info, DirNames
    <3> QED
      BY Zenon, <1>1, <3>1 DEF IInv, CodeInv, InPlace, Displaced, ToRestore, Holds
  <2> QED
    BY Zenon, <2>1, <2>2, <2>3 DEF Crash
<1>3. TypeOK'
  BY <1>1, <1>2 DEF IInv, TypeOK, Labels, Mark, Finished
<1>4. CodeInv' /\ RecordInv'
  BY Zenon, <1>1, <1>2 DEF IInv, CodeInv, RecordInv, Failing, SwitchedLabels
<1>5. MemoryInv' /\ PackageInv'
  BY Zenon, <1>1 DEF IInv, TypeOK, MemoryInv, PackageInv, Updating, Recovering, Failing,
     HandlerLabels, SwitchedLabels
<1> QED
  BY <1>3, <1>4, <1>5 DEF IInv

\* Every step preserves the inductive invariant.
LEMMA NextPreserves ==
    ASSUME IInv, Covered, Next
    PROVE  IInv'
<1>1. ~HandleGone
  BY DEF HandleGone, IInv, MemoryInv
<1> QED
  BY Zenon, <1>1, StartUpdatePreserves, SaveCreatePreserves, ExtractModulePreserves, PreparePreserves,
     SaveRealToOldPreserves, RealToOldPreserves, SaveNewToRealPreserves, NewToRealPreserves,
     UninstallLowerPreserves, LateStepsPreserves, MarkInstallFinishPreserves,
     CommitAppSkillsPreserves, SaveDeleteOldPreserves, OldToTempPreserves, RemoveOldPreserves,
     DropRecordPreserves, FinishPreserves, RollBackModulePreserves, RollbackCodePathPreserves,
     HandlePreserves, HandleCreateNewDirPreserves, HandleRestorePreserves,
     HandleRestoreDropPreserves, HandleRemoveNewPreserves, HandleOldToTempPreserves,
     HandleRemoveTempPreserves, HandleDropPreserves, LoadAllPreserves, CrashPreserves
     DEF Next, Step, UpdateStep, HandleStep

----------------------------------------------------------------------------
\* The theorems.  Each holds for any set of modules and packages, under any
\* faults that are Covered.

\* The inductive invariant holds in every reachable state.
THEOREM Invariance == ASSUME Covered PROVE Spec => []IInv
<1>1. IInv /\ [Next]_vars => IInv'
  <2> SUFFICES ASSUME IInv, [Next]_vars PROVE IInv'
    OBVIOUS
  <2>1. CASE Next
    BY <2>1, NextPreserves
  <2>2. CASE UNCHANGED vars
    <3>1. TypeOK'
      BY Zenon, <2>2 DEF vars, IInv, TypeOK
    <3>5. RecordInv'
      BY Zenon, <2>2 DEF vars, IInv, RecordInv, ToRestore
    <3>2. CodeInv'
      BY Zenon, <2>2 DEF vars, IInv, CodeInv, InPlace, Displaced, Clean, ToRestore, Failing, Holds
    <3>3. MemoryInv'
      BY Zenon, <2>2 DEF vars, IInv, MemoryInv
    <3>4. PackageInv'
      BY Zenon, <2>2 DEF vars, IInv, PackageInv, Failing, Updating, Recovering, Holds
    <3> QED
      BY <3>1, <3>2, <3>3, <3>4, <3>5 DEF IInv
  <2> QED
    BY <2>1, <2>2
<1> QED
  BY <1>1, InitIInv, PTL DEF Spec

\* Every variable keeps its type; in particular a bundle never loses its last
\* module to a rollback.
THEOREM TypeCorrect == ASSUME Covered PROVE Spec => []TypeOK
  BY Invariance, PTL DEF IInv

\* An update, a rollback and a recovery may be interrupted anywhere: what a
\* reboot would leave is the complete code of the committed version.
THEOREM AlwaysRecoverable == ASSUME Covered PROVE Spec => []Recoverable
<1>1. IInv => Recoverable
  BY Zenon, CommittedCodeExists DEF IInv, CodeInv, InPlace, Displaced, Recoverable, Surviving, Exists
<1> QED
  BY <1>1, Invariance, PTL

\* Between operations, memory, database and real directory agree.
THEOREM IdleConsistency == ASSUME Covered PROVE Spec => []ConsistentWhenIdle
<1>1. IInv => ConsistentWhenIdle
  BY Zenon DEF IInv, CodeInv, MemoryInv, InPlace, ConsistentWhenIdle
<1> QED
  BY <1>1, Invariance, PTL

\* A failed update leaves the version it found in all three places.
THEOREM RollbackCorrect == ASSUME Covered PROVE Spec => []FailedUpdateRestores
<1>1. IInv => FailedUpdateRestores
  BY Zenon DEF IInv, CodeInv, MemoryInv, PackageInv, Updating, Failing, Clean, FailedUpdateRestores
<1> QED
  BY <1>1, Invariance, PTL

\* The refinement mapping shows the complete code of the row.
LEMMA SurvivingCode ==
    IInv => [m \in db.mods |-> Surviving[m]] = Store!FullCode(db)
  BY Zenon, CommittedCodeExists DEF IInv, CodeInv, InPlace, Displaced, Surviving, Exists, Holds,
     Store!FullCode

\* The row changes only in MarkInstallFinish, to the package.
LEMMA RowChanges ==
    ASSUME IInv, Next
    PROVE  \/ UNCHANGED db
           \/ \E p \in Packages :
                db' = p /\ (p.ver > db.ver \/ (Downgrade /\ p.ver < db.ver))
<1>1. CASE MarkInstallFinish
  BY Zenon, <1>1 DEF MarkInstallFinish, IInv, PackageInv, Updating, SwitchedLabels
<1>2. CASE RollBackModule
  BY SMTT(30), <1>2, RollBackModuleFacts
<1>3. CASE ~MarkInstallFinish /\ ~RollBackModule
  BY Zenon, <1>3 DEF Next, Step, UpdateStep, HandleStep, StartUpdate, SaveCreate, ExtractModule,
     Prepare, SaveRealToOld, RealToOld, SaveNewToReal, NewToReal, UninstallLower, LateSteps,
     CommitAppSkills, SaveDeleteOld, OldToTemp, RemoveOld, DropRecord, Finish,
     RollbackCodePath, Handle, HandleCreateNewDir, HandleRestore, HandleRestoreDrop,
     HandleRemoveNew, HandleGone, HandleOldToTemp, HandleRemoveTemp, HandleDrop, LoadAll,
     Crash, LoseMemory
<1> QED
  BY SMTT(30), <1>1, <1>2, <1>3

\* The update implements BundleStore: the row and the code that survives a
\* crash change together, to an offered version, and otherwise not at all.
THEOREM Refinement == ASSUME Covered PROVE Spec => ImplementsStore
<1> DEFINE code == [m \in db.mods |-> Surviving[m]]
<1>1. Init => Store!Init
  BY Zenon, InitIInv, SurvivingCode DEF Init, Store!Init
<1>2. IInv /\ IInv' /\ [Next]_vars => [Store!Next]_<<db, code>>
  <2> SUFFICES ASSUME IInv, IInv', [Next]_vars PROVE [Store!Next]_<<db, code>>
    OBVIOUS
  <2>1. code = Store!FullCode(db)
    BY Zenon, SurvivingCode
  <2>2. code' = Store!FullCode(db)'
    <3>1. (IInv => code = Store!FullCode(db))'
      BY SurvivingCode, PTL
    <3> QED
      BY <3>1
  <2> HIDE DEF code
  <2>3. CASE UNCHANGED db
    BY <2>1, <2>2, <2>3 DEF Store!FullCode
  <2>4. CASE \E p \in Packages :
               db' = p /\ (p.ver > db.ver \/ (Downgrade /\ p.ver < db.ver))
    BY <2>2, <2>4 DEF Store!Next, Store!Update, Store!FullCode, code
  <2> QED
    BY <2>3, <2>4, RowChanges DEF vars
<1> QED
  BY <1>1, <1>2, Invariance, PTL DEF ImplementsStore, Spec, Store!Spec
=============================================================================
