--------------------------- MODULE QuickFixProofs ---------------------------
(***************************************************************************)
(* Proofs that every request and every boot keeps QuickFixInv, with one    *)
(* lemma per action, and what follows: the patch in use never loses its    *)
(* files and is never replaced by an older one.                            *)
(***************************************************************************)
EXTENDS QuickFix, TLAPS

\* What may go wrong: any check, copy, row write or removal of a request or of
\* ProcessQuickFixBootUp, and a crash anywhere but between the row's SWITCH_END
\* and the bundle info.  At most one patch is deployed with a target path: two
\* of them share the directory that deployment and deletion empty.
QuickFixCovered ==
    /\ Faults \cap {"erase", "info"} = {} /\ ~RestoreFaults /\ "sInfo" \in Stable
    /\ \A u, v \in Targeted : u = v

----------------------------------------------------------------------------
\* Rows and their fields.

\* Version 0 stands for no patch.
LEMMA VersionsNat ==
    /\ Versions \subseteq Nat /\ Patches \subseteq Versions
    /\ 0 \in Versions /\ 0 \notin Patches
  BY QuickFixAssumption DEF Versions

\* The fields of a row.
LEMMA FixFields ==
    ASSUME NEW q \in Fixes
    PROVE  /\ q.status \in Status \cup {"none"}
           /\ q.deployed \in Versions /\ q.deploying \in Versions
           /\ q.deployed \in Nat /\ q.deploying \in Nat
  BY Zenon, VersionsNat DEF Fixes

\* The fields of a row put together.
LEMMA QfFields ==
    ASSUME NEW st, NEW d, NEW g
    PROVE  /\ Qf(st, d, g).status = st
           /\ Qf(st, d, g).deployed = d /\ Qf(st, d, g).deploying = g
  BY DEF Qf

\* A row put together from a status and two versions is a row.
LEMMA QfType ==
    ASSUME NEW st \in Status \cup {"none"},
           NEW d \in Versions, NEW g \in Versions
    PROVE  Qf(st, d, g) \in Fixes
  BY DEF Qf, Fixes

\* The absent row is typed as one.
LEMMA NoRowType ==
    /\ NoRow \in Fixes
    /\ NoRow.status = "none" /\ NoRow.deployed = 0 /\ NoRow.deploying = 0
  BY VersionsNat, QfType, QfFields DEF NoRow

\* An operation that ends leaves well-typed local variables.
LEMMA FinishType ==
    ASSUME NEW next, TypeOK, Finish(next)
    PROVE  /\ cur' \in Fixes /\ saved' \in Fixes /\ saved' = NoRow
           /\ mode' \in Modes /\ invalid' \subseteq Patches
  BY NoRowType DEF TypeOK, Finish

----------------------------------------------------------------------------
\* The files of the patches.

\* A record that learns of another place is still well typed, and the records of
\* the other patches stay.
LEMMA PlaceSet ==
    ASSUME TypeOK, NEW v \in Patches, NEW p \in Places,
           p = "own" \/ v \in Targeted, place' = [place EXCEPT ![v] = p]
    PROVE  /\ place' \in [Patches -> Places]
           /\ \A w \in Patches \ Targeted : place'[w] = "own"
           /\ place'[v] = p /\ \A w : w # v => place'[w] = place[w]
  BY QuickFixAssumption DEF TypeOK

\* A patch other than the one being touched keeps its files.
LEMMA OthersInPlace ==
    ASSUME NEW v, dirs \ {v} \subseteq dirs', shared \ {v} \subseteq shared',
           \A w : w # v => place'[w] = place[w]
    PROVE  \A w : w # v /\ InPlace(w) => InPlace(w)'
  BY DEF InPlace

\* What a deployment does to the files is done to those of its own patch: the
\* only patch with a target path has nothing else to share the directory with.
LEMMA PutFilesOwn ==
    ASSUME QuickFixCovered, TypeOK, NEW put, put \subseteq {cur.deploying},
           cur.deploying \in Patches, PutFiles(put)
    PROVE  /\ dirs \ {cur.deploying} \subseteq dirs' /\ dirs' \subseteq Patches
           /\ shared \ {cur.deploying} \subseteq shared' /\ shared' \subseteq Targeted
           /\ put \subseteq IF ToTarget THEN shared' ELSE dirs'
<1>1. CASE ToTarget
  BY <1>1 DEF PutFiles, ToTarget, TypeOK, QuickFixCovered
<1>2. CASE ~ToTarget
  BY <1>2 DEF PutFiles, TypeOK
<1> QED
  BY <1>1, <1>2

\* While a deployment runs, its patch is newer than the patch in use, which is
\* therefore another one.
LEMMA DeployingNewer ==
    ASSUME QuickFixInv, pc \in Deploying
    PROVE  /\ cur.deploying \in Patches /\ cur.deploying \in Nat
           /\ info.deployed \in Nat /\ saved.deploying \in Nat
           /\ cur.deploying > info.deployed /\ cur.deploying > saved.deploying
<1>1. /\ cur.deploying \in Versions /\ info.deployed \in Nat
      /\ saved.deploying \in Nat /\ cur.deploying \in Nat
  BY FixFields, VersionsNat DEF QuickFixInv, TypeOK
<1>2. row = cur /\ cur.deploying > saved.deploying
  BY DEF QuickFixInv, DeployInv
<1>3. row.status \in Offering /\ pc # "sInfo"
  BY DEF QuickFixInv, DeployInv, Deploying, Copying, Offering
<1>4. cur.deploying > info.deployed
  BY <1>1, <1>2, <1>3 DEF QuickFixInv, RowInv, Sound
<1> QED
  BY <1>1, <1>2, <1>4 DEF Versions

\* The deleter does not reach the patch in use: it is not one of those the row
\* names, and where the directory patch goes, the only patch in it is one.
LEMMA DeleteKeeps ==
    ASSUME QuickFixCovered, QuickFixInv, pc = "xDirs", info.deployed # 0
    PROVE  IF place[info.deployed] = "own" THEN info.deployed \notin OwnToDelete
           ELSE info.deployed \notin SharedToDelete
<1> DEFINE w == info.deployed
<1>1. w \in Patches /\ w \notin ToDelete
  BY VersionsNat DEF QuickFixInv, TypeOK, Versions, RowInv, Sound, DeleteInv, Deleting,
       ToDelete
<1>2. CASE place[w] = "own"
  BY <1>1, <1>2 DEF OwnToDelete
<1>3. CASE place[w] # "own"
  <2>1. w \in Targeted
    BY <1>1, <1>3 DEF QuickFixInv, TypeOK
  <2>2. ASSUME NEW u \in ToDelete, place[u] = "prefixed" PROVE FALSE
    <3>1. u \in Targeted
      BY <2>2 DEF QuickFixInv, TypeOK, ToDelete
    <3> QED
      BY <1>1, <2>1, <2>2, <3>1 DEF QuickFixCovered
  <2>3. OwnToDelete = ToDelete
    BY <2>2 DEF OwnToDelete
  <2> QED
    BY <1>3, <2>3 DEF SharedToDelete
<1> QED
  BY <1>2, <1>3

----------------------------------------------------------------------------
\* The conjuncts whose preservation takes several steps.

\* What a deployment that starts writes, and where nothing is changed.
LEMMA DeployStartFacts ==
    ASSUME QuickFixInv, DeployStart
    PROVE  /\ UNCHANGED <<info, dirs, shared>> /\ pc = "dStart"
           /\ cur.deploying \in Patches /\ row.deploying \in Nat
           /\ \/ Fail /\ UNCHANGED <<row, place>>
              \/ /\ Deployable(cur.deploying) /\ pc' = "dCopy"
                 /\ cur' = Qf("DEPLOY_START", row.deployed, cur.deploying)
                 /\ saved' = row /\ row' = cur' /\ UNCHANGED <<mode, invalid>>
                 /\ place' = [place EXCEPT ![cur.deploying] = "own"]
<1>1. cur.deploying \in Versions /\ row.deploying \in Nat
  BY Zenon, FixFields DEF QuickFixInv, TypeOK
<1>2. pc = "dStart" /\ cur.deploying # 0
  BY Zenon DEF QuickFixInv, DeployInv, DeployStart
<1> QED
  BY <1>1, <1>2 DEF Versions, DeployStart, SaveRow, Goto

\* The row of a new deployment is well typed.
LEMMA DeployStartType ==
    ASSUME QuickFixInv, DeployStart
    PROVE  TypeOK'
<1>1. CASE Fail /\ UNCHANGED <<row, place>>
  BY Zenon, <1>1, FinishType, NoRowType, DeployStartFacts DEF QuickFixInv, TypeOK, Fail
<1>2. CASE /\ cur' = Qf("DEPLOY_START", row.deployed, cur.deploying)
           /\ saved' = row /\ row' = cur' /\ UNCHANGED <<mode, invalid>>
           /\ place' = [place EXCEPT ![cur.deploying] = "own"]
  <2>1. cur' \in Fixes /\ cur'.status # "none"
    BY <1>2, FixFields, QfType, QfFields DEF QuickFixInv, TypeOK, Status
  <2>2. /\ place' \in [Patches -> Places]
        /\ \A w \in Patches \ Targeted : place'[w] = "own"
    BY Zenon, <1>2, DeployStartFacts, PlaceSet DEF QuickFixInv, Places
  <2> QED
    BY Zenon, <1>2, <2>1, <2>2, DeployStartFacts DEF QuickFixInv, TypeOK
<1> QED
  BY Zenon, <1>1, <1>2, DeployStartFacts

\* A deployment that starts leaves the files of the other patches.
LEMMA DeployStartPlaces ==
    ASSUME QuickFixInv, DeployStart
    PROVE  \A w : w # cur.deploying /\ InPlace(w) => InPlace(w)'
<1>1. \A w : w # cur.deploying => place'[w] = place[w]
  BY Zenon, DeployStartFacts, PlaceSet DEF QuickFixInv, Places
<1> QED
  BY <1>1, DeployStartFacts, OthersInPlace

\* A deployment starts from a sound row, with a newer version.
LEMMA DeployStartDeploy ==
    ASSUME QuickFixInv, DeployStart
    PROVE  DeployInv'
<1>1. CASE Fail
  BY <1>1 DEF Fail, Finish, Goto, DeployInv, Deploying, Copying, ToTarget
<1>2. CASE /\ Deployable(cur.deploying) /\ pc' = "dCopy"
           /\ cur' = Qf("DEPLOY_START", row.deployed, cur.deploying)
           /\ saved' = row /\ row' = cur'
  <2>1. cur'.deploying > saved'.deploying /\ (row # NoRow => row.deploying # cur.deploying)
    BY <1>2, FixFields, QfFields, NoRowType, DeployStartFacts DEF QuickFixInv, TypeOK,
         Deployable, DeployInv
  <2>2. Sound(saved)'
    BY <1>2, <2>1, NoRowType, DeployStartFacts, DeployStartPlaces DEF QuickFixInv, RowInv,
         Sound, Offering
  <2>3. saved'.status \in {"none", "DEPLOY_START", "DEPLOY_END"}
    BY <1>2, NoRowType DEF Deployable
  <2>4. saved' # NoRow => saved'.deploying # 0
    BY <1>2, DeployStartFacts DEF QuickFixInv, RowInv, Offering, Deployable, ModeInv
  <2> QED
    BY <1>2, <2>1, <2>2, <2>3, <2>4, QfFields DEF DeployInv, Deploying, Copying
<1> QED
  BY <1>1, <1>2, DeployStartFacts

\* The undo of a deployment keeps the types.
LEMMA DeployUndoType ==
    ASSUME QuickFixInv, DeployUndo
    PROVE  TypeOK'
  BY FinishType, NoRowType DEF QuickFixInv, TypeOK, Fail, DeployUndo, local

\* The row announcing an enabling is well typed.
LEMMA EnableStartType ==
    ASSUME QuickFixInv, EnableStart
    PROVE  TypeOK'
<1>1. CASE Fail /\ UNCHANGED row
  BY <1>1, FinishType, NoRowType DEF QuickFixInv, TypeOK, Fail, EnableStart,
       files
<1>2. CASE /\ row' = WithStatus(row, "SWITCH_ENABLE_START")
           /\ cur' = SwitchQuickFix(WithStatus(row, "SWITCH_ENABLE_START"))
           /\ saved' = row /\ UNCHANGED <<mode, invalid>>
  <2>1. row.deployed \in Versions /\ row.deploying \in Versions
    BY Zenon, FixFields DEF QuickFixInv, TypeOK
  <2>2. /\ row' = Qf("SWITCH_ENABLE_START", row.deployed, row.deploying)
        /\ cur' = Qf("SWITCH_ENABLE_START", row.deploying, row.deployed)
    BY <1>2, QfFields DEF WithStatus, SwitchQuickFix
  <2>3. row' \in Fixes /\ cur' \in Fixes /\ row'.status # "none"
    BY <2>1, <2>2, QfType, QfFields DEF Status
  <2> QED
    BY Zenon, <1>2, <2>3 DEF QuickFixInv, TypeOK, EnableStart, files
<1> QED
  BY <1>1, <1>2 DEF EnableStart, SaveRow, files

\* The row announcing a disabling is well typed.
LEMMA DisableStartType ==
    ASSUME QuickFixInv, DisableStart
    PROVE  TypeOK'
<1>1. CASE Fail /\ UNCHANGED row
  BY <1>1, FinishType, NoRowType DEF QuickFixInv, TypeOK, Fail, DisableStart,
       files
<1>2. CASE /\ row' \in {WithStatus(row, "SWITCH_DISABLE_START"),
                       Qf("SWITCH_DISABLE_START", 0, 0)}
           /\ cur' = row'
           /\ saved' = row /\ UNCHANGED <<mode, invalid>>
  BY <1>2, VersionsNat, FixFields, QfType, QfFields DEF QuickFixInv, TypeOK,
       Status, DisableStart, WithStatus, files
<1> QED
  BY <1>1, <1>2, QfFields DEF DisableStart, SaveRow, WithStatus, files

\* The bundle info after a switch is well typed.
LEMMA SwitchInfoType ==
    ASSUME QuickFixInv, SwitchInfo
    PROVE  TypeOK'
<1>1. info' \in [deployed : Versions, deploying : Versions]
  <2>1. info.deploying \in Versions /\ cur.deployed \in Versions
    BY FixFields DEF QuickFixInv, TypeOK
  <2> QED
    BY <2>1, VersionsNat DEF QuickFixInv, TypeOK, SwitchInfo, files
<1> QED
  BY <1>1, FinishType, NoRowType DEF QuickFixInv, TypeOK, SwitchInfo, local,
       files

\* The row announcing a deletion is well typed.
LEMMA DeleteStartType ==
    ASSUME QuickFixInv, DeleteStart
    PROVE  TypeOK'
<1>1. CASE (Fail \/ Finish("bClean")) /\ UNCHANGED row
  BY <1>1, FinishType, NoRowType DEF QuickFixInv, TypeOK, Fail, DeleteStart,
       files
<1>2. CASE /\ row' = WithStatus(row, "DELETE_START") /\ cur' = row'
           /\ UNCHANGED <<saved, mode, invalid>>
  BY <1>2, FixFields, QfType, QfFields DEF QuickFixInv, TypeOK, Status,
       DeleteStart, WithStatus, files
<1> QED
  BY <1>1, <1>2 DEF DeleteStart, SaveRow, files

\* A deletion ends well typed.
LEMMA DeleteRowType ==
    ASSUME QuickFixInv, DeleteRow
    PROVE  TypeOK'
  BY FinishType, NoRowType DEF QuickFixInv, TypeOK, DeleteRow, local, files

\* RestoreQuickFix starts well typed.
LEMMA BootRestoreType ==
    ASSUME QuickFixInv, BootRestore
    PROVE  TypeOK'
<1>1. info' \in [deployed : Versions, deploying : Versions]
  BY VersionsNat DEF QuickFixInv, TypeOK, BootRestore, NoFix, files
<1>2. cur' \in Fixes
  BY VersionsNat, QfType DEF QuickFixInv, TypeOK, BootRestore, files
<1>3. invalid' \subseteq Patches
  BY DEF QuickFixInv, TypeOK, BootRestore, files
<1> QED
  BY <1>1, <1>2, <1>3 DEF QuickFixInv, TypeOK, BootRestore, Modes, files

\* After the row names the patch to delete, the patch being enabled is another,
\* newer one and has its files.
LEMMA EnableSwitchSwitch ==
    ASSUME QuickFixCovered, QuickFixInv, EnableSwitch
    PROVE  SwitchInv'
<1>1. CASE pc' = "sUndo" /\ UNCHANGED row
  BY <1>1 DEF QuickFixInv, SwitchInv, Switching, EnableSwitch, local, Enabling,
       files, InPlace
<1>2. CASE /\ pc' = "sInfo"
           /\ row' = NoRow \/ row' = Qf("SWITCH_END", info.deployed, 0)
  <2>1. /\ row'.status \in {"none", "SWITCH_END"}
        /\ row'.deployed \in {0, info.deployed} /\ row'.deploying = 0
    BY <1>2, NoRowType, QfFields
  <2>2. /\ cur.deployed = row.deploying
        /\ row.status \in Offering \ {"DEPLOY_START"}
    BY QfFields DEF QuickFixInv, SwitchInv, Switching, Enabling, EnableSwitch,
         SwitchQuickFix, Offering, files, InPlace
  <2>3. cur.deployed # 0 =>
          InPlace(cur.deployed) /\ cur.deployed > info.deployed
    BY <2>2 DEF QuickFixInv, RowInv, Sound, EnableSwitch, files, InPlace
  <2>4. cur.deployed \in Nat /\ info.deployed \in Nat
    BY Zenon, FixFields, VersionsNat DEF QuickFixInv, TypeOK
  <2> QED
    BY <1>2, <2>1, <2>3, <2>4 DEF SwitchInv, Switching, EnableSwitch, local,
         files, InPlace
<1> QED
  BY <1>1, <1>2 DEF EnableSwitch, SaveRow, EraseRow, Goto, Fails,
       QuickFixCovered, files

\* No row that offers a patch outlives the boot.
LEMMA BootCleanRow ==
    ASSUME QuickFixInv, BootClean
    PROVE  RowInv'
<1>1. row.status \notin Offering
  BY NoRowType DEF QuickFixInv, BootClean, BootSettles, ModeInv, RestoreInv,
       TypeOK, Modes, Offering
<1> QED
  BY <1>1 DEF QuickFixInv, BootClean, RowInv, Sound, Offering, Goto, InPlace

----------------------------------------------------------------------------
\* One lemma per action.

\* A request to deploy starts at rest, with a version of its own.
LEMMA StartDeployPreserves ==
    ASSUME QuickFixCovered, QuickFixInv, StartDeploy
    PROVE  QuickFixInv'
<1>1. TypeOK'
  BY QfType, VersionsNat DEF QuickFixInv, StartDeploy, TypeOK, files
<1>2. PatchInUse'
  BY DEF QuickFixInv, StartDeploy, PatchInUse, files, InPlace
<1>3. RowInv'
  BY DEF QuickFixInv, StartDeploy, RowInv, Sound, files, InPlace
<1>4. DeployInv'
  BY QfFields, VersionsNat DEF StartDeploy, Goto, DeployInv, Deploying, Copying,
       files, ToTarget
<1>5. ModeInv'
  BY DEF QuickFixInv, StartDeploy, Goto, ModeInv, files
<1>6. RestoreInv'
  BY DEF QuickFixInv, StartDeploy, RestoreInv, Deleting, files
<1>7. BootSettles' /\ SwitchInv' /\ DeleteInv'
  BY DEF StartDeploy, Goto, BootSettles, SwitchInv, Switching, DeleteInv,
       Deleting, files, InPlace
<1> QED
  BY <1>1, <1>2, <1>3, <1>4, <1>5, <1>6, <1>7 DEF QuickFixInv

\* A request to enable or disable starts at rest and changes nothing yet.
LEMMA StartSwitchPreserves ==
    ASSUME QuickFixCovered, QuickFixInv, StartSwitch
    PROVE  QuickFixInv'
<1>1. TypeOK'
  BY DEF QuickFixInv, StartSwitch, local, TypeOK, files
<1>2. PatchInUse'
  BY DEF QuickFixInv, StartSwitch, PatchInUse, files, InPlace
<1>3. RowInv'
  BY DEF QuickFixInv, StartSwitch, local, RowInv, Sound, files, InPlace
<1>4. ModeInv'
  BY DEF QuickFixInv, StartSwitch, Goto, local, ModeInv, files
<1>5. RestoreInv'
  BY DEF QuickFixInv, StartSwitch, local, RestoreInv, Deleting, files
<1>6. BootSettles' /\ DeployInv' /\ SwitchInv' /\ DeleteInv'
  BY DEF StartSwitch, Goto, BootSettles, DeployInv, Deploying, Copying,
       SwitchInv, Switching, DeleteInv, Deleting, files, InPlace, ToTarget
<1> QED
  BY <1>1, <1>2, <1>3, <1>4, <1>5, <1>6 DEF QuickFixInv

\* A request to delete starts at rest and changes nothing yet.
LEMMA StartDeletePreserves ==
    ASSUME QuickFixCovered, QuickFixInv, StartDelete
    PROVE  QuickFixInv'
<1>1. TypeOK'
  BY DEF QuickFixInv, StartDelete, local, TypeOK, files
<1>2. PatchInUse'
  BY DEF QuickFixInv, StartDelete, PatchInUse, files, InPlace
<1>3. RowInv'
  BY DEF QuickFixInv, StartDelete, local, RowInv, Sound, files, InPlace
<1>4. ModeInv'
  BY DEF QuickFixInv, StartDelete, Goto, local, ModeInv, files
<1>5. RestoreInv'
  BY DEF QuickFixInv, StartDelete, Goto, local, RestoreInv, files
<1>6. BootSettles' /\ DeployInv' /\ SwitchInv' /\ DeleteInv'
  BY DEF StartDelete, Goto, BootSettles, DeployInv, Deploying, Copying,
       SwitchInv, Switching, DeleteInv, Deleting, files, InPlace, ToTarget
<1> QED
  BY <1>1, <1>2, <1>3, <1>4, <1>5, <1>6 DEF QuickFixInv

\* ToDeployStartStatus writes an offer newer than the row and the patch in use.
LEMMA DeployStartPreserves ==
    ASSUME QuickFixCovered, QuickFixInv, DeployStart
    PROVE  QuickFixInv'
<1>1. TypeOK'
  BY DeployStartType
<1>2. PatchInUse'
  <2>1. CASE UNCHANGED place
    BY <2>1, DeployStartFacts DEF QuickFixInv, PatchInUse, InPlace
  <2>2. CASE Deployable(cur.deploying)
    <3>1. info.deployed # cur.deploying
      BY <2>2, FixFields, VersionsNat DEF QuickFixInv, TypeOK, Deployable
    <3> QED
      BY <3>1, DeployStartFacts, DeployStartPlaces DEF QuickFixInv, PatchInUse
  <2> QED
    BY <2>1, <2>2, DeployStartFacts
<1>3. RowInv'
  BY QfFields, NoRowType DEF QuickFixInv, DeployStart, Finish, Fail, SaveRow,
       RowInv, Sound, Offering, Deployable, DeployInv, InPlace, ToTarget
<1>4. DeployInv'
  BY DeployStartDeploy
<1>5. ModeInv'
  BY DEF QuickFixInv, DeployStart, Goto, Finish, Fail, ModeInv
<1>6. RestoreInv'
  BY DEF QuickFixInv, DeployStart, Goto, Finish, Fail, RestoreInv, Deleting,
       Qf, Fails, QuickFixCovered, Deployable
<1>7. BootSettles' /\ SwitchInv' /\ DeleteInv'
  BY DEF DeployStart, Goto, Finish, Fail, BootSettles, SwitchInv, Switching,
       DeleteInv, Deleting, InPlace
<1> QED
  BY <1>1, <1>2, <1>3, <1>4, <1>5, <1>6, <1>7 DEF QuickFixInv

\* The copy touches only the directory of the new patch.
LEMMA DeployCopyPreserves ==
    ASSUME QuickFixCovered, QuickFixInv, DeployCopy
    PROVE  QuickFixInv'
<1>1. /\ UNCHANGED <<row, info, place, local>> /\ pc = "dCopy" /\ pc' \in {"dEnd", "dUndo"}
      /\ dirs \ {cur.deploying} \subseteq dirs' /\ dirs' \subseteq Patches
      /\ shared \ {cur.deploying} \subseteq shared' /\ shared' \subseteq Targeted
      /\ pc' = "dEnd" => cur.deploying \in IF ToTarget THEN shared' ELSE dirs'
  <2>1. cur.deploying \in Patches
    BY DeployingNewer DEF DeployCopy, Deploying, Copying
  <2>2. PICK put : /\ put \subseteq {cur.deploying} /\ PutFiles(put)
                   /\ pc' = "dEnd" => put = {cur.deploying}
    BY DEF DeployCopy, Goto
  <2> QED
    BY <2>1, <2>2, PutFilesOwn DEF QuickFixInv, DeployCopy, Goto
<1>2. TypeOK'
  BY Zenon, <1>1 DEF QuickFixInv, local, TypeOK
<1>3. \A w : w # cur.deploying /\ InPlace(w) => InPlace(w)'
  BY Zenon, <1>1, OthersInPlace
<1>4. info.deployed # cur.deploying /\ saved.deploying # cur.deploying
  BY <1>1, DeployingNewer DEF Deploying, Copying
<1>8. row = cur /\ row.status = "DEPLOY_START" /\ ToTarget' = ToTarget
  BY <1>1 DEF QuickFixInv, DeployInv, Deploying, Copying, ToTarget, local
<1>9. PatchInUse'
  BY Zenon, <1>1, <1>3, <1>4 DEF QuickFixInv, PatchInUse
<1>10. RowInv'
  BY <1>1, <1>8 DEF QuickFixInv, local, RowInv, Sound
<1>11. DeployInv'
  <2>1. Sound(saved)'
    BY <1>1, <1>3, <1>4 DEF QuickFixInv, DeployInv, Deploying, Copying, Sound, local
  <2> QED
    BY <1>1, <1>8, <2>1 DEF QuickFixInv, DeployInv, Deploying, Copying, local
<1>5. ModeInv'
  BY DEF QuickFixInv, DeployCopy, Goto, local, ModeInv
<1>6. RestoreInv'
  BY DEF QuickFixInv, DeployCopy, Goto, local, RestoreInv, Deleting, Fails,
       QuickFixCovered
<1>7. BootSettles' /\ SwitchInv' /\ DeleteInv'
  BY DEF DeployCopy, Goto, BootSettles, SwitchInv, Switching, DeleteInv,
       Deleting, InPlace
<1> QED
  BY <1>2, <1>5, <1>6, <1>7, <1>9, <1>10, <1>11 DEF QuickFixInv

\* The offer is complete once its directory is in place.
LEMMA DeployEndPreserves ==
    ASSUME QuickFixCovered, QuickFixInv, DeployEnd
    PROVE  QuickFixInv'
<1>1. /\ UNCHANGED <<info, dirs, shared, saved, mode, invalid>> /\ pc = "dEnd"
      /\ \/ /\ cur' = WithStatus(cur, "DEPLOY_END") /\ row' = cur' /\ pc' = "dInfo"
            /\ \E p \in IF ToTarget THEN {"target", "prefixed"} ELSE {"own"} :
                 place' = [place EXCEPT ![cur.deploying] = p]
         \/ UNCHANGED <<row, cur, place>> /\ pc' = "dUndo"
  BY Zenon DEF DeployEnd, SaveRow, SaveFails, Goto
<1>2. /\ cur.deploying \in Patches /\ info.deployed # cur.deploying
      /\ saved.deploying # cur.deploying
  BY <1>1, DeployingNewer DEF Deploying, Copying
<1>3. /\ row = cur /\ row.status = "DEPLOY_START" /\ Sound(row) /\ Sound(saved)
      /\ cur.deploying \in IF ToTarget THEN shared ELSE dirs
  BY <1>1 DEF QuickFixInv, RowInv, DeployInv, Deploying, Copying
<1>4. /\ place' \in [Patches -> Places]
      /\ \A w \in Patches \ Targeted : place'[w] = "own"
      /\ \A w : w # cur.deploying => place'[w] = place[w]
      /\ pc' = "dInfo" =>
           place'[cur.deploying] \in IF ToTarget THEN {"target", "prefixed"} ELSE {"own"}
  <2>1. CASE UNCHANGED place /\ pc' = "dUndo"
    BY <2>1 DEF QuickFixInv, TypeOK
  <2>2. CASE \E p \in IF ToTarget THEN {"target", "prefixed"} ELSE {"own"} :
               place' = [place EXCEPT ![cur.deploying] = p]
    <3>1. PICK p \in IF ToTarget THEN {"target", "prefixed"} ELSE {"own"} :
            place' = [place EXCEPT ![cur.deploying] = p]
      BY Zenon, <2>2
    <3>2. p \in Places /\ (p = "own" \/ cur.deploying \in Targeted)
      BY DEF Places, ToTarget
    <3> QED
      BY Zenon, <1>2, <3>1, <3>2, PlaceSet DEF QuickFixInv
  <2> QED
    BY Zenon, <1>1, <2>1, <2>2
<1>8. \A w : w # cur.deploying /\ InPlace(w) => InPlace(w)'
  BY Zenon, <1>1, <1>4, OthersInPlace
<1>9. /\ cur' \in Fixes /\ row' = cur' /\ cur'.deploying = cur.deploying
      /\ cur'.deployed = cur.deployed
      /\ cur'.status = IF pc' = "dInfo" THEN "DEPLOY_END" ELSE "DEPLOY_START"
  BY <1>1, <1>3, FixFields, QfFields, QfType DEF QuickFixInv, TypeOK, Status, WithStatus
<1>10. TypeOK'
  BY <1>1, <1>4, <1>9 DEF QuickFixInv, TypeOK
<1>11. PatchInUse'
  BY Zenon, <1>1, <1>2, <1>8 DEF QuickFixInv, PatchInUse
<1>12. RowInv'
  <2>1. pc' = "dInfo" => InPlace(cur.deploying)'
    BY <1>1, <1>3, <1>4, <1>9 DEF InPlace
  <2> QED
    BY <1>1, <1>3, <1>9, <2>1 DEF QuickFixInv, RowInv, Sound, Offering
<1>13. DeployInv'
  <2>1. Sound(saved)'
    BY <1>1, <1>2, <1>3, <1>8 DEF Sound
  <2> QED
    BY <1>1, <1>9, <2>1 DEF QuickFixInv, DeployInv, Deploying, Copying
<1>5. ModeInv'
  BY DEF QuickFixInv, DeployEnd, Goto, ModeInv
<1>6. RestoreInv'
  BY DEF QuickFixInv, DeployEnd, Goto, SaveFails, RestoreInv, Deleting, Qf,
       WithStatus, Fails, QuickFixCovered
<1>7. BootSettles' /\ SwitchInv' /\ DeleteInv'
  BY DEF DeployEnd, Goto, BootSettles, SwitchInv, Switching, DeleteInv,
       Deleting, InPlace
<1> QED
  BY <1>5, <1>6, <1>7, <1>10, <1>11, <1>12, <1>13 DEF QuickFixInv

\* The bundle info learns of the offer; the patch in use stays.
LEMMA DeployInfoPreserves ==
    ASSUME QuickFixCovered, QuickFixInv, DeployInfo
    PROVE  QuickFixInv'
<1>1. TypeOK'
  BY DEF QuickFixInv, DeployInfo, Finish, local, TypeOK, Fixes, files
<1>2. PatchInUse'
  BY DEF QuickFixInv, DeployInfo, PatchInUse, TypeOK, files, InPlace
<1>3. RowInv'
  BY DEF QuickFixInv, DeployInfo, Finish, local, RowInv, Sound, TypeOK, files,
       InPlace
<1>4. DeployInv'
  BY DEF QuickFixInv, DeployInfo, Goto, Finish, local, DeployInv, Sound,
       Deploying, Copying, TypeOK, Fails, QuickFixCovered, files, InPlace,
       ToTarget
<1>5. ModeInv'
  BY DEF QuickFixInv, DeployInfo, Goto, Finish, local, ModeInv, files
<1>6. RestoreInv'
  BY DEF QuickFixInv, DeployInfo, Goto, Finish, local, RestoreInv, Deleting,
       Fails, QuickFixCovered, Deploying, Copying, DeployInv, files, ToTarget
<1>7. BootSettles' /\ SwitchInv' /\ DeleteInv'
  BY DEF DeployInfo, Goto, Finish, BootSettles, SwitchInv, Switching, DeleteInv,
       Deleting, files, InPlace
<1> QED
  BY <1>1, <1>2, <1>3, <1>4, <1>5, <1>6, <1>7 DEF QuickFixInv

\* The offer that was replaced is older, so its directory is not the new one's.
LEMMA DeployRemovePreserves ==
    ASSUME QuickFixCovered, QuickFixInv, DeployRemove
    PROVE  QuickFixInv'
<1>1. TypeOK'
  BY DEF QuickFixInv, DeployRemove, Finish, TypeOK, Versions, Fixes, NoRow, Qf
<1>2. PatchInUse'
  BY FixFields, NoRowType DEF QuickFixInv, DeployRemove, PatchInUse, TypeOK,
       Sound, Offering, DeployInv, Deploying, InPlace, ToTarget
<1>3. RowInv'
  BY FixFields DEF QuickFixInv, DeployRemove, RowInv, Sound, TypeOK, DeployInv,
       Deploying, InPlace, ToTarget
<1>4. ModeInv'
  BY DEF QuickFixInv, DeployRemove, Goto, Finish, ModeInv
<1>5. RestoreInv'
  BY DEF QuickFixInv, DeployRemove, Finish, RestoreInv, Deleting
<1>6. BootSettles' /\ DeployInv' /\ SwitchInv' /\ DeleteInv'
  BY Zenon DEF DeployRemove, Goto, Finish, BootSettles, DeployInv, Deploying,
       Copying, SwitchInv, Switching, DeleteInv, Deleting, InPlace, ToTarget
<1> QED
  BY <1>1, <1>2, <1>3, <1>4, <1>5, <1>6 DEF QuickFixInv

\* A failed deployment removes the directory of its own patch only.
LEMMA DeployUndoPreserves ==
    ASSUME QuickFixCovered, QuickFixInv, DeployUndo
    PROVE  QuickFixInv'
<1>1. TypeOK'
  BY DeployUndoType
<1>2. PatchInUse'
  <2>1. /\ pc = "dUndo" /\ UNCHANGED <<info, place>>
        /\ dirs \ {cur.deploying} \subseteq dirs' /\ shared \ {cur.deploying} \subseteq shared'
    BY DEF DeployUndo
  <2>2. info.deployed # cur.deploying
    BY <2>1, DeployingNewer DEF Deploying, Copying
  <2>3. \A w : w # cur.deploying /\ InPlace(w) => InPlace(w)'
    BY Zenon, <2>1, OthersInPlace
  <2> QED
    BY Zenon, <2>1, <2>2, <2>3 DEF QuickFixInv, PatchInUse
<1>3. RowInv'
  BY Zenon DEF QuickFixInv, DeployUndo, RowInv, Sound, DeployInv, Deploying, Copying
<1>4. DeployInv'
  <2>1. /\ pc = "dUndo" /\ UNCHANGED <<row, info, place>>
        /\ dirs \ {cur.deploying} \subseteq dirs' /\ shared \ {cur.deploying} \subseteq shared'
        /\ (pc' = "dRow" /\ UNCHANGED local) \/ pc' \in {"idle", "bErase", "bClean"}
    BY DEF DeployUndo, Goto, Fail, Finish
  <2>2. saved.deploying # cur.deploying
    BY <2>1, DeployingNewer DEF Deploying, Copying
  <2>3. \A w : w # cur.deploying /\ InPlace(w) => InPlace(w)'
    BY Zenon, <2>1, OthersInPlace
  <2>4. CASE pc' = "dRow" /\ UNCHANGED local
    <3>1. Sound(saved)'
      BY <2>1, <2>2, <2>3, <2>4 DEF QuickFixInv, DeployInv, Deploying, Copying, Sound, local
    <3> QED
      BY <2>1, <2>4, <3>1 DEF QuickFixInv, DeployInv, Deploying, Copying, local
  <2>5. CASE pc' \in {"idle", "bErase", "bClean"}
    BY <2>5 DEF DeployInv, Deploying, Copying
  <2> QED
    BY <2>1, <2>4, <2>5
<1>5. ModeInv'
  BY DEF QuickFixInv, DeployUndo, Goto, Finish, Fail, local, ModeInv
<1>6. RestoreInv'
  BY DEF QuickFixInv, DeployUndo, Finish, Fail, local, RestoreInv, Deleting
<1>7. BootSettles' /\ SwitchInv' /\ DeleteInv'
  BY DEF DeployUndo, Goto, Finish, Fail, BootSettles, SwitchInv, Switching,
       DeleteInv, Deleting, InPlace
<1> QED
  BY <1>1, <1>2, <1>3, <1>4, <1>5, <1>6, <1>7 DEF QuickFixInv

\* A failed deployment puts back the row it found, which is still sound.
LEMMA DeployRestorePreserves ==
    ASSUME QuickFixCovered, QuickFixInv, DeployRestore
    PROVE  QuickFixInv'
<1>1. TypeOK'
  BY FinishType DEF QuickFixInv, DeployRestore, Fail, SaveRow, SaveFails,
       EraseRow, TypeOK, files
<1>2. PatchInUse'
  BY DEF QuickFixInv, DeployRestore, PatchInUse, files, InPlace
<1>3. RowInv'
  BY NoRowType DEF QuickFixInv, DeployRestore, SaveRow, SaveFails, EraseRow,
       RowInv, Sound, Offering, DeployInv, Deploying, Copying, files, InPlace,
       ToTarget
<1>4. ModeInv'
  BY DEF QuickFixInv, DeployRestore, Goto, Finish, Fail, ModeInv, files
<1>5. RestoreInv'
  BY DEF QuickFixInv, DeployRestore, Finish, Fail, RestoreInv, Deleting, files
<1>6. BootSettles' /\ DeployInv' /\ SwitchInv' /\ DeleteInv'
  BY DEF DeployRestore, Goto, Finish, Fail, BootSettles, DeployInv, Deploying,
       Copying, SwitchInv, Switching, DeleteInv, Deleting, files, InPlace,
       ToTarget
<1> QED
  BY <1>1, <1>2, <1>3, <1>4, <1>5, <1>6 DEF QuickFixInv

\* Only a deployed patch is switched on, and the row keeps naming it.
LEMMA EnableStartFacts ==
    ASSUME QuickFixInv, EnableStart
    PROVE  /\ pc = "eStart" /\ UNCHANGED <<info, files, mode, invalid>>
           /\ row'.deployed = row.deployed /\ row'.deploying = row.deploying
           /\ \/ /\ pc' = "eSwitch" /\ row'.status = "SWITCH_ENABLE_START"
                 /\ row.status \in {"DEPLOY_END", "SWITCH_ENABLE_START"}
              \/ /\ Fail /\ UNCHANGED row
                 /\ row.status \notin {"DEPLOY_END", "SWITCH_ENABLE_START"} \/ Fails("save")
<1>1. row.status \in Status \cup {"none"}
  BY Zenon, FixFields DEF QuickFixInv, TypeOK
<1>2. IsNextStatusExisted(row, "SWITCH_ENABLE_START")
        <=> row.status \in {"DEPLOY_END", "SWITCH_ENABLE_START"}
  BY <1>1 DEF IsNextStatusExisted, statesMap_, Status
<1>3. /\ pc = "eStart" /\ UNCHANGED <<info, files, mode, invalid>>
      /\ \/ /\ IsNextStatusExisted(row, "SWITCH_ENABLE_START") /\ pc' = "eSwitch"
            /\ row' = WithStatus(row, "SWITCH_ENABLE_START")
         \/ /\ ~IsNextStatusExisted(row, "SWITCH_ENABLE_START") \/ Fails("save")
            /\ Fail /\ UNCHANGED row
  BY Zenon DEF EnableStart, SaveRow, Goto, Fail, Finish, files
<1> QED
  BY <1>2, <1>3, QfFields DEF WithStatus

\* EnableQuickFix announces the switch in the row.
LEMMA EnableStartPreserves ==
    ASSUME QuickFixCovered, QuickFixInv, EnableStart
    PROVE  QuickFixInv'
<1>1. TypeOK'
  BY EnableStartType
<1>2. PatchInUse'
  BY Zenon DEF QuickFixInv, EnableStart, PatchInUse, files, InPlace
<1>3. RowInv'
  BY EnableStartFacts DEF QuickFixInv, RowInv, Sound, Offering, Fail, Finish,
       InPlace, files
<1>4. SwitchInv'
  BY QfFields DEF EnableStart, Goto, Finish, Fail, SaveRow, SwitchInv,
       Switching, Enabling, WithStatus, SwitchQuickFix, files, InPlace
<1>5. ModeInv'
  BY Zenon DEF QuickFixInv, EnableStart, Goto, Finish, Fail, ModeInv, files
<1>6. RestoreInv'
  <2>1. mode = "restore" => row.status = "DEPLOY_END" /\ row.deploying \notin invalid
    BY EnableStartFacts DEF QuickFixInv, RestoreInv
  <2>2. mode = "restore" => /\ pc' = "eSwitch"
                            /\ row'.deploying = row.deploying /\ UNCHANGED <<mode, invalid>>
    BY <2>1, EnableStartFacts DEF Fails, QuickFixCovered
  <2>3. UNCHANGED mode
    BY EnableStartFacts
  <2> QED
    BY <2>1, <2>2, <2>3 DEF RestoreInv, Deleting
<1>7. BootSettles' /\ DeployInv' /\ DeleteInv'
  BY DEF EnableStart, Goto, Finish, Fail, BootSettles, DeployInv, Deploying,
       Copying, DeleteInv, Deleting, files, ToTarget
<1> QED
  BY <1>1, <1>2, <1>3, <1>4, <1>5, <1>6, <1>7 DEF QuickFixInv

\* DisableQuickFix announces the switch in the row, or in a temporary one.
LEMMA DisableStartPreserves ==
    ASSUME QuickFixCovered, QuickFixInv, DisableStart
    PROVE  QuickFixInv'
<1>1. TypeOK'
  BY DisableStartType
<1>2. PatchInUse'
  BY SMTT(30) DEF QuickFixInv, DisableStart, PatchInUse, files, InPlace
<1>3. RowInv'
  <2> DEFINE found == IF row = NoRow THEN Qf("DEPLOY_END", 0, 0) ELSE row
             q == WithStatus(found, "SWITCH_DISABLE_START")
  <2>1. /\ pc = "sStart" /\ info' = info /\ UNCHANGED files /\ Sound(row)
        /\ row.status \in Offering /\ row.deploying = 0 => mode = "scan"
    BY DEF QuickFixInv, RowInv, DisableStart, files
  <2>2. CASE Fail /\ row' = row
    BY <2>1, <2>2 DEF Fail, Finish, RowInv, Sound, InPlace, files
  <2>3. CASE /\ IsNextStatusExisted(found, "SWITCH_DISABLE_START") /\ row' = q
             /\ saved' = row /\ pc' = "sSwitch" /\ mode' = mode
    <3>1. /\ q.status = "SWITCH_DISABLE_START"
          /\ q.deployed = found.deployed /\ q.deploying = found.deploying
      BY QfFields DEF WithStatus
    <3>2. CASE row = NoRow
      <4>1. found.deployed = 0 /\ found.deploying = 0
        BY <3>2, QfFields
      <4> QED
        BY <2>3, <3>1, <3>2, <4>1 DEF RowInv, Sound, Offering, InPlace
    <3>3. CASE row # NoRow
      <4>1. row.status \in {"DEPLOY_END", "SWITCH_DISABLE_START"}
        <5>1. row.status \in Status \cup {"none"}
          BY FixFields DEF QuickFixInv, TypeOK
        <5> QED
          BY <2>3, <3>3, <5>1 DEF IsNextStatusExisted, statesMap_, Status
      <4> HIDE DEF q
      <4> QED
        BY <2>1, <2>3, <3>1, <3>3, <4>1 DEF RowInv, Sound, Offering, InPlace, files
    <3> QED
      BY <3>2, <3>3
  <2> QED
    BY <2>2, <2>3, Zenon DEF DisableStart, SaveRow, Goto, files
<1>4. SwitchInv'
  BY QfFields DEF DisableStart, Goto, Finish, Fail, SaveRow, SwitchInv,
       Switching, Enabling, WithStatus, files, InPlace
<1>5. ModeInv'
  BY DEF QuickFixInv, DisableStart, Goto, Finish, Fail, ModeInv, files
<1>6. RestoreInv'
  BY DEF QuickFixInv, DisableStart, Finish, Fail, RestoreInv, Deleting, files
<1>7. BootSettles' /\ DeployInv' /\ DeleteInv'
  BY DEF DisableStart, Goto, Finish, Fail, BootSettles, DeployInv, Deploying,
       Copying, DeleteInv, Deleting, files, ToTarget
<1> QED
  BY <1>1, <1>2, <1>3, <1>4, <1>5, <1>6, <1>7 DEF QuickFixInv

\* The row now names the patch in use as the one to delete.
LEMMA EnableSwitchPreserves ==
    ASSUME QuickFixCovered, QuickFixInv, EnableSwitch
    PROVE  QuickFixInv'
<1>1. TypeOK'
  <2>1. info.deployed \in Versions /\ 0 \in Versions /\ "SWITCH_END" \in Status
    BY VersionsNat DEF QuickFixInv, TypeOK, Status
  <2>2. Qf("SWITCH_END", info.deployed, 0) \in Fixes
    BY Zenon, <2>1, QfType
  <2>3. Qf("SWITCH_END", info.deployed, 0).status # "none"
    BY QfFields
  <2>4. row' \in {row, NoRow, Qf("SWITCH_END", info.deployed, 0)}
    BY Zenon DEF EnableSwitch, SaveRow, EraseRow, files
  <2>5. row' \in Fixes /\ (row'.status = "none" => row' = NoRow)
    BY Zenon, <2>2, <2>3, <2>4, NoRowType DEF QuickFixInv, TypeOK
  <2> QED
    BY Zenon, <2>5 DEF QuickFixInv, TypeOK, EnableSwitch, local, files
<1>2. PatchInUse'
  BY DEF QuickFixInv, EnableSwitch, PatchInUse, files, InPlace
<1>3. RowInv'
  BY QfFields, NoRowType DEF QuickFixInv, EnableSwitch, Goto, local, SaveRow,
       EraseRow, RowInv, Sound, Offering, files, InPlace
<1>4. SwitchInv'
  BY EnableSwitchSwitch
<1>5. ModeInv'
  BY Zenon DEF QuickFixInv, EnableSwitch, Goto, local, ModeInv, files
<1>6. RestoreInv'
  <2>1. SUFFICES ASSUME mode' = "restore" PROVE RestoreInv'
    BY Zenon DEF RestoreInv
  <2>2. mode = "restore" /\ pc = "eSwitch" /\ UNCHANGED <<invalid, cur>>
    BY Zenon, <2>1 DEF EnableSwitch, local, files
  <2>3. row.status = "SWITCH_ENABLE_START" /\ cur.deployed = row.deploying
    BY <2>2, QfFields DEF QuickFixInv, SwitchInv, Switching, Enabling,
         SwitchQuickFix, InPlace
  <2>4. row.deployed = 0 /\ row.deploying # 0
    BY <2>2, <2>3 DEF QuickFixInv, RowInv, Sound, Offering, InPlace
  <2>5. row.deploying \notin invalid
    BY Zenon, <2>2 DEF QuickFixInv, RestoreInv
  <2>6. pc' = "sInfo"
    BY Zenon, <2>2, <2>4 DEF EnableSwitch, Goto, Fails, QuickFixCovered, files
  <2> QED
    BY <2>2, <2>3, <2>4, <2>5, <2>6 DEF RestoreInv, Deleting
<1>7. BootSettles' /\ DeployInv' /\ DeleteInv'
  BY DEF EnableSwitch, Goto, BootSettles, DeployInv, Deploying, Copying,
       DeleteInv, Deleting, files, ToTarget
<1> QED
  BY <1>1, <1>2, <1>3, <1>4, <1>5, <1>6, <1>7 DEF QuickFixInv

\* The row now names both patches as the ones to delete.
LEMMA DisableSwitchPreserves ==
    ASSUME QuickFixCovered, QuickFixInv, DisableSwitch
    PROVE  QuickFixInv'
<1>1. TypeOK'
  BY DEF QuickFixInv, DisableSwitch, local, SaveRow, TypeOK, Fixes, Status, Qf,
       files
<1>2. PatchInUse'
  BY Zenon DEF QuickFixInv, DisableSwitch, PatchInUse, files, InPlace
<1>3. RowInv'
  BY QfFields DEF QuickFixInv, DisableSwitch, Goto, local, SaveRow, RowInv,
       Sound, Offering, files, InPlace
<1>4. SwitchInv'
  BY QfFields DEF QuickFixInv, DisableSwitch, Goto, local, SaveRow, SwitchInv,
       Switching, Enabling, SwitchQuickFix, files, InPlace
<1>5. ModeInv'
  BY DEF QuickFixInv, DisableSwitch, Goto, local, ModeInv, files
<1>6. RestoreInv'
  BY DEF QuickFixInv, DisableSwitch, local, RestoreInv, Deleting, files
<1>7. BootSettles' /\ DeployInv' /\ DeleteInv'
  BY DEF DisableSwitch, Goto, BootSettles, DeployInv, Deploying, Copying,
       DeleteInv, Deleting, files, ToTarget
<1> QED
  BY <1>1, <1>2, <1>3, <1>4, <1>5, <1>6, <1>7 DEF QuickFixInv

\* Under QuickFixCovered the bundle info takes the patch of the working copy.
LEMMA SwitchInfoFacts ==
    ASSUME QuickFixCovered, SwitchInfo
    PROVE  /\ pc = "sInfo" /\ UNCHANGED <<row, files>>
           /\ info'.deployed = cur.deployed
  BY DEF SwitchInfo, Fails, QuickFixCovered, files

\* The bundle info leaves the patch that the row names.
LEMMA SwitchInfoPreserves ==
    ASSUME QuickFixCovered, QuickFixInv, SwitchInfo
    PROVE  QuickFixInv'
<1>1. TypeOK'
  BY SwitchInfoType
<1>2. PatchInUse'
  BY SwitchInfoFacts DEF QuickFixInv, PatchInUse, SwitchInv, InPlace, files
<1>3. RowInv'
  BY SwitchInfoFacts DEF QuickFixInv, RowInv, Sound, Offering, SwitchInv,
       InPlace
<1>4. ModeInv'
  BY Zenon DEF QuickFixInv, SwitchInfo, Goto, Finish, local, ModeInv, files
<1>5. RestoreInv'
  <2>1. UNCHANGED <<mode, invalid>> /\ (mode = "restore" => pc' = "xStart")
    BY Zenon DEF SwitchInfo, Finish, Goto, Fails, QuickFixCovered, local, files
  <2> QED
    BY <2>1, SwitchInfoFacts DEF QuickFixInv, RestoreInv, Offering, SwitchInv,
         Deleting, InPlace
<1>6. BootSettles' /\ DeployInv' /\ SwitchInv' /\ DeleteInv'
  BY Zenon DEF SwitchInfo, Goto, Finish, BootSettles, DeployInv, Deploying,
       Copying, SwitchInv, Switching, Fails, QuickFixCovered, DeleteInv,
       Deleting, files, InPlace, ToTarget
<1> QED
  BY <1>1, <1>2, <1>3, <1>4, <1>5, <1>6 DEF QuickFixInv

\* A failed switch puts back the offer it found.
LEMMA SwitchUndoPreserves ==
    ASSUME QuickFixCovered, QuickFixInv, SwitchUndo
    PROVE  QuickFixInv'
<1>1. TypeOK'
  BY SMTT(30), FixFields, QfFields, QfType, NoRowType, VersionsNat DEF
       QuickFixInv, SwitchUndo, Finish, Fail, SaveRow, SaveFails, EraseRow,
       TypeOK, Status, WithStatus, SwitchQuickFix, files
<1>2. PatchInUse'
  BY DEF QuickFixInv, SwitchUndo, PatchInUse, files, InPlace
<1>3. RowInv'
  BY DEF QuickFixInv, SwitchUndo, Finish, Fail, SaveRow, SaveFails, EraseRow,
       RowInv, Sound, Offering, NoRow, Qf, WithStatus, SwitchQuickFix, Fails,
       QuickFixCovered, Switching, Enabling, SwitchInv, files, InPlace
<1>4. ModeInv'
  BY DEF QuickFixInv, SwitchUndo, Goto, Finish, Fail, ModeInv, files
<1>5. RestoreInv'
  BY DEF QuickFixInv, SwitchUndo, Finish, Fail, RestoreInv, Deleting, files
<1>6. BootSettles' /\ DeployInv' /\ SwitchInv' /\ DeleteInv'
  BY DEF SwitchUndo, Goto, Finish, Fail, BootSettles, DeployInv, Deploying,
       Copying, SwitchInv, Switching, DeleteInv, Deleting, files, InPlace,
       ToTarget
<1> QED
  BY <1>1, <1>2, <1>3, <1>4, <1>5, <1>6 DEF QuickFixInv

\* DeleteQuickFix announces the deletion; the row does not name the patch in use.
LEMMA DeleteStartPreserves ==
    ASSUME QuickFixCovered, QuickFixInv, DeleteStart
    PROVE  QuickFixInv'
<1>1. TypeOK'
  BY DeleteStartType
<1>2. PatchInUse'
  BY Zenon DEF QuickFixInv, DeleteStart, PatchInUse, files, InPlace
<1>3. RowInv'
  <2>1. UNCHANGED <<info, files, mode>> /\ pc = "xStart"
    BY Zenon DEF DeleteStart, Fail, Finish, files
  <2>2. CASE row' = WithStatus(row, "DELETE_START") /\ IsNextStatusExisted(row, "DELETE_START")
    <3>1. row'.deployed = row.deployed /\ row'.deploying = row.deploying /\ row'.status = "DELETE_START"
      BY <2>2, QfFields DEF WithStatus
    <3>2. row \in Fixes /\ info.deployed \in Nat
      BY FixFields, VersionsNat DEF QuickFixInv, TypeOK
    <3>3. row.status \in {"DEPLOY_START", "DEPLOY_END", "SWITCH_END", "DELETE_START"}
      BY <2>2, <3>2, FixFields DEF IsNextStatusExisted, statesMap_, Status
    <3>4. Sound(row)
      BY Zenon, <2>1 DEF QuickFixInv, RowInv
    <3>5. info.deployed = 0 \/ info.deployed \notin {row.deployed, row.deploying}
      BY <3>2, <3>3, <3>4, FixFields DEF Sound, Offering, InPlace
    <3> QED
      BY Zenon, <2>1, <3>1, <3>5 DEF RowInv, Sound, Offering, InPlace
  <2>3. CASE UNCHANGED row
    BY Zenon, <2>1, <2>3 DEF QuickFixInv, RowInv, Sound, InPlace, files
  <2> QED
    BY Zenon, <2>2, <2>3 DEF DeleteStart, SaveRow, files
<1>4. DeleteInv'
  BY QfFields DEF DeleteStart, Goto, Finish, Fail, SaveRow, DeleteInv, Deleting,
       WithStatus, files
<1>5. ModeInv'
  BY Zenon DEF QuickFixInv, DeleteStart, Goto, Finish, Fail, ModeInv, files
<1>6. RestoreInv'
  BY QfFields DEF QuickFixInv, DeleteStart, Goto, Finish, Fail, SaveRow,
       RestoreInv, Deleting, Offering, WithStatus, files
<1>7. BootSettles' /\ DeployInv' /\ SwitchInv'
  BY DEF DeleteStart, Goto, Finish, Fail, BootSettles, DeployInv, Deploying,
       Copying, SwitchInv, Switching, files, InPlace, ToTarget
<1> QED
  BY <1>1, <1>2, <1>3, <1>4, <1>5, <1>6, <1>7 DEF QuickFixInv

\* The directories deleted are those of the patches that the row names.
LEMMA DeleteDirsPreserves ==
    ASSUME QuickFixCovered, QuickFixInv, DeleteDirs
    PROVE  QuickFixInv'
<1>1. TypeOK'
  BY DEF QuickFixInv, DeleteDirs, local, TypeOK
<1>2. PatchInUse'
  <2>1. /\ UNCHANGED <<info, place>> /\ pc = "xDirs"
        /\ dirs \ OwnToDelete \subseteq dirs' /\ shared \ SharedToDelete \subseteq shared'
    BY DEF DeleteDirs
  <2> QED
    BY <2>1, DeleteKeeps DEF QuickFixInv, PatchInUse, InPlace
<1>3. RowInv'
  BY DEF QuickFixInv, DeleteDirs, RowInv, Sound, Offering, DeleteInv, Deleting,
       InPlace
<1>4. DeleteInv'
  BY Zenon DEF QuickFixInv, DeleteDirs, local, DeleteInv, Deleting
<1>5. ModeInv'
  BY Zenon DEF QuickFixInv, DeleteDirs, Goto, local, ModeInv
<1>6. RestoreInv'
  BY DEF QuickFixInv, DeleteDirs, Goto, local, RestoreInv, Deleting
<1>7. BootSettles' /\ DeployInv' /\ SwitchInv'
  BY DEF DeleteDirs, Goto, BootSettles, DeployInv, Deploying, Copying,
       SwitchInv, Switching, InPlace, ToTarget
<1> QED
  BY <1>1, <1>2, <1>3, <1>4, <1>5, <1>6, <1>7 DEF QuickFixInv

\* The bundle info forgets the offer.
LEMMA DeleteInfoPreserves ==
    ASSUME QuickFixCovered, QuickFixInv, DeleteInfo
    PROVE  QuickFixInv'
<1>1. TypeOK'
  BY DEF QuickFixInv, DeleteInfo, local, TypeOK, Versions, files
<1>2. PatchInUse'
  BY DEF QuickFixInv, DeleteInfo, PatchInUse, TypeOK, files, InPlace
<1>3. RowInv'
  <2>1. /\ UNCHANGED <<row, files, mode, saved>> /\ pc = "xInfo" /\ pc' # "sInfo"
        /\ info'.deployed = info.deployed
    BY DEF DeleteInfo, local, Goto, QuickFixInv, TypeOK, files
  <2>2. row.status = "DELETE_START"
    BY Zenon, <2>1 DEF QuickFixInv, DeleteInv, Deleting
  <2> QED
    BY Zenon, <2>1, <2>2 DEF QuickFixInv, RowInv, Sound, Offering, InPlace
<1>4. DeleteInv'
  BY DEF QuickFixInv, DeleteInfo, local, DeleteInv, Deleting, files
<1>5. ModeInv'
  BY DEF QuickFixInv, DeleteInfo, Goto, local, ModeInv, files
<1>6. RestoreInv'
  BY DEF QuickFixInv, DeleteInfo, Goto, local, RestoreInv, Deleting, TypeOK,
       files
<1>7. BootSettles' /\ DeployInv' /\ SwitchInv'
  BY DEF DeleteInfo, Goto, BootSettles, DeployInv, Deploying, Copying,
       SwitchInv, Switching, files, InPlace, ToTarget
<1> QED
  BY <1>1, <1>2, <1>3, <1>4, <1>5, <1>6, <1>7 DEF QuickFixInv

\* The row goes when everything it names is gone.
LEMMA DeleteRowPreserves ==
    ASSUME QuickFixCovered, QuickFixInv, DeleteRow
    PROVE  QuickFixInv'
<1>1. TypeOK'
  BY DeleteRowType
<1>2. PatchInUse'
  BY DEF QuickFixInv, DeleteRow, PatchInUse, files, InPlace
<1>3. RowInv'
  BY Zenon, NoRowType DEF QuickFixInv, DeleteRow, local, RowInv, Sound,
       Offering, files, InPlace
<1>4. DeleteInv'
  BY DEF QuickFixInv, DeleteRow, Goto, Finish, local, DeleteInv, Deleting, files
<1>5. ModeInv'
  BY Zenon DEF QuickFixInv, DeleteRow, Goto, Finish, local, ModeInv, files
<1>6. RestoreInv'
  BY NoRowType DEF QuickFixInv, DeleteRow, Goto, Finish, local, RestoreInv,
       Deleting, Offering, files
<1>7. BootSettles' /\ DeployInv' /\ SwitchInv'
  BY Zenon DEF DeleteRow, Goto, BootSettles, Finish, DeployInv, Deploying,
       Copying, SwitchInv, Switching, files, InPlace, ToTarget
<1> QED
  BY <1>1, <1>2, <1>3, <1>4, <1>5, <1>6, <1>7 DEF QuickFixInv

\* A failed deletion goes back to the status after the switch.
LEMMA DeleteUndoPreserves ==
    ASSUME QuickFixCovered, QuickFixInv, DeleteUndo
    PROVE  QuickFixInv'
<1>1. TypeOK'
  BY FixFields, QfFields, QfType, NoRowType, VersionsNat DEF QuickFixInv,
       DeleteUndo, Finish, Fail, SaveRow, SaveFails, TypeOK, Status, WithStatus,
       files
<1>2. PatchInUse'
  BY DEF QuickFixInv, DeleteUndo, PatchInUse, files, InPlace
<1>3. RowInv'
  BY QfFields DEF QuickFixInv, DeleteUndo, SaveRow, SaveFails, RowInv, Sound,
       Offering, WithStatus, DeleteInv, Deleting, files, InPlace
<1>4. ModeInv'
  BY Zenon DEF QuickFixInv, DeleteUndo, Goto, Finish, Fail, ModeInv, files
<1>5. RestoreInv'
  BY QfFields DEF QuickFixInv, DeleteUndo, Goto, Finish, Fail, SaveRow,
       SaveFails, RestoreInv, Offering, WithStatus, files
<1>6. BootSettles' /\ DeployInv' /\ SwitchInv' /\ DeleteInv'
  BY DEF DeleteUndo, Goto, Finish, Fail, BootSettles, DeployInv, Deploying,
       Copying, SwitchInv, Switching, DeleteInv, Deleting, files, InPlace,
       ToTarget
<1> QED
  BY <1>1, <1>2, <1>3, <1>4, <1>5, <1>6 DEF QuickFixInv

\* A crash may leave half done what a step does to the files, and that is never
\* done to the patch in use or to one that can be enabled.
LEMMA CrashKeeps ==
    ASSUME QuickFixCovered, QuickFixInv, Crash
    PROVE  /\ info.deployed # 0 => InPlace(info.deployed)'
           /\ row.status \in Offering \ {"DEPLOY_START"} =>
                row.deploying = 0 \/ InPlace(row.deploying)'
<1>1. /\ UNCHANGED <<row, info, place>> /\ pc # "sInfo"
      /\ dirs \ Touched \subseteq dirs' /\ shared \ SharedTouched \subseteq shared'
  BY DEF Crash, QuickFixCovered
<1>2. /\ info.deployed # 0 => InPlace(info.deployed)
      /\ row.status \in Offering \ {"DEPLOY_START"} =>
           row.deploying = 0 \/ InPlace(row.deploying)
  BY <1>1 DEF QuickFixInv, PatchInUse, RowInv, Sound
<1>3. CASE pc \in {"dCopy", "dUndo"}
  <2>1. Touched \subseteq {cur.deploying} /\ SharedTouched \subseteq {cur.deploying}
    BY <1>3 DEF Touched, SharedTouched, ToTarget, QuickFixInv, TypeOK, QuickFixCovered
  <2>2. info.deployed # cur.deploying /\ row.status = "DEPLOY_START"
    BY <1>3, DeployingNewer DEF QuickFixInv, DeployInv, Deploying, Copying
  <2>3. /\ dirs \ {cur.deploying} \subseteq dirs'
        /\ shared \ {cur.deploying} \subseteq shared'
    BY <1>1, <2>1
  <2>4. \A w : w # cur.deploying /\ InPlace(w) => InPlace(w)'
    BY Zenon, <1>1, <2>3, OthersInPlace
  <2> QED
    BY <1>1, <1>2, <2>2, <2>4
<1>4. CASE pc = "dRemove"
  <2>1. Touched = {saved.deploying} /\ SharedTouched = {}
    BY <1>4 DEF Touched, SharedTouched
  <2>2. /\ row.deploying # saved.deploying
        /\ info.deployed # 0 => info.deployed # saved.deploying
    <3>1. row = cur /\ cur.deploying # saved.deploying
      BY <1>4, DeployingNewer DEF QuickFixInv, DeployInv, Deploying
    <3>2. saved.status \in {"none", "DEPLOY_START", "DEPLOY_END"} /\ Sound(saved)
      BY <1>4 DEF QuickFixInv, DeployInv, Deploying
    <3>3. saved.status = "none" => saved.deploying = 0
      BY NoRowType DEF QuickFixInv, TypeOK
    <3>4. saved.deploying = 0 \/ saved.deploying > info.deployed
      BY <3>2, <3>3 DEF Sound, Offering
    <3>5. info.deployed \in Nat /\ saved.deploying \in Nat
      BY <1>4, DeployingNewer DEF Deploying
    <3> QED
      BY <3>1, <3>4, <3>5
  <2>3. /\ dirs \ {saved.deploying} \subseteq dirs'
        /\ shared \ {saved.deploying} \subseteq shared'
    BY <1>1, <2>1
  <2>4. \A w : w # saved.deploying /\ InPlace(w) => InPlace(w)'
    BY Zenon, <1>1, <2>3, OthersInPlace
  <2> QED
    BY <1>1, <1>2, <2>2, <2>4
<1>5. CASE pc = "xDirs"
  <2>1. Touched = OwnToDelete /\ SharedTouched = SharedToDelete
    BY <1>5 DEF Touched, SharedTouched
  <2>2. row.status \notin Offering
    BY <1>5 DEF QuickFixInv, DeleteInv, Deleting, Offering
  <2> QED
    BY <1>1, <1>2, <1>5, <2>1, <2>2, DeleteKeeps DEF InPlace
<1>6. CASE pc = "bClean"
  <2>1. Touched = invalid /\ SharedTouched = {}
    BY <1>6 DEF Touched, SharedTouched
  <2>2. info.deployed \notin invalid /\ row.status \notin Offering
    BY <1>6, NoRowType DEF QuickFixInv, BootSettles, ModeInv, RestoreInv, TypeOK, Modes,
         Offering
  <2> QED
    BY <1>1, <1>2, <2>1, <2>2 DEF InPlace
<1>7. CASE pc \notin {"dCopy", "dUndo", "dRemove", "xDirs", "bClean"}
  <2>1. Touched = {} /\ SharedTouched = {}
    BY <1>7 DEF Touched, SharedTouched
  <2> QED
    BY <1>1, <1>2, <2>1 DEF InPlace
<1> QED
  BY <1>3, <1>4, <1>5, <1>6, <1>7

\* A crash loses the request and at most the directories being touched.
LEMMA CrashPreserves ==
    ASSUME QuickFixCovered, QuickFixInv, Crash
    PROVE  QuickFixInv'
<1>1. TypeOK'
  BY Zenon DEF QuickFixInv, Crash, TypeOK, Versions, Fixes, Modes, NoRow, Qf
<1>2. PatchInUse'
  BY CrashKeeps DEF QuickFixInv, Crash, PatchInUse
<1>3. RowInv'
  <2>1. UNCHANGED <<row, info>> /\ pc' = "off" /\ pc # "sInfo"
    BY DEF Crash, Goto, QuickFixCovered
  <2>2. Sound(row)'
    BY <2>1, CrashKeeps DEF QuickFixInv, RowInv, Sound
  <2> QED
    BY <2>1, <2>2 DEF RowInv
<1>4. BootSettles' /\ DeployInv' /\ SwitchInv' /\ DeleteInv' /\ ModeInv' /\
     RestoreInv'
  BY DEF Crash, BootSettles, Goto, DeployInv, Deploying, Copying, SwitchInv,
       Switching, DeleteInv, Deleting, ModeInv, RestoreInv, InPlace, ToTarget
<1> QED
  BY Zenon, <1>1, <1>2, <1>3, <1>4 DEF QuickFixInv

\* The boot resumes from the status of the row.
LEMMA BootScanPreserves ==
    ASSUME QuickFixCovered, QuickFixInv, BootScan
    PROVE  QuickFixInv'
<1>1. TypeOK'
  BY DEF QuickFixInv, BootScan, TypeOK, Modes, files
<1>2. PatchInUse'
  BY DEF QuickFixInv, BootScan, PatchInUse, files, InPlace
<1>3. RowInv'
  BY Zenon DEF QuickFixInv, BootScan, RowInv, Sound, files, InPlace
<1>4. DeployInv'
  BY VersionsNat DEF QuickFixInv, BootScan, Goto, DeployInv, Sound, Deploying,
       Copying, TypeOK, Fixes, NoRow, Qf, RowInv, ModeInv, files, InPlace,
       ToTarget
<1>5. ModeInv'
  BY DEF QuickFixInv, BootScan, Goto, ModeInv, files
<1>6. BootSettles' /\ SwitchInv' /\ DeleteInv' /\ RestoreInv'
  BY DEF BootScan, Goto, BootSettles, SwitchInv, Switching, DeleteInv, Deleting,
       RestoreInv, files, InPlace
<1> QED
  BY <1>1, <1>2, <1>3, <1>4, <1>5, <1>6 DEF QuickFixInv

\* A boot that finds no row of the bundle leaves it alone.
LEMMA BootSkipPreserves ==
    ASSUME QuickFixCovered, QuickFixInv, BootSkip
    PROVE  QuickFixInv'
<1>1. TypeOK'
  BY DEF QuickFixInv, BootSkip, local, TypeOK, files
<1>2. PatchInUse'
  BY DEF QuickFixInv, BootSkip, PatchInUse, files, InPlace
<1>3. RowInv'
  BY NoRowType DEF BootSkip, RowInv, Sound, Offering, files, InPlace
<1>4. ModeInv'
  BY Zenon DEF QuickFixInv, BootSkip, Goto, local, ModeInv, files
<1>5. RestoreInv'
  BY DEF QuickFixInv, BootSkip, local, RestoreInv, Deleting, files
<1>6. BootSettles' /\ DeployInv' /\ SwitchInv' /\ DeleteInv'
  BY DEF BootSkip, BootSettles, Goto, DeployInv, Deploying, Copying, SwitchInv,
       Switching, DeleteInv, Deleting, files, InPlace, ToTarget
<1> QED
  BY <1>1, <1>2, <1>3, <1>4, <1>5, <1>6 DEF QuickFixInv

\* RestoreQuickFix lists as invalid only directories it is about to replace.
LEMMA BootRestorePreserves ==
    ASSUME QuickFixCovered, QuickFixInv, BootRestore
    PROVE  QuickFixInv'
<1>1. TypeOK'
  BY BootRestoreType
<1>2. PatchInUse'
  BY DEF QuickFixInv, BootRestore, PatchInUse, NoFix, files, InPlace
<1>3. RowInv'
  BY Zenon, NoRowType DEF BootRestore, RowInv, Sound, Offering, files, InPlace
<1>4. DeployInv'
  <2>1. /\ pc' \in {"dStart", "bClean"}
        /\ pc' = "dStart" => \E top \in dirs : cur' = Qf("none", 0, top)
    BY Zenon DEF BootRestore, Goto, files
  <2>2. 0 \notin dirs
    BY VersionsNat DEF QuickFixInv, TypeOK
  <2>3. pc' = "dStart" => cur'.deploying # 0
    BY <2>1, <2>2, QfFields
  <2> QED
    BY Zenon, <2>1, <2>3 DEF DeployInv, Deploying, Copying, ToTarget
<1>5. ModeInv'
  BY SMTT(30) DEF QuickFixInv, BootRestore, Goto, ModeInv, files
<1>6. RestoreInv'
  <2>1. PICK top \in dirs, S \in SUBSET dirs :
          /\ \A d \in dirs : d <= top
          /\ top \notin S
          /\ IF info.deployed < top
             THEN /\ pc' = "dStart" /\ cur' = Qf("none", 0, top)
                  /\ invalid' = S /\ UNCHANGED info
             ELSE /\ pc' = "bClean" /\ UNCHANGED cur
                  /\ IF info.deployed = top THEN invalid' = S /\ UNCHANGED info
                     ELSE /\ invalid' = S \cup {top}
                          /\ info' = NoFix \/ (Fails("info") /\ UNCHANGED info)
    BY Zenon DEF BootRestore, Goto, files
  <2>2. row' = NoRow
    BY Zenon DEF BootRestore, files
  <2>3. dirs \subseteq Nat /\ 0 \notin dirs /\ info.deployed \in Nat
    BY VersionsNat DEF QuickFixInv, TypeOK
  <2>4. CASE info.deployed < top
    <3>1. pc' = "dStart" /\ cur'.deploying = top /\ info' = info /\ invalid' = S
      BY <2>1, <2>4, QfFields
    <3> QED
      BY <2>1, <2>2, <2>3, <2>4, <3>1 DEF RestoreInv, Deleting
  <2>5. CASE ~(info.deployed < top)
    <3>1. pc' = "bClean" /\ row'.status \notin Offering
      BY <2>1, <2>2, <2>5, NoRowType DEF Offering
    <3>2. CASE info.deployed = top
      <4>1. invalid' = S /\ info' = info
        BY <2>1, <2>5, <3>2
      <4> QED
        BY Zenon, <2>1, <3>1, <3>2, <4>1 DEF RestoreInv, Deleting
    <3>3. CASE info.deployed # top
      <4>1. \A d \in dirs : d # info.deployed
        BY <2>1, <2>3, <2>5, <3>3
      <4>2. invalid' \subseteq dirs /\ info'.deployed \in {0, info.deployed}
        BY <2>1, <2>5, <3>3 DEF NoFix
      <4> QED
        BY Zenon, <2>3, <3>1, <4>1, <4>2 DEF RestoreInv, Deleting
    <3> QED
      BY <3>2, <3>3
  <2> QED
    BY <2>4, <2>5
<1>7. BootSettles' /\ SwitchInv' /\ DeleteInv'
  BY DEF BootRestore, BootSettles, Goto, SwitchInv, Switching, DeleteInv,
       Deleting, files, InPlace
<1> QED
  BY <1>1, <1>2, <1>3, <1>4, <1>5, <1>6, <1>7 DEF QuickFixInv

\* A scan that fails gives the row up.
LEMMA BootErasePreserves ==
    ASSUME QuickFixCovered, QuickFixInv, BootErase
    PROVE  QuickFixInv'
<1>1. TypeOK'
  BY NoRowType DEF QuickFixInv, BootErase, local, EraseRow, TypeOK, files
<1>2. PatchInUse'
  BY SMTT(30) DEF QuickFixInv, BootErase, PatchInUse, files, InPlace
<1>3. RowInv'
  BY NoRowType DEF QuickFixInv, BootErase, local, EraseRow, RowInv, Sound,
       Offering, files, InPlace
<1>4. ModeInv'
  BY DEF QuickFixInv, BootErase, Goto, local, ModeInv, files
<1>5. RestoreInv'
  BY DEF QuickFixInv, BootErase, local, RestoreInv, Deleting, files
<1>6. BootSettles' /\ DeployInv' /\ SwitchInv' /\ DeleteInv'
  BY DEF BootErase, EraseRow, BootSettles, Fails, QuickFixCovered, Goto,
       DeployInv, Deploying, Copying, SwitchInv, Switching, DeleteInv, Deleting,
       files, InPlace, ToTarget
<1> QED
  BY <1>1, <1>2, <1>3, <1>4, <1>5, <1>6 DEF QuickFixInv

\* The boot ends without a row that offers a patch, and removes what it listed.
LEMMA BootCleanPreserves ==
    ASSUME QuickFixCovered, QuickFixInv, BootClean
    PROVE  QuickFixInv'
<1>1. TypeOK'
  BY Zenon DEF QuickFixInv, BootClean, TypeOK, Modes
<1>2. PatchInUse'
  BY DEF QuickFixInv, BootClean, PatchInUse, RestoreInv, ModeInv, InPlace
<1>3. RowInv'
  BY BootCleanRow
<1>4. ModeInv'
  BY Zenon DEF QuickFixInv, BootClean, Goto, ModeInv
<1>5. BootSettles' /\ DeployInv' /\ SwitchInv' /\ DeleteInv' /\ RestoreInv'
  BY DEF BootClean, BootSettles, Goto, DeployInv, Deploying, Copying, SwitchInv,
       Switching, DeleteInv, Deleting, RestoreInv, InPlace, ToTarget
<1> QED
  BY Zenon, <1>1, <1>2, <1>3, <1>4, <1>5 DEF QuickFixInv

----------------------------------------------------------------------------
\* A bundle without a quick fix satisfies the invariant.
LEMMA InitInv == Init => QuickFixInv
<1> SUFFICES ASSUME Init PROVE QuickFixInv
  BY Zenon
<1>1. TypeOK
  <2>1. /\ place \in [Patches -> Places]
        /\ \A v \in Patches \ Targeted : place[v] = "own"
    BY DEF Init, Places
  <2> QED
    BY Zenon, <2>1, VersionsNat, NoRowType DEF Init, TypeOK, NoFix, Modes
<1>2. PatchInUse /\ BootSettles
  BY DEF Init, PatchInUse, BootSettles, NoFix, InPlace
<1>3. RowInv
  BY NoRowType DEF Init, RowInv, Sound, Offering, InPlace
<1>4. DeployInv /\ SwitchInv /\ DeleteInv /\ ModeInv /\ RestoreInv
  BY DEF Init, DeployInv, Deploying, Copying, SwitchInv, Switching, DeleteInv,
       Deleting, ModeInv, RestoreInv, InPlace, ToTarget
<1> QED
  BY <1>1, <1>2, <1>3, <1>4 DEF QuickFixInv

\* So does every step, whichever operation or boot takes it.
LEMMA NextPreserves ==
    ASSUME QuickFixCovered, QuickFixInv, [Next]_vars
    PROVE  QuickFixInv'
<1>1. CASE StartDeploy \/ StartSwitch \/ StartDelete
  BY <1>1, StartDeployPreserves, StartSwitchPreserves, StartDeletePreserves
<1>2. CASE \/ DeployStart \/ DeployCopy \/ DeployEnd \/ DeployInfo
           \/ DeployRemove \/ DeployUndo \/ DeployRestore
  BY <1>2, DeployStartPreserves, DeployCopyPreserves, DeployEndPreserves,
     DeployInfoPreserves, DeployRemovePreserves, DeployUndoPreserves,
     DeployRestorePreserves
<1>3. CASE \/ EnableStart \/ DisableStart \/ EnableSwitch \/ DisableSwitch
           \/ SwitchInfo \/ SwitchUndo
  BY <1>3, EnableStartPreserves, DisableStartPreserves, EnableSwitchPreserves,
     DisableSwitchPreserves, SwitchInfoPreserves, SwitchUndoPreserves
<1>4. CASE DeleteStart \/ DeleteDirs \/ DeleteInfo \/ DeleteRow \/ DeleteUndo
  BY <1>4, DeleteStartPreserves, DeleteDirsPreserves, DeleteInfoPreserves,
     DeleteRowPreserves, DeleteUndoPreserves
<1>5. CASE BootScan \/ BootSkip \/ BootRestore \/ BootErase \/ BootClean
  BY <1>5, BootScanPreserves, BootSkipPreserves, BootRestorePreserves,
     BootErasePreserves, BootCleanPreserves
<1>6. CASE Crash
  BY <1>6, CrashPreserves
<1>7. CASE UNCHANGED vars
  <2>1. TypeOK' /\ PatchInUse' /\ BootSettles'
    BY SMTT(30), <1>7 DEF QuickFixInv, vars, local, TypeOK, PatchInUse,
         BootSettles, files, InPlace
  <2>2. RowInv'
    BY Zenon, <1>7 DEF QuickFixInv, vars, local, RowInv, Sound, files, InPlace
  <2>5. DeployInv'
    BY Zenon, <1>7 DEF QuickFixInv, vars, local, DeployInv, Sound, files,
         InPlace, ToTarget
  <2>3. SwitchInv' /\ DeleteInv'
    BY Zenon, <1>7 DEF QuickFixInv, vars, local, SwitchInv, DeleteInv, Enabling,
         files, InPlace
  <2>4. ModeInv'
    BY Zenon, <1>7 DEF QuickFixInv, vars, local, ModeInv, files
  <2>6. RestoreInv'
    BY Zenon, <1>7 DEF QuickFixInv, vars, local, RestoreInv, files
  <2> QED
    BY Zenon, <2>1, <2>2, <2>3, <2>4, <2>5, <2>6 DEF QuickFixInv
<1> QED
  BY <1>1, <1>2, <1>3, <1>4, <1>5, <1>6, <1>7 DEF Next, Step

\* The inductive invariant holds in every reachable state.
THEOREM QuickFixInvariance ==
    ASSUME QuickFixCovered PROVE Spec => []QuickFixInv
<1>1. QuickFixInv /\ [Next]_vars => QuickFixInv'
  BY NextPreserves
<1> QED
  BY <1>1, InitInv, PTL DEF Spec

\* Every row that is saved has a saved status and the versions of real patches,
\* and what is on disk and on the list of invalid directories are patches.
THEOREM QuickFixTypeCorrect == ASSUME QuickFixCovered PROVE Spec => []TypeOK
  BY QuickFixInvariance, PTL DEF QuickFixInv

\* Nothing that removes a directory, in a request, an undo or a boot, removes
\* the files of the patch in use, in its own directory or under a target path.
THEOREM PatchKept == ASSUME QuickFixCovered PROVE Spec => []PatchInUse
  BY QuickFixInvariance, PTL DEF QuickFixInv

\* A boot scan ends with the row gone.
THEOREM BootSettled == ASSUME QuickFixCovered PROVE Spec => []BootSettles
  BY QuickFixInvariance, PTL DEF QuickFixInv

\* Between requests, a patch that can be enabled is complete and newer than
\* the patch in use.
THEOREM OfferKept == ASSUME QuickFixCovered PROVE Spec => []OfferedPatch
<1>1. QuickFixInv => OfferedPatch
  BY FixFields
  DEF QuickFixInv, TypeOK, RowInv, Sound, Offering, ModeInv, OfferedPatch,
       InPlace
<1> QED
  BY <1>1, QuickFixInvariance, PTL

\* No step replaces the patch in use by an older one.
THEOREM NoOlderPatch == ASSUME QuickFixCovered PROVE Spec => NeverOlder
<1> DEFINE Newer == info'.deployed = 0 \/ info'.deployed >= info.deployed
<1>1. QuickFixInv /\ [Next]_vars => [Newer]_vars
  <2> SUFFICES ASSUME QuickFixInv, Next PROVE Newer
    BY DEF vars, files
  <2>1. info.deployed \in Nat /\ cur.deployed \in Nat
    BY Zenon, FixFields, VersionsNat DEF QuickFixInv, TypeOK
  <2>2. CASE SwitchInfo
    BY <2>1, <2>2 DEF SwitchInfo, QuickFixInv, SwitchInv, files, InPlace
  <2>3. CASE BootRestore
    BY <2>1, <2>3 DEF BootRestore, NoFix, files
  <2>4. CASE DeployInfo \/ DeleteInfo
    BY <2>1, <2>4 DEF DeployInfo, DeleteInfo, QuickFixInv, TypeOK, files
  <2>5. CASE ~(SwitchInfo \/ BootRestore \/ DeployInfo \/ DeleteInfo)
    <3>1. UNCHANGED info
      BY Zenon, <2>5
      DEF Next, Step, StartDeploy, StartSwitch, StartDelete, DeployStart,
           DeployCopy, DeployEnd, DeployRemove, DeployUndo, DeployRestore,
           EnableStart, DisableStart, EnableSwitch, DisableSwitch, SwitchUndo,
           DeleteStart, DeleteDirs, DeleteRow, DeleteUndo, BootScan, BootSkip,
           BootErase, BootClean, Crash, files
    <3> QED
      BY SMTT(30), <2>1, <3>1
  <2> QED
    BY <2>2, <2>3, <2>4, <2>5
<1> QED
  BY <1>1, QuickFixInvariance, PTL DEF Spec, NeverOlder
=============================================================================
