------------------------------ MODULE QuickFix ------------------------------
(***************************************************************************)
(* The quick fix (patch) of one installed bundle.  A patch is deployed into *)
(* its own directory patch_<version>, or under the directory patch if the  *)
(* caller names a target path; it is switched on or off, and the patch it  *)
(* displaces is deleted.  Progress is kept in the bundle's row of the      *)
(* quick_fix table, the patch in use in the bundle info; the two are       *)
(* written separately.  After a crash QuickFixBootScanner continues from   *)
(* the row.  Each request holds the bundle's mutex, so requests do not     *)
(* overlap.                                                                *)
(***************************************************************************)
EXTENDS Naturals

CONSTANTS
    Patches,   \* patch version codes
    Targeted,  \* those that are deployed with a targetPath
    Faults,    \* kinds of calls that may fail, a subset of FaultKinds
    RestoreFaults, \* whether they may fail in RestoreQuickFix as well
    Stable     \* labels at which the service does not crash

\* check, copy: the checks of a deployment, its copy of the patch files.
\* save, erase: the quick-fix row written, deleted.  info: the bundle info
\* saved.  remove: a directory removed.
FaultKinds == {"check", "copy", "save", "erase", "info", "remove"}

ASSUME QuickFixAssumption ==
    /\ Patches \subseteq Nat \ {0} /\ Targeted \subseteq Patches
    /\ Faults \subseteq FaultKinds /\ RestoreFaults \in BOOLEAN

VARIABLES
    row,      \* the bundle's row of the quick_fix table
    info,     \* the AppQuickFix in the bundle info, saved and in memory
    dirs,     \* the patches with a directory patch_<version>
    shared,   \* the patches with files under the directory patch
    place,    \* where the records of a patch say that its files are
    pc,
    cur,      \* innerAppQuickFix, the working copy of the row
    saved,    \* the row the request found
    mode,     \* "request", or which part of the boot runs: "scan", "restore"
    invalid   \* invalidQuickFixDir_

local == <<cur, saved, mode, invalid>>
files == <<dirs, shared, place>>
vars == <<row, info, files, pc, local>>

\* own: in patch_<version>.  target, prefixed: under patch, and the record's
\* nativeLibraryPath does not, or does, begin with that directory.
Places == {"own", "target", "prefixed"}

\* The statuses a row is saved with; DELETE_END is never saved.
Status == {"DEPLOY_START", "DEPLOY_END", "SWITCH_ENABLE_START",
           "SWITCH_DISABLE_START", "SWITCH_END", "DELETE_START"}
Qf(status, deployed, deploying) ==
    [status |-> status, deployed |-> deployed, deploying |-> deploying]
NoRow == Qf("none", 0, 0)
NoFix == [deployed |-> 0, deploying |-> 0]

\* statesMap_
statesMap_ ==
    [none                 |-> {},
     DEPLOY_START         |-> {"DEPLOY_END", "DELETE_START"},
     DEPLOY_END           |-> {"SWITCH_ENABLE_START", "SWITCH_DISABLE_START", "DELETE_START"},
     SWITCH_ENABLE_START  |-> {"SWITCH_END", "SWITCH_ENABLE_START", "DEPLOY_END"},
     SWITCH_DISABLE_START |-> {"SWITCH_END", "SWITCH_DISABLE_START", "DEPLOY_END"},
     SWITCH_END           |-> {"DELETE_START"},
     DELETE_START         |-> {"SWITCH_END", "DELETE_START", "DELETE_END"}]

IsNextStatusExisted(q, status) == status \in statesMap_[q.status]
WithStatus(q, status) == Qf(status, q.deployed, q.deploying)
SwitchQuickFix(q) == Qf(q.status, q.deploying, q.deployed)

Fails(call) == call \in Faults /\ (mode = "restore" => RestoreFaults)

SaveRow(q) == row' = q
SaveFails == Fails("save") /\ UNCHANGED row
EraseRow == row' = NoRow \/ (Fails("erase") /\ UNCHANGED row)

Goto(l) == pc' = l

\* The end of an operation: a request is over, the boot goes on to next.
Finish(next) ==
    /\ Goto(IF mode = "request" THEN "idle" ELSE next)
    /\ cur' = NoRow /\ saved' = NoRow
    /\ UNCHANGED mode /\ UNCHANGED invalid

\* A failing operation ends the boot's work on the bundle; a scan gives the
\* row up.
Fail == Finish(IF mode = "scan" THEN "bErase" ELSE "bClean")

Init ==
    /\ row = NoRow /\ info = NoFix
    /\ dirs = {} /\ shared = {} /\ place = [v \in Patches |-> "own"]
    /\ pc = "idle" /\ cur = NoRow /\ saved = NoRow
    /\ mode = "request" /\ invalid = {}

----------------------------------------------------------------------------
\* Mutants

DeployableAny(v) ==
    row # NoRow => /\ row.status \in {"DEPLOY_START", "DEPLOY_END"}
                   /\ v > row.deployed /\ v > row.deploying

\* The working copy keeps the new patch as the deploying one.
EnableStartUnswitched ==
    /\ pc = "eStart"
    /\ LET q == WithStatus(row, "SWITCH_ENABLE_START")
           allowed == IsNextStatusExisted(row, "SWITCH_ENABLE_START") IN
         \/ /\ allowed /\ SaveRow(q) /\ cur' = q
            /\ saved' = row /\ Goto("eSwitch") /\ UNCHANGED <<mode, invalid>>
         \/ /\ ~allowed \/ Fails("save")
            /\ Fail /\ UNCHANGED row
    /\ UNCHANGED <<info, files>>

\* The directory patch goes whatever nativeLibraryPath begins with.
SharedToDeleteAny == shared

\* The guard forgets to switch back.
SwitchUndoSwitched ==
    /\ pc = "sUndo" /\ Fail
    /\ IF cur.status = "SWITCH_DISABLE_START" /\ saved = NoRow THEN EraseRow
       ELSE SaveRow(WithStatus(cur, "DEPLOY_END")) \/ SaveFails
    /\ UNCHANGED <<info, files>>

\* The row is marked and not deleted.
DeleteRowMarked ==
    /\ pc = "xRow"
    /\ \/ row' = WithStatus(cur, "DELETE_END") /\ Finish("bClean")
       \/ Fails("erase") /\ Goto("xUndo") /\ UNCHANGED <<row, local>>
    /\ UNCHANGED <<info, files>>

\* The row of a state that could not be processed stays.
BootEraseNot ==
    /\ pc = "bErase" /\ Goto("bClean")
    /\ UNCHANGED <<row, info, files, local>>

----------------------------------------------------------------------------
\* QuickFixDeployer

StartDeploy ==
    /\ pc = "idle" /\ Goto("dStart")
    /\ \E v \in Patches : cur' = Qf("none", 0, v)
    /\ UNCHANGED <<row, info, files, saved, mode, invalid>>

\* CheckPatchVersionCode against the row, CheckCommonWithInstalledBundle
\* against the bundle.
Deployable(v) ==
    /\ row # NoRow => /\ row.status \in {"DEPLOY_START", "DEPLOY_END"}
                      /\ v > row.deployed /\ v > row.deploying
    /\ v > info.deployed

\* ToDeployStartStatus.  The record names no directory under patch yet.
DeployStart ==
    /\ pc = "dStart"
    /\ \/ /\ Deployable(cur.deploying) /\ Goto("dCopy")
          /\ cur' = Qf("DEPLOY_START", row.deployed, cur.deploying)
          /\ saved' = row /\ SaveRow(cur')
          /\ place' = [place EXCEPT ![cur.deploying] = "own"]
          /\ UNCHANGED <<mode, invalid>>
       \/ /\ ~Deployable(cur.deploying) \/ Fails("check") \/ Fails("save")
          /\ Fail /\ UNCHANGED <<row, place>>
    /\ UNCHANGED <<info, dirs, shared>>

\* Only a request has a targetPath_; the boot deploys without one.
ToTarget == mode = "request" /\ cur.deploying \in Targeted

\* CreateBundleDir empties the directory, and with it what any patch of the
\* same target path has there; MoveHqfFiles fills it.
PutFiles(put) ==
    IF ToTarget
    THEN /\ \E S \in SUBSET shared : shared' = (shared \ S) \cup put
         /\ UNCHANGED dirs
    ELSE dirs' = (dirs \ {cur.deploying}) \cup put /\ UNCHANGED shared

DeployCopy ==
    /\ pc = "dCopy"
    /\ \/ PutFiles({cur.deploying}) /\ Goto("dEnd")
       \/ /\ Fails("copy") /\ Goto("dUndo")
          /\ PutFiles({}) \/ PutFiles({cur.deploying})
    /\ UNCHANGED <<row, info, place, local>>

\* ProcessNativeLibraryPath: with a target path, nativeLibraryPath begins with
\* patch, unless it is kept in the replace mode or its directory not checked.
DeployEnd ==
    /\ pc = "dEnd"
    /\ \/ /\ cur' = WithStatus(cur, "DEPLOY_END") /\ SaveRow(cur')
          /\ \E p \in IF ToTarget THEN {"target", "prefixed"} ELSE {"own"} :
               place' = [place EXCEPT ![cur.deploying] = p]
          /\ Goto("dInfo")
       \/ SaveFails /\ Goto("dUndo") /\ UNCHANGED <<cur, place>>
    /\ UNCHANGED <<info, dirs, shared, saved, mode, invalid>>

\* SaveToInnerBundleInfo; the directory patch_<version> of a patch that was
\* deployed and never enabled goes next.
DeployInfo ==
    /\ pc = "dInfo"
    /\ \/ /\ info' = [info EXCEPT !.deploying = cur.deploying]
          /\ IF saved = NoRow THEN Finish("eStart")
             ELSE Goto("dRemove") /\ UNCHANGED local
       \/ /\ Fails("info") /\ Goto("dUndo")
          /\ UNCHANGED <<info, local>>
    /\ UNCHANGED <<row, files>>

DeployRemove ==
    /\ pc = "dRemove" /\ Finish("eStart")
    /\ dirs' = dirs \ {saved.deploying} \/ (Fails("remove") /\ UNCHANGED dirs)
    /\ UNCHANGED <<row, info, shared, place>>

\* guardRemovePatchPath.  The boot calls ToDeployEndStatus alone, so it does
\* not put a row back.
DeployUndo ==
    /\ pc = "dUndo"
    /\ \/ ToTarget /\ shared' = shared \ {cur.deploying} /\ UNCHANGED dirs
       \/ ~ToTarget /\ dirs' = dirs \ {cur.deploying} /\ UNCHANGED shared
       \/ Fails("remove") /\ UNCHANGED <<dirs, shared>>
    /\ IF mode = "scan" THEN Fail ELSE Goto("dRow") /\ UNCHANGED local
    /\ UNCHANGED <<row, info, place>>

DeployRestore ==
    /\ pc = "dRow" /\ Fail
    /\ IF saved = NoRow THEN EraseRow ELSE SaveRow(saved) \/ SaveFails
    /\ UNCHANGED <<info, files>>

----------------------------------------------------------------------------
\* QuickFixSwitcher

StartSwitch ==
    /\ pc = "idle" /\ (Goto("eStart") \/ Goto("sStart"))
    /\ UNCHANGED <<row, info, files, local>>

EnableStart ==
    /\ pc = "eStart"
    /\ LET q == WithStatus(row, "SWITCH_ENABLE_START")
           allowed == IsNextStatusExisted(row, "SWITCH_ENABLE_START") IN
         \/ /\ allowed /\ SaveRow(q) /\ cur' = SwitchQuickFix(q)
            /\ saved' = row /\ Goto("eSwitch") /\ UNCHANGED <<mode, invalid>>
         \/ /\ ~allowed \/ Fails("save")
            /\ Fail /\ UNCHANGED row
    /\ UNCHANGED <<info, files>>

\* Without a row, a temporary one marks that the patch is being disabled.
DisableStart ==
    /\ pc = "sStart"
    /\ LET found == IF row = NoRow THEN Qf("DEPLOY_END", 0, 0) ELSE row
           q == WithStatus(found, "SWITCH_DISABLE_START")
           allowed == IsNextStatusExisted(found, "SWITCH_DISABLE_START") IN
         \/ /\ allowed /\ SaveRow(q) /\ cur' = q
            /\ saved' = row /\ Goto("sSwitch") /\ UNCHANGED <<mode, invalid>>
         \/ /\ ~allowed \/ Fails("save")
            /\ Fail /\ UNCHANGED row
    /\ UNCHANGED <<info, files>>

\* InnerSwitchQuickFix, up to the row: it now names the patch to be deleted.
\* Without one the row goes, and whether it went is not looked at.
EnableSwitch ==
    /\ pc = "eSwitch"
    /\ \/ /\ row.deployed = 0 /\ Goto("sInfo")
          /\ IF info.deployed = 0 THEN EraseRow
             ELSE SaveRow(Qf("SWITCH_END", info.deployed, 0))
       \/ /\ row.deployed # 0 \/ (info.deployed # 0 /\ Fails("save"))
          /\ Goto("sUndo") /\ UNCHANGED row
    /\ UNCHANGED <<info, files, local>>

DisableSwitch ==
    /\ pc = "sSwitch"
    /\ \/ /\ info.deployed # 0 /\ row.deployed = 0 /\ Goto("sInfo")
          /\ SaveRow(Qf("SWITCH_END", info.deployed, row.deploying))
       \/ /\ info.deployed = 0 \/ row.deployed # 0 \/ Fails("save")
          /\ Goto("sUndo") /\ UNCHANGED row
    /\ UNCHANGED <<info, files, local>>

Enabling == cur.status = "SWITCH_ENABLE_START"

SwitchInfo ==
    /\ pc = "sInfo"
    /\ \/ /\ info' = [deployed |-> cur.deployed,
                      deploying |-> IF Enabling THEN 0 ELSE info.deploying]
          /\ Finish("xStart")
       \/ Fails("info") /\ Goto("sUndo") /\ UNCHANGED <<info, local>>
    /\ UNCHANGED <<row, files>>

\* stateGuard
SwitchUndo ==
    /\ pc = "sUndo" /\ Fail
    /\ IF ~Enabling /\ saved = NoRow THEN EraseRow
       ELSE \/ SaveRow(WithStatus(IF Enabling THEN SwitchQuickFix(cur) ELSE cur,
                                  "DEPLOY_END"))
            \/ SaveFails
    /\ UNCHANGED <<info, files>>

----------------------------------------------------------------------------
\* QuickFixDeleter

StartDelete ==
    /\ pc = "idle" /\ Goto("xStart")
    /\ UNCHANGED <<row, info, files, local>>

DeleteStart ==
    /\ pc = "xStart"
    /\ LET q == WithStatus(row, "DELETE_START")
           allowed == IsNextStatusExisted(row, "DELETE_START") IN
         \/ /\ allowed /\ SaveRow(q) /\ cur' = q
            /\ Goto("xDirs") /\ UNCHANGED <<saved, mode, invalid>>
         \/ /\ ~allowed \/ Fails("save")
            /\ IF row = NoRow THEN Finish("bClean") ELSE Fail
            /\ UNCHANGED row
    /\ UNCHANGED <<info, files>>

\* ToDeletePatchDir: the deployed patch, then the deploying one.  Of a patch
\* whose nativeLibraryPath begins with patch, InnerDeletePatchDir removes that
\* whole directory, of any other patch_<version>.
ToDelete == {cur.deployed, cur.deploying} \cap Patches
OwnToDelete == {v \in ToDelete : place[v] # "prefixed"}
SharedToDelete == IF OwnToDelete = ToDelete THEN {} ELSE shared

DeleteDirs ==
    /\ pc = "xDirs"
    /\ \/ /\ dirs' = dirs \ OwnToDelete /\ shared' = shared \ SharedToDelete
          /\ Goto("xInfo")
       \/ /\ Fails("remove") /\ Goto("xUndo")
          /\ \E S \in SUBSET OwnToDelete : dirs' = dirs \ S
          /\ \E S \in SUBSET SharedToDelete : shared' = shared \ S
    /\ UNCHANGED <<row, info, place, local>>

\* RemoveDeployingInfo
DeleteInfo ==
    /\ pc = "xInfo"
    /\ \/ info' = [info EXCEPT !.deploying = 0] /\ Goto("xRow")
       \/ /\ info.deploying # 0 /\ Fails("info")
          /\ Goto("xUndo") /\ UNCHANGED info
    /\ UNCHANGED <<row, files, local>>

DeleteRow ==
    /\ pc = "xRow"
    /\ \/ row' = NoRow /\ Finish("bClean")
       \/ Fails("erase") /\ Goto("xUndo") /\ UNCHANGED <<row, local>>
    /\ UNCHANGED <<info, files>>

DeleteUndo ==
    /\ pc = "xUndo" /\ Fail
    /\ SaveRow(WithStatus(cur, "SWITCH_END")) \/ SaveFails
    /\ UNCHANGED <<info, files>>

----------------------------------------------------------------------------
\* The directories the current step is replacing or deleting.
Touched ==
    CASE pc \in {"dCopy", "dUndo"} /\ ~ToTarget -> {cur.deploying}
      [] pc = "dRemove" -> {saved.deploying}
      [] pc = "xDirs" -> OwnToDelete
      [] pc = "bClean" -> invalid
      [] OTHER -> {}

SharedTouched ==
    CASE pc = "dCopy" /\ ToTarget -> shared
      [] pc = "dUndo" /\ ToTarget -> {cur.deploying}
      [] pc = "xDirs" -> SharedToDelete
      [] OTHER -> {}

Crash ==
    /\ pc \notin {"off"} \cup Stable /\ Goto("off")
    /\ \E S \in SUBSET Touched : dirs' = dirs \ S
    /\ \E S \in SUBSET SharedTouched : shared' = shared \ S
    /\ cur' = NoRow /\ saved' = NoRow
    /\ mode' = "request" /\ invalid' = {}
    /\ UNCHANGED <<row, info, place>>

\* ProcessQuickFixBootUp, when the table has this bundle's row.
BootScan ==
    /\ pc = "off" /\ row # NoRow /\ mode' = "scan"
    /\ CASE row.status = "DEPLOY_START" ->
              Goto("dCopy") /\ cur' = row
         [] row.status \in {"DEPLOY_END", "SWITCH_ENABLE_START"} ->
              Goto("eStart") /\ UNCHANGED cur
         [] row.status = "SWITCH_DISABLE_START" ->
              Goto("sStart") /\ UNCHANGED cur
         [] OTHER -> Goto("xStart") /\ UNCHANGED cur
    /\ UNCHANGED <<row, info, files, saved, invalid>>

\* When it has only rows of other bundles.
BootSkip ==
    /\ pc = "off" /\ row = NoRow /\ Goto("idle")
    /\ UNCHANGED <<row, info, files, local>>

\* RestoreQuickFix, when the table is empty.  It sees the directories
\* patch_<version> only; one is superseded only if it is listed before a later
\* version's.
BootRestore ==
    /\ pc = "off" /\ row = NoRow /\ dirs # {} /\ mode' = "restore"
    /\ \E top \in dirs, S \in SUBSET dirs :
         /\ \A d \in dirs : d <= top
         /\ top \notin S
         /\ IF info.deployed < top
            THEN /\ Goto("dStart") /\ cur' = Qf("none", 0, top)
                 /\ invalid' = S /\ UNCHANGED info
            ELSE /\ Goto("bClean") /\ UNCHANGED cur
                 /\ IF info.deployed = top THEN invalid' = S /\ UNCHANGED info
                    ELSE /\ invalid' = S \cup {top}
                         /\ info' = NoFix \/ (Fails("info") /\ UNCHANGED info)
    /\ UNCHANGED <<row, files, saved>>

BootErase ==
    /\ pc = "bErase" /\ Goto("bClean") /\ EraseRow
    /\ UNCHANGED <<info, files, local>>

\* RemoveInvalidDir
BootClean ==
    /\ pc = "bClean" /\ Goto("idle")
    /\ dirs' = dirs \ invalid \/ (Fails("remove") /\ UNCHANGED dirs)
    /\ invalid' = {} /\ mode' = "request"
    /\ UNCHANGED <<row, info, shared, place, cur, saved>>

Step ==
    \/ DeployStart \/ DeployCopy \/ DeployEnd \/ DeployInfo \/ DeployRemove
    \/ DeployUndo \/ DeployRestore
    \/ EnableStart \/ DisableStart \/ EnableSwitch \/ DisableSwitch
    \/ SwitchInfo \/ SwitchUndo
    \/ DeleteStart \/ DeleteDirs \/ DeleteInfo \/ DeleteRow \/ DeleteUndo
    \/ BootScan \/ BootSkip \/ BootRestore \/ BootErase \/ BootClean

Next == StartDeploy \/ StartSwitch \/ StartDelete \/ Step \/ Crash

Spec == Init /\ [][Next]_vars

----------------------------------------------------------------------------
Versions == Patches \cup {0}
Fixes == [status : Status \cup {"none"}, deployed : Versions, deploying : Versions]
Modes == {"request", "scan", "restore"}

\* Every row the code saves has a saved status and versions of real patches.
TypeOK ==
    /\ row \in Fixes /\ saved \in Fixes /\ cur \in Fixes
    /\ row.status = "none" => row = NoRow
    /\ saved.status = "none" => saved = NoRow
    /\ info \in [deployed : Versions, deploying : Versions]
    /\ dirs \subseteq Patches /\ shared \subseteq Targeted /\ invalid \subseteq Patches
    /\ place \in [Patches -> Places]
    /\ \A v \in Patches \ Targeted : place[v] = "own"
    /\ mode \in Modes

\* A patch's files are where its record says.
InPlace(v) == IF place[v] = "own" THEN v \in dirs ELSE v \in shared

\* The patch that the bundle uses always has its files where its record says:
\* whatever a deployment's copy and undo, the deleter or RemoveInvalidDir
\* removes, at whatever point the service crashes, it is never the deployed
\* patch of the bundle info.
PatchInUse == info.deployed # 0 => InPlace(info.deployed)

\* Whenever no request runs, a patch that EnableQuickFix would switch to has
\* its files, and it is newer than the patch in use.
OfferedPatch ==
    pc = "idle" /\ row.status \in {"DEPLOY_END", "SWITCH_ENABLE_START"} =>
        row.deploying > info.deployed /\ InPlace(row.deploying)

\* ProcessQuickFixBootUp leaves nothing half done: whichever status the crash
\* left, and whichever step fails, the row is gone when the scan is over.
BootSettles == pc = "bClean" /\ mode = "scan" => row = NoRow

\* The patch in use is replaced only by a newer one, or switched off; neither
\* the boot nor a failed request brings an older one back.
NeverOlder ==
    [][info'.deployed = 0 \/ info'.deployed >= info.deployed]_vars

----------------------------------------------------------------------------
\* What makes PatchInUse, OfferedPatch and BootSettles inductive.

Offering == {"DEPLOY_START", "DEPLOY_END", "SWITCH_ENABLE_START", "SWITCH_DISABLE_START"}

\* A row up to the switch offers a patch newer than the one in use, or none;
\* a row after the switch never names the patch in use.
Sound(q) ==
    /\ q.status \in Offering =>
         q.deployed = 0 /\ (q.deploying = 0 \/ q.deploying > info.deployed)
    /\ q.status \in Offering \ {"DEPLOY_START"} => q.deploying = 0 \/ InPlace(q.deploying)
    /\ q.status = "DEPLOY_START" => q.deploying # 0
    /\ q.status \in {"SWITCH_END", "DELETE_START"} =>
         info.deployed = 0 \/ info.deployed \notin {q.deployed, q.deploying}

\* Only a row written to disable a patch offers none, and no request finds it.
RowInv ==
    /\ pc # "sInfo" => Sound(row)
    /\ row.status \in Offering /\ row.deploying = 0 =>
         \/ mode = "scan" \/ pc = "off"
         \/ /\ pc \in {"sSwitch", "sUndo"} /\ saved = NoRow
            /\ row.status = "SWITCH_DISABLE_START"

Copying == {"dCopy", "dEnd", "dUndo", "dRow"}
Deploying == Copying \cup {"dInfo", "dRemove"}

DeployInv ==
    /\ pc = "dStart" => cur.deploying # 0
    /\ pc \in Deploying =>
         /\ row = cur /\ cur.deploying > saved.deploying
         /\ pc = "dEnd" => cur.deploying \in IF ToTarget THEN shared ELSE dirs
         /\ row.status = IF pc \in Copying THEN "DEPLOY_START" ELSE "DEPLOY_END"
         /\ saved.status \in {"none", "DEPLOY_START", "DEPLOY_END"} /\ Sound(saved)
         /\ saved # NoRow => saved.deploying # 0

Switching == {"eSwitch", "sSwitch", "sUndo"}

SwitchInv ==
    /\ pc \in Switching =>
         /\ \/ row.status = "SWITCH_ENABLE_START" /\ cur = SwitchQuickFix(row)
            \/ row.status = "SWITCH_DISABLE_START" /\ cur = row
         /\ pc = "eSwitch" => Enabling
         /\ pc = "sSwitch" => ~Enabling
    /\ pc = "sInfo" =>
         /\ row.status \in {"none", "SWITCH_END"}
         /\ cur.deployed # 0 => /\ InPlace(cur.deployed) /\ cur.deployed > info.deployed
                               /\ cur.deployed \notin {row.deployed, row.deploying}

Deleting == {"xDirs", "xInfo", "xRow", "xUndo"}

DeleteInv == pc \in Deleting => row = cur /\ row.status = "DELETE_START"

ModeInv ==
    /\ pc \in {"idle", "off"} => mode = "request"
    /\ pc \in {"bErase", "bClean"} => mode # "request"
    /\ pc \in {"idle", "off", "bErase", "bClean"} => saved = NoRow
    /\ pc = "dStart" => mode # "scan"
    /\ mode # "restore" => invalid = {}

\* RestoreQuickFix replaces the patch in use before it removes its directory.
RestoreInv ==
    mode = "restore" =>
        /\ pc \in {"dStart", "dCopy", "dEnd", "dInfo", "eStart", "eSwitch", "sInfo",
                   "xStart", "bClean"} \cup Deleting
        /\ pc = "dStart" => row = NoRow /\ cur.deploying > info.deployed
        /\ pc = "eStart" => row.status = "DEPLOY_END"
        /\ pc \in {"dStart", "dCopy", "dEnd", "dInfo"} => cur.deploying \notin invalid
        /\ pc \in {"dCopy", "dEnd", "dInfo"} => saved = NoRow
        /\ pc \in {"eStart", "eSwitch"} => row.deploying \notin invalid
        /\ pc = "sInfo" => cur.deployed # 0 /\ cur.deployed \notin invalid
        /\ pc \in {"xStart", "bClean"} \cup Deleting =>
             info.deployed \notin invalid /\ row.status \notin Offering

\* The inductive invariant: what the row promises, and what each step of a
\* request or of the boot may rely on.
QuickFixInv ==
    /\ TypeOK /\ PatchInUse /\ BootSettles
    /\ RowInv /\ DeployInv /\ SwitchInv /\ DeleteInv /\ ModeInv /\ RestoreInv
=============================================================================
