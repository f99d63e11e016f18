--------------------------- MODULE InstallStates ---------------------------
(***************************************************************************)
(* The installation state machine of BundleDataMgr: the table              *)
(* transferStates_ and the three effects UpdateBundleInstallState may      *)
(* have.  "absent" stands for a bundle with no entry in installStates_.    *)
(***************************************************************************)

InstallState ==
    {"INSTALL_START", "INSTALL_SUCCESS", "INSTALL_FAIL", "UNINSTALL_START",
     "UNINSTALL_SUCCESS", "UNINSTALL_FAIL", "UPDATING_START",
     "UPDATING_SUCCESS", "UPDATING_FAIL", "ROLL_BACK", "USER_CHANGE"}

\* transferStates_[s]: the states from which s may be entered.
transferStates_ ==
    [INSTALL_START     |-> {},
     INSTALL_SUCCESS   |-> {"INSTALL_START", "UPDATING_START",
                            "UPDATING_SUCCESS", "UNINSTALL_START",
                            "ROLL_BACK", "USER_CHANGE"},
     INSTALL_FAIL      |-> {"INSTALL_START"},
     UNINSTALL_START   |-> {"INSTALL_SUCCESS", "INSTALL_START",
                            "UPDATING_SUCCESS", "UNINSTALL_START",
                            "USER_CHANGE"},
     UNINSTALL_SUCCESS |-> {"UNINSTALL_START"},
     UNINSTALL_FAIL    |-> {"UNINSTALL_START"},
     UPDATING_START    |-> {"INSTALL_SUCCESS", "INSTALL_START",
                            "UPDATING_SUCCESS", "USER_CHANGE"},
     UPDATING_SUCCESS  |-> {"UPDATING_START", "USER_CHANGE"},
     UPDATING_FAIL     |-> {"UPDATING_START", "INSTALL_START",
                            "UPDATING_SUCCESS"},
     ROLL_BACK         |-> {"UPDATING_START", "UPDATING_SUCCESS"},
     USER_CHANGE       |-> {"INSTALL_SUCCESS", "UPDATING_SUCCESS",
                            "UPDATING_START"}]

IsDeleteDataState(s) ==
    s \in {"INSTALL_FAIL", "UNINSTALL_FAIL", "UNINSTALL_SUCCESS", "UPDATING_FAIL"}

\* Whether UpdateBundleInstallState(s) returns true when the entry holds cur.
Accepts(cur, s) ==
    IF cur = "absent" THEN s = "INSTALL_START" ELSE cur \in transferStates_[s]

\* The entry after UpdateBundleInstallState(s): a refused request leaves it.
StateAfter(cur, s) ==
    IF ~Accepts(cur, s) THEN cur
    ELSE IF IsDeleteDataState(s) THEN "absent" ELSE s
============================================================================
