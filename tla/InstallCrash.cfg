SPECIFICATION FairInstallSpec
CONSTANTS
    Modules = {"a", "b"}
    Packages <- MCGrowing
    Downgrade = FALSE
    Faults = {"save", "drop", "step", "late", "info"}
    Requests = {"install", "update", "modules", "uninstall", "uninstallModule"}
    Stable = {"mRename", "uErase"}
INVARIANTS RowRecoverable IdleAgrees StateSettles
PROPERTY OldCodeReclaimed
