SPECIFICATION InstallSpec
CONSTANTS
    Modules = {"a", "b"}
    Packages <- MCGrowing
    Downgrade = FALSE
    Faults = {"step", "late", "info", "erase", "native"}
    Requests = {"install", "update", "modules", "uninstall", "uninstallModule"}
    Stable <- MCNoCrash
INVARIANTS InstallTypeOK IdleAgrees StateSettles NoOrphanCode
