SPECIFICATION InstallSpec
CONSTANTS
    Modules = {"a", "b"}
    Packages <- MCGrowing
    Downgrade = FALSE
    Faults = {}
    Requests = {"uninstall"}
    Stable = {}
INVARIANT IdleAgrees
