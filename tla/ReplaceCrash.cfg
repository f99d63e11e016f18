SPECIFICATION InstallSpec
CONSTANTS
    Modules = {"a", "b"}
    Packages <- MCGrowing
    Downgrade = FALSE
    Faults = {}
    Requests = {"modules"}
    Stable = {}
INVARIANT RowRecoverable
