SPECIFICATION Spec
CONSTANTS
    Modules = {"a", "b"}
    Packages <- MCGrowing
    Downgrade = FALSE
    Faults = {"skills"}
INVARIANT FailedUpdateRestores
