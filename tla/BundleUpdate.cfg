SPECIFICATION Spec
CONSTANTS
    Modules = {"a", "b", "c"}
    Packages <- MCVersions
    Downgrade = TRUE
    Faults = {"save", "drop", "rename", "remove", "step", "late", "info"}
INVARIANTS TypeOK Recoverable ConsistentWhenIdle FailedUpdateRestores IInv
PROPERTY ImplementsStore
