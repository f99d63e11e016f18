SPECIFICATION Spec
CONSTANTS
    Modules = {"a", "b"}
    Packages <- MCShrinking
    Downgrade = FALSE
    Faults = {"late", "dropped"}
INVARIANT ConsistentWhenIdle
