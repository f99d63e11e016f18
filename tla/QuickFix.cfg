SPECIFICATION Spec
CONSTANTS
    Patches = {1, 2, 3}
    Targeted = {2}
    Faults = {"check", "copy", "save", "remove"}
    RestoreFaults = FALSE
    Stable = {"sInfo"}
INVARIANTS
    TypeOK
    PatchInUse
    OfferedPatch
    BootSettles
    QuickFixInv
PROPERTY NeverOlder
