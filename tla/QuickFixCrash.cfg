SPECIFICATION Spec
CONSTANTS
    Patches = {1, 2, 3}
    Targeted = {2}
    Faults = {}
    RestoreFaults = FALSE
    Stable = {}
INVARIANT PatchInUse
