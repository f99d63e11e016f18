CONSTANTS
    r1 = r1
    r2 = r2
    r3 = r3
    r4 = r4
    Requests = {r1, r2, r3, r4}
    Kind <- MCKind
    Mixes <- MCMixes
    Faults = {"local", "connect", "die"}
    MaxFaults = 1
    MaxBeats = 1
SPECIFICATION Spec
INVARIANTS
    TypeOK
    AnsweredOnce
    UpgradeHidesFailure
    UnwatchedOnlyLoading
    NoLostWakeup
PROPERTIES
    EveryRequestAnswered
    ConnectionReleased
CHECK_DEADLOCK FALSE
