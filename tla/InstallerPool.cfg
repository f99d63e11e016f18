SPECIFICATION Spec
CONSTANTS
    h1 = h1
    p1 = p1
    p2 = p2
    t1 = t1
    t2 = t2
    t3 = t3
    LastJob = 2
    Workers = 1
    MaxTask = 1
    Handlers <- HandlersDef
    Chargers <- ChargersDef
    Plain <- PlainDef
    Tasks <- TasksDef
    Mixes <- MixesDef
INVARIANTS
    OneAtATime
    PowerFollowsPlug
    StopReaches
PROPERTY EveryTaskSettles
