SPECIFICATION Spec
CONSTANTS
    a = a
    t1 = t1
    t2 = t2
    Names = {a}
    Policies = {1, 3, 4}
    PolicySets <- SwitchSets
    Tasks = {t1, t2}
    Faults = {"param", "dirs", "late"}
SYMMETRY TaskSymmetry
INVARIANTS TypeOK ModeTracked NoAnomalousPair ClonesAreDiff VariantsRecorded RebootAgrees
PROPERTIES SwitchRestores VariantIsolated VisibleDataKept
CONSTRAINT FollowTorn
