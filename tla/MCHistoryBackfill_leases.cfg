SPECIFICATION Spec
CONSTANTS
    old = old
    new = new
    twin = twin
    w1 = w1
    w2 = w2
    Run = {old}
    Session = {w1, w2}
    Background = {}
    ObservedAt <- MCObserved
    ChunkCount <- MCOneEach
    MaxFindings = 2
    MaxOutputs = 1
    MaxInputs = 1
    MaxUnits = 2
    LeaseTime = 1
    MaxWait = 1
    MaxTime = 1
    MaxLease = 4
    MaxEpoch = 1
    MaxStage = 2
    MaxIndex = 1
CHECK_DEADLOCK FALSE
SYMMETRY SessionSymmetry
INVARIANTS
    ClaimsMatchLeases
    NothingIsStranded
    RoundsCoverTheirInputs
PROPERTIES
    ImplementsWorkQueue
