SPECIFICATION Spec
CONSTANTS
    old = old
    new = new
    twin = twin
    w1 = w1
    w2 = w2
    Run = {old, new, twin}
    Session = {w1, w2}
    Background = {w2}
    ObservedAt <- MCObserved
    ChunkCount <- MCOldIsLong
    MaxFindings = 0
    MaxOutputs = 0
    MaxInputs = 1
    MaxUnits = 2
    LeaseTime = 1
    MaxWait = 0
    MaxTime = 1
    MaxLease = 3
    MaxEpoch = 1
    MaxStage = 1
    MaxIndex = 1
CHECK_DEADLOCK FALSE
INVARIANTS
    BatchesAreChains
    OnlyNewestIsWorkedOn
PROPERTIES
    FinishedRunsStand
    BackfillStorageAccepts
