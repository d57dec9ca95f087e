SPECIFICATION SystemSpec
CONSTANTS
    home = home
    memo = memo
    local = local
    projectMap = projectMap
    Memory = {memo}
    Content = {a}
    NoContent = nil
    ReviewKind = {"manual"}
    LevelOne = {}
    MaxVersion = 2
    Thread = {local}
    Project = {home}
    Subject = {}
    Selector = {projectMap}
    Covers <- MCCovers
    MemoryProject <- MCMemoryProject
    ThreadProject <- MCLocalProject
    Shareable = {}
INVARIANTS
    GivenVersionsWereDecided
PROPERTIES
    ImplementsDistribution
