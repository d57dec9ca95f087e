SPECIFICATION FairSpec
CONSTANTS
    home = home
    other = other
    shared = shared
    local = local
    guest = guest
    taskTopic = taskTopic
    Memory = {shared}
    Thread = {local, guest}
    Project = {home, other}
    Subject = {output}
    Selector = {taskTopic}
    Covers <- MCSharedCovers
    MemoryProject <- MCSharedProject
    ThreadProject <- MCThreadProject
    Shareable = {shared}
    MaxVersion = 2
INVARIANTS
    RevokedLinksLeaveNothing
    CurrentDependenciesHold
    SubscribersKeepUp
PROPERTIES
    RowsAreRemembered
    OnlyEffectiveVersionsAreGiven
    SubscribersCatchUp
