SPECIFICATION PublicationSpec
CONSTANTS
    Memory = {note}
    Content = {a, b}
    NoContent = nil
    ReviewKind = {"conflict", "manual"}
    LevelOne = {}
    MaxVersion = 2
    Run = {earlier, later}
    SessionOf <- MCOneSession
    Order <- MCOrder
    Publication = {p1, p2}
    RunOf <- MCRunOf
    Finding <- MCNotes
    Proposal = {fresh}
    Fresh = {fresh}
    Full = {}
    NoProposal = none
    OthersPublish <- MCAgents
    MaxPlan = 2
    MaxAcceptance = 1
    a = a
    b = b
    earlier = earlier
    later = later
    s1 = s1
    s2 = s2
    p1 = p1
    p2 = p2
CHECK_DEADLOCK FALSE
INVARIANTS
    LiveResultsAreAccountedFor
    EffectiveHistoryWasReviewed
    AuditFindsNothing
PROPERTIES
    NothingNewerIsOverwritten
    PublicationStorageAccepts
