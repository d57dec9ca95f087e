SPECIFICATION Spec
CONSTANTS
    Memory = {note}
    Content = {a}
    NoContent = nil
    ReviewKind = {"conflict", "manual"}
    LevelOne = {}
    MaxVersion = 3
CHECK_DEADLOCK FALSE
INVARIANTS
    OneEffectiveVersion
    RequestsStayDecidable
PROPERTIES
    ChangesAreAuthorized
    StorageAccepts
    ImplementsGovernance
