SPECIFICATION ProjectionSpec
CONSTANTS
    r1 = r1
    home = home
    note = note
    old = old
    new = new
    none = none
    Projector = {r1}
    Path = {home, note}
    Page = {old, new}
    UserText = usertext
    Absent = absent
    None = none
    Edit = {usertext, absent}
    MaxChange = 2
    MaxEdit = 2
    MaxCrash = 2
INVARIANTS
    GeneratedFilesAreAccountedFor
PROPERTIES
    UserTextSurvives
    VaultCatchesUp
