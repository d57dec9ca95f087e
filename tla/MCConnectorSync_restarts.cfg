SPECIFICATION SyncSpec
CONSTANTS
    d1 = d1
    d2 = d2
    intro = intro
    body = body
    a = a
    b = b
    Document = {d1}
    Section = {intro, body}
    Text = {a, b}
    Syncer = {1}
    Mode = {"full", "incremental"}
    None = none
    PageSize = 1
    Retries = 1
    MaxEdit = 3
    MaxFault = 2
    MaxRestart = 2
INVARIANTS
    CursorTellsTheTruth
    ImportsCanBeRetired

    
