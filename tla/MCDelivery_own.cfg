SPECIFICATION DeliverySpec
CONSTANTS
    home = home
    mapped = mapped
    task = task
    projectMap = projectMap
    Memory = {mapped}
    Thread = {task}
    Project = {home}
    Subject = {}
    Selector = {projectMap}
    Covers <- MCCovers
    MemoryProject <- MCOneProject
    ThreadProject <- MCThreadProject
    Shareable = {}
    MaxVersion = 2
    Session = task
    MaxTurn = 2
    MaxReceipts = 2
INVARIANTS
    OutputIsUnacknowledged
    UsedWasAcknowledged
    WithdrawalsAreDelivered
