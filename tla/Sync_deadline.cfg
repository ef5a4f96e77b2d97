CONSTANTS
    c1 = c1
    c2 = c2
    k1 = k1
    k2 = k2
    f1 = f1
    a1 = a1
    Clients = {c1, c2}
    Counters = {}
    Fences = {}
    Alarms = {}
    OwnerOf <- MCOwnerOf
    ServerTime = ServerTime
    None = None
    Keep = Keep
    Half = 4
    Values = {}
    Amounts = {}
    Waits <- TimeWaits
    Changes = {}
    RefusedChanges = FALSE
    AskedWhenDue = TRUE
    MaxNow = 2
SPECIFICATION Spec
INVARIANT DeadlinesAreArmed
CHECK_DEADLOCK FALSE
