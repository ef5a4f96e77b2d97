CONSTANTS
    c1 = c1
    c2 = c2
    k1 = k1
    k2 = k2
    f1 = f1
    a1 = a1
    Clients = {c1, c2}
    Counters = {k1, k2}
    Fences = {f1}
    Alarms = {a1}
    OwnerOf <- MCOwnerOf
    ServerTime = ServerTime
    None = None
    Keep = Keep
    Half = 3
    Values = {1}
    Amounts <- MCAmounts
    Waits <- AnyWaits
    Changes <- AnyChanges
    RefusedChanges = FALSE
    AskedWhenDue = FALSE
    MaxNow = 1
SPECIFICATION FairSpec
INVARIANTS TypeOK ListsAreExact WalkIsInList WaitsAreHeld NothingTrueWaits AlarmUpdatesEnd
CHECK_DEADLOCK FALSE
PROPERTY TimeComes
