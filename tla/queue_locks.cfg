CONSTANTS
    i1 = i1
    i2 = i2
    t1 = t1
    t2 = t2
    t3 = t3
    t4 = t4
    up1 = up1
    up2 = up2
    del = del
    lim = lim
    nxt = nxt
    api1 = api1
    api2 = api2
    None = None
    Items = {i1}
    Request <- MCRequest
    States = {"PendingUpload", "PendingDeletion"}
    Timers = {t1, t2}
    MaxTime = 1
    Reqs = {up1, lim, nxt, api1, api2}
    Cancellable = {up1, nxt}
    StoreFails = TRUE
SPECIFICATION Spec
SYMMETRY Symmetry
INVARIANTS TypeOK HoldersAreExclusive
PROPERTY ImplementsLockedStore
CHECK_DEADLOCK FALSE
VIEW View
