CONSTANTS
    i1 = i1
    i2 = i2
    t1 = t1
    t2 = t2
    t3 = t3
    t4 = t4
    up1 = up1
    up2 = up2
    del = del
    lim = lim
    nxt = nxt
    api1 = api1
    api2 = api2
    None = None
    Items = {i1, i2}
    Request <- MCRequest
    States = {"PendingUpload", "PendingDeletion"}
    Timers = {t1, t2, t3}
    MaxTime = 1
    Reqs = {up1, up2, del, nxt, api1}
    Cancellable = {up1, up2, nxt}
    StoreFails = FALSE
SPECIFICATION Spec
SYMMETRY Symmetry
CONSTRAINTS NotStale OneCast
INVARIANTS LockedItemIsHeldUnlessStale WaitingIsParkedOnce ScheduleHasTimer GetNextMissesNothing
CHECK_DEADLOCK FALSE
VIEW View
