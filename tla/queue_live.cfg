CONSTANTS
    i1 = i1
    i2 = i2
    t1 = t1
    t2 = t2
    t3 = t3
    t4 = t4
    up1 = up1
    up2 = up2
    del = del
    lim = lim
    nxt = nxt
    api1 = api1
    api2 = api2
    None = None
    Items = {i1, i2}
    Request <- MCRequest
    States = {"PendingUpload", "PendingDeletion"}
    Timers = {t1, t2}
    MaxTime = 1
    Reqs = {up1, api1}
    Cancellable = {}
    StoreFails = FALSE
SPECIFICATION FairSpec
CONSTRAINTS NotStale TimersSuffice
PROPERTIES GetByIdReturns ItemIsTaken
CHECK_DEADLOCK FALSE
