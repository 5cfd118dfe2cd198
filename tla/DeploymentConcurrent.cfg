\* Two request threads on one app, under the lock and beside it, mounts that fail, crashes.
SPECIFICATION Spec
CONSTANTS
    demo = demo  sales = sales  r1 = r1  r2 = r2  open = open  t1 = t1  t2 = t2
    Nobody = Nobody
    Apps <- OneApp
    Seeded <- OneApp
    Routes = {r1}
    Policies = {open}
    DefaultPolicy = open
    ManifestRoute <- OwnRoute
    MaxRev = 2
    BusyApps = {demo}
    Threads <- TwoThreads
    Ops <- ConcurrentOps
    MountMayFail = TRUE
    MayCrash = TRUE
INVARIANTS LockedOperationsExclude LocksAreInUse BuildNumberHonoured
PROPERTIES StartupConverges
