\* One request at a time, two apps, crashes and mounts that fail at every step.
SPECIFICATION Spec
CONSTANTS
    demo = demo  sales = sales  r1 = r1  r2 = r2  open = open  t1 = t1  t2 = t2
    Nobody = Nobody
    Apps <- TwoApps
    Seeded <- OneApp
    Routes <- TwoRoutes
    Policies = {open}
    DefaultPolicy = open
    ManifestRoute <- OwnRoute
    MaxRev = 2
    BusyApps = {demo}
    Threads <- OneThread
    Ops <- SequentialOps
    MountMayFail = TRUE
    MayCrash = TRUE
INVARIANTS RevisionsAreNamed DesiredIsReleased RowFollowsGit DispatcherFollowsRow RoutesAreDistinct
PROPERTIES PromotionHasNoGap
