SPECIFICATION FairSpec
CONSTANTS
    t1 = t1
    t2 = t2
    a1 = a1
    a2 = a2
    c1 = c1
    c2 = c2
    Tabs <- TwoTabs
    Apps <- OneApp
    Calls <- OneCall
    MaxSessions = 1
    MaxLoads = 1
    MayRestart = TRUE
    MayFail = TRUE
    None = None
PROPERTY TabsComeBack
