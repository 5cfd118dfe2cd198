SPECIFICATION FairSpec
CONSTANTS
    t1 = t1
    t2 = t2
    a1 = a1
    a2 = a2
    c1 = c1
    c2 = c2
    Tabs <- OneTab
    Apps <- OneApp
    Calls <- TwoCalls
    MaxSessions = 1
    MaxLoads = 2
    MayRestart = TRUE
    MayFail = TRUE
    None = None
INVARIANTS
    SlotBelongsToCaller
    DeliveredOnce
PROPERTIES
    KeepsPromise
    CallsReturn
