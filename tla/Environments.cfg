\* Two threads over one environment, one death.
SPECIFICATION FairSpec
CONSTANTS
    e1 = e1  c1 = c1  c2 = c2
    Envs <- OneEnvironment
    Clients <- TwoClients
    DiskCap = FALSE
    MaxCrashes = 1
    Nothing = Nothing
INVARIANTS EnvironmentsAreWhole
PROPERTIES InvalidationTakesEffect
