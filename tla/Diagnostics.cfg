\* Two threads of one process, two query files, a live revision and a preview, one death.
SPECIFICATION Spec
CONSTANTS
    t1 = t1  t2 = t2  f1 = f1  f2 = f2  server = server
    Threads <- TwoThreads
    Processes <- OneProcess
    ProcessOf <- InServer
    Files <- TwoFiles
    Revisions <- TwoRevisions
    Keys <- ThreeKeys
    None = None
    RateLimit = 2
    Throttle = 2
    MaxNow = 3
    MaxDeaths = 1
    MaxQueries = 3
SYMMETRY Symmetry
PROPERTIES FailuresAreReported SuccessesAreSeen
CHECK_DEADLOCK FALSE
