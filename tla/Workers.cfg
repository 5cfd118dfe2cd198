\* One request at a time, the sweep, deployments and one death around two worker processes:
\* unless a worker is silent for ever, every request ends and every abandoned worker too, and
\* until then the records are right.
SPECIFICATION FairSpec
CONSTANTS
    live = live  r1 = r1  r2 = r2  c1 = c1  keeper = keeper  sweeper = sweeper
    Mounts <- OneMount
    Revs <- TwoRevs
    PathsOf <- Anywhere
    Clients <- OneClient
    Keeper <- keeper
    Sweeper <- sweeper
    MaxSpawns = 2
    RestartCap = 1
    WindowLen = 1
    Forkserver = TRUE
    IdleStops = TRUE
    MaxCrashes = 1
    None = None
INVARIANTS RecordsNameTheirProcess LiveWorkersAreOwned OneWorkerPerPath
PROPERTIES AbandonedWorkersEnd 
