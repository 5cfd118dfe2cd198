\* One job's whole life: retries, cancellation, expiry, retention, two deaths of the process.
SPECIFICATION FairSpec
CONSTANTS
    j1 = j1  j2 = j2  j3 = j3  k1 = k1  i1 = i1  t1 = t1  t2 = t2  w1 = w1
    Jobs <- OneJob
    Keys <- OneKey
    Instances <- OneInstance
    Threads <- OneThread
    Workers <- OneWorker
    Host <- OneHost
    MaxAttempts = 2
    Quota = 1
    MaxCrashes = 2
    MayRaise = TRUE
    MayAge = TRUE
    MayLapse = TRUE
    None = None
INVARIANTS SucceededHasFile AttemptsAreBounded
PROPERTIES KeepsPromise EveryJobEnds
CHECK_DEADLOCK FALSE
