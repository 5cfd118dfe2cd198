\* Two requests at a time, three jobs, a quota of one and one idempotency key.
\* Nothing ages, so no artifact is ever chosen among several and jobs are interchangeable.
SPECIFICATION Spec
CONSTANTS
    j1 = j1  j2 = j2  j3 = j3  k1 = k1  i1 = i1  t1 = t1  t2 = t2  w1 = w1
    Jobs <- ThreeJobs
    Keys <- OneKey
    Instances <- OneInstance
    Threads <- TwoThreads
    Workers <- OneWorker
    Host <- OneHost
    MaxAttempts = 1
    Quota = 1
    MaxCrashes = 0
    MayRaise = FALSE
    MayAge = FALSE
    MayLapse = FALSE
    None = None
SYMMETRY Alike
INVARIANTS QuotaOvershootIsBounded OneJobPerKey
CHECK_DEADLOCK FALSE
