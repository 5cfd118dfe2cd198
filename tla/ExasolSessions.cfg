\* A callback thread and another one share a session, while two requests rewrite the profile.
\* The system may stop: a profile that a death left unreadable stays so.
SPECIFICATION FairSpec
CONSTANTS
    t1 = t1  o1 = o1  w1 = w1  w2 = w2  x1 = x1  x2 = x2
    Threads <- OneThread
    Others <- OneOther
    Writers <- TwoWriters
    Settings <- TwoSettings
    MaxSessions = 1
    MaxRewrites = 2
    None = None
    Torn = Torn
INVARIANTS StatementsFindTheirSession OpenSessionsHaveOneHolder LostSessionsAreRetried
PROPERTY CallsReturn
CHECK_DEADLOCK FALSE
