\* Two threads on one app, two revisions, one deletion, one death.
SPECIFICATION Spec
CONSTANTS
    s1 = s1  s2 = s2  bad = bad  r1 = r1  c1 = c1  c2 = c2
    Clients <- TwoClients
    Sources <- ThreeSources
    Requirements <- OnePackage
    Faults <- BadCredentials
    Offers <- ThreeOffers
    Overlaps = FALSE
    MaxRevision = 2
    MaxCandidate = 3
    MaxDeletes = 1
    MaxCrashes = 1
    None = None
INVARIANTS OneSource CandidateNamesSource
SYMMETRY Symmetries
CHECK_DEADLOCK FALSE
