\* Two threads over a link and an invitation, with publication and a preview that come and
\* go, one deletion of the app or one death.
SPECIFICATION Spec
CONSTANTS
    l1 = l1  i1 = i1  u1 = u1  c1 = c1  c2 = c2  rev1 = rev1
    Links <- OneLink
    Invitations <- OneInvitation
    Users <- OneUser
    Clients <- TwoClients
    Offers <- Edit
    PreviewRevs <- OneRev
    MaxGrants = 2
    MaxCuts = 1
    None = None
INVARIANTS OneUse RevocationReachesGrants SessionOpensTarget
PROPERTIES RevokedIsFinal
SYMMETRY Symmetries
CHECK_DEADLOCK FALSE
