----------------------------- MODULE SharingProofs -----------------------------
(***************************************************************************)
(* Theorems about Sharing for every value of its constants: any links,     *)
(* invitations and users, any number of browsers and operators at once,    *)
(* and any number of deletions and deaths.                                 *)
(***************************************************************************)
EXTENDS Sharing, FiniteSetTheorems, TLAPS

-----------------------------------------------------------------------------
(* Type correctness.  A thread knows the token, the principal and the offer that its next  *)
(* step writes.                                                                            *)

LinkSteps == {"newLink", "markLink", "grantLink", "killLink", "killGrants"}
InvitationSteps == {"newInvite", "markInvite", "grantInvite", "attach", "killInvite", "killGrant"}

JobOK(j) ==
    /\ j \in Job
    /\ j.pc \in LinkSteps => j.token \in Links
    /\ j.pc \in InvitationSteps => j.token \in Invitations
    /\ j.pc \in {"newLink", "newInvite", "grant", "markLink", "grantLink", "markInvite", "grantInvite"} => j.offer \in Offers
    /\ j.pc \in {"newInvite", "grant", "markInvite", "grantInvite"} => j.who \in Users

JobsOK == job \in [Clients -> Job] /\ \A t \in Clients : JobOK(job[t])
LinkTypes == link \in [Links -> LinkRow \cup {None}]
InviteTypes == invite \in [Invitations -> InviteRow \cup {None}]
GrantTypes == grants \in [GrantIds -> GrantRow \cup {None}] /\ inserted \in 0..MaxGrants
WorldTypes ==
    /\ exists \in BOOLEAN /\ enabled \in BOOLEAN /\ preview \in PreviewRevs \cup {None}
    /\ made \subseteq Tokens /\ expired \subseteq Tokens /\ session \subseteq Tokens
    /\ torn \subseteq Tokens /\ cuts \in 0..MaxCuts

TypeInv == JobsOK /\ LinkTypes /\ InviteTypes /\ GrantTypes /\ WorldTypes

LEMMA TypeInvImplies == TypeInv => TypeOK
  BY DEF TypeInv, TypeOK, JobsOK, LinkTypes, InviteTypes, GrantTypes, WorldTypes

LEMMA FrameIn ==
    ASSUME NEW pc \in Steps, NEW tok \in Tokens \cup {None}, NEW who \in Links \cup Users \cup {None},
           NEW offer \in Offers \cup {None}, NEW g \in 0..MaxGrants
    PROVE  Frame(pc, tok, who, offer, g) \in Job
  BY DEF Frame, Job

LEMMA Zero == 0 \in 0..MaxGrants /\ GrantIds \subseteq 0..MaxGrants
  BY SharingAssumption DEF GrantIds

LEMMA CopyPc ==
    ASSUME NEW j \in Job, NEW pc
    PROVE  [j EXCEPT !.pc = pc] = Frame(pc, j.token, j.who, j.offer, j.grant)
  BY DEF Job, Frame

LEMMA IdleOK == JobOK(Idle) /\ Idle.pc = "idle"
<1>1. Idle \in Job
  BY Zero, FrameIn DEF Idle, Steps
<1> QED BY <1>1 DEF JobOK, Idle, Frame, LinkSteps, InvitationSteps

\* One thread gets a new frame.
LEMMA FrameType ==
    ASSUME TypeInv, NEW t \in Clients, NEW f, JobOK(f), job' = [job EXCEPT ![t] = f]
    PROVE  JobsOK'
  BY DEF TypeInv, JobsOK, JobOK

LEMMA EndsType ==
    ASSUME TypeInv, NEW t \in Clients, Ends(t)
    PROVE  JobsOK'
  BY IdleOK, FrameType DEF Ends

\* A thread goes on with the same locals.
LEMMA GoesType ==
    ASSUME TypeInv, NEW t \in Clients, NEW pc, Goes(t, pc), JobOK([job[t] EXCEPT !.pc = pc])
    PROVE  JobsOK'
<1>1. job' = [job EXCEPT ![t] = [job[t] EXCEPT !.pc = pc]]
  BY DEF Goes
<1> QED BY <1>1, FrameType

LEMMA AsksType ==
    ASSUME TypeInv, NEW t \in Clients, NEW j, JobOK(j), Asks(t, j)
    PROVE  TypeInv'
<1>1. JobsOK'
  BY FrameType DEF Asks
<1>2. torn' \subseteq Tokens
  BY DEF Asks, Overlaps, Uses, Revocations, JobOK, LinkSteps, InvitationSteps, Tokens, TypeInv, WorldTypes
<1> QED BY <1>1, <1>2 DEF Asks, TypeInv, LinkTypes, InviteTypes, GrantTypes, WorldTypes, tokenVars, grantVars, appVars

LEMMA InsertType ==
    ASSUME TypeInv, NEW who \in Links \cup Users, NEW offer \in Offers, NEW expires \in Tokens \cup {None}, Insert(who, offer, expires)
    PROVE  GrantTypes' /\ inserted + 1 \in GrantIds /\ inserted' \in 1..MaxGrants /\ inserted' = inserted + 1
<1>1. inserted + 1 \in GrantIds /\ inserted' = inserted + 1 /\ inserted' \in 1..MaxGrants
  BY SharingAssumption DEF Insert, TypeInv, GrantTypes, GrantIds
<1>2. [who |-> who, offer |-> offer, expires |-> expires, revoked |-> FALSE] \in GrantRow
  BY DEF GrantRow
<1> QED BY <1>1, <1>2 DEF Insert, TypeInv, GrantTypes

LEMMA RevokedType ==
    ASSUME TypeInv, NEW ids, grants' = Revoked(ids), UNCHANGED inserted
    PROVE  GrantTypes'
<1>1. ASSUME NEW g \in GrantIds, Active(g) PROVE [grants[g] EXCEPT !.revoked = TRUE] \in GrantRow
  BY <1>1 DEF Active, TypeInv, GrantTypes, GrantRow
<1> QED BY <1>1 DEF Revoked, TypeInv, GrantTypes

LEMMA TypeInit == Init => TypeInv
<1> SUFFICES ASSUME Init PROVE TypeInv
  OBVIOUS
<1>1. Idle \in Job
  BY IdleOK DEF JobOK
<1> QED BY <1>1, IdleOK, SharingAssumption DEF Init, TypeInv, JobsOK, LinkTypes, InviteTypes, GrantTypes, WorldTypes

\* What a request knows when it starts: its frame, and what it read of the token's row.
AskedFor(j) ==
    /\ j.pc \in {"newLink", "newInvite", "grant", "revoke", "markLink", "markInvite", "killLink", "killInvite"}
    /\ j.pc \in Uses \cup Revocations => j.token \in Tokens /\ RowOf(j.token) # None
    /\ j.pc \in Uses => /\ ~IsRevoked(j.token) /\ j.offer = RowOf(j.token).offer
                        /\ j.token \in Invitations => j.who = invite[j.token].email
    /\ j.pc = "killInvite" => j.token \in Invitations /\ j.grant = invite[j.token].grant

LEMMA AskFrame == ASSUME TypeInv, NEW t \in Clients, Ask(t) PROVE \E j : Asks(t, j) /\ JobOK(j) /\ AskedFor(j)
<1> DEFINE G == \E j : Asks(t, j) /\ JobOK(j) /\ AskedFor(j)
<1>1. ASSUME NEW u \in Users, NEW o \in Offers, AskGrant(t, u, o) PROVE G
  <2>1. JobOK(Frame("grant", None, u, o, 0))
    <3>1. Frame("grant", None, u, o, 0) \in Job
      BY Zero, FrameIn DEF Steps, Tokens
    <3> QED BY <3>1 DEF JobOK, Frame, LinkSteps, InvitationSteps
  <2>2. AskedFor(Frame("grant", None, u, o, 0))
    BY <1>1, SharingAssumption DEF AskGrant, AskedFor, Frame, Uses, Revocations, RowOf, IsRevoked, Tokens
  <2> QED BY <1>1, <2>1, <2>2 DEF AskGrant
<1>2. ASSUME NEW g \in GrantIds, AskRevoke(t, g) PROVE G
  <2>1. JobOK(Frame("revoke", None, None, None, g))
    <3>1. Frame("revoke", None, None, None, g) \in Job
      BY Zero, FrameIn DEF Steps, Tokens
    <3> QED BY <3>1 DEF JobOK, Frame, LinkSteps, InvitationSteps
  <2>2. AskedFor(Frame("revoke", None, None, None, g))
    BY <1>2, SharingAssumption DEF AskRevoke, AskedFor, Frame, Uses, Revocations, RowOf, IsRevoked, Tokens
  <2> QED BY <1>2, <2>1, <2>2 DEF AskRevoke
<1>3. ASSUME NEW l \in Links, NEW o \in Offers, AskLink(t, l, o) PROVE G
  <2>1. JobOK(Frame("newLink", l, None, o, 0))
    <3>1. Frame("newLink", l, None, o, 0) \in Job
      BY Zero, FrameIn DEF Steps, Tokens
    <3> QED BY <3>1 DEF JobOK, Frame, LinkSteps, InvitationSteps
  <2>2. AskedFor(Frame("newLink", l, None, o, 0))
    BY <1>3, SharingAssumption DEF AskLink, AskedFor, Frame, Uses, Revocations, RowOf, IsRevoked, Tokens
  <2> QED BY <1>3, <2>1, <2>2 DEF AskLink
<1>4. ASSUME NEW l \in Links, OpenLink(t, l) PROVE G
  <2>1. link[l].offer \in Offers
    BY <1>4 DEF OpenLink, TypeInv, LinkTypes, LinkRow
  <2>2. JobOK(Frame("markLink", l, None, link[l].offer, 0))
    <3>1. Frame("markLink", l, None, link[l].offer, 0) \in Job
      BY <2>1, Zero, FrameIn DEF Steps, Tokens
    <3> QED BY <2>1, <3>1 DEF JobOK, Frame, LinkSteps, InvitationSteps
  <2>3. AskedFor(Frame("markLink", l, None, link[l].offer, 0))
    BY <1>4, SharingAssumption DEF OpenLink, AskedFor, Frame, Uses, Revocations, RowOf, IsRevoked, Tokens
  <2> QED BY <1>4, <2>2, <2>3 DEF OpenLink
<1>5. ASSUME NEW l \in Links, AskRevokeLink(t, l) PROVE G
  <2>1. JobOK(Frame("killLink", l, None, None, 0))
    <3>1. Frame("killLink", l, None, None, 0) \in Job
      BY Zero, FrameIn DEF Steps, Tokens
    <3> QED BY <3>1 DEF JobOK, Frame, LinkSteps, InvitationSteps
  <2>2. AskedFor(Frame("killLink", l, None, None, 0))
    BY <1>5, SharingAssumption DEF AskRevokeLink, AskedFor, Frame, Uses, Revocations, RowOf, IsRevoked, Tokens
  <2> QED BY <1>5, <2>1, <2>2 DEF AskRevokeLink
<1>6. ASSUME NEW i \in Invitations, NEW u \in Users, NEW o \in Offers, AskInvitation(t, i, u, o) PROVE G
  <2>1. JobOK(Frame("newInvite", i, u, o, 0))
    <3>1. Frame("newInvite", i, u, o, 0) \in Job
      BY Zero, FrameIn DEF Steps, Tokens
    <3> QED BY <3>1 DEF JobOK, Frame, LinkSteps, InvitationSteps
  <2>2. AskedFor(Frame("newInvite", i, u, o, 0))
    BY <1>6, SharingAssumption DEF AskInvitation, AskedFor, Frame, Uses, Revocations, RowOf, IsRevoked, Tokens
  <2> QED BY <1>6, <2>1, <2>2 DEF AskInvitation
<1>7. ASSUME NEW i \in Invitations, OpenInvitation(t, i) PROVE G
  <2>1. invite[i].offer \in Offers /\ invite[i].email \in Users
    BY <1>7 DEF OpenInvitation, TypeInv, InviteTypes, InviteRow
  <2>2. JobOK(Frame("markInvite", i, invite[i].email, invite[i].offer, 0))
    <3>1. Frame("markInvite", i, invite[i].email, invite[i].offer, 0) \in Job
      BY <2>1, Zero, FrameIn DEF Steps, Tokens
    <3> QED BY <2>1, <3>1 DEF JobOK, Frame, LinkSteps, InvitationSteps
  <2>3. AskedFor(Frame("markInvite", i, invite[i].email, invite[i].offer, 0))
    BY <1>7, SharingAssumption DEF OpenInvitation, AskedFor, Frame, Uses, Revocations, RowOf, IsRevoked, Tokens
  <2> QED BY <1>7, <2>2, <2>3 DEF OpenInvitation
<1>8. ASSUME NEW i \in Invitations, AskRevokeInvitation(t, i) PROVE G
  <2>1. invite[i].grant \in 0..MaxGrants
    BY <1>8 DEF AskRevokeInvitation, TypeInv, InviteTypes, InviteRow
  <2>2. JobOK(Frame("killInvite", i, None, None, invite[i].grant))
    <3>1. Frame("killInvite", i, None, None, invite[i].grant) \in Job
      BY <2>1, Zero, FrameIn DEF Steps, Tokens
    <3> QED BY <2>1, <3>1 DEF JobOK, Frame, LinkSteps, InvitationSteps
  <2>3. AskedFor(Frame("killInvite", i, None, None, invite[i].grant))
    BY <1>8, SharingAssumption DEF AskRevokeInvitation, AskedFor, Frame, Uses, Revocations, RowOf, IsRevoked, Tokens
  <2> QED BY <1>8, <2>2, <2>3 DEF AskRevokeInvitation
<1> QED BY <1>1, <1>2, <1>3, <1>4, <1>5, <1>6, <1>7, <1>8 DEF Ask

LEMMA AskType == ASSUME TypeInv, NEW t \in Clients, Ask(t) PROVE TypeInv'
  BY AskFrame, AsksType

LEMMA LinkStepType == ASSUME TypeInv, NEW t \in Clients, LinkStep(t) PROVE TypeInv'
<1> DEFINE l == job[t].token
<1>0. JobOK(job[t])
  BY DEF TypeInv, JobsOK
<1>1. CASE CreateLink(t)
  <2>1. l \in Links /\ [offer |-> job[t].offer, uses |-> 0, revoked |-> FALSE] \in LinkRow
    BY <1>0, <1>1 DEF CreateLink, At, JobOK, LinkSteps, LinkRow
  <2>2. LinkTypes' /\ JobsOK'
    BY <1>1, <2>1, EndsType DEF CreateLink, TypeInv, LinkTypes
  <2> QED BY <1>1, <2>1, <2>2 DEF CreateLink, TypeInv, InviteTypes, GrantTypes, WorldTypes, grantVars, worldVars, appVars, Tokens
<1>2. CASE MarkLink(t)
  <2>1. l \in Links /\ JobOK([job[t] EXCEPT !.pc = "grantLink"])
    BY <1>0, <1>2 DEF MarkLink, At, JobOK, LinkSteps, InvitationSteps, Job, Steps
  <2>2. JobsOK'
    BY <1>2, <2>1, EndsType, GoesType DEF MarkLink
  <2>3. LinkTypes'
    <3>1. CASE UNCHANGED link
      BY <3>1 DEF TypeInv, LinkTypes
    <3>2. CASE Redeemable(l) /\ link' = [link EXCEPT ![l].uses = @ + 1]
      <4>1. link[l] \in LinkRow /\ link[l].uses = 0
        BY <2>1, <3>2 DEF Redeemable, TypeInv, LinkTypes, LinkRow
      <4>2. [link[l] EXCEPT !.uses = link[l].uses + 1] \in LinkRow
        BY <4>1 DEF LinkRow
      <4> QED BY <2>1, <3>2, <4>2 DEF TypeInv, LinkTypes
    <3> QED BY <1>2, <3>1, <3>2 DEF MarkLink
  <2> QED BY <1>2, <2>2, <2>3 DEF MarkLink, TypeInv, InviteTypes, GrantTypes, WorldTypes, grantVars, worldVars, appVars
<1>3. CASE GrantLink(t)
  <2>1. l \in Links /\ l \in Tokens /\ job[t].offer \in Offers
    BY <1>0, <1>3 DEF GrantLink, At, JobOK, LinkSteps, Tokens
  <2>2. GrantTypes'
    <3>1. CASE UNCHANGED grantVars
      BY <3>1 DEF TypeInv, GrantTypes, grantVars
    <3>2. CASE Insert(l, job[t].offer, l)
      BY <3>2, <2>1, InsertType
    <3> QED BY <1>3, <3>1, <3>2 DEF GrantLink
  <2>3. JobsOK'
    BY <1>3, EndsType DEF GrantLink
  <2> QED BY <1>3, <2>1, <2>2, <2>3 DEF GrantLink, TypeInv, LinkTypes, InviteTypes, WorldTypes, tokenVars, worldVars, appVars
<1>4. CASE RevokeLink(t)
  <2>1. l \in Links /\ JobOK([job[t] EXCEPT !.pc = "killGrants"])
    BY <1>0, <1>4 DEF RevokeLink, At, JobOK, LinkSteps, InvitationSteps, Job, Steps
  <2>2. JobsOK'
    BY <1>4, <2>1, GoesType DEF RevokeLink
  <2>3. LinkTypes'
    <3>1. CASE link[l] = None
      BY <3>1, <1>4 DEF RevokeLink, TypeInv, LinkTypes
    <3>2. CASE link[l] # None
      <4>1. [link[l] EXCEPT !.revoked = TRUE] \in LinkRow
        BY <2>1, <3>2 DEF TypeInv, LinkTypes, LinkRow
      <4> QED BY <1>4, <2>1, <3>2, <4>1 DEF RevokeLink, TypeInv, LinkTypes
    <3> QED BY <3>1, <3>2
  <2> QED BY <1>4, <2>2, <2>3 DEF RevokeLink, TypeInv, InviteTypes, GrantTypes, WorldTypes, grantVars, worldVars, appVars
<1>5. CASE RevokeLinkGrants(t)
  <2>1. GrantTypes'
    BY <1>5, RevokedType DEF RevokeLinkGrants
  <2>2. JobsOK'
    BY <1>5, EndsType DEF RevokeLinkGrants
  <2> QED BY <1>5, <2>1, <2>2 DEF RevokeLinkGrants, TypeInv, LinkTypes, InviteTypes, WorldTypes, tokenVars, worldVars, appVars
<1> QED BY <1>1, <1>2, <1>3, <1>4, <1>5 DEF LinkStep

LEMMA InvitationStepType == ASSUME TypeInv, NEW t \in Clients, InvitationStep(t) PROVE TypeInv'
<1> DEFINE i == job[t].token
<1>0. JobOK(job[t])
  BY DEF TypeInv, JobsOK
<1>1. CASE CreateInvitation(t)
  <2>1. i \in Invitations /\ [offer |-> job[t].offer, email |-> job[t].who, status |-> "pending", grant |-> 0] \in InviteRow
    BY <1>0, <1>1, SharingAssumption DEF CreateInvitation, At, JobOK, InvitationSteps, InviteRow
  <2>2. InviteTypes' /\ JobsOK'
    BY <1>1, <2>1, EndsType DEF CreateInvitation, TypeInv, InviteTypes
  <2> QED BY <1>1, <2>1, <2>2 DEF CreateInvitation, TypeInv, LinkTypes, GrantTypes, WorldTypes, grantVars, worldVars, appVars, Tokens
<1>2. CASE MarkInvitation(t)
  <2>1. i \in Invitations /\ JobOK([job[t] EXCEPT !.pc = "grantInvite"])
    BY <1>0, <1>2 DEF MarkInvitation, At, JobOK, LinkSteps, InvitationSteps, Job, Steps
  <2>2. JobsOK'
    BY <1>2, <2>1, EndsType, GoesType DEF MarkInvitation
  <2>3. InviteTypes'
    <3>1. CASE UNCHANGED invite
      BY <3>1 DEF TypeInv, InviteTypes
    <3>2. CASE invite[i] # None /\ invite' = [invite EXCEPT ![i].status = "accepted"]
      <4>1. [invite[i] EXCEPT !.status = "accepted"] \in InviteRow
        BY <2>1, <3>2 DEF TypeInv, InviteTypes, InviteRow
      <4> QED BY <2>1, <3>2, <4>1 DEF TypeInv, InviteTypes
    <3> QED BY <1>2, <3>1, <3>2 DEF MarkInvitation
  <2> QED BY <1>2, <2>2, <2>3 DEF MarkInvitation, TypeInv, LinkTypes, GrantTypes, WorldTypes, grantVars, worldVars, appVars
<1>3. CASE GrantInvitation(t)
  <2>1. i \in Invitations /\ i \in Tokens /\ job[t].offer \in Offers /\ job[t].who \in Users
    BY <1>0, <1>3 DEF GrantInvitation, At, JobOK, InvitationSteps, Tokens
  <2>2. GrantTypes' /\ inserted' \in 1..MaxGrants
    BY <1>3, <2>1, InsertType DEF GrantInvitation
  <2>3. JobOK(Frame("attach", job[t].token, job[t].who, job[t].offer, inserted'))
    <3>1. job[t].token \in Tokens /\ inserted' \in 0..MaxGrants
      BY <2>1, <2>2
    <3>2. Frame("attach", job[t].token, job[t].who, job[t].offer, inserted') \in Job
      BY <2>1, <3>1, FrameIn DEF Steps
    <3> QED BY <2>1, <3>2 DEF JobOK, Frame, LinkSteps, InvitationSteps
  <2>5. JobsOK'
    BY <1>3, <2>3, FrameType DEF GrantInvitation
  <2> QED BY <1>3, <2>2, <2>5 DEF GrantInvitation, TypeInv, LinkTypes, InviteTypes, WorldTypes, tokenVars, worldVars, appVars
<1>4. CASE Attach(t)
  <2>1. i \in Invitations /\ i \in Tokens /\ job[t].grant \in 0..MaxGrants
    BY <1>0, <1>4 DEF Attach, At, JobOK, InvitationSteps, Tokens, Job
  <2>2. JobsOK'
    BY <1>4, EndsType DEF Attach
  <2>3. InviteTypes'
    <3>1. CASE invite[i] = None
      BY <3>1, <1>4 DEF Attach, TypeInv, InviteTypes
    <3>2. CASE invite[i] # None
      <4>1. [invite[i] EXCEPT !.grant = job[t].grant] \in InviteRow
        BY <2>1, <3>2 DEF TypeInv, InviteTypes, InviteRow
      <4> QED BY <1>4, <2>1, <3>2, <4>1 DEF Attach, AttachedGrant, TypeInv, InviteTypes
    <3> QED BY <3>1, <3>2
  <2> QED BY <1>4, <2>1, <2>2, <2>3 DEF Attach, TypeInv, LinkTypes, GrantTypes, WorldTypes, grantVars, worldVars, appVars
<1>5. CASE RevokeInvitation(t)
  <2>1. i \in Invitations /\ JobOK([job[t] EXCEPT !.pc = "killGrant"])
    BY <1>0, <1>5 DEF RevokeInvitation, At, JobOK, LinkSteps, InvitationSteps, Job, Steps
  <2>2. JobsOK'
    BY <1>5, <2>1, GoesType, EndsType DEF RevokeInvitation
  <2>3. InviteTypes'
    <3>1. CASE invite[i] = None
      BY <3>1, <1>5 DEF RevokeInvitation, TypeInv, InviteTypes
    <3>2. CASE invite[i] # None
      <4>1. [invite[i] EXCEPT !.status = "revoked"] \in InviteRow
        BY <2>1, <3>2 DEF TypeInv, InviteTypes, InviteRow
      <4> QED BY <1>5, <2>1, <3>2, <4>1 DEF RevokeInvitation, TypeInv, InviteTypes
    <3> QED BY <3>1, <3>2
  <2> QED BY <1>5, <2>2, <2>3 DEF RevokeInvitation, TypeInv, LinkTypes, GrantTypes, WorldTypes, grantVars, worldVars, appVars
<1>6. CASE RevokeInvitationGrant(t)
  <2>1. GrantTypes' /\ JobsOK'
    BY <1>6, RevokedType, EndsType DEF RevokeInvitationGrant
  <2> QED BY <1>6, <2>1 DEF RevokeInvitationGrant, TypeInv, LinkTypes, InviteTypes, WorldTypes, tokenVars, worldVars, appVars
<1> QED BY <1>1, <1>2, <1>3, <1>4, <1>5, <1>6 DEF InvitationStep

LEMMA TypeStep == TypeInv /\ [Next]_vars => TypeInv'
<1> SUFFICES ASSUME TypeInv, [Next]_vars PROVE TypeInv'
  OBVIOUS
<1>1. ASSUME NEW t \in Clients, Grant(t) PROVE TypeInv'
  <2>1. job[t].who \in Users /\ job[t].offer \in Offers
    BY <1>1 DEF Grant, At, TypeInv, JobsOK, JobOK
  <2>2. GrantTypes' /\ JobsOK'
    BY <1>1, <2>1, InsertType, EndsType DEF Grant
  <2> QED BY <1>1, <2>2 DEF Grant, TypeInv, LinkTypes, InviteTypes, WorldTypes, tokenVars, worldVars, appVars
<1>2. ASSUME NEW t \in Clients, Revoke(t) PROVE TypeInv'
  <2>1. GrantTypes' /\ JobsOK'
    BY <1>2, RevokedType, EndsType DEF Revoke
  <2> QED BY <1>2, <2>1 DEF Revoke, TypeInv, LinkTypes, InviteTypes, WorldTypes, tokenVars, worldVars, appVars
<1>3. CASE DeleteApp
  <2>1. LinkTypes' /\ InviteTypes' /\ GrantTypes'
    BY <1>3 DEF DeleteApp, TypeInv, LinkTypes, InviteTypes, GrantTypes
  <2>2. cuts' \in 0..MaxCuts
    BY <1>3, SharingAssumption DEF DeleteApp, TypeInv, WorldTypes
  <2>3. WorldTypes'
    BY <1>3, <2>2 DEF DeleteApp, TypeInv, WorldTypes
  <2> QED BY <1>3, <2>1, <2>3 DEF DeleteApp, TypeInv, JobsOK
<1>4. CASE CreateApp \/ SetEnabled \/ SetPreview
  BY <1>4 DEF CreateApp, SetEnabled, SetPreview, TypeInv, JobsOK, LinkTypes, InviteTypes, GrantTypes, WorldTypes, tokenVars, grantVars
<1>5. ASSUME NEW tok \in Tokens, Expire(tok) PROVE TypeInv'
  BY <1>5 DEF Expire, TypeInv, JobsOK, LinkTypes, InviteTypes, GrantTypes, WorldTypes, tokenVars, grantVars, appVars
<1>6. CASE Crash
  <2>1. JobsOK'
    BY <1>6, IdleOK DEF Crash, JobsOK, JobOK
  <2>2. torn' \subseteq Tokens
    BY <1>6 DEF Crash, TypeInv, JobsOK, Job, WorldTypes
  <2> QED BY <1>6, <2>1, <2>2, SharingAssumption DEF Crash, TypeInv, LinkTypes, InviteTypes, GrantTypes, WorldTypes, tokenVars, grantVars, appVars
<1>7. CASE UNCHANGED vars
  BY <1>7 DEF vars, TypeInv, JobsOK, LinkTypes, InviteTypes, GrantTypes, WorldTypes
<1> QED BY <1>1, <1>2, <1>3, <1>4, <1>5, <1>6, <1>7, AskType, LinkStepType, InvitationStepType DEF Next

\* Every variable keeps its type, whatever threads, deletions and deaths interleave.
THEOREM SharingTypeCorrect == Spec => []TypeOK
<1> QED BY TypeInit, TypeStep, TypeInvImplies, PTL DEF Spec
-----------------------------------------------------------------------------
(* The inductive invariant. *)

\* A row, a step and a session are of a token that was created: no such token is created
\* again, so its row never comes back after it is deleted.
MadeInv ==
    /\ \A l \in Links : link[l] # None => l \in made
    /\ \A i \in Invitations : invite[i] # None => i \in made
    /\ \A t \in Clients : job[t].pc \in Uses \cup Revocations => job[t].token \in made
    /\ session \subseteq made

\* The token's row, if it is left, opens for nobody.
Spent(tok) ==
    /\ tok \in made
    /\ tok \in Links => (link[tok] # None => link[tok].uses = 1)
    /\ tok \in Invitations => (invite[tok] # None => invite[tok].status # "pending")

\* A thread whose next step inserts the grant of its token.
Granting(t) == job[t].pc \in {"grantLink", "grantInvite"}

\* A grant of a token was made from a mark, and a link's grant is of the link's principal.
Sound(g) ==
    /\ g <= inserted
    /\ grants[g].expires \in Tokens => Spent(grants[g].expires)
    /\ grants[g].expires \in Links => grants[g].who = grants[g].expires
    /\ grants[g].who \in Links => grants[g].expires = grants[g].who

\* One thread marks a token, and the token has no grant before that thread inserts it.
UseInv ==
    /\ \A g \in GrantIds : grants[g] # None => Sound(g)
    /\ \A g, h \in GrantIds : grants[g] # None /\ grants[h] # None /\ grants[g].expires = grants[h].expires =>
          g = h \/ grants[g].expires = None
    /\ \A t \in Clients : Granting(t) => Spent(job[t].token) /\ GrantsOf(job[t].token) = {}
    /\ \A t, v \in Clients : Granting(t) /\ Granting(v) /\ job[t].token = job[v].token => t = v

\* A grant of a token that gives what its row offers.
Gives(g, tok) ==
    /\ grants[g] # None /\ grants[g].expires = tok
    /\ grants[g].who = PrincipalOf(tok) /\ grants[g].offer = RowOf(tok).offer

\* What a thread read of the row before the mark is what the row still says, and whoever
\* has a session has the grant.
OfferInv ==
    /\ \A t \in Clients, tok \in Tokens : job[t].pc \in Uses /\ job[t].token = tok /\ RowOf(tok) # None =>
          /\ job[t].offer = RowOf(tok).offer
          /\ tok \in Invitations => job[t].who = PrincipalOf(tok)
          /\ job[t].pc = "attach" => \E g \in GrantIds : g = job[t].grant /\ Gives(g, tok)
    /\ \A tok \in session : RowOf(tok) # None => \E g \in GrantIds : Gives(g, tok)

\* Every grant of a token but one is revoked.
OnlyLeft(tok, id) == \A g \in GrantsOf(tok) : g = id \/ ~Active(g)

\* Without an overlap: a use and a revocation are never both going on, a revoked token is
\* not in use, an invitation knows its grant, and so does the thread that revokes it.
TornOK(tok) ==
    /\ ~(Busy(tok, Uses) /\ Busy(tok, Revocations))
    /\ IsRevoked(tok) => ~Busy(tok, Uses)
    /\ tok \in Invitations /\ invite[tok] # None /\ ~Busy(tok, {"attach"}) => OnlyLeft(tok, invite[tok].grant)
    /\ \A t \in Clients : job[t].token = tok /\ job[t].pc \in {"killInvite", "killGrant"} => OnlyLeft(tok, job[t].grant)
    /\ IsRevoked(tok) => BeingRevoked(tok) \/ OnlyLeft(tok, 0)

TornInv == \A tok \in Tokens \ torn : TornOK(tok)

IInv == TypeInv /\ MadeInv /\ UseInv /\ OfferInv /\ TornInv

-----------------------------------------------------------------------------
(* Steps, as the invariants see them. *)

\* The steps a handler goes through after its request.
Onward == {<<"markLink", "grantLink">>, <<"killLink", "killGrants">>, <<"markInvite", "grantInvite">>,
           <<"grantInvite", "attach">>, <<"killInvite", "killGrant">>}

\* The other threads stay where they are; this one ends, or goes on with the same locals.
Moves(t) ==
    /\ \A v \in Clients \ {t} : job'[v] = job[v]
    /\ \/ job'[t] = Idle
       \/ /\ <<job[t].pc, job'[t].pc>> \in Onward
          /\ job'[t].token = job[t].token /\ job'[t].who = job[t].who /\ job'[t].offer = job[t].offer
          /\ job'[t].pc # "attach" => job'[t].grant = job[t].grant

LEMMA EndsMoves == ASSUME TypeInv, NEW t \in Clients, Ends(t) PROVE Moves(t) /\ job'[t] = Idle
  BY DEF Ends, Moves, TypeInv, JobsOK

LEMMA GoesMoves ==
    ASSUME TypeInv, NEW t \in Clients, NEW pc, Goes(t, pc), pc # "attach", <<job[t].pc, pc>> \in Onward
    PROVE  Moves(t) /\ job'[t] = Frame(pc, job[t].token, job[t].who, job[t].offer, job[t].grant)
<1>1. job[t] \in Job /\ job' = [job EXCEPT ![t] = [job[t] EXCEPT !.pc = pc]]
  BY DEF Goes, TypeInv, JobsOK, JobOK
<1>2. job'[t] = Frame(pc, job[t].token, job[t].who, job[t].offer, job[t].grant)
  BY <1>1, CopyPc DEF TypeInv, JobsOK
<1> QED BY <1>1, <1>2 DEF Moves, Frame, TypeInv, JobsOK

\* A step of a handler after its request.
Works(t) == Grant(t) \/ Revoke(t) \/ LinkStep(t) \/ InvitationStep(t)

LEMMA WorksMoves == ASSUME TypeInv, NEW t \in Clients, Works(t) PROVE Moves(t)
<1>1. CASE Ends(t)
  BY <1>1, EndsMoves
<1>2. CASE MarkLink(t) /\ Goes(t, "grantLink")
  BY <1>2, GoesMoves DEF MarkLink, At, Onward
<1>3. CASE RevokeLink(t)
  BY <1>3, GoesMoves DEF RevokeLink, At, Onward
<1>4. CASE MarkInvitation(t) /\ Goes(t, "grantInvite")
  BY <1>4, GoesMoves DEF MarkInvitation, At, Onward
<1>5. CASE GrantInvitation(t)
  BY <1>5 DEF GrantInvitation, At, Onward, Moves, Frame, TypeInv, JobsOK
<1>6. CASE RevokeInvitation(t) /\ Goes(t, "killGrant")
  BY <1>6, GoesMoves DEF RevokeInvitation, At, Onward
<1> QED BY <1>1, <1>2, <1>3, <1>4, <1>5, <1>6
        DEF Works, Grant, Revoke, LinkStep, InvitationStep, CreateLink, MarkLink, GrantLink, RevokeLinkGrants,
            CreateInvitation, MarkInvitation, Attach, RevokeInvitation, RevokeInvitationGrant

\* A request changes its own thread, and nothing of the app's rows.
LEMMA AsksMoves ==
    ASSUME TypeInv, NEW t \in Clients, NEW j, Asks(t, j)
    PROVE  job[t] = Idle /\ job'[t] = j /\ \A v \in Clients \ {t} : job'[v] = job[v]
  BY DEF Asks, TypeInv, JobsOK

LEMMA MadeStep == ASSUME TypeInv, MadeInv, [Next]_vars PROVE MadeInv' /\ made \subseteq made'
<1>1. ASSUME NEW t \in Clients, Ask(t) PROVE MadeInv' /\ made \subseteq made'
  <2>1. PICK j : Asks(t, j) /\ JobOK(j) /\ AskedFor(j)
    BY <1>1, AskFrame
  <2>2. j.pc \in Uses \cup Revocations => j.token \in made
    BY <2>1 DEF AskedFor, RowOf, MadeInv, Tokens
  <2> QED BY <2>1, <2>2, AsksMoves DEF MadeInv, Asks, tokenVars
<1>2. ASSUME NEW t \in Clients, Works(t) PROVE MadeInv' /\ made \subseteq made'
  <2>1. Moves(t) /\ JobOK(job[t])
    BY <1>2, WorksMoves DEF TypeInv, JobsOK
  <2>2. made \subseteq made' /\ session' \subseteq made'
    <3>1. CASE GrantLink(t) \/ Attach(t)
      BY <3>1 DEF GrantLink, Attach, MadeInv, tokenVars, At, Uses
    <3>2. CASE CreateLink(t) \/ CreateInvitation(t)
      BY <3>2 DEF CreateLink, CreateInvitation, MadeInv
    <3>3. CASE UNCHANGED <<made, session>>
      BY <3>3 DEF MadeInv
    <3> QED BY <1>2, <3>1, <3>2, <3>3 DEF Works, Grant, Revoke, LinkStep, InvitationStep, MarkLink, RevokeLink, RevokeLinkGrants,
         MarkInvitation, GrantInvitation, RevokeInvitation, RevokeInvitationGrant, tokenVars
  <2>3. \A v \in Clients : job'[v].pc \in Uses \cup Revocations => job'[v].token \in made'
    BY <2>1, <2>2 DEF Moves, Onward, Idle, Frame, Uses, Revocations, MadeInv
  <2>4. (\A l \in Links : link'[l] # None => l \in made') /\ (\A i \in Invitations : invite'[i] # None => i \in made')
    <3>1. CASE CreateLink(t) \/ CreateInvitation(t)
      BY <3>1, <2>1 DEF CreateLink, CreateInvitation, At, JobOK, LinkSteps, InvitationSteps, MadeInv, TypeInv, LinkTypes, InviteTypes
    <3>2. CASE MarkLink(t) \/ RevokeLink(t)
      BY <3>2, <2>1 DEF MarkLink, RevokeLink, At, JobOK, LinkSteps, Redeemable, MadeInv, TypeInv, LinkTypes
    <3>3. CASE MarkInvitation(t) \/ Attach(t) \/ RevokeInvitation(t)
      BY <3>3, <2>1 DEF MarkInvitation, Attach, RevokeInvitation, At, JobOK, InvitationSteps, MadeInv, TypeInv, InviteTypes
    <3>4. CASE UNCHANGED tokenVars
      BY <3>4 DEF MadeInv, tokenVars
    <3> QED BY <1>2, <3>1, <3>2, <3>3, <3>4 DEF Works, Grant, Revoke, LinkStep, InvitationStep, GrantLink, RevokeLinkGrants, GrantInvitation, RevokeInvitationGrant
  <2> QED BY <2>2, <2>3, <2>4 DEF MadeInv
<1>3. CASE DeleteApp
  BY <1>3 DEF DeleteApp, MadeInv
<1>4. CASE CreateApp \/ SetEnabled \/ SetPreview \/ \E tok \in Tokens : Expire(tok)
  BY <1>4 DEF CreateApp, SetEnabled, SetPreview, Expire, MadeInv, tokenVars
<1>5. CASE Crash
  BY <1>5 DEF Crash, MadeInv, tokenVars, Idle, Frame, Uses, Revocations
<1>6. CASE UNCHANGED vars
  BY <1>6 DEF vars, MadeInv
<1> QED BY <1>1, <1>2, <1>3, <1>4, <1>5, <1>6 DEF Next, Works

\* A spent token stays spent: its row is never made again, and no mark or revocation undoes
\* another.
LEMMA SpentStable ==
    ASSUME TypeInv, MadeInv, NEW tok \in Tokens, Spent(tok), [Next]_vars
    PROVE  Spent(tok)'
<1> USE DEF Spent, Tokens
<1>1. ASSUME NEW t \in Clients, Ask(t) PROVE Spent(tok)'
  BY <1>1, AskFrame DEF Asks, tokenVars
<1>2. ASSUME NEW t \in Clients, Works(t) PROVE Spent(tok)'
  <2>1. JobOK(job[t])
    BY DEF TypeInv, JobsOK
  <2>2. CASE CreateLink(t)
    BY <2>1, <2>2 DEF CreateLink, At, JobOK, LinkSteps, TypeInv, LinkTypes
  <2>3. CASE MarkLink(t)
    BY <2>1, <2>3 DEF MarkLink, Redeemable, At, JobOK, LinkSteps, TypeInv, LinkTypes
  <2>4. CASE RevokeLink(t)
    BY <2>1, <2>4 DEF RevokeLink, At, JobOK, LinkSteps, TypeInv, LinkTypes, LinkRow
  <2>5. CASE CreateInvitation(t)
    BY <2>1, <2>5 DEF CreateInvitation, At, JobOK, InvitationSteps, TypeInv, InviteTypes
  <2>6. CASE MarkInvitation(t)
    BY <2>1, <2>6 DEF MarkInvitation, Acceptable, At, JobOK, InvitationSteps, TypeInv, InviteTypes
  <2>7. CASE Attach(t) \/ RevokeInvitation(t)
    BY <2>1, <2>7 DEF Attach, RevokeInvitation, At, JobOK, InvitationSteps, TypeInv, InviteTypes, InviteRow
  <2>8. CASE UNCHANGED tokenVars
    BY <2>8 DEF tokenVars
  <2> QED BY <1>2, <2>2, <2>3, <2>4, <2>5, <2>6, <2>7, <2>8
          DEF Works, Grant, Revoke, LinkStep, InvitationStep, GrantLink, RevokeLinkGrants, GrantInvitation, RevokeInvitationGrant
<1>3. CASE DeleteApp
  BY <1>3 DEF DeleteApp
<1>4. CASE UNCHANGED tokenVars
  BY <1>4 DEF tokenVars
<1> QED BY <1>1, <1>2, <1>3, <1>4 DEF Next, Works, CreateApp, SetEnabled, SetPreview, Expire, Crash, vars, tokenVars

\* No grant is added, and those left only ever turn to revoked.
Kept ==
    /\ inserted' = inserted
    /\ \A g \in GrantIds : grants'[g] # None =>
          /\ grants[g] # None
          /\ grants'[g].who = grants[g].who /\ grants'[g].offer = grants[g].offer /\ grants'[g].expires = grants[g].expires
          /\ grants[g].revoked => grants'[g].revoked
    /\ (\A g \in GrantIds : grants[g] # None => grants'[g] # None) \/ DeleteApp

\* A grant is added.
Adds(t) == Grant(t) \/ (GrantLink(t) /\ ~HasLinkGrant(job[t].token)) \/ GrantInvitation(t)

LEMMA RevokedKeeps == ASSUME TypeInv, NEW ids, grants' = Revoked(ids), inserted' = inserted PROVE Kept
<1>1. ASSUME NEW g \in GrantIds, Active(g)
      PROVE  LET r == [grants[g] EXCEPT !.revoked = TRUE]
             IN  r.who = grants[g].who /\ r.offer = grants[g].offer /\ r.expires = grants[g].expires /\ r.revoked /\ r # None
  <2>1. [grants[g] EXCEPT !.revoked = TRUE] \in GrantRow /\ grants[g] \in GrantRow
    BY <1>1 DEF Active, TypeInv, GrantTypes, GrantRow
  <2> QED BY <2>1, SharingAssumption DEF GrantRow
<1> QED BY <1>1 DEF Kept, Revoked, Active

LEMMA GrantsChange == ASSUME TypeInv, [Next]_vars PROVE Kept \/ \E t \in Clients : Adds(t)
<1>1. grants' = grants /\ inserted' = inserted => Kept
  BY DEF Kept
<1>2. CASE DeleteApp
  BY <1>2 DEF DeleteApp, Kept
<1>3. ASSUME NEW t \in Clients, RevokeLinkGrants(t) \/ RevokeInvitationGrant(t) \/ Revoke(t) PROVE Kept
  BY <1>3, RevokedKeeps DEF RevokeLinkGrants, RevokeInvitationGrant, Revoke
<1>4. ASSUME NEW t \in Clients, Ask(t) PROVE Kept
  BY <1>1, <1>4, AskFrame DEF Asks, grantVars
<1>5. ASSUME NEW t \in Clients, LinkStep(t) PROVE Kept \/ Adds(t)
  BY <1>1, <1>3, <1>5 DEF LinkStep, CreateLink, MarkLink, GrantLink, RevokeLink, Adds, grantVars
<1>6. ASSUME NEW t \in Clients, InvitationStep(t) PROVE Kept \/ Adds(t)
  BY <1>1, <1>3, <1>6 DEF InvitationStep, CreateInvitation, MarkInvitation, Attach, RevokeInvitation, Adds, grantVars
<1> QED BY <1>1, <1>2, <1>3, <1>4, <1>5, <1>6 DEF Next, Adds, CreateApp, SetEnabled, SetPreview, Expire, Crash, vars, grantVars

\* What an added grant is.
Added(t) == [who |-> IF job[t].pc = "grantLink" THEN job[t].token ELSE job[t].who, offer |-> job[t].offer,
             expires |-> IF job[t].pc = "grant" THEN None ELSE job[t].token, revoked |-> FALSE]

LEMMA AddsOne ==
    ASSUME TypeInv, UseInv, NEW t \in Clients, Adds(t)
    PROVE  /\ inserted' = inserted + 1 /\ inserted + 1 \in GrantIds
           /\ grants[inserted + 1] = None
           /\ grants' = [grants EXCEPT ![inserted + 1] = Added(t)]
           /\ Granting(t) \/ (At(t, "grant") /\ job[t].who \in Users)
           /\ Moves(t) /\ job'[t].pc \in {"idle", "attach"} /\ ~Granting(t)'
           /\ UNCHANGED tokenVars
<1>0. JobOK(job[t]) /\ inserted \in Nat
  BY SharingAssumption DEF TypeInv, JobsOK, GrantTypes
<1>1. \E who \in Links \cup Users, offer \in Offers, expires \in Tokens \cup {None} : Insert(who, offer, expires)
  BY <1>0 DEF Adds, Grant, GrantLink, GrantInvitation, At, JobOK, LinkSteps, InvitationSteps, Tokens
<1>2. inserted' = inserted + 1 /\ inserted + 1 \in GrantIds
  BY <1>1, InsertType
<1>3. grants[inserted + 1] = None
  BY <1>0, <1>2 DEF UseInv, Sound
<1>4. grants' = [grants EXCEPT ![inserted + 1] = Added(t)]
  BY DEF Adds, Grant, GrantLink, GrantInvitation, At, Insert, Added
<1>5. Granting(t) \/ (At(t, "grant") /\ job[t].who \in Users)
  BY <1>0 DEF Adds, Grant, GrantLink, GrantInvitation, At, Granting, JobOK
<1>6. Moves(t) /\ job'[t].pc \in {"idle", "attach"}
  BY WorksMoves, EndsMoves DEF Adds, Grant, GrantLink, GrantInvitation, Works, LinkStep, InvitationStep, At, Moves, Onward, Idle, Frame
<1> QED BY <1>2, <1>3, <1>4, <1>5, <1>6 DEF Granting, Adds, Grant, GrantLink, GrantInvitation

\* A mark: the thread goes on to the grant of a token that nobody used.
Marks(t) ==
    /\ \/ MarkLink(t) /\ Redeemable(job[t].token)
       \/ MarkInvitation(t) /\ invite[job[t].token] # None /\ Acceptable(invite[job[t].token].status)
    /\ job'[t].token = job[t].token /\ UNCHANGED grantVars

LEMMA GrantingFrom ==
    ASSUME TypeInv, [Next]_vars, NEW t \in Clients, Granting(t)'
    PROVE  (Granting(t) /\ job'[t] = job[t]) \/ (Marks(t) /\ Moves(t))
<1>1. ASSUME NEW v \in Clients, Ask(v) PROVE Granting(t) /\ job'[t] = job[t]
  BY <1>1, AskFrame, AsksMoves DEF AskedFor, Granting
<1>2. ASSUME NEW v \in Clients, Works(v), v # t PROVE Granting(t) /\ job'[t] = job[t]
  BY <1>2, WorksMoves DEF Moves, Granting
<1>3. CASE Works(t)
  <2>1. Moves(t) /\ job'[t] # Idle
    BY <1>3, WorksMoves DEF Granting, Idle, Frame
  <2>2. job[t].pc \in {"markLink", "markInvite"} /\ job'[t].token = job[t].token
    BY <2>1 DEF Granting, Moves, Onward
  <2>3. CASE MarkLink(t)
    <3>1. ~Ends(t)
      BY <2>1, EndsMoves
    <3>2. Redeemable(job[t].token) /\ UNCHANGED grantVars
      BY <2>3, <3>1 DEF MarkLink
    <3> QED BY <2>1, <2>2, <2>3, <3>2 DEF Marks
  <2>4. CASE MarkInvitation(t)
    BY <2>1, <2>2, <2>4, EndsMoves DEF MarkInvitation, Marks
  <2> QED BY <1>3, <2>1, <2>2, <2>3, <2>4
          DEF Works, Grant, Revoke, LinkStep, InvitationStep, CreateLink, GrantLink, RevokeLink, RevokeLinkGrants, At,
              CreateInvitation, GrantInvitation, Attach, RevokeInvitation, RevokeInvitationGrant
<1>4. CASE Crash
  BY <1>4 DEF Crash, Granting, Idle, Frame
<1>5. CASE UNCHANGED job
  BY <1>5 DEF Granting
<1> QED BY <1>1, <1>2, <1>3, <1>4, <1>5 DEF Next, Works, DeleteApp, CreateApp, SetEnabled, SetPreview, Expire, vars

LEMMA MarksSpend ==
    ASSUME TypeInv, TypeInv', MadeInv, UseInv, NEW t \in Clients, Marks(t)
    PROVE  /\ job[t].token \in Tokens
           /\ ~Spent(job[t].token) /\ Spent(job[t].token)'
           /\ GrantsOf(job[t].token) = {}
<1> DEFINE tok == job[t].token
<1>0. JobOK(job[t])
  BY DEF TypeInv, JobsOK
<1>1. CASE MarkLink(t) /\ Redeemable(tok)
  <2>1. tok \in Links /\ link[tok] # None /\ link[tok].uses < 1 /\ link[tok] \in LinkRow
    BY <1>0, <1>1 DEF MarkLink, At, JobOK, LinkSteps, Redeemable, TypeInv, LinkTypes
  <2>2. link' = [link EXCEPT ![tok].uses = @ + 1] /\ made' = made
    BY <1>1 DEF MarkLink
  <2>3. link[tok].uses = 0 /\ tok \in made /\ tok \notin Invitations
    BY <2>1, SharingAssumption DEF LinkRow, MadeInv
  <2>4. link'[tok].uses = 1
    BY <2>1, <2>2, <2>3 DEF TypeInv, LinkTypes, LinkRow
  <2> QED BY <2>1, <2>2, <2>3, <2>4 DEF Spent, Tokens, GrantsOf, UseInv, Sound, Marks
<1>2. CASE MarkInvitation(t) /\ invite[tok] # None /\ Acceptable(invite[tok].status)
  <2>1. tok \in Invitations /\ invite[tok] # None /\ invite[tok].status = "pending" /\ invite[tok] \in InviteRow
    BY <1>0, <1>2 DEF MarkInvitation, At, JobOK, InvitationSteps, Acceptable, TypeInv, InviteTypes
  <2>2. invite' = [invite EXCEPT ![tok].status = "accepted"] /\ made' = made
    BY <1>2 DEF MarkInvitation
  <2>3. tok \in made /\ tok \notin Links
    BY <2>1, SharingAssumption DEF MadeInv
  <2>4. invite'[tok].status = "accepted"
    BY <2>1, <2>2 DEF TypeInv, InviteTypes, InviteRow
  <2> QED BY <2>1, <2>2, <2>3, <2>4 DEF Spent, Tokens, GrantsOf, UseInv, Sound, Marks
<1> QED BY <1>1, <1>2 DEF Marks

LEMMA UseStep == ASSUME TypeInv, TypeInv', MadeInv, UseInv, [Next]_vars PROVE UseInv'
<1>0. \A t \in Clients : JobOK(job[t]) /\ (Granting(t) => job[t].token \in Tokens)
  BY DEF TypeInv, JobsOK, JobOK, Granting, LinkSteps, InvitationSteps, Tokens
<1>5. \A tok \in Tokens : Spent(tok) => Spent(tok)'
  BY SpentStable
<1>1. (\A g \in GrantIds : grants[g] # None => Sound(g))'
  <2>1. CASE Kept
    BY <1>5, <2>1 DEF Kept, UseInv, Sound, Spent
  <2>2. ASSUME NEW t \in Clients, Adds(t), NEW g \in GrantIds, grants'[g] # None
        PROVE  Sound(g)'
    <3>1. inserted' = inserted + 1 /\ inserted \in Nat
      BY <2>2, AddsOne DEF TypeInv, GrantTypes
    <3>2. CASE g # inserted + 1
      <4>1. grants'[g] = grants[g]
        BY <2>2, <3>2, AddsOne DEF TypeInv, GrantTypes
      <4> QED BY <1>5, <2>2, <3>1, <4>1, SharingAssumption DEF UseInv, Sound, Spent, GrantIds
    <3>3. CASE g = inserted + 1
      <4>1. grants'[g] = Added(t)
        BY <2>2, <3>3, AddsOne DEF TypeInv, GrantTypes
      <4>2. CASE Granting(t)
        <5>1. job[t].token \in Tokens /\ Spent(job[t].token) /\ Added(t).expires = job[t].token
          BY <1>0, <4>2 DEF UseInv, Granting, Added
        <5>2. job[t].pc = "grantLink" => job[t].token \in Links /\ Added(t).who = job[t].token
          BY <1>0 DEF JobOK, LinkSteps, Added
        <5>3. job[t].pc # "grantLink" => job[t].token \notin Links /\ Added(t).who \in Users
          BY <1>0, <4>2, SharingAssumption DEF JobOK, InvitationSteps, Added, Granting
        <5> QED BY <1>5, <3>1, <3>3, <4>1, <5>1, <5>2, <5>3, SharingAssumption DEF Sound, Spent
      <4>3. CASE At(t, "grant") /\ job[t].who \in Users
        <5>1. Added(t).expires = None /\ Added(t).who \notin Links
          BY <4>3, SharingAssumption DEF Added, At
        <5> QED BY <3>1, <3>3, <4>1, <5>1, SharingAssumption DEF Sound, Tokens
      <4> QED BY <2>2, <4>2, <4>3, AddsOne
    <3> QED BY <3>2, <3>3
  <2> QED BY <2>1, <2>2, GrantsChange
<1>2. \A g, h \in GrantIds : grants'[g] # None /\ grants'[h] # None /\ grants'[g].expires = grants'[h].expires =>
          g = h \/ grants'[g].expires = None
  <2>1. CASE Kept
    BY <2>1 DEF Kept, UseInv
  <2>2. ASSUME NEW t \in Clients, Adds(t) PROVE <1>2!:
    <3>1. grants' = [grants EXCEPT ![inserted + 1] = Added(t)] /\ grants[inserted + 1] = None /\ inserted + 1 \in GrantIds
      BY <2>2, AddsOne
    <3>2. Added(t).expires = None \/ \A g \in GrantIds : grants[g] # None => grants[g].expires # Added(t).expires
      <4>1. CASE Granting(t)
        BY <4>1 DEF UseInv, Granting, GrantsOf, Added
      <4>2. CASE At(t, "grant")
        BY <4>2 DEF Added, At
      <4> QED BY <2>2, <4>1, <4>2, AddsOne
    <3> QED BY <3>1, <3>2 DEF UseInv, TypeInv, GrantTypes
  <2> QED BY <2>1, <2>2, GrantsChange
<1>3. ASSUME NEW t \in Clients, Granting(t)' PROVE (Spent(job[t].token) /\ GrantsOf(job[t].token) = {})'
  <2>1. CASE Granting(t) /\ job'[t] = job[t]
    <3>1. job[t].token \in Tokens /\ Spent(job[t].token) /\ GrantsOf(job[t].token) = {}
      BY <1>0, <2>1 DEF UseInv
    <3>2. ASSUME NEW g \in GrantIds, grants'[g] # None PROVE grants'[g].expires # job[t].token
      <4>1. CASE Kept
        BY <3>1, <3>2, <4>1 DEF Kept, GrantsOf
      <4>2. ASSUME NEW v \in Clients, Adds(v) PROVE grants'[g].expires # job[t].token
        <5>1. v # t
          BY <1>3, <4>2, AddsOne
        <5>2. Added(v).expires # job[t].token
          BY <2>1, <3>1, <4>2, <5>1, AddsOne, SharingAssumption DEF UseInv, Added, At, Granting
        <5> QED BY <3>1, <3>2, <4>2, <5>2, AddsOne DEF GrantsOf, TypeInv, GrantTypes
      <4> QED BY <4>1, <4>2, GrantsChange
    <3> QED BY <1>5, <2>1, <3>1, <3>2 DEF GrantsOf, Spent
  <2>2. CASE Marks(t)
    <3>1. job'[t].token = job[t].token /\ grants' = grants
      BY <2>2 DEF Marks, grantVars
    <3> QED BY <2>2, <3>1, MarksSpend DEF GrantsOf
  <2> QED BY <1>3, <2>1, <2>2, GrantingFrom
<1>4. ASSUME NEW t \in Clients, NEW v \in Clients, Granting(t)', Granting(v)', job'[t].token = job'[v].token PROVE t = v
  <2>1. CASE Granting(t) /\ job'[t] = job[t] /\ Granting(v) /\ job'[v] = job[v]
    BY <1>4, <2>1 DEF UseInv
  <2>2. CASE Marks(t) /\ Granting(v) /\ job'[v] = job[v]
    BY <1>4, <2>2, MarksSpend DEF UseInv, Marks
  <2>3. CASE Marks(v) /\ Granting(t) /\ job'[t] = job[t]
    BY <1>4, <2>3, MarksSpend DEF UseInv, Marks
  <2>4. CASE Marks(t) /\ Moves(t) /\ Marks(v)
    <3>1. v = t \/ job'[v] = job[v]
      BY <2>4 DEF Moves
    <3>2. job[v].pc \in {"markLink", "markInvite"}
      BY <2>4 DEF Marks, MarkLink, MarkInvitation, At
    <3> QED BY <1>4, <3>1, <3>2 DEF Granting
  <2> QED BY <1>4, <2>1, <2>2, <2>3, <2>4, GrantingFrom
<1> QED BY <1>1, <1>2, <1>3, <1>4 DEF UseInv, Granting

LEMMA OneGrantOfToken == ASSUME UseInv, NEW tok \in Tokens PROVE Cardinality(GrantsOf(tok)) <= 1
<1>1. tok # None
  BY SharingAssumption
<1>2. CASE GrantsOf(tok) = {}
  BY <1>2, FS_EmptySet
<1>3. ASSUME NEW g \in GrantsOf(tok) PROVE Cardinality(GrantsOf(tok)) <= 1
  <2>1. GrantsOf(tok) = {g}
    BY <1>1, <1>3 DEF GrantsOf, UseInv
  <2> QED BY <2>1, FS_Singleton
<1> QED BY <1>2, <1>3

-----------------------------------------------------------------------------
(* What a session may see. *)

\* A row goes with the app, or goes on offering the same to the same.
LEMMA RowStable ==
    ASSUME TypeInv, MadeInv, [Next]_vars, NEW tok \in Tokens, tok \in made, (RowOf(tok) # None)'
    PROVE  /\ RowOf(tok) # None /\ ~DeleteApp
           /\ RowOf(tok)'.offer = RowOf(tok).offer
           /\ PrincipalOf(tok)' = PrincipalOf(tok)
<1> USE SharingAssumption DEF RowOf, PrincipalOf, Tokens
<1> DEFINE G == /\ RowOf(tok) # None /\ ~DeleteApp
                /\ RowOf(tok)'.offer = RowOf(tok).offer
                /\ PrincipalOf(tok)' = PrincipalOf(tok)
<1>1. CASE DeleteApp
  BY <1>1 DEF DeleteApp
<1>2. CASE link' = link /\ invite' = invite /\ ~DeleteApp
  BY <1>2
<1>3. ASSUME NEW t \in Clients, Works(t), ~DeleteApp PROVE G
  <2>1. JobOK(job[t])
    BY DEF TypeInv, JobsOK
  <2>2. CASE CreateLink(t)
    BY <1>3, <2>1, <2>2 DEF CreateLink, At, JobOK, LinkSteps, TypeInv, LinkTypes
  <2>3. CASE MarkLink(t)
    BY <1>3, <2>1, <2>3 DEF MarkLink, Redeemable, At, JobOK, LinkSteps, TypeInv, LinkTypes, LinkRow
  <2>4. CASE RevokeLink(t)
    BY <1>3, <2>1, <2>4 DEF RevokeLink, At, JobOK, LinkSteps, TypeInv, LinkTypes, LinkRow
  <2>5. CASE CreateInvitation(t)
    BY <1>3, <2>1, <2>5 DEF CreateInvitation, At, JobOK, InvitationSteps, TypeInv, InviteTypes
  <2>6. CASE MarkInvitation(t)
    BY <1>3, <2>1, <2>6 DEF MarkInvitation, At, JobOK, InvitationSteps, TypeInv, InviteTypes, InviteRow
  <2>7. CASE Attach(t) \/ RevokeInvitation(t)
    BY <1>3, <2>1, <2>7 DEF Attach, RevokeInvitation, At, JobOK, InvitationSteps, TypeInv, InviteTypes, InviteRow
  <2>8. CASE UNCHANGED tokenVars
    BY <1>2, <1>3, <2>8 DEF tokenVars
  <2> QED BY <1>3, <2>2, <2>3, <2>4, <2>5, <2>6, <2>7, <2>8
          DEF Works, Grant, Revoke, LinkStep, InvitationStep, GrantLink, RevokeLinkGrants, GrantInvitation, RevokeInvitationGrant
<1>4. ASSUME NEW t \in Clients, Ask(t), ~DeleteApp PROVE G
  BY <1>2, <1>4, AskFrame DEF Asks, tokenVars
<1> QED BY <1>1, <1>2, <1>3, <1>4 DEF Next, Works, CreateApp, SetEnabled, SetPreview, Expire, Crash, vars, tokenVars

\* A grant keeps what it gives as long as the row is there.
LEMMA GivesStable ==
    ASSUME TypeInv, MadeInv, UseInv, [Next]_vars, NEW tok \in Tokens, tok \in made, (RowOf(tok) # None)',
           NEW g \in GrantIds, Gives(g, tok)
    PROVE  Gives(g, tok)'
<1>1. /\ grants'[g] # None
      /\ grants'[g].who = grants[g].who /\ grants'[g].offer = grants[g].offer /\ grants'[g].expires = grants[g].expires
  <2>1. CASE Kept
    BY <2>1, RowStable DEF Kept, Gives
  <2>2. ASSUME NEW t \in Clients, Adds(t) PROVE grants'[g] = grants[g]
    BY <2>2, AddsOne DEF Gives, TypeInv, GrantTypes
  <2> QED BY <2>1, <2>2, GrantsChange DEF Gives
<1> QED BY <1>1, RowStable DEF Gives

\* The grant a thread adds is the one its token's row offers.
LEMMA AddedGives ==
    ASSUME TypeInv, MadeInv, UseInv, OfferInv, [Next]_vars, NEW t \in Clients, Adds(t), NEW tok \in Tokens,
           Granting(t), job[t].token = tok, (RowOf(tok) # None)'
    PROVE  \E g \in GrantIds : g = inserted + 1 /\ Gives(g, tok)'
<1>1. tok \in made /\ job[t].pc \in Uses /\ JobOK(job[t])
  BY DEF MadeInv, Granting, Uses, TypeInv, JobsOK
<1>2. RowOf(tok) # None /\ RowOf(tok)'.offer = RowOf(tok).offer /\ PrincipalOf(tok)' = PrincipalOf(tok)
  BY <1>1, RowStable
<1>3. job[t].offer = RowOf(tok).offer /\ (tok \in Invitations => job[t].who = PrincipalOf(tok))
  BY <1>1, <1>2 DEF OfferInv
<1>4. inserted + 1 \in GrantIds /\ grants'[inserted + 1] = Added(t)
  BY AddsOne DEF TypeInv, GrantTypes
<1>5. Added(t).who = PrincipalOf(tok) /\ Added(t).offer = RowOf(tok).offer /\ Added(t).expires = tok /\ Added(t) # None
  <2>1. CASE job[t].pc = "grantLink"
    <3>1. tok \in Links
      BY <1>1, <2>1 DEF JobOK, LinkSteps
    <3>2. Added(t) \in GrantRow
      BY <1>1, <2>1, <3>1 DEF Added, GrantRow, JobOK
    <3> QED BY <1>3, <2>1, <3>1, <3>2, SharingAssumption DEF Added, PrincipalOf
  <2>2. CASE job[t].pc = "grantInvite"
    <3>1. tok \in Invitations /\ tok \notin Links
      BY <1>1, <2>2, SharingAssumption DEF JobOK, InvitationSteps
    <3>2. Added(t) \in GrantRow
      BY <1>1, <2>2, <3>1 DEF Added, GrantRow, JobOK
    <3> QED BY <1>3, <2>2, <3>1, <3>2, SharingAssumption DEF Added
  <2> QED BY <2>1, <2>2 DEF Granting
<1>6. PICK g \in GrantIds : g = inserted + 1
  BY <1>4
<1>7. Gives(g, tok)'
  BY <1>2, <1>4, <1>5, <1>6 DEF Gives
<1> QED BY <1>6, <1>7

LEMMA OfferStep == ASSUME TypeInv, TypeInv', MadeInv, UseInv, OfferInv, [Next]_vars PROVE OfferInv'
<1>1. ASSUME NEW t \in Clients, NEW tok \in Tokens, (job[t].pc \in Uses /\ job[t].token = tok /\ RowOf(tok) # None)'
      PROVE  /\ job'[t].offer = RowOf(tok)'.offer
             /\ tok \in Invitations => job'[t].who = PrincipalOf(tok)'
             /\ job'[t].pc = "attach" => \E g \in GrantIds : g = job'[t].grant /\ Gives(g, tok)'
  <2>1. CASE job'[t] = job[t]
    <3>1. tok \in made /\ job[t].pc \in Uses /\ job[t].token = tok
      BY <1>1, <2>1 DEF MadeInv
    <3>2. RowOf(tok) # None /\ RowOf(tok)'.offer = RowOf(tok).offer /\ PrincipalOf(tok)' = PrincipalOf(tok)
      BY <1>1, <3>1, RowStable
    <3>3. \A g \in GrantIds : Gives(g, tok) => Gives(g, tok)'
      BY <1>1, <3>1, GivesStable
    <3> QED BY <2>1, <3>1, <3>2, <3>3 DEF OfferInv
  <2>2. CASE Ask(t)
    <3>1. PICK j : Asks(t, j) /\ AskedFor(j)
      BY <2>2, AskFrame
    <3>2. job'[t] = j /\ link' = link /\ invite' = invite
      BY <3>1, AsksMoves DEF Asks, tokenVars
    <3>3. j.pc # "attach"
      BY <3>1 DEF AskedFor
    <3>4. j.pc \in Uses /\ j.token = tok
      BY <1>1, <3>2
    <3>5. j.offer = RowOf(tok).offer /\ (tok \in Invitations => tok \notin Links /\ j.who = invite[tok].email)
      BY <3>1, <3>4, SharingAssumption DEF AskedFor
    <3> QED BY <3>2, <3>3, <3>5 DEF RowOf, PrincipalOf
  <2>3. CASE Works(t) /\ job'[t] # job[t]
    <3>1. Moves(t) /\ job'[t] # Idle
      BY <1>1, <2>3, WorksMoves DEF Idle, Frame, Uses
    <3>2. /\ job'[t].token = job[t].token /\ job'[t].who = job[t].who /\ job'[t].offer = job[t].offer
          /\ job[t].pc \in Uses
      BY <1>1, <3>1 DEF Moves, Onward, Uses
    <3>3. tok \in made /\ job[t].token = tok
      BY <1>1, <3>2 DEF MadeInv
    <3>4. RowOf(tok) # None /\ RowOf(tok)'.offer = RowOf(tok).offer /\ PrincipalOf(tok)' = PrincipalOf(tok)
      BY <1>1, <3>3, RowStable
    <3>5. job'[t].pc = "attach" => \E g \in GrantIds : g = job'[t].grant /\ Gives(g, tok)'
      <4> SUFFICES ASSUME job'[t].pc = "attach" PROVE \E g \in GrantIds : g = job'[t].grant /\ Gives(g, tok)'
        OBVIOUS
      <4>1. At(t, "grantInvite")
        BY <3>1 DEF Moves, Onward, At
      <4>2. GrantInvitation(t)
        BY <2>3, <4>1
           DEF Works, Grant, Revoke, LinkStep, InvitationStep, CreateLink, MarkLink, GrantLink, RevokeLink, RevokeLinkGrants, At,
               CreateInvitation, MarkInvitation, Attach, RevokeInvitation, RevokeInvitationGrant
      <4>3. Adds(t) /\ Granting(t)
        BY <4>1, <4>2 DEF Adds, Granting, At
      <4>4. \E g \in GrantIds : g = inserted + 1 /\ Gives(g, tok)'
        BY <1>1, <3>3, <4>3, AddedGives
      <4>5. job'[t].grant = inserted + 1
        BY <4>2, <4>3, AddsOne DEF GrantInvitation, Frame, TypeInv, JobsOK
      <4> QED BY <4>4, <4>5
    <3> QED BY <3>2, <3>3, <3>4, <3>5 DEF OfferInv
  <2>4. CASE Crash
    BY <1>1, <2>4 DEF Crash, Idle, Frame, Uses
  <2>5. ASSUME NEW v \in Clients, v # t, Ask(v) \/ Works(v) PROVE job'[t] = job[t]
    BY <2>5, AskFrame, AsksMoves, WorksMoves DEF Moves
  <2> QED BY <2>1, <2>2, <2>3, <2>4, <2>5 DEF Next, Works, DeleteApp, CreateApp, SetEnabled, SetPreview, Expire, vars
<1>2. ASSUME NEW tok \in session', (RowOf(tok) # None)' PROVE \E g \in GrantIds : Gives(g, tok)'
  <2>0. session \subseteq Tokens /\ session' \subseteq Tokens
    BY DEF TypeInv, WorldTypes
  <2>1. CASE tok \in session
    <3>1. tok \in made /\ tok \in Tokens
      BY <2>0, <2>1 DEF MadeInv
    <3>2. RowOf(tok) # None
      BY <1>2, <3>1, RowStable
    <3>3. PICK g \in GrantIds : Gives(g, tok)
      BY <2>1, <3>2 DEF OfferInv
    <3> QED BY <1>2, <3>1, <3>3, GivesStable
  <2>2. ASSUME NEW t \in Clients, GrantLink(t), tok = job[t].token PROVE \E g \in GrantIds : Gives(g, tok)'
    <3>1. Granting(t)
      BY <2>2 DEF GrantLink, At, Granting
    <3>2. ~HasLinkGrant(tok)
      <4>1. tok \in Links
        BY <2>2 DEF GrantLink, At, TypeInv, JobsOK, JobOK, LinkSteps
      <4> QED BY <2>2, <3>1, <4>1 DEF HasLinkGrant, Active, UseInv, Sound, GrantsOf
    <3>3. Adds(t)
      BY <2>2, <3>2 DEF Adds
    <3> QED BY <1>2, <2>0, <2>2, <3>1, <3>3, AddedGives
  <2>3. ASSUME NEW t \in Clients, Attach(t), tok = job[t].token PROVE \E g \in GrantIds : Gives(g, tok)'
    <3>1. job[t].pc \in Uses /\ job[t].pc = "attach" /\ tok \in made /\ tok \in Tokens
      BY <2>0, <2>3 DEF Attach, At, Uses, MadeInv
    <3>2. RowOf(tok) # None
      BY <1>2, <3>1, RowStable
    <3>3. PICK g \in GrantIds : Gives(g, tok)
      BY <2>3, <3>1, <3>2 DEF OfferInv
    <3> QED BY <1>2, <3>1, <3>3, GivesStable
  <2>4. tok \notin session => \E t \in Clients : (GrantLink(t) \/ Attach(t)) /\ tok = job[t].token
    <3>1. ASSUME NEW t \in Clients, Ask(t) PROVE session' = session
      BY <3>1, AskFrame DEF Asks
    <3>2. ASSUME NEW t \in Clients, LinkStep(t) PROVE session' = session \/ (GrantLink(t) /\ session' = session \cup {job[t].token})
      BY <3>2 DEF LinkStep, CreateLink, MarkLink, GrantLink, RevokeLink, RevokeLinkGrants
    <3>3. ASSUME NEW t \in Clients, InvitationStep(t) PROVE session' = session \/ (Attach(t) /\ session' = session \cup {job[t].token})
      BY <3>3 DEF InvitationStep, CreateInvitation, MarkInvitation, GrantInvitation, Attach, RevokeInvitation, RevokeInvitationGrant
    <3> QED BY <3>1, <3>2, <3>3 DEF Next, Grant, Revoke, DeleteApp, CreateApp, SetEnabled, SetPreview, Expire, Crash, vars
  <2> QED BY <2>1, <2>2, <2>3, <2>4
<1> QED BY <1>1, <1>2 DEF OfferInv

LEMMA SessionFromOffer == ASSUME TypeInv, OfferInv PROVE SessionOpensTarget
<1> SUFFICES ASSUME NEW tok \in session, exists, RowOf(tok) # None, tok \notin expired
             PROVE  \/ \E g \in GrantsOf(tok) : grants[g].revoked
                    \/ \A target \in Targets :
                          Served(target) /\ GoodFor(RowOf(tok).offer, target) => Allowed(PrincipalOf(tok), target)
  BY DEF SessionOpensTarget
<1>1. PICK g \in GrantIds : Gives(g, tok)
  BY DEF OfferInv
<1>2. CASE grants[g].revoked
  BY <1>1, <1>2 DEF Gives, GrantsOf
<1>3. CASE ~grants[g].revoked
  BY <1>1, <1>3 DEF Gives, Allowed, Matches, Active, Lapsed
<1> QED BY <1>2, <1>3

-----------------------------------------------------------------------------
(* What a revocation takes. *)

LEMMA FinalStep ==
    ASSUME TypeInv, MadeInv, [Next]_vars, NEW tok \in Tokens, IsRevoked(tok)
    PROVE  (IsRevoked(tok)' /\ (tok \in Links => link'[tok].uses = link[tok].uses)) \/ ~exists'
<1> USE SharingAssumption DEF IsRevoked, Tokens
<1> DEFINE G == (IsRevoked(tok)' /\ (tok \in Links => link'[tok].uses = link[tok].uses)) \/ ~exists'
<1>1. CASE link' = link /\ invite' = invite
  BY <1>1
<1>2. CASE DeleteApp
  BY <1>2 DEF DeleteApp
<1>3. ASSUME NEW t \in Clients, Works(t) PROVE G
  <2>1. JobOK(job[t])
    BY DEF TypeInv, JobsOK
  <2>2. CASE CreateLink(t)
    BY <2>1, <2>2 DEF CreateLink, At, JobOK, LinkSteps, TypeInv, LinkTypes, MadeInv
  <2>3. CASE MarkLink(t)
    BY <2>1, <2>3 DEF MarkLink, Redeemable, At, JobOK, LinkSteps, TypeInv, LinkTypes, LinkRow
  <2>4. CASE RevokeLink(t)
    BY <2>1, <2>4 DEF RevokeLink, At, JobOK, LinkSteps, TypeInv, LinkTypes, LinkRow
  <2>5. CASE CreateInvitation(t)
    BY <2>1, <2>5 DEF CreateInvitation, At, JobOK, InvitationSteps, TypeInv, InviteTypes, MadeInv
  <2>6. CASE MarkInvitation(t)
    BY <2>1, <2>6 DEF MarkInvitation, Acceptable, At, JobOK, InvitationSteps, TypeInv, InviteTypes, InviteRow
  <2>7. CASE Attach(t)
    <3>1. link' = link /\ job[t].token \in Invitations
      BY <2>1, <2>7 DEF Attach, At, JobOK, InvitationSteps
    <3>2. tok \in Invitations => invite[tok] # None /\ invite'[tok] # None /\ invite'[tok].status = invite[tok].status
      <4> SUFFICES ASSUME tok \in Invitations
                   PROVE  invite[tok] # None /\ invite'[tok] # None /\ invite'[tok].status = invite[tok].status
        OBVIOUS
      <4>1. invite[tok] # None /\ invite[tok] \in InviteRow
        BY DEF TypeInv, InviteTypes
      <4>2. CASE tok # job[t].token \/ invite[tok] = None
        BY <2>7, <4>1, <4>2 DEF Attach, TypeInv, InviteTypes
      <4>3. CASE tok = job[t].token
        <5>1. job[t].grant \in 0..MaxGrants
          BY <2>1 DEF JobOK, Job
        <5>2. invite'[tok] = [invite[tok] EXCEPT !.grant = job[t].grant]
          BY <2>7, <4>1, <4>3 DEF Attach, AttachedGrant, TypeInv, InviteTypes
        <5>3. invite'[tok] \in InviteRow /\ invite'[tok].status = invite[tok].status
          BY <4>1, <5>1, <5>2 DEF InviteRow
        <5>4. None \notin InviteRow
          BY SharingAssumption
        <5> QED BY <4>1, <5>3, <5>4
      <4> QED BY <4>2, <4>3
    <3> QED BY <3>1, <3>2
  <2>8. CASE RevokeInvitation(t)
    BY <2>1, <2>8 DEF RevokeInvitation, At, JobOK, InvitationSteps, TypeInv, InviteTypes, InviteRow
  <2>9. CASE UNCHANGED tokenVars
    BY <1>1, <2>9 DEF tokenVars
  <2> QED BY <1>3, <2>2, <2>3, <2>4, <2>5, <2>6, <2>7, <2>8, <2>9
          DEF Works, Grant, Revoke, LinkStep, InvitationStep, GrantLink, RevokeLinkGrants, GrantInvitation, RevokeInvitationGrant
<1>4. ASSUME NEW t \in Clients, Ask(t) PROVE G
  BY <1>1, <1>4, AskFrame DEF Asks, tokenVars
<1> QED BY <1>1, <1>2, <1>3, <1>4 DEF Next, Works, CreateApp, SetEnabled, SetPreview, Expire, Crash, vars, tokenVars

\* What a step of a handler may do to the row of a token it does, or does not, work on.
LEMMA RowSteps ==
    ASSUME TypeInv, NEW t \in Clients, Works(t), NEW tok \in Tokens
    PROVE  /\ IsRevoked(tok)' /\ ~IsRevoked(tok) => (RevokeLink(t) \/ RevokeInvitation(t)) /\ job[t].token = tok
           /\ tok \in Invitations /\ invite'[tok] # None =>
                \/ (Attach(t) \/ CreateInvitation(t)) /\ job[t].token = tok
                \/ invite[tok] # None /\ invite'[tok].grant = invite[tok].grant
<1> USE SharingAssumption DEF IsRevoked, Tokens
<1>1. JobOK(job[t])
  BY DEF TypeInv, JobsOK
<1>2. CASE CreateLink(t)
  BY <1>1, <1>2 DEF CreateLink, At, JobOK, LinkSteps, TypeInv, LinkTypes
<1>3. CASE MarkLink(t)
  BY <1>1, <1>3 DEF MarkLink, Redeemable, At, JobOK, LinkSteps, TypeInv, LinkTypes, LinkRow
<1>4. CASE RevokeLink(t)
  BY <1>1, <1>4 DEF RevokeLink, At, JobOK, LinkSteps, TypeInv, LinkTypes, LinkRow
<1>5. CASE CreateInvitation(t)
  BY <1>1, <1>5 DEF CreateInvitation, At, JobOK, InvitationSteps, TypeInv, InviteTypes
<1>6. CASE MarkInvitation(t)
  BY <1>1, <1>6 DEF MarkInvitation, At, JobOK, InvitationSteps, TypeInv, InviteTypes, InviteRow
<1>7. CASE Attach(t) \/ RevokeInvitation(t)
  BY <1>1, <1>7 DEF Attach, RevokeInvitation, At, JobOK, InvitationSteps, TypeInv, InviteTypes, InviteRow
<1>8. CASE UNCHANGED tokenVars
  BY <1>8 DEF tokenVars
<1> QED BY <1>2, <1>3, <1>4, <1>5, <1>6, <1>7, <1>8
        DEF Works, Grant, Revoke, LinkStep, InvitationStep, GrantLink, RevokeLinkGrants, GrantInvitation, RevokeInvitationGrant

\* Only a thread that marked the token adds a grant of it; nothing else makes one active.
LEMMA LeftStays ==
    ASSUME TypeInv, UseInv, [Next]_vars, NEW tok \in Tokens, NEW id, OnlyLeft(tok, id),
           \A t \in Clients : Adds(t) /\ Granting(t) => job[t].token # tok
    PROVE  OnlyLeft(tok, id)'
<1>1. CASE Kept
  BY <1>1 DEF Kept, OnlyLeft, GrantsOf, Active
<1>2. ASSUME NEW t \in Clients, Adds(t) PROVE OnlyLeft(tok, id)'
  <2>1. Added(t).expires # tok
    BY <1>2, AddsOne, SharingAssumption DEF Added, At, Granting
  <2>2. \A g \in GrantIds : grants'[g] # None /\ grants'[g].expires = tok => grants'[g] = grants[g]
    BY <1>2, <2>1, AddsOne DEF TypeInv, GrantTypes
  <2> QED BY <2>2 DEF OnlyLeft, GrantsOf, Active
<1> QED BY <1>1, <1>2, GrantsChange

\* A handler that goes on stays a use, or a revocation, of its token.
LEMMA BusyStays ==
    ASSUME TypeInv, NEW t \in Clients, Moves(t), NEW tok \in Tokens
    PROVE  /\ Busy(tok, Uses)' => Busy(tok, Uses)
           /\ Busy(tok, Revocations)' => Busy(tok, Revocations)
  BY SharingAssumption DEF Busy, Moves, Onward, Uses, Revocations, Idle, Frame

LEMMA TornAsk ==
    ASSUME TypeInv, NEW tok \in Tokens \ torn', TornOK(tok), NEW t \in Clients, Ask(t)
    PROVE  TornOK(tok)'
<1>1. PICK j : Asks(t, j) /\ JobOK(j) /\ AskedFor(j)
  BY AskFrame
<1>2. job[t] = Idle /\ job'[t] = j /\ \A v \in Clients \ {t} : job'[v] = job[v]
  BY <1>1, AsksMoves
<1>3. link' = link /\ invite' = invite /\ grants' = grants
  BY <1>1 DEF Asks, tokenVars, grantVars
<1>4. Idle.token # tok
  BY SharingAssumption DEF Idle, Frame
<1>5. j.token = tok => /\ ~(j.pc \in Uses /\ Busy(tok, Revocations))
                       /\ ~(j.pc \in Revocations /\ Busy(tok, Uses))
  BY <1>1 DEF Asks, Overlaps
<1>6. \A S : Busy(tok, S)' => Busy(tok, S) \/ (j.token = tok /\ j.pc \in S)
  BY <1>2 DEF Busy
<1>7. \A S : Busy(tok, S) => Busy(tok, S)'
  BY <1>2, <1>4 DEF Busy
<1>8. IsRevoked(tok)' = IsRevoked(tok) /\ \A id : OnlyLeft(tok, id)' = OnlyLeft(tok, id)
  BY <1>3 DEF IsRevoked, OnlyLeft, GrantsOf, Active
<1>9. ~(j.pc \in Uses /\ j.pc \in Revocations)
  BY DEF Uses, Revocations
<1>10. ~(Busy(tok, Uses) /\ Busy(tok, Revocations))'
  BY <1>5, <1>6, <1>9 DEF TornOK
<1>11. IsRevoked(tok)' => ~Busy(tok, Uses)'
  BY <1>1, <1>6, <1>8 DEF TornOK, AskedFor
<1>12. (tok \in Invitations /\ invite[tok] # None /\ ~Busy(tok, {"attach"}) => OnlyLeft(tok, invite[tok].grant))'
  BY <1>3, <1>7, <1>8 DEF TornOK, OnlyLeft, GrantsOf, Active
<1>13. ASSUME NEW v \in Clients, job'[v].token = tok, job'[v].pc \in {"killInvite", "killGrant"}
       PROVE  OnlyLeft(tok, job[v].grant)'
  <2>1. PICK id : id = job'[v].grant
    OBVIOUS
  <2>2. OnlyLeft(tok, id)
    <3>1. CASE v # t
      BY <1>2, <1>13, <2>1, <3>1 DEF TornOK
    <3>2. CASE v = t
      <4>1. j.pc = "killInvite" /\ j.token = tok /\ j.pc \in Revocations
        BY <1>1, <1>2, <1>13, <3>2 DEF AskedFor, Revocations
      <4>2. tok \in Invitations /\ invite[tok] # None /\ id = invite[tok].grant
        BY <1>1, <1>2, <2>1, <3>2, <4>1, SharingAssumption DEF AskedFor, RowOf
      <4>3. ~Busy(tok, {"attach"})
        BY <1>5, <4>1 DEF Busy, Uses
      <4> QED BY <4>2, <4>3 DEF TornOK
    <3> QED BY <3>1, <3>2
  <2> QED BY <1>8, <2>1, <2>2 DEF OnlyLeft, GrantsOf, Active
<1>14. IsRevoked(tok)' => BeingRevoked(tok)' \/ OnlyLeft(tok, 0)'
  BY <1>7, <1>8 DEF TornOK, BeingRevoked
<1> QED BY <1>10, <1>11, <1>12, <1>13, <1>14 DEF TornOK

LEMMA TornWorks ==
    ASSUME TypeInv, MadeInv, UseInv, OfferInv, NEW tok \in Tokens, TornOK(tok), NEW t \in Clients, Works(t), [Next]_vars
    PROVE  TornOK(tok)'
<1>1. Moves(t) /\ JobOK(job[t])
  BY WorksMoves DEF TypeInv, JobsOK
<1>2. /\ Busy(tok, Uses)' => Busy(tok, Uses)
      /\ Busy(tok, Revocations)' => Busy(tok, Revocations)
  BY <1>1, BusyStays
<1>3. ~Busy(tok, Uses) => \A id : OnlyLeft(tok, id) => OnlyLeft(tok, id)'
  <2>1. ~Busy(tok, Uses) => \A v \in Clients : Adds(v) /\ Granting(v) => job[v].token # tok
    BY DEF Busy, Uses, Granting
  <2> QED BY <2>1, LeftStays
<1>4. ~(Busy(tok, Uses) /\ Busy(tok, Revocations))'
  BY <1>2 DEF TornOK
<1>5. IsRevoked(tok)' => ~Busy(tok, Uses)'
  <2>1. ASSUME RevokeLink(t) \/ RevokeInvitation(t), job[t].token = tok PROVE Busy(tok, Revocations)
    BY <2>1 DEF RevokeLink, RevokeInvitation, At, Busy, Revocations
  <2> QED BY <1>2, <2>1, RowSteps DEF TornOK
<1>6. ASSUME tok \in Invitations, invite'[tok] # None, ~Busy(tok, {"attach"})'
      PROVE  OnlyLeft(tok, invite[tok].grant)'
  <2>0. PICK id : id = invite'[tok].grant
    OBVIOUS
  <2>1. OnlyLeft(tok, id)'
    <3>1. CASE Attach(t) /\ job[t].token = tok
      <4>1. invite[tok] # None /\ id = job[t].grant /\ grants' = grants
        BY <1>6, <2>0, <3>1 DEF Attach, AttachedGrant, grantVars, TypeInv, InviteTypes, InviteRow
      <4>2. PICK g \in GrantIds : g = job[t].grant /\ Gives(g, tok)
        BY <1>6, <3>1, <4>1, SharingAssumption DEF OfferInv, Attach, At, Uses, RowOf
      <4>3. OnlyLeft(tok, id)
        BY <4>1, <4>2, SharingAssumption DEF OnlyLeft, GrantsOf, Gives, UseInv
      <4> QED BY <4>1, <4>3 DEF OnlyLeft, GrantsOf, Active
    <3>2. CASE CreateInvitation(t) /\ job[t].token = tok
      <4>1. tok \notin made /\ grants' = grants
        BY <3>2 DEF CreateInvitation, grantVars
      <4>2. GrantsOf(tok) = {}
        BY <4>1 DEF GrantsOf, UseInv, Sound, Spent
      <4> QED BY <4>1, <4>2 DEF OnlyLeft, GrantsOf
    <3>3. CASE invite[tok] # None /\ invite'[tok].grant = invite[tok].grant /\ ~(Attach(t) /\ job[t].token = tok)
      <4>1. ASSUME Busy(tok, {"attach"}) PROVE FALSE
        <5>1. PICK v \in Clients : job[v].token = tok /\ job[v].pc = "attach"
          BY <4>1 DEF Busy
        <5>2. v = t
          BY <1>1, <1>6, <5>1 DEF Moves, Busy
        <5>3. Attach(t)
          BY <5>1, <5>2
             DEF Works, Grant, Revoke, LinkStep, InvitationStep, CreateLink, MarkLink, GrantLink, RevokeLink, RevokeLinkGrants, At,
                 CreateInvitation, MarkInvitation, GrantInvitation, RevokeInvitation, RevokeInvitationGrant
        <5> QED BY <3>3, <5>1, <5>2, <5>3
      <4>2. OnlyLeft(tok, id)
        BY <1>6, <2>0, <3>3, <4>1 DEF TornOK
      <4>3. ASSUME NEW v \in Clients, Adds(v), Granting(v), job[v].token = tok PROVE FALSE
        <5>1. JobOK(job[v]) /\ tok \notin Links
          BY <1>6, SharingAssumption DEF TypeInv, JobsOK
        <5>2. GrantInvitation(v)
          BY <4>3, <5>1 DEF Adds, Grant, GrantLink, At, Granting, JobOK, LinkSteps
        <5>3. job'[v].pc = "attach" /\ job'[v].token = tok
          BY <4>3, <5>2 DEF GrantInvitation, Frame, TypeInv, JobsOK
        <5> QED BY <1>6, <5>3 DEF Busy
      <4> QED BY <4>2, <4>3, LeftStays
    <3> QED BY <1>6, <3>1, <3>2, <3>3, RowSteps
  <2> QED BY <2>0, <2>1 DEF OnlyLeft, GrantsOf, Active
<1>7. ASSUME NEW v \in Clients, job'[v].token = tok, job'[v].pc \in {"killInvite", "killGrant"}
      PROVE  OnlyLeft(tok, job[v].grant)'
  <2>0. PICK id : id = job'[v].grant
    OBVIOUS
  <2>1. job[v].token = tok /\ job[v].pc \in {"killInvite", "killGrant"} /\ job[v].grant = id
    BY <1>1, <1>7, <2>0 DEF Moves, Onward, Idle, Frame
  <2>2. OnlyLeft(tok, id) /\ ~Busy(tok, Uses)
    BY <2>1 DEF TornOK, Busy, Revocations
  <2>3. OnlyLeft(tok, id)'
    BY <1>3, <2>2
  <2> QED BY <2>0, <2>3 DEF OnlyLeft, GrantsOf, Active
<1>8. ASSUME IsRevoked(tok)' PROVE BeingRevoked(tok)' \/ OnlyLeft(tok, 0)'
  <2>1. CASE ~IsRevoked(tok)
    <3>1. (RevokeLink(t) \/ RevokeInvitation(t)) /\ job[t].token = tok
      BY <1>8, <2>1, RowSteps
    <3>2. CASE Goes(t, "killGrants") \/ Goes(t, "killGrant")
      <4>1. job'[t].token = tok /\ job'[t].pc \in {"killGrants", "killGrant"}
        <5>1. CASE Goes(t, "killGrants")
          BY <3>1, <5>1 DEF Goes, TypeInv, JobsOK, JobOK, Job
        <5>2. CASE Goes(t, "killGrant")
          BY <3>1, <5>2 DEF Goes, TypeInv, JobsOK, JobOK, Job
        <5> QED BY <3>2, <5>1, <5>2
      <4> QED BY <4>1 DEF BeingRevoked, Busy
    <3>3. CASE RevokeInvitation(t) /\ job[t].grant = 0
      <4>1. OnlyLeft(tok, 0) /\ grants' = grants
        BY <3>1, <3>3 DEF TornOK, RevokeInvitation, At, grantVars
      <4> QED BY <4>1 DEF OnlyLeft, GrantsOf, Active
    <3> QED BY <3>1, <3>2, <3>3 DEF RevokeLink, RevokeInvitation
  <2>2. CASE IsRevoked(tok) /\ OnlyLeft(tok, 0)
    BY <1>3, <2>2 DEF TornOK
  <2>3. CASE IsRevoked(tok) /\ BeingRevoked(tok)
    <3>1. PICK v \in Clients : job[v].token = tok /\ job[v].pc \in {"killGrants", "killGrant"}
      BY <2>3 DEF BeingRevoked, Busy
    <3>2. CASE v # t
      BY <1>1, <3>1, <3>2 DEF Moves, BeingRevoked, Busy
    <3>3. CASE v = t /\ job[v].pc = "killGrants"
      <4>1. RevokeLinkGrants(t) /\ tok \in Links
        BY <1>1, <3>1, <3>3
           DEF Works, Grant, Revoke, LinkStep, InvitationStep, CreateLink, MarkLink, GrantLink, RevokeLink, At, JobOK, LinkSteps,
               CreateInvitation, MarkInvitation, GrantInvitation, Attach, RevokeInvitation, RevokeInvitationGrant
      <4>2. grants' = Revoked({g \in GrantIds : Active(g) /\ grants[g].who = tok})
        BY <3>1, <3>3, <4>1 DEF RevokeLinkGrants
      <4>3. ASSUME NEW g \in GrantIds, grants'[g] # None, grants'[g].expires = tok PROVE grants'[g].revoked
        <5>1. grants[g] # None /\ grants[g].expires = tok
          BY <4>1, <4>2, <4>3, RevokedKeeps DEF Kept, RevokeLinkGrants
        <5>2. grants[g].who = tok /\ grants[g] \in GrantRow
          BY <4>1, <5>1 DEF UseInv, Sound, TypeInv, GrantTypes
        <5> QED BY <4>2, <5>1, <5>2 DEF Revoked, Active, GrantRow
      <4> QED BY <4>3 DEF OnlyLeft, GrantsOf, Active
    <3>4. CASE v = t /\ job[v].pc = "killGrant"
      <4>1. RevokeInvitationGrant(t)
        BY <3>1, <3>4
           DEF Works, Grant, Revoke, LinkStep, InvitationStep, CreateLink, MarkLink, GrantLink, RevokeLink, RevokeLinkGrants, At,
               CreateInvitation, MarkInvitation, GrantInvitation, Attach, RevokeInvitation
      <4>2. grants' = Revoked({job[t].grant}) /\ OnlyLeft(tok, job[t].grant)
        BY <3>1, <3>4, <4>1 DEF RevokeInvitationGrant, TornOK
      <4>3. ASSUME NEW g \in GrantIds, grants'[g] # None, grants'[g].expires = tok PROVE grants'[g].revoked
        <5>1. grants[g] # None /\ grants[g].expires = tok /\ (grants[g].revoked => grants'[g].revoked)
          BY <4>1, <4>2, <4>3, RevokedKeeps DEF Kept, RevokeInvitationGrant
        <5>2. grants[g] \in GrantRow /\ (g = job[t].grant \/ ~Active(g))
          BY <4>2, <5>1 DEF OnlyLeft, GrantsOf, TypeInv, GrantTypes
        <5> QED BY <4>2, <5>1, <5>2 DEF Revoked, Active, GrantRow
      <4> QED BY <4>3 DEF OnlyLeft, GrantsOf, Active
    <3> QED BY <3>1, <3>2, <3>3, <3>4
  <2> QED BY <2>1, <2>2, <2>3 DEF TornOK
<1> QED BY <1>4, <1>5, <1>6, <1>7, <1>8 DEF TornOK

LEMMA TornStep == ASSUME TypeInv, MadeInv, UseInv, OfferInv, TornInv, [Next]_vars PROVE TornInv'
<1> SUFFICES ASSUME NEW tok \in Tokens \ torn' PROVE TornOK(tok)'
  BY DEF TornInv
<1>1. torn \subseteq torn'
  <2>1. ASSUME NEW t \in Clients, Ask(t) PROVE torn \subseteq torn'
    BY <2>1, AskFrame DEF Asks
  <2>2. ASSUME NEW t \in Clients, Works(t) PROVE torn' = torn
    BY <2>2 DEF Works, Grant, Revoke, LinkStep, InvitationStep, CreateLink, MarkLink, GrantLink, RevokeLink, RevokeLinkGrants,
       CreateInvitation, MarkInvitation, GrantInvitation, Attach, RevokeInvitation, RevokeInvitationGrant, worldVars, appVars
  <2>3. CASE Crash
    BY <2>3, SharingAssumption DEF Crash, TypeInv, WorldTypes
  <2> QED BY <2>1, <2>2, <2>3 DEF Next, Works, DeleteApp, CreateApp, SetEnabled, SetPreview, Expire, vars
<1>2. TornOK(tok)
  BY <1>1 DEF TornInv
<1>3. ASSUME NEW t \in Clients, Ask(t) PROVE TornOK(tok)'
  BY <1>2, <1>3, TornAsk
<1>4. ASSUME NEW t \in Clients, Works(t) PROVE TornOK(tok)'
  BY <1>2, <1>4, TornWorks
<1>5. CASE DeleteApp
  BY <1>2, <1>5, SharingAssumption DEF DeleteApp, TornOK, IsRevoked, Busy, OnlyLeft, GrantsOf
<1>6. CASE link' = link /\ invite' = invite /\ grants' = grants /\ job' = job
  BY <1>2, <1>6 DEF TornOK, IsRevoked, Busy, BeingRevoked, OnlyLeft, GrantsOf, Active
<1>7. CASE Crash
  <2>1. /\ \A t \in Clients : job[t].token # tok
        /\ \A t \in Clients : job'[t].pc = "idle"
        /\ link' = link /\ invite' = invite /\ grants' = grants
    BY <1>7, SharingAssumption DEF Crash, tokenVars, grantVars, Idle, Frame
  <2>2. \A S : ~Busy(tok, S)
    BY <2>1 DEF Busy
  <2>3. ~Busy(tok, Uses)' /\ ~Busy(tok, Revocations)'
    BY <2>1 DEF Busy, Uses, Revocations
  <2>4. OnlyLeft(tok, 0)' = OnlyLeft(tok, 0) /\ IsRevoked(tok)' = IsRevoked(tok)
    BY <2>1 DEF OnlyLeft, GrantsOf, Active, IsRevoked
  <2>5. (tok \in Invitations /\ invite[tok] # None => OnlyLeft(tok, invite[tok].grant))'
    BY <1>2, <2>1, <2>2 DEF TornOK, OnlyLeft, GrantsOf, Active
  <2> QED BY <1>2, <2>1, <2>2, <2>3, <2>4, <2>5 DEF TornOK, BeingRevoked
<1> QED BY <1>3, <1>4, <1>5, <1>6, <1>7 DEF Next, Works, CreateApp, SetEnabled, SetPreview, Expire, vars, tokenVars, grantVars

-----------------------------------------------------------------------------

LEMMA IInvInit == Init => IInv
<1> SUFFICES ASSUME Init PROVE IInv
  OBVIOUS
<1>1. TypeInv
  BY TypeInit
<1>2. MadeInv /\ UseInv /\ OfferInv /\ TornInv
  BY SharingAssumption DEF Init, MadeInv, UseInv, OfferInv, TornInv, TornOK, Idle, Frame, Uses, Revocations, Granting, Busy,
     IsRevoked, OnlyLeft, GrantsOf, Tokens
<1> QED BY <1>1, <1>2 DEF IInv

LEMMA IInvStep == IInv /\ [Next]_vars => IInv'
<1> SUFFICES ASSUME IInv, [Next]_vars PROVE IInv'
  OBVIOUS
<1>1. TypeInv'
  BY TypeStep DEF IInv
<1> QED BY <1>1, MadeStep, UseStep, OfferStep, TornStep DEF IInv

\* A link or an invitation is good for one grant, whatever opens it, revokes it, deletes
\* its app or cuts it off.
THEOREM OneUseHolds == Spec => []OneUse
<1>1. IInv => OneUse
  <2> SUFFICES ASSUME IInv PROVE OneUse
    OBVIOUS
  <2>1. \A tok \in Tokens : Cardinality(GrantsOf(tok)) <= 1
    BY OneGrantOfToken DEF IInv
  <2>2. \A l \in Links : link[l] # None => link[l].uses <= 1
    BY DEF IInv, TypeInv, LinkTypes, LinkRow
  <2> QED BY <2>1, <2>2 DEF OneUse
<1> QED BY <1>1, IInvInit, IInvStep, PTL DEF Spec

\* Whoever a link or an invitation sends to the dashboard finds the grant there, with what
\* was offered, until somebody revokes it, it lapses or the app goes.
THEOREM SessionsOpen == Spec => []SessionOpensTarget
<1>1. IInv => SessionOpensTarget
  BY SessionFromOffer DEF IInv
<1> QED BY <1>1, IInvInit, IInvStep, PTL DEF Spec

\* A revocation that no use overlaps and no death cuts off takes the access it gave.
THEOREM RevocationReaches == Spec => []RevocationReachesGrants
<1>1. IInv => RevocationReachesGrants
  BY SharingAssumption DEF IInv, TornInv, TornOK, RevocationReachesGrants, OnlyLeft, GrantsOf, GrantIds
<1> QED BY <1>1, IInvInit, IInvStep, PTL DEF Spec

\* No step brings a revoked link or invitation back, or uses it once more.
THEOREM RevocationIsFinal == Spec => RevokedIsFinal
<1>1. ASSUME IInv, [Next]_vars
      PROVE  [\A tok \in Tokens : IsRevoked(tok) =>
                 \/ IsRevoked(tok)' /\ (tok \in Links => link'[tok].uses = link[tok].uses)
                 \/ ~exists']_vars
  BY <1>1, FinalStep DEF IInv
<1> QED BY <1>1, IInvInit, IInvStep, PTL DEF Spec, RevokedIsFinal
=============================================================================
