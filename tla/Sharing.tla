-------------------------------- MODULE Sharing --------------------------------
(***************************************************************************)
(* Access to one hosted dashboard: share links, invitations, grants, and   *)
(* the decision the authorization service takes from them.                 *)
(*                                                                         *)
(* A handler makes one SQLite transaction after another, and nothing keeps *)
(* two handlers apart: a link is marked before its grant is inserted, an   *)
(* invitation is accepted before its grant exists and before it knows the  *)
(* grant, a link is revoked before its grants are.  The process may die    *)
(* between any two.  Share policies, events, mail and the catalog are left *)
(* out: no step modelled here reads them.                                  *)
(*                                                                         *)
(* An operator named D_variant is D with one plausible mistake in it; the  *)
(* specification does not use it.                                          *)
(***************************************************************************)
EXTENDS Integers, FiniteSets

CONSTANTS
    Links,          \* share_links rows that may be created; ids are never used again
    Invitations,    \* app_invitations rows that may be created
    Users,          \* principals of e-mail addresses
    Clients,        \* threads of the WSGI server
    Offers,         \* pairs of role and scope that are asked for
    PreviewRevs,    \* revisions that may be previewed
    MaxGrants,      \* bound: rows of app_acl_entries ever inserted
    MaxCuts,        \* bound: deletions of the app and deaths of the process, together
    None            \* no row

Tokens == Links \cup Invitations
\* What a browser may ask for: the live app, or the preview of a revision.
Targets == {"live"} \cup PreviewRevs
GrantIds == 1..MaxGrants
Roles == {"viewer", "preview_viewer", "editor", "owner"}
Scopes == {"live", "preview", "manage", "all"}

LinkRow == [offer : Offers, uses : 0..1, revoked : BOOLEAN]
InviteRow == [offer : Offers, email : Users, status : {"pending", "accepted", "revoked"}, grant : 0..MaxGrants]
GrantRow == [who : Links \cup Users, offer : Offers, expires : Tokens \cup {None}, revoked : BOOLEAN]

ASSUME SharingAssumption ==
    /\ MaxGrants \in Nat /\ MaxCuts \in Nat
    /\ Offers \subseteq Roles \X Scopes
    /\ Links \cap Invitations = {} /\ Links \cap Users = {}
    /\ "live" \notin PreviewRevs
    /\ None \notin PreviewRevs \cup Tokens \cup Users \cup LinkRow \cup InviteRow \cup GrantRow

VARIABLES
    exists,         \* whether the app has its row
    enabled,        \* apps.enabled: the live app is published
    preview,        \* apps.preview_revision_number, or None
    link,           \* share_links
    invite,         \* app_invitations
    grants,         \* app_acl_entries
    made,           \* tokens ever created
    inserted,       \* grants ever inserted: ids are AUTOINCREMENT
    expired,        \* tokens whose expires_at has passed
    session,        \* tokens whose principal a browser keeps in its session
    job,            \* what each thread is doing
    torn,           \* tokens with a use and a revocation that overlapped, or a request cut off
    cuts            \* deletions and deaths so far

vars == <<exists, enabled, preview, link, invite, grants, made, inserted, expired, session, job, torn, cuts>>
tokenVars == <<link, invite, made>>
grantVars == <<grants, inserted>>
appVars == <<exists, enabled, preview>>
worldVars == <<appVars, expired, torn, cuts>>

-----------------------------------------------------------------------------
(* Types *)

Steps == {"idle", "newLink", "newInvite", "grant", "revoke",
          "markLink", "grantLink", "markInvite", "grantInvite", "attach",
          "killLink", "killGrants", "killInvite", "killGrant"}
Job == [pc : Steps, token : Tokens \cup {None}, who : Links \cup Users \cup {None},
        offer : Offers \cup {None}, grant : 0..MaxGrants]

\* The locals of a handler.
Frame(pc, token, who, offer, grant) == [pc |-> pc, token |-> token, who |-> who, offer |-> offer, grant |-> grant]
Idle == Frame("idle", None, None, None, 0)

TypeOK ==
    /\ exists \in BOOLEAN /\ enabled \in BOOLEAN
    /\ preview \in PreviewRevs \cup {None}
    /\ link \in [Links -> LinkRow \cup {None}]
    /\ invite \in [Invitations -> InviteRow \cup {None}]
    /\ grants \in [GrantIds -> GrantRow \cup {None}]
    /\ made \subseteq Tokens
    /\ inserted \in 0..MaxGrants
    /\ expired \subseteq Tokens
    /\ session \subseteq Tokens
    /\ job \in [Clients -> Job]
    /\ torn \subseteq Tokens
    /\ cuts \in 0..MaxCuts

Init ==
    /\ exists = TRUE /\ enabled = TRUE
    /\ preview = None
    /\ link = [l \in Links |-> None]
    /\ invite = [i \in Invitations |-> None]
    /\ grants = [g \in GrantIds |-> None]
    /\ made = {}
    /\ inserted = 0
    /\ expired = {}
    /\ session = {}
    /\ job = [t \in Clients |-> Idle]
    /\ torn = {}
    /\ cuts = 0

-----------------------------------------------------------------------------
(* The decision *)

\* What a role may look at: the role-capability matrix.
MayView(role) ==
    CASE role = "viewer" -> {"live"}
      [] role = "preview_viewer" -> {"preview"}
      [] role \in {"editor", "owner"} -> {"live", "preview"}

\* _grant_scope_matches.
Covers(scope, target) == scope \in {target, "all"}

Active(g) == grants[g] # None /\ ~grants[g].revoked
Lapsed(g) == grants[g].expires \in expired

\* An offer, or a grant, of a role and a scope is good for a target.
KindOf(target) == IF target = "live" THEN "live" ELSE "preview"
GoodFor(offer, target) == Covers(offer[2], KindOf(target)) /\ KindOf(target) \in MayView(offer[1])

\* _matching_grant: a grant that lets a principal see the live app or its preview.
Matches(g, who, target) ==
    /\ Active(g) /\ ~Lapsed(g)
    /\ grants[g].who = who
    /\ GoodFor(grants[g].offer, target)

\* The app is published, or the revision is the one that is previewed.
Served(target) == IF target = "live" THEN enabled ELSE preview = target

\* The decision on a request of a principal without a global role, for an app without a
\* public policy.
Allowed(who, target) == exists /\ Served(target) /\ \E g \in GrantIds : Matches(g, who, target)

-----------------------------------------------------------------------------
(* Rows *)

\* grant_app_access.
Insert(who, offer, expires) ==
    /\ inserted < MaxGrants
    /\ inserted' = inserted + 1
    /\ grants' = [grants EXCEPT ![inserted + 1] =
                    [who |-> who, offer |-> offer, expires |-> expires, revoked |-> FALSE]]

\* revoke_app_access for the rows of a set.
Revoked(ids) == [g \in GrantIds |-> IF g \in ids /\ Active(g) THEN [grants[g] EXCEPT !.revoked = TRUE] ELSE grants[g]]

Uses == {"markLink", "grantLink", "markInvite", "grantInvite", "attach"}
Revocations == {"killLink", "killGrants", "killInvite", "killGrant"}

\* A thread works on the token in one of some steps.
Busy(tok, steps) == \E t \in Clients : job[t].token = tok /\ job[t].pc \in steps

\* A use and a revocation of one token that overlap.
Overlaps(j) == \/ j.pc \in Uses /\ Busy(j.token, Revocations)
               \/ j.pc \in Revocations /\ Busy(j.token, Uses)

\* _require_existing_app, then the rest of the handler.
Asks(t, j) ==
    /\ job[t] = Idle /\ exists
    /\ job' = [job EXCEPT ![t] = j]
    /\ torn' = IF Overlaps(j) THEN torn \cup {j.token} ELSE torn
    /\ UNCHANGED <<tokenVars, grantVars, appVars, expired, cuts, session>>

Goes(t, pc) == job' = [job EXCEPT ![t].pc = pc]
Ends(t) == job' = [job EXCEPT ![t] = Idle]
At(t, pc) == job[t].pc = pc

-----------------------------------------------------------------------------
(* Direct grants *)

AskGrant(t, u, offer) == Asks(t, Frame("grant", None, u, offer, 0))

Grant(t) ==
    /\ At(t, "grant")
    /\ Insert(job[t].who, job[t].offer, None)
    /\ Ends(t)
    /\ UNCHANGED <<tokenVars, worldVars, session>>

\* app_share_revoke by grant id: any grant, also one a link or an invitation made.
AskRevoke(t, g) == Asks(t, Frame("revoke", None, None, None, g))

Revoke(t) ==
    /\ At(t, "revoke")
    /\ grants' = Revoked({job[t].grant})
    /\ Ends(t)
    /\ UNCHANGED <<inserted, tokenVars, worldVars, session>>

-----------------------------------------------------------------------------
(* Share links *)

AskLink(t, l, offer) == l \notin made /\ Asks(t, Frame("newLink", l, None, offer, 0))

CreateLink(t) ==
    LET l == job[t].token IN
    /\ At(t, "newLink") /\ l \notin made
    /\ link' = [link EXCEPT ![l] = [offer |-> job[t].offer, uses |-> 0, revoked |-> FALSE]]
    /\ made' = made \cup {l}
    /\ Ends(t)
    /\ UNCHANGED <<invite, grantVars, worldVars, session>>

\* Whether a link may be used once more: max_uses is 1.
Redeemable_always(l) == link[l] # None /\ ~link[l].revoked
Redeemable(l) == link[l] # None /\ ~link[l].revoked /\ link[l].uses < 1

\* redeem_share_link up to the mark: revoked, used, expired, and the app.
OpenLink(t, l) ==
    /\ link[l] # None /\ ~link[l].revoked /\ link[l].uses < 1 /\ l \notin expired
    /\ Asks(t, Frame("markLink", l, None, link[l].offer, 0))

\* mark_share_link_redeemed.
MarkLink(t) ==
    LET l == job[t].token IN
    /\ At(t, "markLink")
    /\ \/ /\ Redeemable(l)
          /\ link' = [link EXCEPT ![l].uses = @ + 1]
          /\ Goes(t, "grantLink")
       \/ /\ ~Redeemable(l)
          /\ UNCHANGED link
          /\ Ends(t)
    /\ UNCHANGED <<invite, made, grantVars, worldVars, session>>

\* Whether the link's principal has an active grant already.
HasLinkGrant_ofAnyone(l) == \E g \in GrantIds : Active(g)
HasLinkGrant(l) == \E g \in GrantIds : Active(g) /\ grants[g].who = l

\* The grant of the link's principal, then the session.
GrantLink(t) ==
    LET l == job[t].token IN
    /\ At(t, "grantLink")
    /\ IF HasLinkGrant(l) THEN UNCHANGED grantVars ELSE Insert(l, job[t].offer, l)
    /\ session' = session \cup {l}
    /\ Ends(t)
    /\ UNCHANGED <<tokenVars, worldVars>>

AskRevokeLink(t, l) == link[l] # None /\ Asks(t, Frame("killLink", l, None, None, 0))

\* revoke_share_link: the row, then its grants.
RevokeLink(t) ==
    LET l == job[t].token IN
    /\ At(t, "killLink")
    /\ link' = IF link[l] = None THEN link ELSE [link EXCEPT ![l].revoked = TRUE]
    /\ Goes(t, "killGrants")
    /\ UNCHANGED <<invite, made, grantVars, worldVars, session>>

RevokeLinkGrants(t) ==
    /\ At(t, "killGrants")
    /\ grants' = Revoked({g \in GrantIds : Active(g) /\ grants[g].who = job[t].token})
    /\ Ends(t)
    /\ UNCHANGED <<inserted, tokenVars, worldVars, session>>

-----------------------------------------------------------------------------
(* Invitations *)

AskInvitation(t, i, u, offer) ==
    i \notin made /\ Asks(t, Frame("newInvite", i, u, offer, 0))

CreateInvitation(t) ==
    LET i == job[t].token IN
    /\ At(t, "newInvite") /\ i \notin made
    /\ invite' = [invite EXCEPT ![i] = [offer |-> job[t].offer, email |-> job[t].who, status |-> "pending", grant |-> 0]]
    /\ made' = made \cup {i}
    /\ Ends(t)
    /\ UNCHANGED <<link, grantVars, worldVars, session>>

\* accept_invitation up to the mark.
OpenInvitation(t, i) ==
    /\ invite[i] # None /\ invite[i].status = "pending" /\ i \notin expired
    /\ Asks(t, Frame("markInvite", i, invite[i].email, invite[i].offer, 0))

\* The statuses mark_invitation_accepted accepts from.
Acceptable_revoked(status) == status # "accepted"
Acceptable(status) == status = "pending"

MarkInvitation(t) ==
    LET i == job[t].token IN
    /\ At(t, "markInvite")
    /\ \/ /\ invite[i] # None /\ Acceptable(invite[i].status)
          /\ invite' = [invite EXCEPT ![i].status = "accepted"]
          /\ Goes(t, "grantInvite")
       \/ /\ invite[i] # None => ~Acceptable(invite[i].status)
          /\ UNCHANGED invite
          /\ Ends(t)
    /\ UNCHANGED <<link, made, grantVars, worldVars, session>>

GrantInvitation(t) ==
    /\ At(t, "grantInvite")
    /\ Insert(job[t].who, job[t].offer, job[t].token)
    /\ job' = [job EXCEPT ![t] = Frame("attach", job[t].token, job[t].who, job[t].offer, inserted')]
    /\ UNCHANGED <<tokenVars, worldVars, session>>

\* The grant id an accepted invitation is given.
AttachedGrant_none(t) == 0
AttachedGrant(t) == job[t].grant

\* attach_invitation_grant, then the session.
Attach(t) ==
    LET i == job[t].token IN
    /\ At(t, "attach")
    /\ invite' = IF invite[i] = None THEN invite ELSE [invite EXCEPT ![i].grant = AttachedGrant(t)]
    /\ session' = session \cup {i}
    /\ Ends(t)
    /\ UNCHANGED <<link, made, grantVars, worldVars>>

\* revoke_invitation reads the row, and its grant, before anything else.
AskRevokeInvitation(t, i) ==
    invite[i] # None /\ Asks(t, Frame("killInvite", i, None, None, invite[i].grant))

RevokeInvitation(t) ==
    LET i == job[t].token IN
    /\ At(t, "killInvite")
    /\ invite' = IF invite[i] = None THEN invite ELSE [invite EXCEPT ![i].status = "revoked"]
    /\ IF job[t].grant = 0 THEN Ends(t) ELSE Goes(t, "killGrant")
    /\ UNCHANGED <<link, made, grantVars, worldVars, session>>

RevokeInvitationGrant(t) ==
    /\ At(t, "killGrant")
    /\ grants' = Revoked({job[t].grant})
    /\ Ends(t)
    /\ UNCHANGED <<inserted, tokenVars, worldVars, session>>

-----------------------------------------------------------------------------
(* The app, time, death *)

\* delete_app: every row of the app in one transaction, beside whatever is going on.
DeleteApp ==
    /\ exists /\ cuts < MaxCuts
    /\ exists' = FALSE /\ enabled' = TRUE /\ preview' = None
    /\ cuts' = cuts + 1
    /\ link' = [l \in Links |-> None]
    /\ invite' = [i \in Invitations |-> None]
    /\ grants' = [g \in GrantIds |-> None]
    /\ UNCHANGED <<made, inserted, expired, session, job, torn>>

\* An app of the same name is created later, published and without a preview.
CreateApp ==
    /\ ~exists
    /\ exists' = TRUE
    /\ UNCHANGED <<enabled, preview, tokenVars, grantVars, expired, session, job, torn, cuts>>

\* A deployment publishes the app or takes it back (update_exposure).
SetEnabled ==
    /\ exists
    /\ enabled' = ~enabled
    /\ UNCHANGED <<exists, preview, tokenVars, grantVars, expired, session, job, torn, cuts>>

\* A deployment starts a preview, replaces it, or ends it (set_preview_revision).
SetPreview ==
    /\ exists
    /\ preview' \in (PreviewRevs \cup {None}) \ {preview}
    /\ UNCHANGED <<exists, enabled, tokenVars, grantVars, expired, session, job, torn, cuts>>

Expire(tok) ==
    /\ tok \in made \ expired
    /\ expired' = expired \cup {tok}
    /\ UNCHANGED <<appVars, tokenVars, grantVars, session, job, torn, cuts>>

Crash ==
    /\ cuts < MaxCuts
    /\ cuts' = cuts + 1
    /\ torn' = (torn \cup {job[t].token : t \in Clients}) \ {None}
    /\ job' = [t \in Clients |-> Idle]
    /\ UNCHANGED <<appVars, tokenVars, grantVars, expired, session>>

-----------------------------------------------------------------------------

LinkStep(t) == CreateLink(t) \/ MarkLink(t) \/ GrantLink(t) \/ RevokeLink(t) \/ RevokeLinkGrants(t)

InvitationStep(t) ==
    \/ CreateInvitation(t) \/ MarkInvitation(t) \/ GrantInvitation(t) \/ Attach(t)
    \/ RevokeInvitation(t) \/ RevokeInvitationGrant(t)

Ask(t) ==
    \/ \E u \in Users, o \in Offers : AskGrant(t, u, o)
    \/ \E g \in GrantIds : AskRevoke(t, g)
    \/ \E l \in Links, o \in Offers : AskLink(t, l, o)
    \/ \E l \in Links : OpenLink(t, l) \/ AskRevokeLink(t, l)
    \/ \E i \in Invitations, u \in Users, o \in Offers : AskInvitation(t, i, u, o)
    \/ \E i \in Invitations : OpenInvitation(t, i) \/ AskRevokeInvitation(t, i)

Next ==
    \/ \E t \in Clients : Ask(t) \/ Grant(t) \/ Revoke(t) \/ LinkStep(t) \/ InvitationStep(t)
    \/ DeleteApp \/ CreateApp \/ SetEnabled \/ SetPreview
    \/ \E tok \in Tokens : Expire(tok)
    \/ Crash

Spec == Init /\ [][Next]_vars

-----------------------------------------------------------------------------
(* Properties *)

\* The grants ever made for a token, as far as their rows are left.
GrantsOf(tok) == {g \in GrantIds : grants[g] # None /\ grants[g].expires = tok}

\* A link or an invitation is good for one grant, however many browsers open it at once,
\* are refused, revoke it, delete its app or are cut off half-way.
OneUse ==
    /\ \A tok \in Tokens : Cardinality(GrantsOf(tok)) <= 1
    /\ \A l \in Links : link[l] # None => link[l].uses <= 1

\* A thread is on its way to the grants of a revoked token.
BeingRevoked(tok) == Busy(tok, {"killGrants", "killGrant"})

IsRevoked(tok) ==
    \/ tok \in Links /\ link[tok] # None /\ link[tok].revoked
    \/ tok \in Invitations /\ invite[tok] # None /\ invite[tok].status = "revoked"

\* Revoking a link or an invitation takes the access it gave: a grant of a revoked token
\* is revoked too, or about to be, unless a use of the token and the revocation overlapped
\* or the process died in the middle of one.
RevocationReachesGrants ==
    \A tok \in Tokens : IsRevoked(tok) /\ tok \notin torn =>
        BeingRevoked(tok) \/ \A g \in GrantsOf(tok) : ~Active(g)

\* Revocation is final: no acceptance or redemption that checked the token before brings
\* it back.
RevokedIsFinal ==
    [][\A tok \in Tokens : IsRevoked(tok) =>
          \/ IsRevoked(tok)' /\ (tok \in Links => link'[tok].uses = link[tok].uses)
          \/ ~exists']_vars

\* The row of a token, and the principal it is for.
RowOf(tok) == IF tok \in Links THEN link[tok] ELSE invite[tok]
PrincipalOf(tok) == IF tok \in Links THEN tok ELSE invite[tok].email

\* Whoever is sent to the dashboard by a link or an invitation may look at what it offers,
\* as far as it is served: at the live app while it is published, at the preview of the
\* revision that is previewed.  It stays so until the grant is revoked, it lapses, or the
\* app goes: no other request, no deployment, and no grant somebody else has, keeps the
\* grant from being there when the browser arrives.
SessionOpensTarget ==
    \A tok \in session : exists /\ RowOf(tok) # None /\ tok \notin expired =>
        \/ \E g \in GrantsOf(tok) : grants[g].revoked
        \/ \A target \in Targets :
              Served(target) /\ GoodFor(RowOf(tok).offer, target) => Allowed(PrincipalOf(tok), target)
=============================================================================
