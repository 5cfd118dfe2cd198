------------------------------ MODULE Deployment ------------------------------
(***************************************************************************)
(* The deployment core of the control plane: Git desired state (the        *)
(* authority), the SQLite projection of it, the prefix dispatcher, and the *)
(* request threads that run the operations of AppRuntimeService over them. *)
(*                                                                         *)
(* An operation is a sequence of steps, one per effect on shared state     *)
(* (a Git commit, a group of SQLite statements, a dispatcher call), and    *)
(* every other thread may run between two of them.  build, preview,        *)
(* promote and rollback hold the per-app lock from their first step to     *)
(* their last; every other operation runs without it.  The process may     *)
(* crash between any two steps: Git and SQLite survive, mounts, locks and  *)
(* threads do not, and startup rebuilds the projection from Git.           *)
(*                                                                         *)
(* An operator named D_variant is D with one plausible mistake in it; the  *)
(* specification does not use it.  README.md says which property notices.  *)
(***************************************************************************)
EXTENDS Naturals, FiniteSets

CONSTANTS
    Apps,           \* application names
    Routes,         \* live routes, /apps/...
    Policies,       \* values of (visibility, auth policy, permissions), taken together
    DefaultPolicy,  \* the one create_app stores
    ManifestRoute,  \* the route each app's manifest asks for
    Seeded,         \* apps present after the first startup
    MaxRev,         \* bound: revisions an app may have
    BusyApps,      \* bound: apps that requests build again, preview, enable, start or stop
    Threads,        \* request threads of the WSGI server
    Ops,            \* bound: the operations requests ask for
    MountMayFail,   \* bound: whether loading a revision can raise
    MayCrash,       \* bound: whether the process can crash
    Nobody          \* no thread, no app

Revs == 1..MaxRev
RevOrNone == 0..MaxRev

LockedOps == {"build", "preview", "promote", "rollback"}
ExposureOps == {"route", "enable", "policy"}
PowerOps == {"start", "stop", "restart"}
FleetOps == {"reconcile", "startup"}
RequestOps == LockedOps \cup ExposureOps \cup PowerOps \cup {"create", "delete", "reconcile"}

ASSUME ConstantsAssumption ==
    /\ MaxRev \in Nat \ {0}
    /\ Apps # {} /\ Seeded \subseteq Apps
    /\ DefaultPolicy \in Policies
    /\ ManifestRoute \in [Apps -> Routes]
    /\ \A a, b \in Seeded : ManifestRoute[a] = ManifestRoute[b] => a = b
    /\ BusyApps \subseteq Apps /\ Ops \subseteq RequestOps
    /\ MountMayFail \in BOOLEAN /\ MayCrash \in BOOLEAN
    /\ Nobody \notin Apps \cup Threads

VARIABLES
    \* Git, branch main
    desired,        \* desired-state/live/<app>.yaml; rev = 0 when there is no file
    desiredPreview, \* desired-state/preview/<app>.yaml; 0 when there is no file
    releases,       \* releases/<app>/rNNNNNN.yaml
    onMain,         \* apps with a source tree apps/<app>
    \* SQLite
    registered,     \* apps with a row in table apps
    row,            \* that row
    revState,       \* app_revisions.lifecycle_state; "absent" when there is no row
    \* DynamicPrefixDispatcher
    liveMount,      \* what each live route serves
    previewMount,   \* revisions mounted under /preview/<app>/<rev>
    \* control plane process
    phase,          \* "up", "down" or "starting"
    lock,           \* holder of each app's lock
    pc,             \* next step of each thread
    req,            \* its request and local variables
    failed          \* history: apps that raised in a reconcile or a mount and were not reconciled since

gitVars == <<desired, desiredPreview, releases, onMain>>
dbVars == <<registered, row, revState>>
mountVars == <<liveMount, previewMount>>
vars == <<desired, desiredPreview, releases, onMain, registered, row, revState, liveMount,
          previewMount, phase, lock, pc, req, failed>>

-----------------------------------------------------------------------------
(* Types and empty values *)

States == {"absent", "validated", "live", "warming", "archived"}
LiveSpec == [rev : RevOrNone, route : Routes, enabled : BOOLEAN, policy : Policies]
Row == [status : {"running", "stopped"}, route : Routes, enabled : BOOLEAN, policy : Policies,
        current : RevOrNone, preview : RevOrNone, rollback : RevOrNone]
Mount == [app : Apps \cup {Nobody}, rev : RevOrNone]
Steps == {"idle", "insert", "release", "createRev", "createRow", "publish", "desire", "read", "applyRow",
          "applyMount", "applyPreview", "preflight", "setRunning", "mountLive", "unmountRoute",
          "deleteGit", "deleteRow", "nextApp"}
Request == [op : RequestOps \cup {"none", "startup"}, app : Apps, rev : RevOrNone, route : Routes,
            enabled : BOOLEAN, policy : Policies, launch : BOOLEAN, running : BOOLEAN,
            live : [Apps -> LiveSpec], preview : [Apps -> RevOrNone], todo : SUBSET Apps]

Unmounted == [app |-> Nobody, rev |-> 0]
NoSpec(a) == [rev |-> 0, route |-> ManifestRoute[a], enabled |-> TRUE, policy |-> DefaultPolicy]
NoRow(a) == [status |-> "stopped", route |-> ManifestRoute[a], enabled |-> TRUE, policy |-> DefaultPolicy,
             current |-> 0, preview |-> 0, rollback |-> 0]

\* The frame of a request: everything but the fields an operation sets.
Frame(o, a) ==
    [op |-> o, app |-> a, rev |-> 0, route |-> ManifestRoute[a], enabled |-> TRUE, policy |-> DefaultPolicy,
     launch |-> FALSE, running |-> FALSE, live |-> [b \in Apps |-> NoSpec(b)],
     preview |-> [b \in Apps |-> 0], todo |-> {}]
NoRequest == Frame("none", CHOOSE a \in Apps : TRUE)

TypeOK ==
    /\ desired \in [Apps -> LiveSpec]
    /\ desiredPreview \in [Apps -> RevOrNone]
    /\ releases \in [Apps -> SUBSET Revs]
    /\ onMain \subseteq Apps
    /\ registered \subseteq Apps
    /\ row \in [Apps -> Row]
    /\ revState \in [Apps -> [Revs -> States]]
    /\ liveMount \in [Routes -> Mount]
    /\ previewMount \in [Apps -> SUBSET Revs]
    /\ phase \in {"up", "down", "starting"}
    /\ lock \in [Apps -> Threads \cup {Nobody}]
    /\ pc \in [Threads -> Steps]
    /\ req \in [Threads -> Request]
    /\ failed \subseteq Apps

-----------------------------------------------------------------------------
(* Queries *)

KnownRevs(a) == {r \in Revs : revState[a][r] # "absent"}
IsMax(m, S) == m \in S /\ \A r \in S : r <= m
MaxIn(S) == IF S = {} THEN 0 ELSE CHOOSE m \in S : IsMax(m, S)
NextRevision(a) == MaxIn(KnownRevs(a)) + 1
\* _ensure_route_available looks at one of the rows that hold the route, no
\* matter which: with several holders it may find the app itself or another.
RouteHolders(p) == {b \in registered : row[b].route = p}
RouteAvailable_unchecked(p, a) == TRUE
RouteAvailable(p, a) == RouteHolders(p) = {} \/ a \in RouteHolders(p)
RouteRefused(p, a) == RouteHolders(p) \ {a} # {}
\* Two live manifests of one snapshot ask for the same route.
RouteClash(live, a) == \E b \in Apps \ {a} : live[b].rev # 0 /\ live[b].route = live[a].route

-----------------------------------------------------------------------------
(* Threads: accepting a request and leaving it *)

Accept(t, o) == phase = "up" /\ pc[t] = "idle" /\ o \in Ops

AcceptLocked_unlocked(t, o, a) == Accept(t, o) /\ a \in registered /\ UNCHANGED lock

\* _locked_app_operation: a thread that does not get the lock is refused at once.
AcceptLocked(t, o, a) ==
    /\ Accept(t, o)
    /\ lock[a] = Nobody
    /\ a \in registered
    /\ lock' = [lock EXCEPT ![a] = t]

Begin(t, step, request) ==
    /\ pc' = [pc EXCEPT ![t] = step]
    /\ req' = [req EXCEPT ![t] = request]

Goto(t, step) == pc' = [pc EXCEPT ![t] = step] /\ UNCHANGED <<req, lock>>

Unlock_anyHolder(t) == lock' = [lock EXCEPT ![req[t].app] = Nobody]
Unlock(t) == lock' = [a \in Apps |-> IF lock[a] = t THEN Nobody ELSE lock[a]]

\* The request returns, or raises, to its caller.
Return(t) ==
    /\ pc' = [pc EXCEPT ![t] = "idle"]
    /\ req' = [req EXCEPT ![t] = NoRequest]
    /\ Unlock(t)

LeaveReconcile_keepsLock(t, succeeded) ==
    /\ failed' = IF ~succeeded THEN failed \cup {req[t].app}
                 ELSE IF req[t].live[req[t].app].rev # 0 THEN failed \ {req[t].app} ELSE failed
    /\ \/ req[t].op \in FleetOps /\ Goto(t, "nextApp")
       \/ req[t].op = "create" /\ succeeded /\ Goto(t, "preflight")
       \/ req[t].op \notin FleetOps \cup {"create"} /\ succeeded /\ Return(t)
       \/ req[t].op \notin FleetOps /\ ~succeeded /\ Begin(t, "idle", NoRequest) /\ UNCHANGED lock

\* The end of one app's reconcile: a fleet pass goes on with its next app, a
\* single-app operation returns (create_app still has its preflight to run).
LeaveReconcile(t, succeeded) ==
    /\ failed' = IF ~succeeded THEN failed \cup {req[t].app}
                 ELSE IF req[t].live[req[t].app].rev # 0 THEN failed \ {req[t].app} ELSE failed
    /\ \/ req[t].op \in FleetOps /\ Goto(t, "nextApp")
       \/ req[t].op = "create" /\ succeeded /\ Goto(t, "preflight")
       \/ req[t].op = "create" /\ ~succeeded /\ Return(t)
       \/ req[t].op \notin FleetOps \cup {"create"} /\ Return(t)

App(t) == req[t].app
At(t, step) == pc[t] = step
Raise(t) == Return(t) /\ UNCHANGED <<gitVars, dbVars, mountVars, phase, failed>>

-----------------------------------------------------------------------------
(* build_revision *)

\* Validates the draft, chooses the number, writes the artifact and the tag.
BeginBuild(t, a) ==
    /\ AcceptLocked(t, "build", a)
    /\ a \in BusyApps /\ NextRevision(a) <= MaxRev
    /\ Begin(t, "insert", [Frame("build", a) EXCEPT !.rev = NextRevision(a)])
    /\ UNCHANGED <<gitVars, dbVars, mountVars, phase, failed>>

\* create_revision: INSERT ... SELECT MAX(revision_number) + 1.
BuildInsert(t) ==
    /\ At(t, "insert")
    /\ LET a == App(t)
           number == NextRevision(a)
       IN  /\ number \in Revs
           /\ revState' = [revState EXCEPT ![a][number] = "validated"]
           /\ req' = [req EXCEPT ![t].rev = number]
    /\ pc' = [pc EXCEPT ![t] = "release"]
    /\ UNCHANGED <<gitVars, registered, row, mountVars, phase, lock, failed>>

\* publish_release_to_main; the preflight that follows changes nothing here.
BuildRelease(t) ==
    /\ At(t, "release")
    /\ releases' = [releases EXCEPT ![App(t)] = @ \cup {req[t].rev}]
    /\ Return(t)
    /\ UNCHANGED <<desired, desiredPreview, onMain, dbVars, mountVars, phase, failed>>

-----------------------------------------------------------------------------
(* create_app *)

BeginCreate(t, a) ==
    /\ Accept(t, "create")
    /\ a \notin registered
    /\ RouteHolders(ManifestRoute[a]) = {}
    /\ \E launch \in BOOLEAN :
          Begin(t, "createRev", [Frame("create", a) EXCEPT !.rev = 1, !.launch = launch])
    /\ UNCHANGED <<gitVars, dbVars, mountVars, phase, lock, failed>>

\* The revision row has a transaction of its own, and comes first.
CreateRevisionRow(t) ==
    /\ At(t, "createRev")
    /\ IF revState[App(t)][1] = "absent"
       THEN /\ revState' = [revState EXCEPT ![App(t)][1] = "live"]
            /\ Goto(t, "createRow")
            /\ UNCHANGED <<gitVars, registered, row, mountVars, phase, failed>>
       ELSE Raise(t)

CreateAppRow(t) ==
    /\ At(t, "createRow")
    /\ IF App(t) \notin registered
       THEN /\ registered' = registered \cup {App(t)}
            /\ row' = [row EXCEPT ![App(t)] =
                          [NoRow(App(t)) EXCEPT !.status = IF req[t].launch THEN "running" ELSE "stopped",
                                                !.current = 1]]
            /\ Goto(t, "publish")
            /\ UNCHANGED <<gitVars, revState, mountVars, phase, failed>>
       ELSE Raise(t)

\* preflight_revision loads the first revision; a failure stops the app.
CreatePreflight(t) ==
    /\ At(t, "preflight")
    /\ \/ Raise(t)
       \/ /\ MountMayFail /\ req[t].launch /\ App(t) \in registered
          /\ row' = [row EXCEPT ![App(t)].status = "stopped"]
          /\ req' = [req EXCEPT ![t].route = row[App(t)].route]
          /\ pc' = [pc EXCEPT ![t] = "unmountRoute"]
          /\ UNCHANGED <<gitVars, registered, revState, mountVars, phase, lock, failed>>

-----------------------------------------------------------------------------
(* start_preview, promote_revision, rollback *)

BeginPreview(t, a) ==
    /\ AcceptLocked(t, "preview", a)
    /\ a \in BusyApps
    /\ \E r \in KnownRevs(a) : Begin(t, "publish", [Frame("preview", a) EXCEPT !.rev = r])
    /\ UNCHANGED <<gitVars, dbVars, mountVars, phase, failed>>

BeginPromote(t, a) ==
    /\ AcceptLocked(t, "promote", a)
    /\ \E r \in KnownRevs(a) : Begin(t, "publish", [Frame("promote", a) EXCEPT !.rev = r])
    /\ UNCHANGED <<gitVars, dbVars, mountVars, phase, failed>>

BeginRollback(t, a) ==
    /\ AcceptLocked(t, "rollback", a)
    /\ row[a].rollback # 0
    /\ Begin(t, "publish", [Frame("rollback", a) EXCEPT !.rev = row[a].rollback])
    /\ UNCHANGED <<gitVars, dbVars, mountVars, phase, failed>>

-----------------------------------------------------------------------------
(* update_route, set_enabled, update_visibility / _auth_policy / _permissions: *)
(* the revision is read here, the other settings only when they are written.   *)

BeginRoute(t, a) ==
    /\ Accept(t, "route")
    /\ a \in registered
    /\ \E p \in Routes :
          /\ p = row[a].route \/ RouteAvailable(p, a)
          /\ Begin(t, "publish", [Frame("route", a) EXCEPT !.rev = row[a].current, !.route = p])
    /\ UNCHANGED <<gitVars, dbVars, mountVars, phase, lock, failed>>

BeginEnable(t, a) ==
    /\ Accept(t, "enable")
    /\ a \in registered \cap BusyApps
    /\ \E e \in BOOLEAN :
          Begin(t, "publish", [Frame("enable", a) EXCEPT !.rev = row[a].current, !.enabled = e])
    /\ UNCHANGED <<gitVars, dbVars, mountVars, phase, lock, failed>>

BeginPolicy(t, a) ==
    /\ Accept(t, "policy")
    /\ a \in registered
    /\ \E q \in Policies :
          Begin(t, "publish", [Frame("policy", a) EXCEPT !.rev = row[a].current, !.policy = q])
    /\ UNCHANGED <<gitVars, dbVars, mountVars, phase, lock, failed>>

-----------------------------------------------------------------------------
(* The common tail: publish the revision, write desired state, reconcile *)

\* _write_live_desired_state_for_revision up to publish_revision_to_main: the
\* settings the operation does not override come from the app's row.
Publish(t) ==
    /\ At(t, "publish")
    /\ LET a == App(t)
           q == req[t]
       IN  IF q.op # "preview" /\ a \notin registered
           THEN Raise(t)
           ELSE /\ releases' = [releases EXCEPT ![a] = @ \cup {q.rev}]
                /\ onMain' = onMain \cup {a}
                /\ req' = [req EXCEPT ![t] =
                     [q EXCEPT !.route = IF q.op = "route" THEN q.route ELSE row[a].route,
                               !.enabled = IF q.op = "enable" THEN q.enabled ELSE row[a].enabled,
                               !.policy = IF q.op = "policy" THEN q.policy ELSE row[a].policy]]
                /\ pc' = [pc EXCEPT ![t] = "desire"]
                /\ UNCHANGED <<desired, desiredPreview, dbVars, mountVars, phase, lock, failed>>

\* write_live_desired_state or write_preview_desired_state: one commit.
Desire(t) ==
    /\ At(t, "desire")
    /\ LET a == App(t)
           q == req[t]
       IN  IF q.op = "preview"
           THEN desiredPreview' = [desiredPreview EXCEPT ![a] = q.rev] /\ UNCHANGED desired
           ELSE /\ desired' = [desired EXCEPT ![a] = [rev |-> q.rev, route |-> q.route,
                                                     enabled |-> q.enabled, policy |-> q.policy]]
                /\ desiredPreview' = IF q.op \in {"promote", "rollback"}
                                     THEN [desiredPreview EXCEPT ![a] = 0]
                                     ELSE desiredPreview
    /\ Goto(t, "read")
    /\ UNCHANGED <<releases, onMain, dbVars, mountVars, phase, failed>>

\* reconcile_app: an app that is no longer registered is skipped without an
\* error; otherwise all of desired state is read once, before it is applied.
ReadDesired(t) ==
    /\ At(t, "read")
    /\ IF App(t) \notin registered
       THEN Raise(t)
       ELSE /\ req' = [req EXCEPT ![t].live = desired, ![t].preview = desiredPreview]
            /\ pc' = [pc EXCEPT ![t] = "applyRow"]
            /\ UNCHANGED <<gitVars, dbVars, mountVars, phase, lock, failed>>

DesiredLive_notArchived(t) == LET r == req[t].live[App(t)].rev
                              IN  IF r \in KnownRevs(App(t)) /\ revState[App(t)][r] # "archived" THEN r ELSE 0

\* The revision the live manifest resolves to; 0 when it resolves to none.
DesiredLive(t) == LET r == req[t].live[App(t)].rev
                  IN  IF r \in KnownRevs(App(t)) THEN r ELSE 0

\* registry.promote_revision on a row that has its new exposure.
PromotedRow(current, r) ==
    [current EXCEPT !.current = r, !.rollback = current.current,
                    !.preview = IF @ = r THEN 0 ELSE @]

ApplyRow(t) ==
    /\ At(t, "applyRow")
    /\ LET a == App(t)
           spec == req[t].live[a]
           r == DesiredLive(t)
           old == row[a]
           exposed == [old EXCEPT !.route = spec.route, !.enabled = spec.enabled, !.policy = spec.policy]
           changed == r # 0 /\ r # old.current
           new == IF changed THEN PromotedRow(exposed, r) ELSE exposed
       IN  \/ /\ \/ a \notin registered
                 \/ spec.rev # 0 /\ (RouteClash(req[t].live, a) \/ RouteRefused(spec.route, a))
              /\ LeaveReconcile(t, FALSE)
              /\ UNCHANGED <<gitVars, dbVars, mountVars, phase>>
           \/ /\ a \in registered /\ spec.rev = 0
              /\ Goto(t, "applyPreview")
              /\ UNCHANGED <<gitVars, dbVars, mountVars, phase, failed>>
           \/ /\ a \in registered /\ spec.rev # 0
              /\ ~RouteClash(req[t].live, a) /\ RouteAvailable(spec.route, a)
              /\ row' = [row EXCEPT ![a] = new]
              /\ revState' = IF ~changed THEN revState
                             ELSE [revState EXCEPT ![a] =
                                     [s \in Revs |-> IF s = r THEN "live"
                                                     ELSE IF s = old.current THEN "archived" ELSE @[s]]]
              /\ req' = [req EXCEPT ![t].route = old.route,
                                    ![t].running = new.enabled /\ new.status = "running"]
              /\ pc' = [pc EXCEPT ![t] = "applyMount"]
              /\ UNCHANGED <<gitVars, registered, mountVars, phase, lock, failed>>

MountLive_latest(a, mounts, succeeded) ==
    /\ succeeded /\ a \in registered
    /\ liveMount' = [mounts EXCEPT ![row[a].route] = [app |-> a, rev |-> MaxIn(KnownRevs(a))]]

\* _mount_live_revision reads the row again; mounts is the dispatcher it acts on.
MountLive(a, mounts, succeeded) ==
    \/ /\ succeeded
       /\ a \in registered
       /\ liveMount' = [mounts EXCEPT ![row[a].route] =
                          IF row[a].enabled THEN [app |-> a, rev |-> row[a].current] ELSE Unmounted]
    \/ /\ ~succeeded
       /\ a \notin registered \/ (MountMayFail /\ row[a].enabled)
       /\ liveMount' = mounts

\* The dispatcher after the route the app had before this reconcile is unmounted.
WithoutOldRoute_never(t) == liveMount
WithoutOldRoute_always(t) == [liveMount EXCEPT ![req[t].route] = Unmounted]
WithoutOldRoute(t) ==
    IF req[t].route = req[t].live[App(t)].route THEN liveMount
    ELSE [liveMount EXCEPT ![req[t].route] = Unmounted]

ApplyMount(t) ==
    /\ At(t, "applyMount")
    /\ LET a == App(t)
           route == req[t].live[a].route
           moved == WithoutOldRoute(t)
       IN  \/ /\ req[t].running
              /\ MountLive(a, moved, TRUE)
              /\ Goto(t, "applyPreview")
              /\ UNCHANGED failed
           \/ /\ req[t].running
              /\ MountLive(a, moved, FALSE)
              /\ LeaveReconcile(t, FALSE)
           \/ /\ ~req[t].running
              /\ liveMount' = [moved EXCEPT ![route] = Unmounted]
              /\ Goto(t, "applyPreview")
              /\ UNCHANGED failed
    /\ UNCHANGED <<gitVars, dbVars, previewMount, phase>>

\* A desired preview is pointed at, marked warming and mounted; the revision that
\* was previewed before stays mounted.  Without one, the pointer is cleared.
ApplyPreview(t) ==
    /\ At(t, "applyPreview")
    /\ LET a == App(t)
           r == req[t].preview[a]
           shown == row[a].preview
       IN  \/ /\ r # 0 /\ r \notin KnownRevs(a)
              /\ LeaveReconcile(t, FALSE)
              /\ UNCHANGED <<dbVars, previewMount>>
           \/ /\ r # 0 /\ r \in KnownRevs(a)
              /\ row' = IF a \in registered THEN [row EXCEPT ![a].preview = r] ELSE row
              /\ revState' = [revState EXCEPT ![a][r] = "warming"]
              /\ \/ /\ previewMount' = [previewMount EXCEPT ![a] = @ \cup {r}]
                    /\ LeaveReconcile(t, a \in registered)
                 \/ /\ MountMayFail
                    /\ UNCHANGED previewMount
                    /\ LeaveReconcile(t, FALSE)
              /\ UNCHANGED registered
           \/ /\ r = 0 /\ shown # 0
              /\ previewMount' = [previewMount EXCEPT ![a] = @ \ {shown}]
              /\ row' = [row EXCEPT ![a].preview = 0]
              /\ revState' = IF shown = DesiredLive(t) THEN revState
                             ELSE [revState EXCEPT ![a][shown] = "archived"]
              /\ LeaveReconcile(t, TRUE)
              /\ UNCHANGED registered
           \/ /\ r = 0 /\ shown = 0
              /\ LeaveReconcile(t, a \in registered)
              /\ UNCHANGED <<dbVars, previewMount>>
    /\ UNCHANGED <<gitVars, liveMount, phase>>

-----------------------------------------------------------------------------
(* start_app, stop_app, restart_app: the row is read once, at the start *)

BeginStart(t, a) ==
    /\ Accept(t, "start")
    /\ a \in registered \cap BusyApps
    /\ row' = [row EXCEPT ![a].status = "running"]
    /\ IF row[a].enabled THEN Begin(t, "mountLive", Frame("start", a)) ELSE UNCHANGED <<pc, req>>
    /\ UNCHANGED <<gitVars, registered, revState, mountVars, phase, lock, failed>>

BeginStop(t, a) ==
    /\ Accept(t, "stop")
    /\ a \in registered \cap BusyApps
    /\ row' = [row EXCEPT ![a].status = "stopped"]
    /\ Begin(t, "unmountRoute", [Frame("stop", a) EXCEPT !.route = row[a].route])
    /\ UNCHANGED <<gitVars, registered, revState, mountVars, phase, lock, failed>>

BeginRestart(t, a) ==
    /\ Accept(t, "restart")
    /\ a \in registered \cap BusyApps
    /\ liveMount' = [liveMount EXCEPT ![row[a].route] = Unmounted]
    /\ Begin(t, "setRunning", [Frame("restart", a) EXCEPT !.running = row[a].enabled])
    /\ UNCHANGED <<gitVars, dbVars, previewMount, phase, lock, failed>>

SetRunning(t) ==
    /\ At(t, "setRunning")
    /\ row' = IF App(t) \in registered THEN [row EXCEPT ![App(t)].status = "running"] ELSE row
    /\ IF req[t].running THEN Goto(t, "mountLive") ELSE Return(t)
    /\ UNCHANGED <<gitVars, registered, revState, mountVars, phase, failed>>

FinishMountLive(t) ==
    /\ At(t, "mountLive")
    /\ \E succeeded \in BOOLEAN :
          /\ MountLive(App(t), liveMount, succeeded)
          /\ failed' = IF succeeded THEN failed ELSE failed \cup {App(t)}
    /\ Return(t)
    /\ UNCHANGED <<gitVars, dbVars, previewMount, phase>>

FinishUnmount(t) ==
    /\ At(t, "unmountRoute")
    /\ liveMount' = [liveMount EXCEPT ![req[t].route] = Unmounted]
    /\ Return(t)
    /\ UNCHANGED <<gitVars, dbVars, previewMount, phase, failed>>

-----------------------------------------------------------------------------
(* delete_app: runtime, then Git, then the registry; it takes no lock *)

BeginDelete(t, a) ==
    /\ Accept(t, "delete")
    /\ a \in registered
    /\ previewMount' = [previewMount EXCEPT ![a] = @ \ {row[a].preview}]
    /\ liveMount' = [liveMount EXCEPT ![row[a].route] = Unmounted]
    /\ Begin(t, "deleteGit", Frame("delete", a))
    /\ UNCHANGED <<gitVars, dbVars, phase, lock, failed>>

DeleteGit_keepsPreview(t) ==
    /\ At(t, "deleteGit")
    /\ desired' = [desired EXCEPT ![App(t)] = NoSpec(App(t))]
    /\ releases' = [releases EXCEPT ![App(t)] = {}]
    /\ onMain' = onMain \ {App(t)}
    /\ Goto(t, "deleteRow")
    /\ UNCHANGED <<desiredPreview, dbVars, mountVars, phase, failed>>

DeleteGit(t) ==
    /\ At(t, "deleteGit")
    /\ LET a == App(t)
       IN  /\ desired' = [desired EXCEPT ![a] = NoSpec(a)]
           /\ desiredPreview' = [desiredPreview EXCEPT ![a] = 0]
           /\ releases' = [releases EXCEPT ![a] = {}]
           /\ onMain' = onMain \ {a}
    /\ Goto(t, "deleteRow")
    /\ UNCHANGED <<dbVars, mountVars, phase, failed>>

DeleteRow(t) ==
    /\ At(t, "deleteRow")
    /\ LET a == App(t)
       IN  IF a \in registered
           THEN /\ registered' = registered \ {a}
                /\ row' = [row EXCEPT ![a] = NoRow(a)]
                /\ revState' = [revState EXCEPT ![a] = [r \in Revs |-> "absent"]]
                /\ failed' = failed \ {a}
           ELSE UNCHANGED <<dbVars, failed>>
    /\ Return(t)
    /\ UNCHANGED <<gitVars, mountVars, phase>>

-----------------------------------------------------------------------------
(* reconcile_git_desired_state: one snapshot for the whole fleet *)

FleetTodo(apps) == apps \cup {a \in Apps : desired[a].rev # 0 \/ desiredPreview[a] # 0}

FleetRequest(o, apps) ==
    [NoRequest EXCEPT !.op = o, !.live = desired, !.preview = desiredPreview, !.todo = FleetTodo(apps)]

BeginReconcile(t) ==
    /\ Accept(t, "reconcile")
    /\ Begin(t, "nextApp", FleetRequest("reconcile", registered))
    /\ UNCHANGED <<gitVars, dbVars, mountVars, phase, lock, failed>>

\* The next app of the pass, in any order; one without a row is skipped.
NextApp(t) ==
    /\ At(t, "nextApp")
    /\ \E a \in req[t].todo :
          /\ req' = [req EXCEPT ![t].app = a, ![t].todo = @ \ {a}]
          /\ pc' = [pc EXCEPT ![t] = IF a \in registered THEN "applyRow" ELSE "nextApp"]
    /\ UNCHANGED <<gitVars, dbVars, mountVars, phase, lock, failed>>

FleetDone(t) ==
    /\ At(t, "nextApp")
    /\ req[t].todo = {}
    /\ phase' = IF req[t].op = "startup" THEN "up" ELSE phase
    /\ Return(t)
    /\ UNCHANGED <<gitVars, dbVars, mountVars, failed>>

-----------------------------------------------------------------------------
(* Crash and startup *)

Crash ==
    /\ MayCrash
    /\ phase # "down"
    /\ phase' = "down"
    /\ liveMount' = [p \in Routes |-> Unmounted]
    /\ previewMount' = [a \in Apps |-> {}]
    /\ lock' = [a \in Apps |-> Nobody]
    /\ pc' = [t \in Threads |-> "idle"]
    /\ req' = [t \in Threads |-> NoRequest]
    /\ failed' = {}
    /\ UNCHANGED <<gitVars, dbVars>>

\* backfill_revision_git_metadata publishes the release of every row.
BackfilledReleases ==
    [a \in Apps |-> releases[a] \cup (IF a \in registered THEN KnownRevs(a) ELSE {})]

\* rebuild_cache_from_git for one app and the releases rel found on main.
RebuiltCurrent_noFallback(a, rel) == desired[a].rev
RebuiltCurrent(a, rel) == IF desired[a].rev \in rel THEN desired[a].rev ELSE MaxIn(rel)
RebuiltPreview(a, rel) == IF desiredPreview[a] \in rel THEN desiredPreview[a] ELSE 0
RebuiltRow(a, rel) ==
    LET current == RebuiltCurrent(a, rel)
        exposure == IF desired[a].rev # 0 THEN desired[a] ELSE row[a]
    IN  [status |-> IF a \in registered THEN row[a].status ELSE "running",
         route |-> exposure.route, enabled |-> exposure.enabled, policy |-> exposure.policy,
         current |-> current, preview |-> RebuiltPreview(a, rel),
         rollback |-> MaxIn({r \in rel : r < current})]
RebuiltStates(a, rel) ==
    [r \in Revs |-> IF r \notin rel THEN revState[a][r]
                    ELSE IF r = RebuiltCurrent(a, rel) THEN "live"
                    ELSE IF r = RebuiltPreview(a, rel) THEN "warming" ELSE "archived"]

\* What bootstrap mounts: of the apps that want one route, one.
Wanted(apps, rows) == {a \in apps : rows[a].status = "running" /\ rows[a].enabled}
Bootstrapped(apps, rows, chosen) ==
    /\ chosen \subseteq Wanted(apps, rows)
    /\ \A a, b \in chosen : rows[a].route = rows[b].route => a = b
    /\ MountMayFail \/ \A a \in Wanted(apps, rows) : \E b \in chosen : rows[a].route = rows[b].route

\* _register_runtime_components: backfill, rebuild, bootstrap, then the fleet
\* reconcile that thread t runs before the server accepts requests.
Startup(t) ==
    /\ phase = "down"
    /\ phase' = "starting"
    /\ releases' = BackfilledReleases
    /\ LET rebuilt == {a \in onMain : BackfilledReleases[a] # {}}
           apps == registered \cup rebuilt
           rows == [a \in Apps |-> IF a \in rebuilt THEN RebuiltRow(a, BackfilledReleases[a]) ELSE row[a]]
       IN  /\ registered' = apps
           /\ row' = rows
           /\ revState' = [a \in Apps |-> IF a \in rebuilt THEN RebuiltStates(a, BackfilledReleases[a])
                                          ELSE revState[a]]
           /\ \E chosen \in SUBSET apps :
                 /\ Bootstrapped(apps, rows, chosen)
                 /\ failed' = Wanted(apps, rows) \ chosen
                 /\ liveMount' = [p \in Routes |->
                       IF \E a \in chosen : rows[a].route = p
                       THEN LET a == CHOOSE b \in chosen : rows[b].route = p
                            IN  [app |-> a, rev |-> rows[a].current]
                       ELSE Unmounted]
           /\ \E shown \in IF MountMayFail THEN SUBSET apps ELSE {apps} :
                 previewMount' = [a \in Apps |-> IF a \in shown THEN {rows[a].preview} \ {0} ELSE {}]
           /\ Begin(t, "nextApp", FleetRequest("startup", apps))
    /\ UNCHANGED <<desired, desiredPreview, onMain, lock>>

-----------------------------------------------------------------------------
(* The specification *)

\* What the installation holds once every seeded app is created and started.
Init ==
    /\ desired = [a \in Apps |-> IF a \in Seeded THEN [NoSpec(a) EXCEPT !.rev = 1] ELSE NoSpec(a)]
    /\ desiredPreview = [a \in Apps |-> 0]
    /\ releases = [a \in Apps |-> IF a \in Seeded THEN {1} ELSE {}]
    /\ onMain = Seeded
    /\ registered = Seeded
    /\ row = [a \in Apps |-> IF a \in Seeded THEN [NoRow(a) EXCEPT !.status = "running", !.current = 1]
                             ELSE NoRow(a)]
    /\ revState = [a \in Apps |-> [r \in Revs |-> IF a \in Seeded /\ r = 1 THEN "live" ELSE "absent"]]
    /\ liveMount = [p \in Routes |-> IF \E a \in Seeded : ManifestRoute[a] = p
                                     THEN [app |-> CHOOSE a \in Seeded : ManifestRoute[a] = p, rev |-> 1]
                                     ELSE Unmounted]
    /\ previewMount = [a \in Apps |-> {}]
    /\ phase = "up"
    /\ lock = [a \in Apps |-> Nobody]
    /\ pc = [t \in Threads |-> "idle"]
    /\ req = [t \in Threads |-> NoRequest]
    /\ failed = {}

LockedRequest(t, a) ==
    BeginBuild(t, a) \/ BeginPreview(t, a) \/ BeginPromote(t, a) \/ BeginRollback(t, a)

UnlockedRequest(t, a) ==
    \/ BeginCreate(t, a) \/ BeginDelete(t, a)
    \/ BeginRoute(t, a) \/ BeginEnable(t, a) \/ BeginPolicy(t, a)
    \/ BeginStart(t, a) \/ BeginStop(t, a) \/ BeginRestart(t, a)

\* The next step of a thread that serves a request, or of startup.
Step(t) ==
    \/ BuildInsert(t) \/ BuildRelease(t)
    \/ CreateRevisionRow(t) \/ CreateAppRow(t) \/ CreatePreflight(t)
    \/ Publish(t) \/ Desire(t) \/ ReadDesired(t)
    \/ ApplyRow(t) \/ ApplyMount(t) \/ ApplyPreview(t)
    \/ SetRunning(t) \/ FinishMountLive(t) \/ FinishUnmount(t)
    \/ DeleteGit(t) \/ DeleteRow(t)
    \/ NextApp(t) \/ FleetDone(t)

Next ==
    \/ \E t \in Threads, a \in Apps : LockedRequest(t, a) \/ UnlockedRequest(t, a)
    \/ \E t \in Threads : BeginReconcile(t) \/ Step(t) \/ Startup(t)
    \/ Crash

Spec == Init /\ [][Next]_vars

-----------------------------------------------------------------------------
(* Properties *)

\* Nothing is in progress that acts on app a.
Quiet(a) ==
    /\ phase = "up"
    /\ \A t \in Threads : pc[t] = "idle" \/ (req[t].op \notin FleetOps /\ req[t].app # a)

\* The row of a says what Git says, the preview apart.
RowMatchesGit(a) ==
    [rev |-> row[a].current, route |-> row[a].route, enabled |-> row[a].enabled,
     policy |-> row[a].policy] = desired[a]

\* Exactly the route of a running, published app serves it, at its current revision.
ServesRow(a) ==
    \A p \in Routes :
        /\ liveMount[p].app = a <=> /\ a \in registered
                                    /\ row[a].status = "running" /\ row[a].enabled
                                    /\ row[a].route = p
        /\ liveMount[p].app = a => liveMount[p].rev = row[a].current

\* The per-app lock does its job (_locked_app_operation): no two of build,
\* preview, promote and rollback run on one app at the same time.
LockedOperationsExclude ==
    \A t, u \in Threads :
        (/\ pc[t] # "idle" /\ req[t].op \in LockedOps
         /\ pc[u] # "idle" /\ req[u].op \in LockedOps
         /\ req[t].app = req[u].app) => t = u

\* No lock is left behind (the finally of _locked_app_operation): whoever holds the
\* lock of an app is at this moment in a build, preview, promote or rollback of it,
\* after every error, failed mount, failed reconcile and crash.
LocksAreInUse ==
    \A a \in Apps : lock[a] # Nobody =>
        pc[lock[a]] # "idle" /\ req[lock[a]].op \in LockedOps /\ req[lock[a]].app = a

\* The number a build chose when it wrote the artifact, the tag and the release
\* file is the one its row gets in the later, separate INSERT (build_revision).
BuildNumberHonoured ==
    \A t \in Threads : At(t, "insert") => req[t].rev = NextRevision(App(t))

\* Every registered app has a current revision, and a request that is about to
\* publish or to record a revision has one to name.
RevisionsAreNamed ==
    /\ \A a \in registered : row[a].current \in Revs
    /\ \A t \in Threads :
          pc[t] \in {"createRev", "createRow", "release", "publish", "desire"} => req[t].rev \in Revs

\* Desired state never selects a revision whose release is not on main.
DesiredIsReleased ==
    \A a \in Apps : /\ desired[a].rev # 0 => desired[a].rev \in releases[a]
                    /\ desiredPreview[a] # 0 => desiredPreview[a] \in releases[a]

\* Once nothing is in progress on an app, SQLite agrees with Git about it: on the
\* preview if the last reconcile got that far, on the rest even if it did not.
RowFollowsGit ==
    \A a \in registered : Quiet(a) =>
        /\ desired[a].rev # 0 => RowMatchesGit(a)
        /\ a \notin failed => row[a].preview = desiredPreview[a]

\* Once nothing is in progress on an app and it loaded, the dispatcher serves it
\* where, when and at the revision its row says.
DispatcherFollowsRow == \A a \in Apps : Quiet(a) /\ a \notin failed => ServesRow(a)

\* No two registered apps hold one route, in SQLite or in Git.
RoutesAreDistinct ==
    \A a, b \in registered :
        a # b => /\ row[a].route # row[b].route
                 /\ desired[a].rev # 0 /\ desired[b].rev # 0 => desired[a].route # desired[b].route

\* build, preview, promote and rollback never take a served route down.
PromotionHasNoGap ==
    [][\A p \in Routes :
         (/\ liveMount[p].app # Nobody /\ phase' = "up"
          /\ \A t \in Threads : pc[t] = "idle" \/ req[t].op \in LockedOps
          /\ \A t \in Threads : pc'[t] = "idle" \/ req'[t].op \in LockedOps)
         => liveMount'[p].app = liveMount[p].app]_vars

\* Whatever ran before the crash, startup ends with the rows of all apps that it
\* could load equal to Git, and with their routes serving them.
StartupConverges ==
    [][phase = "starting" /\ phase' = "up" =>
         \A a \in registered \ failed :
             desired[a].rev # 0 =>
                /\ RowMatchesGit(a) /\ row[a].preview = desiredPreview[a]
                /\ row[a].status = "running" /\ row[a].enabled =>
                       liveMount[row[a].route] = [app |-> a, rev |-> row[a].current]]_vars
=============================================================================
