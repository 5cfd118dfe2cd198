--------------------------- MODULE DeploymentProofs ---------------------------
(***************************************************************************)
(* Theorems about Deployment for every value of its constants: any number  *)
(* of applications, routes, revisions and request threads, any mix of      *)
(* requests, with or without failing mounts and crashes.  Those that hold  *)
(* for one request at a time only, or without deletes, say so.             *)
(***************************************************************************)
EXTENDS Deployment, TLAPS, WellFoundedInduction

-----------------------------------------------------------------------------
(* The operators the actions are built from *)

\* A nonempty set of revisions has a greatest element, so MaxIn (the MAX of
\* next_revision_number, the last of a sorted release list) is well defined.
LEMMA MaxExists ==
    ASSUME NEW S \in SUBSET Revs, S # {}
    PROVE  \E m \in S : IsMax(m, S)
<1> DEFINE T == {MaxRev - x : x \in S}
<1>1. MaxRev \in Nat
  BY ConstantsAssumption
<1>2. T \subseteq Nat /\ T # {}
  <2>1. \A x \in S : x \in Int /\ 1 <= x /\ x <= MaxRev
    BY <1>1 DEF Revs
  <2>2. \A x \in S : MaxRev - x \in Nat
    BY <1>1, <2>1
  <2> QED BY <2>2
<1>3. PICK k \in T : \A y \in T : <<y, k>> \notin OpToRel(<, Nat)
  <2>1. IsWellFoundedOn(OpToRel(<, Nat), Nat)
    BY NatLessThanWellFounded
  <2> QED BY <1>2, <2>1, WFMin, Zenon
<1>4. \A y \in T : ~(y < k)
  BY <1>2, <1>3 DEF OpToRel
<1>5. PICK m \in S : k = MaxRev - m
  BY <1>3
<1>6. ASSUME NEW r \in S PROVE r <= m
  <2>1. ~(MaxRev - r < MaxRev - m)
    BY <1>4, <1>5
  <2>2. r \in Int /\ m \in Int
    BY <1>1 DEF Revs
  <2> QED BY <1>1, <2>1, <2>2
<1> QED BY <1>6 DEF IsMax

LEMMA MaxInType ==
    ASSUME NEW S \in SUBSET Revs
    PROVE  MaxIn(S) \in RevOrNone /\ (S # {} => IsMax(MaxIn(S), S))
<1>1. CASE S = {}
  BY <1>1, ConstantsAssumption DEF MaxIn, RevOrNone
<1>2. CASE S # {}
  <2>1. \E m \in S : IsMax(m, S)
    BY <1>2, MaxExists
  <2>2. IsMax(MaxIn(S), S)
    BY <1>2, <2>1 DEF MaxIn, IsMax
  <2>3. Revs \subseteq RevOrNone
    BY ConstantsAssumption DEF Revs, RevOrNone
  <2> QED BY <2>2, <2>3 DEF IsMax
<1> QED BY <1>1, <1>2

LEMMA FrameType ==
    ASSUME NEW o \in RequestOps \cup {"none", "startup"}, NEW a \in Apps
    PROVE  Frame(o, a) \in Request
  BY ConstantsAssumption DEF Frame, Request, NoSpec, LiveSpec, RevOrNone

LEMMA NoRequestType == NoRequest \in Request
<1>1. PICK a \in Apps : NoRequest = Frame("none", a)
  BY ConstantsAssumption DEF NoRequest
<1> QED BY <1>1, FrameType

LEMMA NoRowType == \A a \in Apps : NoRow(a) \in Row /\ NoSpec(a) \in LiveSpec
  BY ConstantsAssumption DEF NoRow, NoSpec, Row, LiveSpec, RevOrNone

LEMMA UnmountedType == Unmounted \in Mount
  BY ConstantsAssumption DEF Unmounted, Mount, RevOrNone

-----------------------------------------------------------------------------
(* Type correctness *)

\* What entering, leaving and passing through a request does to the threads.
LEMMA BeginType ==
    ASSUME TypeOK, NEW t \in Threads, NEW step \in Steps, NEW request \in Request,
           Begin(t, step, request)
    PROVE  pc' \in [Threads -> Steps] /\ req' \in [Threads -> Request]
  BY DEF TypeOK, Begin

LEMMA GotoType ==
    ASSUME TypeOK, NEW t \in Threads, NEW step \in Steps, Goto(t, step)
    PROVE  pc' \in [Threads -> Steps] /\ UNCHANGED <<req, lock>>
  BY DEF TypeOK, Goto

LEMMA ReturnType ==
    ASSUME TypeOK, NEW t \in Threads, Return(t)
    PROVE  /\ pc' \in [Threads -> Steps] /\ req' \in [Threads -> Request]
           /\ lock' \in [Apps -> Threads \cup {Nobody}]
  BY NoRequestType DEF TypeOK, Return, Unlock, Steps

\* One field of one app.
LEMMA FieldTypes ==
    ASSUME TypeOK, NEW a \in Apps
    PROVE  /\ \A s \in {"running", "stopped"} : [row EXCEPT ![a].status = s] \in [Apps -> Row]
           /\ \A r \in RevOrNone : [row EXCEPT ![a].preview = r] \in [Apps -> Row]
           /\ \A r \in Revs, s \in States : [revState EXCEPT ![a][r] = s] \in [Apps -> [Revs -> States]]
           /\ \A p \in Routes : [liveMount EXCEPT ![p] = Unmounted] \in [Routes -> Mount]
<1>1. row[a] \in Row /\ row \in [Apps -> Row]
  BY DEF TypeOK
<1>2. \A s \in {"running", "stopped"} : [row[a] EXCEPT !.status = s] \in Row
  BY <1>1 DEF Row
<1>3. \A r \in RevOrNone : [row[a] EXCEPT !.preview = r] \in Row
  BY <1>1 DEF Row
<1>4. revState[a] \in [Revs -> States] /\ revState \in [Apps -> [Revs -> States]]
  BY DEF TypeOK
<1>5. \A r \in Revs, s \in States : [revState EXCEPT ![a][r] = s] \in [Apps -> [Revs -> States]]
  BY <1>4
<1>6. \A p \in Routes : [liveMount EXCEPT ![p] = Unmounted] \in [Routes -> Mount]
  BY UnmountedType DEF TypeOK
<1> QED BY <1>1, <1>2, <1>3, <1>5, <1>6

LEMMA RaiseType ==
    ASSUME TypeOK, NEW t \in Threads, Raise(t)
    PROVE  TypeOK'
<1>1. /\ pc' \in [Threads -> Steps] /\ req' \in [Threads -> Request]
      /\ lock' \in [Apps -> Threads \cup {Nobody}]
  BY ReturnType DEF Raise
<1> QED BY <1>1 DEF Raise, TypeOK, gitVars, dbVars, mountVars

LEMMA LeaveReconcileType ==
    ASSUME TypeOK, NEW t \in Threads, NEW succeeded \in BOOLEAN, LeaveReconcile(t, succeeded)
    PROVE  /\ pc' \in [Threads -> Steps] /\ req' \in [Threads -> Request]
           /\ lock' \in [Apps -> Threads \cup {Nobody}]
           /\ failed' \subseteq Apps
<1>1. failed' \subseteq Apps
  <2>1. req[t].app \in Apps
    BY DEF TypeOK, Request
  <2> QED BY <2>1 DEF LeaveReconcile, TypeOK
<1>2. Goto(t, "nextApp") \/ Goto(t, "preflight") \/ Return(t)
  BY DEF LeaveReconcile
<1>3. "nextApp" \in Steps /\ "preflight" \in Steps
  BY DEF Steps
<1>4. CASE Return(t)
  BY <1>1, <1>4, ReturnType
<1>5. CASE Goto(t, "nextApp") \/ Goto(t, "preflight")
  BY <1>1, <1>3, <1>5, GotoType DEF TypeOK
<1> QED BY <1>2, <1>4, <1>5

LEMMA InitType == Init => TypeOK
<1> SUFFICES ASSUME Init PROVE TypeOK
  OBVIOUS
<1>1. 1 \in Revs /\ 0 \in RevOrNone /\ 1 \in RevOrNone
  BY ConstantsAssumption DEF Revs, RevOrNone
<1>2. desired \in [Apps -> LiveSpec]
  BY <1>1, NoRowType DEF Init, LiveSpec
<1>3. row \in [Apps -> Row]
  BY <1>1, NoRowType DEF Init, Row
<1>4. liveMount \in [Routes -> Mount]
  BY <1>1, UnmountedType, ConstantsAssumption DEF Init, Mount
<1>5. req \in [Threads -> Request]
  BY NoRequestType DEF Init
<1>6. /\ desiredPreview \in [Apps -> RevOrNone]
      /\ releases \in [Apps -> SUBSET Revs]
      /\ revState \in [Apps -> [Revs -> States]]
      /\ previewMount \in [Apps -> SUBSET Revs]
  BY <1>1 DEF Init, States
<1>7. /\ onMain \subseteq Apps /\ registered \subseteq Apps /\ failed \subseteq Apps
      /\ phase \in {"up", "down", "starting"}
      /\ lock \in [Apps -> Threads \cup {Nobody}]
      /\ pc \in [Threads -> Steps]
  BY ConstantsAssumption DEF Init, Steps
<1> QED BY <1>2, <1>3, <1>4, <1>5, <1>6, <1>7 DEF TypeOK

\* Accepting a request of an operation that holds the app's lock.
LEMMA LockedRequestType ==
    ASSUME TypeOK, NEW t \in Threads, NEW a \in Apps, LockedRequest(t, a)
    PROVE  TypeOK'
<1> DEFINE Typed == /\ pc' \in [Threads -> Steps] /\ req' \in [Threads -> Request]
                    /\ lock' \in [Apps -> Threads \cup {Nobody}]
<1>1. KnownRevs(a) \in SUBSET Revs
  BY DEF KnownRevs
<1>2. Revs \subseteq RevOrNone
  BY ConstantsAssumption DEF Revs, RevOrNone
<1>3. \A o \in LockedOps, r \in RevOrNone : [Frame(o, a) EXCEPT !.rev = r] \in Request
  <2>1. \A o \in LockedOps : Frame(o, a) \in Request
    BY FrameType DEF RequestOps
  <2> QED BY <2>1 DEF Request
<1>4. "insert" \in Steps /\ "publish" \in Steps
  BY DEF Steps
<1>5. CASE BeginBuild(t, a)
  <2>1. MaxIn(KnownRevs(a)) \in RevOrNone
    BY <1>1, MaxInType
  <2>2. NextRevision(a) \in RevOrNone
    BY <1>5, <2>1, ConstantsAssumption DEF BeginBuild, NextRevision, RevOrNone
  <2>3. Typed
    BY <1>3, <1>4, <1>5, <2>2, BeginType DEF BeginBuild, LockedOps, AcceptLocked, TypeOK
  <2> QED BY <1>5, <2>3 DEF BeginBuild, TypeOK, gitVars, dbVars, mountVars
<1>6. CASE BeginPreview(t, a)
  <2>1. Typed
    BY <1>1, <1>2, <1>3, <1>4, <1>6, BeginType DEF BeginPreview, LockedOps, AcceptLocked, TypeOK
  <2> QED BY <1>6, <2>1 DEF BeginPreview, TypeOK, gitVars, dbVars, mountVars
<1>7. CASE BeginPromote(t, a)
  <2>1. Typed
    BY <1>1, <1>2, <1>3, <1>4, <1>7, BeginType DEF BeginPromote, LockedOps, AcceptLocked, TypeOK
  <2> QED BY <1>7, <2>1 DEF BeginPromote, TypeOK, gitVars, dbVars, mountVars
<1>8. CASE BeginRollback(t, a)
  <2>1. row[a].rollback \in RevOrNone
    BY DEF TypeOK, Row
  <2>2. Typed
    BY <1>3, <1>4, <1>8, <2>1, BeginType DEF BeginRollback, LockedOps, AcceptLocked, TypeOK
  <2> QED BY <1>8, <2>2 DEF BeginRollback, TypeOK, gitVars, dbVars, mountVars
<1> QED BY <1>5, <1>6, <1>7, <1>8 DEF LockedRequest

\* Accepting a request of an operation that runs beside the lock.
LEMMA UnlockedRequestType ==
    ASSUME TypeOK, NEW t \in Threads, NEW a \in Apps, UnlockedRequest(t, a)
    PROVE  TypeOK'
<1> DEFINE Typed == pc' \in [Threads -> Steps] /\ req' \in [Threads -> Request]
<1>1. row[a] \in Row /\ ManifestRoute[a] \in Routes
  BY ConstantsAssumption DEF TypeOK
<1>2. 1 \in RevOrNone
  BY ConstantsAssumption DEF RevOrNone
<1>3. \A o \in RequestOps : Frame(o, a) \in Request
  BY FrameType
<1>4. {"createRev", "publish", "mountLive", "unmountRoute", "setRunning", "deleteGit"} \subseteq Steps
  BY DEF Steps
<1>5. {"create", "delete", "route", "enable", "policy", "start", "stop", "restart"} \subseteq RequestOps
  BY DEF RequestOps, ExposureOps, PowerOps
<1>6. \A p \in Routes : [liveMount EXCEPT ![p] = Unmounted] \in [Routes -> Mount]
  BY UnmountedType DEF TypeOK
<1>7. \A s \in {"running", "stopped"} : [row EXCEPT ![a].status = s] \in [Apps -> Row]
  BY <1>1 DEF TypeOK, Row
<1>8. CASE BeginCreate(t, a)
  <2>0. Frame("create", a) \in Request
    BY <1>3, <1>5
  <2>1. \A launch \in BOOLEAN : [Frame("create", a) EXCEPT !.rev = 1, !.launch = launch] \in Request
    BY <1>2, <2>0 DEF Request
  <2>2. Typed
    BY <1>4, <1>8, <2>1, BeginType DEF BeginCreate
  <2> QED BY <1>8, <2>2 DEF BeginCreate, TypeOK, gitVars, dbVars, mountVars
<1>9. CASE BeginDelete(t, a)
  <2>1. Typed
    BY <1>3, <1>4, <1>5, <1>9, BeginType DEF BeginDelete
  <2>2. previewMount' \in [Apps -> SUBSET Revs] /\ liveMount' \in [Routes -> Mount]
    BY <1>1, <1>6, <1>9 DEF BeginDelete, TypeOK, Row
  <2> QED BY <1>9, <2>1, <2>2 DEF BeginDelete, TypeOK, gitVars, dbVars
<1>10. CASE BeginRoute(t, a)
  <2>1. \A p \in Routes : [Frame("route", a) EXCEPT !.rev = row[a].current, !.route = p] \in Request
    <3>1. Frame("route", a) \in Request /\ row[a].current \in RevOrNone
      BY <1>1, <1>3, <1>5 DEF Row
    <3> QED BY <3>1 DEF Request
  <2>2. Typed
    BY <1>4, <1>10, <2>1, BeginType DEF BeginRoute
  <2> QED BY <1>10, <2>2 DEF BeginRoute, TypeOK, gitVars, dbVars, mountVars
<1>11. CASE BeginEnable(t, a)
  <2>1. \A e \in BOOLEAN : [Frame("enable", a) EXCEPT !.rev = row[a].current, !.enabled = e] \in Request
    <3>1. Frame("enable", a) \in Request /\ row[a].current \in RevOrNone
      BY <1>1, <1>3, <1>5 DEF Row
    <3> QED BY <3>1 DEF Request
  <2>2. Typed
    BY <1>4, <1>11, <2>1, BeginType DEF BeginEnable
  <2> QED BY <1>11, <2>2 DEF BeginEnable, TypeOK, gitVars, dbVars, mountVars
<1>12. CASE BeginPolicy(t, a)
  <2>1. \A q \in Policies : [Frame("policy", a) EXCEPT !.rev = row[a].current, !.policy = q] \in Request
    <3>1. Frame("policy", a) \in Request /\ row[a].current \in RevOrNone
      BY <1>1, <1>3, <1>5 DEF Row
    <3> QED BY <3>1 DEF Request
  <2>2. Typed
    BY <1>4, <1>12, <2>1, BeginType DEF BeginPolicy
  <2> QED BY <1>12, <2>2 DEF BeginPolicy, TypeOK, gitVars, dbVars, mountVars
<1>13. CASE BeginStart(t, a)
  <2>1. Typed
    BY <1>3, <1>4, <1>5, <1>13, BeginType DEF BeginStart, TypeOK
  <2>2. row' \in [Apps -> Row]
    BY <1>7, <1>13 DEF BeginStart
  <2> QED BY <1>13, <2>1, <2>2 DEF BeginStart, TypeOK, gitVars, mountVars
<1>14. CASE BeginStop(t, a)
  <2>1. [Frame("stop", a) EXCEPT !.route = row[a].route] \in Request
    BY <1>1, <1>3, <1>5 DEF Request, Row
  <2>2. Typed
    BY <1>4, <1>14, <2>1, BeginType DEF BeginStop
  <2>3. row' \in [Apps -> Row]
    BY <1>7, <1>14 DEF BeginStop
  <2> QED BY <1>14, <2>2, <2>3 DEF BeginStop, TypeOK, gitVars, mountVars
<1>15. CASE BeginRestart(t, a)
  <2>1. [Frame("restart", a) EXCEPT !.running = row[a].enabled] \in Request
    BY <1>1, <1>3, <1>5 DEF Request, Row
  <2>2. Typed
    BY <1>4, <1>15, <2>1, BeginType DEF BeginRestart
  <2>3. liveMount' \in [Routes -> Mount]
    BY <1>1, <1>6, <1>15 DEF BeginRestart, Row
  <2> QED BY <1>15, <2>2, <2>3 DEF BeginRestart, TypeOK, gitVars, dbVars
<1> QED BY <1>8, <1>9, <1>10, <1>11, <1>12, <1>13, <1>14, <1>15 DEF UnlockedRequest

\* A thread's own step: build, create and the writes to Git.
LEMMA WriteStepType ==
    ASSUME TypeOK, RevisionsAreNamed, NEW t \in Threads,
           \/ BuildInsert(t) \/ BuildRelease(t)
           \/ CreateRevisionRow(t) \/ CreateAppRow(t) \/ CreatePreflight(t)
           \/ Publish(t) \/ Desire(t) \/ ReadDesired(t)
    PROVE  TypeOK'
<1>1. /\ App(t) \in Apps /\ row[App(t)] \in Row
      /\ req[t] \in Request /\ req \in [Threads -> Request] /\ pc \in [Threads -> Steps]
      /\ releases \in [Apps -> SUBSET Revs]
  BY DEF TypeOK, Request, App
<1>2. 1 \in Revs /\ 1 \in RevOrNone /\ Revs \subseteq RevOrNone /\ 0 \in RevOrNone
  BY ConstantsAssumption DEF Revs, RevOrNone
<1>3. {"release", "createRow", "publish", "unmountRoute", "desire", "read", "applyRow"} \subseteq Steps
  BY DEF Steps
<1>4. CASE BuildInsert(t)
  <2>1. revState' \in [Apps -> [Revs -> States]]
    BY <1>1, <1>4, FieldTypes DEF BuildInsert, States
  <2>2. NextRevision(App(t)) \in RevOrNone
    BY <1>2, <1>4 DEF BuildInsert
  <2>3. [req[t] EXCEPT !.rev = NextRevision(App(t))] \in Request
    BY <1>1, <2>2 DEF Request
  <2>4. req' \in [Threads -> Request]
    BY <1>1, <1>4, <2>3 DEF BuildInsert
  <2> QED BY <1>3, <1>4, <2>1, <2>4 DEF BuildInsert, TypeOK, gitVars, mountVars
<1>5. CASE BuildRelease(t)
  <2>1. req[t].rev \in Revs
    BY <1>5 DEF BuildRelease, At, RevisionsAreNamed
  <2>2. releases' \in [Apps -> SUBSET Revs]
    BY <1>1, <1>5, <2>1 DEF BuildRelease
  <2> QED BY <1>5, <2>2, ReturnType DEF BuildRelease, TypeOK, dbVars, mountVars
<1>6. CASE CreateRevisionRow(t)
  <2>1. CASE revState[App(t)][1] = "absent"
    <3>1. revState' \in [Apps -> [Revs -> States]]
      <4>1. [revState EXCEPT ![App(t)][1] = "live"] \in [Apps -> [Revs -> States]]
        BY <1>1, <1>2, FieldTypes DEF States
      <4> QED BY <1>6, <2>1, <4>1 DEF CreateRevisionRow
    <3>2. pc' \in [Threads -> Steps] /\ UNCHANGED <<req, lock>>
      BY <1>3, <1>6, <2>1, GotoType DEF CreateRevisionRow
    <3> QED BY <1>6, <2>1, <3>1, <3>2 DEF CreateRevisionRow, TypeOK, gitVars, mountVars
  <2>2. CASE revState[App(t)][1] # "absent"
    BY <1>6, <2>2, RaiseType DEF CreateRevisionRow
  <2> QED BY <2>1, <2>2
<1>7. CASE CreateAppRow(t)
  <2>1. CASE App(t) \notin registered
    <3>1. NoRow(App(t)) \in Row
      BY <1>1, NoRowType
    <3> DEFINE s == IF req[t].launch THEN "running" ELSE "stopped"
    <3>2. [NoRow(App(t)) EXCEPT !.status = s, !.current = 1] \in Row
      BY <1>2, <3>1 DEF Row
    <3>3. row' \in [Apps -> Row]
      <4>1. row' = [row EXCEPT ![App(t)] = [NoRow(App(t)) EXCEPT !.status = s, !.current = 1]]
        BY <1>7, <2>1 DEF CreateAppRow
      <4> HIDE DEF s
      <4> QED BY <1>1, <3>2, <4>1 DEF TypeOK
    <3>4. pc' \in [Threads -> Steps] /\ UNCHANGED <<req, lock>>
      BY <1>3, <1>7, <2>1, GotoType DEF CreateAppRow
    <3> QED BY <1>1, <1>7, <2>1, <3>3, <3>4 DEF CreateAppRow, TypeOK, gitVars, mountVars
  <2>2. CASE App(t) \in registered
    BY <1>7, <2>2, RaiseType DEF CreateAppRow
  <2> QED BY <2>1, <2>2
<1>8. CASE CreatePreflight(t)
  <2>1. CASE Raise(t)
    BY <2>1, RaiseType
  <2>2. CASE ~Raise(t)
    <3>1. row' \in [Apps -> Row]
      <4>1. [row EXCEPT ![App(t)].status = "stopped"] \in [Apps -> Row]
        BY <1>1, FieldTypes
      <4> QED BY <1>8, <2>2, <4>1 DEF CreatePreflight
    <3>2. row[App(t)].route \in Routes
      BY <1>1 DEF Row
    <3>3. [req[t] EXCEPT !.route = row[App(t)].route] \in Request
      BY <1>1, <3>2 DEF Request
    <3>4. req' = [req EXCEPT ![t] = [req[t] EXCEPT !.route = row[App(t)].route]]
      BY <1>1, <1>8, <2>2 DEF CreatePreflight
    <3>5. req' \in [Threads -> Request]
      BY <1>1, <3>3, <3>4
    <3>6. pc' \in [Threads -> Steps]
      BY <1>1, <1>3, <1>8, <2>2 DEF CreatePreflight
    <3>7. UNCHANGED <<gitVars, registered, revState, mountVars, phase, lock, failed>>
      BY <1>8, <2>2 DEF CreatePreflight
    <3> QED BY <3>1, <3>5, <3>6, <3>7 DEF TypeOK, gitVars, mountVars
  <2> QED BY <2>1, <2>2
<1>9. CASE Publish(t)
  <2>1. CASE req[t].op # "preview" /\ App(t) \notin registered
    BY <1>9, <2>1, RaiseType DEF Publish
  <2>2. CASE ~(req[t].op # "preview" /\ App(t) \notin registered)
    <3>1. req[t].rev \in Revs
      BY <1>9 DEF Publish, At, RevisionsAreNamed
    <3>2. releases' \in [Apps -> SUBSET Revs] /\ onMain' \subseteq Apps
      <4>1. releases' = [releases EXCEPT ![App(t)] = @ \cup {req[t].rev}] /\ onMain' = onMain \cup {App(t)}
        BY <1>9, <2>2 DEF Publish
      <4>2. releases[App(t)] \cup {req[t].rev} \in SUBSET Revs
        BY <1>1, <3>1
      <4>3. onMain \subseteq Apps
        BY DEF TypeOK
      <4> QED BY <1>1, <4>1, <4>2, <4>3
    <3>3. PICK p \in Routes, b \in BOOLEAN, x \in Policies :
             req' = [req EXCEPT ![t] = [req[t] EXCEPT !.route = p, !.enabled = b, !.policy = x]]
      <4> DEFINE p == IF req[t].op = "route" THEN req[t].route ELSE row[App(t)].route
                 b == IF req[t].op = "enable" THEN req[t].enabled ELSE row[App(t)].enabled
                 x == IF req[t].op = "policy" THEN req[t].policy ELSE row[App(t)].policy
      <4>1. p \in Routes /\ b \in BOOLEAN /\ x \in Policies
        BY <1>1 DEF Request, Row
      <4>2. req' = [req EXCEPT ![t] = [req[t] EXCEPT !.route = p, !.enabled = b, !.policy = x]]
        BY <1>9, <2>2 DEF Publish
      <4> QED BY <4>1, <4>2
    <3>4. [req[t] EXCEPT !.route = p, !.enabled = b, !.policy = x] \in Request
      BY <1>1 DEF Request
    <3>5. req' \in [Threads -> Request]
      BY <1>1, <3>3, <3>4
    <3> QED BY <1>3, <1>9, <2>2, <3>2, <3>5 DEF Publish, TypeOK, dbVars, mountVars
  <2> QED BY <2>1, <2>2
<1>10. CASE Desire(t)
  <2>1. pc' \in [Threads -> Steps] /\ UNCHANGED <<req, lock>>
    BY <1>3, <1>10, GotoType DEF Desire
  <2>2. /\ req[t].rev \in RevOrNone /\ req[t].route \in Routes
        /\ req[t].enabled \in BOOLEAN /\ req[t].policy \in Policies
    BY <1>1 DEF Request
  <2>3. desiredPreview' \in [Apps -> RevOrNone]
    BY <1>1, <1>2, <1>10, <2>2 DEF Desire, TypeOK
  <2>4. desired' \in [Apps -> LiveSpec]
    <3> DEFINE spec == [rev |-> req[t].rev, route |-> req[t].route,
                        enabled |-> req[t].enabled, policy |-> req[t].policy]
    <3>1. spec \in LiveSpec
      BY <2>2 DEF LiveSpec
    <3>2. desired' = desired \/ desired' = [desired EXCEPT ![App(t)] = spec]
      BY <1>10 DEF Desire
    <3> HIDE DEF spec
    <3> QED BY <1>1, <3>1, <3>2 DEF TypeOK
  <2> QED BY <1>10, <2>1, <2>3, <2>4 DEF Desire, TypeOK, dbVars, mountVars
<1>11. CASE ReadDesired(t)
  <2>1. CASE App(t) \notin registered
    BY <1>11, <2>1, RaiseType DEF ReadDesired
  <2>2. CASE App(t) \in registered
    <3>1. desired \in [Apps -> LiveSpec] /\ desiredPreview \in [Apps -> RevOrNone]
      BY DEF TypeOK
    <3>2. [req[t] EXCEPT !.live = desired, !.preview = desiredPreview] \in Request
      BY <1>1, <3>1 DEF Request
    <3>3. req' = [req EXCEPT ![t] = [req[t] EXCEPT !.live = desired, !.preview = desiredPreview]]
      BY <1>1, <1>11, <2>2 DEF ReadDesired
    <3>4. req' \in [Threads -> Request]
      BY <1>1, <3>2, <3>3
    <3> QED BY <1>3, <1>11, <2>2, <3>4 DEF ReadDesired, TypeOK, gitVars, dbVars, mountVars
  <2> QED BY <2>1, <2>2
<1> QED BY <1>4, <1>5, <1>6, <1>7, <1>8, <1>9, <1>10, <1>11

LEMMA MountLiveType ==
    ASSUME TypeOK, NEW a \in Apps, NEW mounts \in [Routes -> Mount], NEW succeeded \in BOOLEAN,
           MountLive(a, mounts, succeeded)
    PROVE  liveMount' \in [Routes -> Mount]
<1> DEFINE m == IF row[a].enabled THEN [app |-> a, rev |-> row[a].current] ELSE Unmounted
<1>1. row[a].route \in Routes /\ m \in Mount
  BY UnmountedType DEF TypeOK, Row, Mount
<1>2. liveMount' = mounts \/ liveMount' = [mounts EXCEPT ![row[a].route] = m]
  BY DEF MountLive
<1> HIDE DEF m
<1> QED BY <1>1, <1>2

\* A thread's own step: the three parts of _reconcile_app_desired_state.
LEMMA ApplyStepType ==
    ASSUME TypeOK, RevisionsAreNamed, NEW t \in Threads,
           ApplyRow(t) \/ ApplyMount(t) \/ ApplyPreview(t)
    PROVE  TypeOK'
<1> DEFINE Left == /\ pc' \in [Threads -> Steps] /\ req' \in [Threads -> Request]
                   /\ lock' \in [Apps -> Threads \cup {Nobody}] /\ failed' \subseteq Apps
<1>1. /\ App(t) \in Apps /\ row[App(t)] \in Row
      /\ req[t] \in Request /\ req \in [Threads -> Request] /\ pc \in [Threads -> Steps]
      /\ req[t].live[App(t)] \in LiveSpec /\ req[t].preview[App(t)] \in RevOrNone
      /\ req[t].route \in Routes
  BY DEF TypeOK, Request, App
<1>2. Revs \subseteq RevOrNone /\ 0 \in RevOrNone /\ \A r \in RevOrNone : r # 0 => r \in Revs
  BY ConstantsAssumption DEF Revs, RevOrNone
<1>3. "applyMount" \in Steps /\ "applyPreview" \in Steps
  BY DEF Steps
<1>4. \A succeeded \in BOOLEAN : LeaveReconcile(t, succeeded) => Left
  BY LeaveReconcileType
<1>5. Goto(t, "applyPreview") /\ UNCHANGED failed => Left
  BY <1>3, GotoType DEF TypeOK
<1>6. CASE ApplyRow(t)
  <2> DEFINE spec == req[t].live[App(t)]
             r == DesiredLive(t)
             old == row[App(t)]
             exposed == [old EXCEPT !.route = spec.route, !.enabled = spec.enabled, !.policy = spec.policy]
             changed == r # 0 /\ r # old.current
             new == IF changed THEN PromotedRow(exposed, r) ELSE exposed
             states == [s \in Revs |-> IF s = r THEN "live"
                                       ELSE IF s = old.current THEN "archived" ELSE revState[App(t)][s]]
  <2>1. CASE LeaveReconcile(t, FALSE) /\ UNCHANGED <<gitVars, dbVars, mountVars, phase>>
    BY <1>4, <2>1 DEF TypeOK, gitVars, dbVars, mountVars
  <2>2. CASE Goto(t, "applyPreview") /\ UNCHANGED <<gitVars, dbVars, mountVars, phase, failed>>
    BY <1>5, <2>2 DEF TypeOK, gitVars, dbVars, mountVars
  <2>3. CASE /\ row' = [row EXCEPT ![App(t)] = new]
             /\ revState' = IF ~changed THEN revState ELSE [revState EXCEPT ![App(t)] = states]
             /\ req' = [req EXCEPT ![t] = [req[t] EXCEPT !.route = old.route,
                                       !.running = (new.enabled /\ new.status = "running")]]
             /\ pc' = [pc EXCEPT ![t] = "applyMount"]
             /\ UNCHANGED <<gitVars, registered, mountVars, phase, lock, failed>>
    <3>1. r \in RevOrNone
      BY <1>1, <1>2 DEF DesiredLive, LiveSpec
    <3>2. exposed \in Row
      BY <1>1 DEF LiveSpec, Row
    <3>3. PromotedRow(exposed, r) \in Row
      BY <1>2, <3>1, <3>2 DEF PromotedRow, Row
    <3>4. new \in Row
      BY <3>2, <3>3
    <3>5. row' \in [Apps -> Row]
      <4> HIDE DEF new
      <4> QED BY <1>1, <2>3, <3>4 DEF TypeOK
    <3>6. states \in [Revs -> States]
      BY <1>1 DEF TypeOK, States
    <3>7. revState' \in [Apps -> [Revs -> States]]
      <4> HIDE DEF states, changed
      <4> QED BY <1>1, <2>3, <3>6 DEF TypeOK
    <3>8. old.route \in Routes /\ (new.enabled /\ new.status = "running") \in BOOLEAN
      BY <1>1 DEF Row
    <3>9. [req[t] EXCEPT !.route = old.route, !.running = (new.enabled /\ new.status = "running")] \in Request
      <4> HIDE DEF new, old
      <4> QED BY <1>1, <3>8 DEF Request
    <3>10. req' \in [Threads -> Request]
      <4> HIDE DEF new, old
      <4> QED BY <1>1, <2>3, <3>9
    <3>11. pc' \in [Threads -> Steps]
      BY <1>1, <1>3, <2>3
    <3> QED BY <2>3, <3>5, <3>7, <3>10, <3>11 DEF TypeOK, gitVars, mountVars
  <2> QED BY <1>1, <1>6, <2>1, <2>2, <2>3 DEF ApplyRow
<1>7. CASE ApplyMount(t)
  <2>1. WithoutOldRoute(t) \in [Routes -> Mount]
    BY <1>1, FieldTypes DEF WithoutOldRoute, TypeOK
  <2>2. Left
    BY <1>4, <1>5, <1>7 DEF ApplyMount
  <2>3. liveMount' \in [Routes -> Mount]
    <3>1. CASE \E succeeded \in BOOLEAN : MountLive(App(t), WithoutOldRoute(t), succeeded)
      BY <1>1, <2>1, <3>1, MountLiveType
    <3>2. CASE liveMount' = [WithoutOldRoute(t) EXCEPT ![req[t].live[App(t)].route] = Unmounted]
      BY <1>1, <2>1, <3>2, UnmountedType DEF LiveSpec
    <3> QED BY <1>7, <3>1, <3>2 DEF ApplyMount
  <2> QED BY <1>7, <2>2, <2>3 DEF ApplyMount, TypeOK, gitVars, dbVars
<1>8. CASE ApplyPreview(t)
  <2> DEFINE r == req[t].preview[App(t)]
             shown == row[App(t)].preview
  <2>1. r \in RevOrNone /\ shown \in RevOrNone
    BY <1>1 DEF Row
  <2>2. Left
    <3>1. LeaveReconcile(t, TRUE) \/ LeaveReconcile(t, FALSE) \/ LeaveReconcile(t, App(t) \in registered)
      BY <1>8 DEF ApplyPreview
    <3>2. (App(t) \in registered) \in BOOLEAN
      OBVIOUS
    <3> HIDE DEF Left
    <3> QED BY <1>4, <3>1, <3>2
  <2>3. row' \in [Apps -> Row]
    <3>1. \A x \in RevOrNone : [row EXCEPT ![App(t)].preview = x] \in [Apps -> Row]
      BY <1>1, FieldTypes
    <3>2. row' = row \/ row' = [row EXCEPT ![App(t)].preview = r] \/ row' = [row EXCEPT ![App(t)].preview = 0]
      BY <1>8 DEF ApplyPreview, dbVars
    <3> QED BY <1>2, <2>1, <3>1, <3>2 DEF TypeOK
  <2>4. revState' \in [Apps -> [Revs -> States]]
    <3>1. \A x \in Revs, s \in States : [revState EXCEPT ![App(t)][x] = s] \in [Apps -> [Revs -> States]]
      BY <1>1, FieldTypes
    <3>2. \/ revState' = revState
          \/ r \in Revs /\ revState' = [revState EXCEPT ![App(t)][r] = "warming"]
          \/ shown # 0 /\ revState' = [revState EXCEPT ![App(t)][shown] = "archived"]
      BY <1>8 DEF ApplyPreview, dbVars, KnownRevs
    <3>3. "warming" \in States /\ "archived" \in States
      BY DEF States
    <3> QED BY <1>2, <2>1, <3>1, <3>2, <3>3 DEF TypeOK
  <2>5. previewMount' \in [Apps -> SUBSET Revs]
    <3>1. previewMount[App(t)] \in SUBSET Revs /\ previewMount \in [Apps -> SUBSET Revs]
      BY <1>1 DEF TypeOK
    <3>2. \/ previewMount' = previewMount
          \/ r \in Revs /\ previewMount' = [previewMount EXCEPT ![App(t)] = @ \cup {r}]
          \/ previewMount' = [previewMount EXCEPT ![App(t)] = @ \ {shown}]
      BY <1>8 DEF ApplyPreview, KnownRevs
    <3> QED BY <1>1, <3>1, <3>2
  <2>6. registered' = registered
    BY <1>8 DEF ApplyPreview, dbVars
  <2> QED BY <1>8, <2>2, <2>3, <2>4, <2>5, <2>6 DEF ApplyPreview, TypeOK, gitVars
<1> QED BY <1>6, <1>7, <1>8

\* A thread's own step: start, stop, restart, delete, and a pass over the fleet.
LEMMA FinishStepType ==
    ASSUME TypeOK, RevisionsAreNamed, NEW t \in Threads,
           \/ SetRunning(t) \/ FinishMountLive(t) \/ FinishUnmount(t)
           \/ DeleteGit(t) \/ DeleteRow(t)
           \/ NextApp(t) \/ FleetDone(t)
    PROVE  TypeOK'
<1>1. /\ App(t) \in Apps /\ req[t] \in Request
      /\ req \in [Threads -> Request] /\ pc \in [Threads -> Steps]
      /\ req[t].route \in Routes
  BY DEF TypeOK, Request, App
<1>2. {"mountLive", "deleteRow", "applyRow", "nextApp"} \subseteq Steps
  BY DEF Steps
<1>3. 0 \in RevOrNone /\ {} \subseteq Revs
  BY ConstantsAssumption DEF RevOrNone
<1>4. CASE SetRunning(t)
  <2>1. row' \in [Apps -> Row]
    <3>1. [row EXCEPT ![App(t)].status = "running"] \in [Apps -> Row]
      BY <1>1, FieldTypes
    <3> QED BY <1>4, <3>1 DEF SetRunning, TypeOK
  <2>2. CASE Return(t)
    BY <1>4, <2>1, <2>2, ReturnType DEF SetRunning, TypeOK, gitVars, mountVars
  <2>3. CASE Goto(t, "mountLive")
    BY <1>2, <1>4, <2>1, <2>3, GotoType DEF SetRunning, TypeOK, gitVars, mountVars
  <2> QED BY <1>4, <2>2, <2>3 DEF SetRunning
<1>5. CASE FinishMountLive(t)
  <2>1. liveMount' \in [Routes -> Mount] /\ failed' \subseteq Apps
    BY <1>1, <1>5, MountLiveType DEF FinishMountLive, TypeOK
  <2> QED BY <1>5, <2>1, ReturnType DEF FinishMountLive, TypeOK, gitVars, dbVars
<1>6. CASE FinishUnmount(t)
  <2>1. liveMount' \in [Routes -> Mount]
    BY <1>1, <1>6, FieldTypes DEF FinishUnmount
  <2> QED BY <1>6, <2>1, ReturnType DEF FinishUnmount, TypeOK, gitVars, dbVars
<1>7. CASE DeleteGit(t)
  <2>1. desired' \in [Apps -> LiveSpec]
    BY <1>1, <1>7, NoRowType DEF DeleteGit, TypeOK
  <2>2. desiredPreview' \in [Apps -> RevOrNone] /\ releases' \in [Apps -> SUBSET Revs] /\ onMain' \subseteq Apps
    BY <1>1, <1>3, <1>7 DEF DeleteGit, TypeOK
  <2>3. pc' \in [Threads -> Steps] /\ UNCHANGED <<req, lock>>
    BY <1>2, <1>7, GotoType DEF DeleteGit
  <2> QED BY <1>7, <2>1, <2>2, <2>3 DEF DeleteGit, TypeOK, dbVars, mountVars
<1>8. CASE DeleteRow(t)
  <2>1. registered' \subseteq Apps /\ failed' \subseteq Apps
    BY <1>8 DEF DeleteRow, TypeOK, dbVars
  <2>2. row' \in [Apps -> Row]
    BY <1>1, <1>8, NoRowType DEF DeleteRow, TypeOK, dbVars
  <2>3. revState' \in [Apps -> [Revs -> States]]
    <3>1. [r \in Revs |-> "absent"] \in [Revs -> States]
      BY DEF States
    <3>2. \/ revState' = revState
          \/ revState' = [revState EXCEPT ![App(t)] = [r \in Revs |-> "absent"]]
      BY <1>8 DEF DeleteRow, dbVars
    <3> QED BY <1>1, <3>1, <3>2 DEF TypeOK
  <2> QED BY <1>8, <2>1, <2>2, <2>3, ReturnType DEF DeleteRow, TypeOK, gitVars, mountVars
<1>9. CASE NextApp(t)
  <2>1. PICK a \in req[t].todo : /\ req' = [req EXCEPT ![t] = [req[t] EXCEPT !.app = a, !.todo = @ \ {a}]]
                                 /\ pc' = [pc EXCEPT ![t] = IF a \in registered THEN "applyRow" ELSE "nextApp"]
    BY <1>1, <1>9 DEF NextApp
  <2>2. [req[t] EXCEPT !.app = a, !.todo = @ \ {a}] \in Request
    BY <1>1 DEF Request
  <2>3. req' \in [Threads -> Request] /\ pc' \in [Threads -> Steps]
    BY <1>1, <1>2, <2>1, <2>2
  <2> QED BY <1>9, <2>3 DEF NextApp, TypeOK, gitVars, dbVars, mountVars
<1>10. CASE FleetDone(t)
  BY <1>10, ReturnType DEF FleetDone, TypeOK, gitVars, dbVars, mountVars
<1> QED BY <1>4, <1>5, <1>6, <1>7, <1>8, <1>9, <1>10

LEMMA FleetRequestType ==
    ASSUME TypeOK, NEW o \in FleetOps, NEW apps \in SUBSET Apps
    PROVE  FleetRequest(o, apps) \in Request
<1>1. FleetTodo(apps) \subseteq Apps
  BY DEF FleetTodo
<1>2. NoRequest \in Request /\ desired \in [Apps -> LiveSpec] /\ desiredPreview \in [Apps -> RevOrNone]
  BY NoRequestType DEF TypeOK
<1>3. o \in RequestOps \cup {"none", "startup"}
  BY DEF FleetOps, RequestOps
<1> QED BY <1>1, <1>2, <1>3 DEF FleetRequest, Request

LEMMA BackfilledType ==
    ASSUME TypeOK
    PROVE  BackfilledReleases \in [Apps -> SUBSET Revs]
  BY DEF BackfilledReleases, TypeOK, KnownRevs

\* rebuild_cache_from_git gives every app it rebuilds a row and a current revision.
LEMMA RebuiltType ==
    ASSUME TypeOK, NEW a \in Apps, NEW rel \in SUBSET Revs
    PROVE  /\ RebuiltRow(a, rel) \in Row
           /\ RebuiltStates(a, rel) \in [Revs -> States]
           /\ rel # {} => RebuiltRow(a, rel).current \in Revs
<1>1. desired[a] \in LiveSpec /\ row[a] \in Row /\ revState[a] \in [Revs -> States]
      /\ desiredPreview[a] \in RevOrNone
  BY DEF TypeOK
<1>2. Revs \subseteq RevOrNone /\ 0 \in RevOrNone
  BY ConstantsAssumption DEF Revs, RevOrNone
<1>3. RebuiltCurrent(a, rel) \in RevOrNone /\ (rel # {} => RebuiltCurrent(a, rel) \in Revs)
  <2>1. MaxIn(rel) \in RevOrNone /\ (rel # {} => MaxIn(rel) \in rel)
    BY MaxInType DEF IsMax
  <2> QED BY <1>2, <2>1 DEF RebuiltCurrent
<1>4. RebuiltPreview(a, rel) \in RevOrNone
  BY <1>1, <1>2 DEF RebuiltPreview
<1>5. MaxIn({r \in rel : r < RebuiltCurrent(a, rel)}) \in RevOrNone
  <2>1. {r \in rel : r < RebuiltCurrent(a, rel)} \in SUBSET Revs
    OBVIOUS
  <2> QED BY <2>1, MaxInType
<1>6. RebuiltRow(a, rel) \in Row
  <2> DEFINE exposure == IF desired[a].rev # 0 THEN desired[a] ELSE row[a]
             status == IF a \in registered THEN row[a].status ELSE "running"
  <2>1. exposure.route \in Routes /\ exposure.enabled \in BOOLEAN /\ exposure.policy \in Policies
    BY <1>1 DEF LiveSpec, Row
  <2>2. status \in {"running", "stopped"}
    BY <1>1 DEF Row
  <2>3. RebuiltRow(a, rel) = [status |-> status, route |-> exposure.route, enabled |-> exposure.enabled,
          policy |-> exposure.policy, current |-> RebuiltCurrent(a, rel), preview |-> RebuiltPreview(a, rel),
          rollback |-> MaxIn({r \in rel : r < RebuiltCurrent(a, rel)})]
    BY DEF RebuiltRow
  <2> HIDE DEF exposure, status
  <2> QED BY <1>3, <1>4, <1>5, <2>1, <2>2, <2>3 DEF Row
<1>7. RebuiltStates(a, rel) \in [Revs -> States]
  BY <1>1 DEF RebuiltStates, States
<1>8. RebuiltRow(a, rel).current = RebuiltCurrent(a, rel)
  BY DEF RebuiltRow
<1> QED BY <1>3, <1>6, <1>7, <1>8

\* Crash, startup and the start of a pass over the fleet.
LEMMA ProcessStepType ==
    ASSUME TypeOK, RevisionsAreNamed, NEW t \in Threads,
           BeginReconcile(t) \/ Startup(t) \/ Crash
    PROVE  TypeOK'
<1>1. "nextApp" \in Steps /\ "idle" \in Steps
  BY DEF Steps
<1>2. CASE BeginReconcile(t)
  <2>1. FleetRequest("reconcile", registered) \in Request
    BY FleetRequestType DEF FleetOps, TypeOK
  <2>2. pc' \in [Threads -> Steps] /\ req' \in [Threads -> Request]
    BY <1>1, <1>2, <2>1, BeginType DEF BeginReconcile
  <2> QED BY <1>2, <2>2 DEF BeginReconcile, TypeOK, gitVars, dbVars, mountVars
<1>3. CASE Startup(t)
  <2> DEFINE rebuilt == {a \in onMain : BackfilledReleases[a] # {}}
             apps == registered \cup rebuilt
             rows == [a \in Apps |-> IF a \in rebuilt THEN RebuiltRow(a, BackfilledReleases[a]) ELSE row[a]]
  <2>1. apps \subseteq Apps /\ BackfilledReleases \in [Apps -> SUBSET Revs]
    BY BackfilledType DEF TypeOK
  <2>2. rows \in [Apps -> Row]
    BY <2>1, RebuiltType DEF TypeOK
  <2>3. registered' = apps /\ row' = rows /\ releases' = BackfilledReleases
    BY <1>3 DEF Startup
  <2>4. revState' \in [Apps -> [Revs -> States]]
    <3>1. \A a \in Apps : /\ RebuiltStates(a, BackfilledReleases[a]) \in [Revs -> States]
                          /\ revState[a] \in [Revs -> States]
      BY <2>1, RebuiltType DEF TypeOK
    <3> QED BY <1>3, <3>1 DEF Startup
  <2> HIDE DEF apps, rows
  <2>5. PICK chosen \in SUBSET apps :
           /\ failed' = Wanted(apps, rows) \ chosen
           /\ liveMount' = [p \in Routes |->
                 IF \E a \in chosen : rows[a].route = p
                 THEN LET a == CHOOSE b \in chosen : rows[b].route = p
                      IN  [app |-> a, rev |-> rows[a].current]
                 ELSE Unmounted]
    BY <1>3 DEF Startup, apps, rows
  <2>6. liveMount' \in [Routes -> Mount]
    <3>1. \A a \in Apps : [app |-> a, rev |-> rows[a].current] \in Mount
      BY <2>2 DEF Row, Mount
    <3>2. ASSUME NEW p \in Routes, \E a \in chosen : rows[a].route = p
          PROVE  (CHOOSE b \in chosen : rows[b].route = p) \in Apps
      BY <2>1, <3>2
    <3> QED BY <2>5, <3>1, <3>2, UnmountedType
  <2>7. failed' \subseteq Apps
    BY <2>1, <2>5 DEF Wanted
  <2>8. previewMount' \in [Apps -> SUBSET Revs]
    <3>1. PICK shown : previewMount' = [a \in Apps |-> IF a \in shown THEN {rows[a].preview} \ {0} ELSE {}]
      BY <1>3 DEF Startup, rows
    <3>2. \A a \in Apps : {rows[a].preview} \ {0} \subseteq Revs
      <4>1. \A r \in RevOrNone : r # 0 => r \in Revs
        BY ConstantsAssumption DEF Revs, RevOrNone
      <4> QED BY <2>2, <4>1 DEF Row
    <3> QED BY <3>1, <3>2
  <2>9. pc' \in [Threads -> Steps] /\ req' \in [Threads -> Request]
    <3>1. Begin(t, "nextApp", FleetRequest("startup", apps))
      BY <1>3 DEF Startup, apps
    <3>2. FleetRequest("startup", apps) \in Request
      BY <2>1, FleetRequestType DEF FleetOps
    <3> QED BY <1>1, <3>1, <3>2, BeginType
  <2>10. phase' = "starting" /\ UNCHANGED <<desired, desiredPreview, onMain, lock>>
    BY <1>3 DEF Startup
  <2> QED BY <2>1, <2>2, <2>3, <2>4, <2>6, <2>7, <2>8, <2>9, <2>10 DEF TypeOK
<1>4. CASE Crash
  BY <1>1, <1>4, NoRequestType, UnmountedType DEF Crash, TypeOK, gitVars, dbVars
<1> QED BY <1>2, <1>3, <1>4

LEMMA StepType ==
    ASSUME TypeOK, RevisionsAreNamed, [Next]_vars
    PROVE  TypeOK'
<1>1. CASE UNCHANGED vars
  BY <1>1 DEF TypeOK, vars
<1>2. CASE Next
  <2>1. CASE \E t \in Threads, a \in Apps : LockedRequest(t, a) \/ UnlockedRequest(t, a)
    BY <2>1, LockedRequestType, UnlockedRequestType
  <2>2. CASE \E t \in Threads : BeginReconcile(t) \/ Startup(t)
    BY <2>2, ProcessStepType
  <2>3. CASE \E t \in Threads : Step(t)
    BY <2>3, WriteStepType, ApplyStepType, FinishStepType DEF Step
  <2>4. CASE Crash
    <3>1. CASE \E t \in Threads : TRUE
      BY <2>4, <3>1, ProcessStepType
    <3>2. CASE Threads = {}
      BY <2>4, <3>2, UnmountedType, NoRequestType DEF Crash, TypeOK, gitVars, dbVars
    <3> QED BY <3>1, <3>2
  <2> QED BY <1>2, <2>1, <2>2, <2>3, <2>4 DEF Next
<1> QED BY <1>1, <1>2

-----------------------------------------------------------------------------
(* What a step does to the threads *)

\* Only thread t moves.
OnlyMoves(t) == \A u \in Threads \ {t} : pc'[u] = pc[u] /\ req'[u] = req[u]

LEMMA BeginEffect ==
    ASSUME TypeOK, NEW t \in Threads, NEW step, NEW request, Begin(t, step, request)
    PROVE  OnlyMoves(t) /\ pc'[t] = step /\ req'[t] = request
  BY DEF TypeOK, Begin, OnlyMoves

LEMMA GotoEffect ==
    ASSUME TypeOK, NEW t \in Threads, NEW step, Goto(t, step)
    PROVE  OnlyMoves(t) /\ pc'[t] = step /\ UNCHANGED <<req, lock>>
  BY DEF TypeOK, Goto, OnlyMoves

LEMMA ReturnEffect ==
    ASSUME TypeOK, NEW t \in Threads, Return(t)
    PROVE  OnlyMoves(t) /\ pc'[t] = "idle" /\ Unlock(t)
  BY DEF TypeOK, Return, OnlyMoves

LEMMA LeaveEffect ==
    ASSUME TypeOK, NEW t \in Threads, NEW succeeded, LeaveReconcile(t, succeeded)
    PROVE  \/ Return(t)
           \/ Goto(t, "preflight")
           \/ Goto(t, "nextApp") /\ req[t].op \in FleetOps
  BY DEF LeaveReconcile

\* A request keeps its operation, its app and its lock until it returns; a pass
\* over the fleet alone goes from app to app.
LEMMA StepEffect ==
    ASSUME TypeOK, NEW t \in Threads, Step(t)
    PROVE  /\ pc[t] # "idle" /\ OnlyMoves(t)
           /\ \/ pc'[t] = "idle" /\ Unlock(t)
              \/ /\ UNCHANGED lock /\ pc'[t] # "idle" /\ req'[t].op = req[t].op
                 /\ req'[t].app = req[t].app \/ pc[t] = "nextApp"
                 /\ pc'[t] = "nextApp" => pc[t] = "nextApp" \/ req[t].op \in FleetOps
<1> DEFINE Effect == /\ OnlyMoves(t)
                     /\ \/ pc'[t] = "idle" /\ Unlock(t)
                        \/ /\ UNCHANGED lock /\ pc'[t] # "idle" /\ req'[t].op = req[t].op
                           /\ req'[t].app = req[t].app \/ pc[t] = "nextApp"
                           /\ pc'[t] = "nextApp" => pc[t] = "nextApp" \/ req[t].op \in FleetOps
<1>1. req \in [Threads -> Request] /\ req[t] \in Request /\ pc \in [Threads -> Steps]
  BY DEF TypeOK
<1>2. ASSUME NEW step, Goto(t, step), step # "idle", step # "nextApp" \/ req[t].op \in FleetOps PROVE Effect
  BY <1>2, GotoEffect
<1>3. ASSUME Return(t) PROVE Effect
  BY <1>3, ReturnEffect
<1>4. ASSUME Raise(t) PROVE Effect
  BY <1>3, <1>4 DEF Raise
<1>5. ASSUME NEW succeeded, LeaveReconcile(t, succeeded) PROVE Effect
  BY <1>2, <1>3, <1>5, LeaveEffect
<1>6. ASSUME NEW f, NEW step, req' = [req EXCEPT ![t] = f], pc' = [pc EXCEPT ![t] = step], UNCHANGED lock,
             f.op = req[t].op, f.app = req[t].app \/ pc[t] = "nextApp",
             step # "idle", step = "nextApp" => pc[t] = "nextApp"
      PROVE  Effect
  BY <1>1, <1>6 DEF OnlyMoves
<1> HIDE DEF Effect
<1>7. CASE BuildInsert(t)
  <2>1. req' = [req EXCEPT ![t] = [req[t] EXCEPT !.rev = NextRevision(App(t))]]
    BY <1>1, <1>7 DEF BuildInsert
  <2>2. LET f == [req[t] EXCEPT !.rev = NextRevision(App(t))]
        IN f.op = req[t].op /\ f.app = req[t].app
    BY <1>1 DEF Request
  <2>3. Effect
    BY <1>6, <1>7, <2>1, <2>2 DEF BuildInsert
  <2> QED BY <1>7, <2>3 DEF BuildInsert, At, Effect
<1>8. CASE Publish(t)
  <2>1. CASE Raise(t)
    BY <1>4, <1>8, <2>1 DEF Publish, At, Effect
  <2>2. CASE ~Raise(t)
    <3> DEFINE p == IF req[t].op = "route" THEN req[t].route ELSE row[App(t)].route
               e == IF req[t].op = "enable" THEN req[t].enabled ELSE row[App(t)].enabled
               x == IF req[t].op = "policy" THEN req[t].policy ELSE row[App(t)].policy
    <3>1. req' = [req EXCEPT ![t] = [req[t] EXCEPT !.route = p, !.enabled = e, !.policy = x]]
      BY <1>8, <2>2 DEF Publish
    <3> HIDE DEF p, e, x
    <3>2. LET f == [req[t] EXCEPT !.route = p, !.enabled = e, !.policy = x]
          IN f.op = req[t].op /\ f.app = req[t].app
      BY <1>1 DEF Request
    <3>3. pc' = [pc EXCEPT ![t] = "desire"] /\ UNCHANGED lock
      BY <1>8, <2>2 DEF Publish
    <3>4. Effect
      BY <1>6, <3>1, <3>2, <3>3
    <3> QED BY <1>8, <3>4 DEF Publish, At, Effect
  <2> QED BY <2>1, <2>2
<1>9. CASE ReadDesired(t)
  <2>1. CASE Raise(t)
    BY <1>4, <1>9, <2>1 DEF ReadDesired, At, Effect
  <2>2. CASE ~Raise(t)
    <3>1. req' = [req EXCEPT ![t] = [req[t] EXCEPT !.live = desired, !.preview = desiredPreview]]
      BY <1>1, <1>9, <2>2 DEF ReadDesired
    <3>2. LET f == [req[t] EXCEPT !.live = desired, !.preview = desiredPreview]
          IN f.op = req[t].op /\ f.app = req[t].app
      BY <1>1 DEF Request
    <3>3. pc' = [pc EXCEPT ![t] = "applyRow"] /\ UNCHANGED lock
      BY <1>9, <2>2 DEF ReadDesired
    <3>4. Effect
      BY <1>6, <3>1, <3>2, <3>3
    <3> QED BY <1>9, <3>4 DEF ReadDesired, At, Effect
  <2> QED BY <2>1, <2>2
<1>10. CASE CreatePreflight(t)
  <2>1. CASE Raise(t)
    BY <1>4, <1>10, <2>1 DEF CreatePreflight, At, Effect
  <2>2. CASE ~Raise(t)
    <3>1. req' = [req EXCEPT ![t] = [req[t] EXCEPT !.route = row[App(t)].route]]
      BY <1>1, <1>10, <2>2 DEF CreatePreflight
    <3>2. LET f == [req[t] EXCEPT !.route = row[App(t)].route]
          IN f.op = req[t].op /\ f.app = req[t].app
      BY <1>1 DEF Request
    <3>3. pc' = [pc EXCEPT ![t] = "unmountRoute"] /\ UNCHANGED lock
      BY <1>10, <2>2 DEF CreatePreflight
    <3>4. Effect
      BY <1>6, <3>1, <3>2, <3>3
    <3> QED BY <1>10, <3>4 DEF CreatePreflight, At, Effect
  <2> QED BY <2>1, <2>2
<1>11. CASE ApplyRow(t)
  <2>1. CASE LeaveReconcile(t, FALSE) \/ Goto(t, "applyPreview")
    BY <1>2, <1>5, <1>11, <2>1 DEF ApplyRow, At, Effect
  <2>2. CASE ~LeaveReconcile(t, FALSE) /\ ~Goto(t, "applyPreview")
    <3>1. PICK p, b : req' = [req EXCEPT ![t] = [req[t] EXCEPT !.route = p, !.running = b]]
      <4>1. PICK p, b : req' = [req EXCEPT ![t].route = p, ![t].running = b]
        BY <1>11, <2>2 DEF ApplyRow
      <4> QED BY <1>1, <4>1
    <3>2. LET f == [req[t] EXCEPT !.route = p, !.running = b]
          IN f.op = req[t].op /\ f.app = req[t].app
      BY <1>1 DEF Request
    <3>3. pc' = [pc EXCEPT ![t] = "applyMount"] /\ UNCHANGED lock
      BY <1>11, <2>2 DEF ApplyRow
    <3>4. Effect
      BY <1>6, <3>1, <3>2, <3>3
    <3> QED BY <1>11, <3>4 DEF ApplyRow, At, Effect
  <2> QED BY <2>1, <2>2
<1>12. CASE NextApp(t)
  <2>1. PICK a : /\ req' = [req EXCEPT ![t] = [req[t] EXCEPT !.app = a, !.todo = @ \ {a}]]
                 /\ pc' = [pc EXCEPT ![t] = IF a \in registered THEN "applyRow" ELSE "nextApp"]
    BY <1>1, <1>12 DEF NextApp
  <2>2. [req[t] EXCEPT !.app = a, !.todo = @ \ {a}].op = req[t].op
    BY <1>1 DEF Request
  <2>3. Effect
    BY <1>6, <1>12, <2>1, <2>2 DEF NextApp, At
  <2> QED BY <1>12, <2>3 DEF NextApp, At, Effect
<1>13. CASE BuildRelease(t) \/ FinishMountLive(t) \/ FinishUnmount(t) \/ DeleteRow(t) \/ FleetDone(t)
  <2>1. Effect
    BY <1>3, <1>13 DEF BuildRelease, FinishMountLive, FinishUnmount, DeleteRow, FleetDone
  <2> QED BY <1>13, <2>1 DEF BuildRelease, FinishMountLive, FinishUnmount, DeleteRow, FleetDone, At, Effect
<1>14. CASE CreateRevisionRow(t) \/ CreateAppRow(t) \/ Desire(t) \/ SetRunning(t) \/ DeleteGit(t)
  <2>1. Effect
    BY <1>2, <1>3, <1>4, <1>14 DEF CreateRevisionRow, CreateAppRow, Desire, SetRunning, DeleteGit
  <2> QED BY <1>14, <2>1 DEF CreateRevisionRow, CreateAppRow, Desire, SetRunning, DeleteGit, At, Effect
<1>15. CASE ApplyMount(t) \/ ApplyPreview(t)
  <2>1. Effect
    BY <1>2, <1>5, <1>15 DEF ApplyMount, ApplyPreview
  <2> QED BY <1>15, <2>1 DEF ApplyMount, ApplyPreview, At, Effect
<1> QED BY <1>7, <1>8, <1>9, <1>10, <1>11, <1>12, <1>13, <1>14, <1>15 DEF Step

\* What accepting a request does to the threads and the locks.
LEMMA LockedRequestEffect ==
    ASSUME TypeOK, NEW t \in Threads, NEW a \in Apps, LockedRequest(t, a)
    PROVE  /\ OnlyMoves(t) /\ pc[t] = "idle" /\ pc'[t] \in {"insert", "publish"}
           /\ req'[t].op \in LockedOps /\ req'[t].app = a
           /\ lock[a] = Nobody /\ lock' = [lock EXCEPT ![a] = t]
<1>1. \A o, r : LET f == [Frame(o, a) EXCEPT !.rev = r] IN f.op = o /\ f.app = a
  BY DEF Frame
<1>2. PICK o, r : /\ o \in LockedOps /\ AcceptLocked(t, o, a)
                  /\ \E step \in {"insert", "publish"} : Begin(t, step, [Frame(o, a) EXCEPT !.rev = r])
  <2>1. CASE BeginBuild(t, a)
    BY <2>1 DEF BeginBuild, LockedOps
  <2>2. CASE BeginPreview(t, a)
    BY <2>2 DEF BeginPreview, LockedOps
  <2>3. CASE BeginPromote(t, a)
    BY <2>3 DEF BeginPromote, LockedOps
  <2>4. CASE BeginRollback(t, a)
    BY <2>4 DEF BeginRollback, LockedOps
  <2> QED BY <2>1, <2>2, <2>3, <2>4 DEF LockedRequest
<1>3. PICK step \in {"insert", "publish"} : Begin(t, step, [Frame(o, a) EXCEPT !.rev = r])
  BY <1>2
<1>4. OnlyMoves(t) /\ pc'[t] = step /\ req'[t] = [Frame(o, a) EXCEPT !.rev = r]
  BY <1>3, BeginEffect
<1>5. req'[t].op = o /\ req'[t].app = a
  BY <1>1, <1>4
<1>6. pc[t] = "idle" /\ lock[a] = Nobody /\ lock' = [lock EXCEPT ![a] = t]
  BY <1>2 DEF AcceptLocked, Accept
<1> QED BY <1>2, <1>3, <1>4, <1>5, <1>6

LEMMA UnlockedRequestEffect ==
    ASSUME TypeOK, NEW t \in Threads, NEW a \in Apps, UnlockedRequest(t, a)
    PROVE  /\ OnlyMoves(t) /\ pc[t] = "idle" /\ UNCHANGED lock
           /\ \/ pc'[t] = "idle"
              \/ /\ req'[t].op \in RequestOps \ (LockedOps \cup FleetOps) /\ req'[t].app = a
                 /\ pc'[t] \in {"createRev", "deleteGit", "publish", "mountLive", "unmountRoute", "setRunning"}
<1> DEFINE Ours == {"create", "delete", "route", "enable", "policy", "start", "stop", "restart"}
           Entries == {"createRev", "deleteGit", "publish", "mountLive", "unmountRoute", "setRunning"}
<1>1. Ours \subseteq RequestOps \ (LockedOps \cup FleetOps)
  BY DEF RequestOps, LockedOps, ExposureOps, PowerOps, FleetOps
<1>2. ASSUME NEW o \in Ours, NEW q, NEW step \in Entries, q.op = o, q.app = a, Begin(t, step, q),
             pc[t] = "idle", UNCHANGED lock
      PROVE  /\ OnlyMoves(t) /\ pc[t] = "idle" /\ UNCHANGED lock
             /\ req'[t].op \in RequestOps \ (LockedOps \cup FleetOps) /\ req'[t].app = a
             /\ pc'[t] \in Entries
  BY <1>1, <1>2, BeginEffect
<1>3. CASE BeginCreate(t, a)
  <2>1. \A l : LET f == [Frame("create", a) EXCEPT !.rev = 1, !.launch = l] IN f.op = "create" /\ f.app = a
    BY DEF Frame
  <2> QED BY <1>2, <1>3, <2>1 DEF BeginCreate, Accept
<1>4. CASE BeginDelete(t, a)
  <2>1. Frame("delete", a).op = "delete" /\ Frame("delete", a).app = a
    BY DEF Frame
  <2> QED BY <1>2, <1>4, <2>1 DEF BeginDelete, Accept
<1>5. CASE BeginRoute(t, a)
  <2>1. \A r, p : LET f == [Frame("route", a) EXCEPT !.rev = r, !.route = p] IN f.op = "route" /\ f.app = a
    BY DEF Frame
  <2> QED BY <1>2, <1>5, <2>1 DEF BeginRoute, Accept
<1>6. CASE BeginEnable(t, a)
  <2>1. \A r, e : LET f == [Frame("enable", a) EXCEPT !.rev = r, !.enabled = e] IN f.op = "enable" /\ f.app = a
    BY DEF Frame
  <2> QED BY <1>2, <1>6, <2>1 DEF BeginEnable, Accept
<1>7. CASE BeginPolicy(t, a)
  <2>1. \A r, x : LET f == [Frame("policy", a) EXCEPT !.rev = r, !.policy = x] IN f.op = "policy" /\ f.app = a
    BY DEF Frame
  <2> QED BY <1>2, <1>7, <2>1 DEF BeginPolicy, Accept
<1>8. CASE BeginStart(t, a)
  <2>1. Frame("start", a).op = "start" /\ Frame("start", a).app = a
    BY DEF Frame
  <2>2. CASE row[a].enabled
    BY <1>2, <1>8, <2>1, <2>2 DEF BeginStart, Accept
  <2>3. CASE ~row[a].enabled
    BY <1>8, <2>3 DEF BeginStart, Accept, OnlyMoves
  <2> QED BY <2>2, <2>3
<1>9. CASE BeginStop(t, a)
  <2>1. \A p : LET f == [Frame("stop", a) EXCEPT !.route = p] IN f.op = "stop" /\ f.app = a
    BY DEF Frame
  <2> QED BY <1>2, <1>9, <2>1 DEF BeginStop, Accept
<1>10. CASE BeginRestart(t, a)
  <2>1. \A b : LET f == [Frame("restart", a) EXCEPT !.running = b] IN f.op = "restart" /\ f.app = a
    BY DEF Frame
  <2> QED BY <1>2, <1>10, <2>1 DEF BeginRestart, Accept
<1> QED BY <1>3, <1>4, <1>5, <1>6, <1>7, <1>8, <1>9, <1>10 DEF UnlockedRequest

\* A thread that starts a pass over the fleet holds no app's lock for it.
LEMMA FleetEffect ==
    ASSUME TypeOK, NEW t \in Threads, BeginReconcile(t) \/ Startup(t)
    PROVE  OnlyMoves(t) /\ pc'[t] = "nextApp" /\ req'[t].op \in FleetOps /\ UNCHANGED lock
<1>1. \A o, apps : FleetRequest(o, apps).op = o
  BY DEF FleetRequest, NoRequest, Frame
<1>2. PICK o, apps : o \in FleetOps /\ Begin(t, "nextApp", FleetRequest(o, apps))
  <2>1. CASE BeginReconcile(t)
    BY <2>1 DEF BeginReconcile, FleetOps
  <2>2. CASE Startup(t)
    <3>1. \E apps : Begin(t, "nextApp", FleetRequest("startup", apps))
      BY <2>2 DEF Startup
    <3> QED BY <3>1 DEF FleetOps
  <2> QED BY <2>1, <2>2
<1>3. UNCHANGED lock
  BY DEF BeginReconcile, Startup
<1> QED BY <1>1, <1>2, <1>3, BeginEffect

-----------------------------------------------------------------------------
(* RevisionsAreNamed, the part of the induction that TypeOK needs *)

NamingSteps == {"createRev", "createRow", "release", "publish", "desire"}
RowsNamed == \A a \in registered : row[a].current \in Revs
RequestNamed(t) == pc[t] \in NamingSteps => req[t].rev \in Revs

LEMMA NamedParts == RevisionsAreNamed <=> RowsNamed /\ \A t \in Threads : RequestNamed(t)
  BY DEF RevisionsAreNamed, RowsNamed, RequestNamed, NamingSteps

LEMMA RevisionRange ==
    /\ 1 \in Revs /\ \A r \in RevOrNone : r # 0 => r \in Revs
    /\ TypeOK => \A a \in Apps : KnownRevs(a) \subseteq Revs
  BY ConstantsAssumption DEF Revs, RevOrNone, KnownRevs

LEMMA InitNamed == Init => RevisionsAreNamed
<1> SUFFICES ASSUME Init PROVE RevisionsAreNamed
  OBVIOUS
<1>1. \A a \in registered : row[a].current = 1
  BY ConstantsAssumption DEF Init, NoRow
<1>2. \A t \in Threads : pc[t] = "idle"
  BY DEF Init
<1> QED BY <1>1, <1>2, RevisionRange DEF RevisionsAreNamed

\* A request that is accepted names a revision of its app.
LEMMA RequestNames ==
    ASSUME TypeOK, RowsNamed, NEW t \in Threads, NEW a \in Apps,
           LockedRequest(t, a) \/ UnlockedRequest(t, a)
    PROVE  RequestNamed(t)'
<1>0. ASSUME NEW step, NEW q, Begin(t, step, q), step \in NamingSteps => q.rev \in Revs
      PROVE  RequestNamed(t)'
  <2>1. pc'[t] = step /\ req'[t] = q
    BY <1>0, BeginEffect
  <2> QED BY <1>0, <2>1 DEF RequestNamed
<1>1. \A o, r : [Frame(o, a) EXCEPT !.rev = r].rev = r
  BY DEF Frame
<1>2. CASE BeginBuild(t, a)
  BY <1>0, <1>2 DEF BeginBuild, NamingSteps
<1>3. CASE BeginPreview(t, a)
  <2>1. PICK r \in KnownRevs(a) : Begin(t, "publish", [Frame("preview", a) EXCEPT !.rev = r])
    BY <1>3 DEF BeginPreview
  <2> QED BY <1>0, <1>1, <2>1, RevisionRange
<1>4. CASE BeginPromote(t, a)
  <2>1. PICK r \in KnownRevs(a) : Begin(t, "publish", [Frame("promote", a) EXCEPT !.rev = r])
    BY <1>4 DEF BeginPromote
  <2> QED BY <1>0, <1>1, <2>1, RevisionRange
<1>5. CASE BeginRollback(t, a)
  <2>1. row[a].rollback \in Revs
    BY <1>5, RevisionRange DEF BeginRollback, TypeOK, Row
  <2> QED BY <1>0, <1>1, <1>5, <2>1 DEF BeginRollback
<1>6. CASE BeginCreate(t, a)
  <2>1. PICK l : Begin(t, "createRev", [Frame("create", a) EXCEPT !.rev = 1, !.launch = l])
    BY <1>6 DEF BeginCreate
  <2>2. [Frame("create", a) EXCEPT !.rev = 1, !.launch = l].rev = 1
    BY DEF Frame
  <2> QED BY <1>0, <2>1, <2>2, RevisionRange
<1>7. CASE BeginRoute(t, a)
  <2>1. PICK p : Begin(t, "publish", [Frame("route", a) EXCEPT !.rev = row[a].current, !.route = p])
    BY <1>7 DEF BeginRoute
  <2>2. [Frame("route", a) EXCEPT !.rev = row[a].current, !.route = p].rev = row[a].current
    BY DEF Frame
  <2> QED BY <1>0, <1>7, <2>1, <2>2 DEF BeginRoute, RowsNamed
<1>8. CASE BeginEnable(t, a)
  <2>1. PICK e : Begin(t, "publish", [Frame("enable", a) EXCEPT !.rev = row[a].current, !.enabled = e])
    BY <1>8 DEF BeginEnable
  <2>2. [Frame("enable", a) EXCEPT !.rev = row[a].current, !.enabled = e].rev = row[a].current
    BY DEF Frame
  <2> QED BY <1>0, <1>8, <2>1, <2>2 DEF BeginEnable, RowsNamed
<1>9. CASE BeginPolicy(t, a)
  <2>1. PICK x : Begin(t, "publish", [Frame("policy", a) EXCEPT !.rev = row[a].current, !.policy = x])
    BY <1>9 DEF BeginPolicy
  <2>2. [Frame("policy", a) EXCEPT !.rev = row[a].current, !.policy = x].rev = row[a].current
    BY DEF Frame
  <2> QED BY <1>0, <1>9, <2>1, <2>2 DEF BeginPolicy, RowsNamed
<1>10. CASE BeginDelete(t, a) \/ BeginStart(t, a) \/ BeginStop(t, a) \/ BeginRestart(t, a)
  <2>1. CASE \E q : \E step \in {"deleteGit", "mountLive", "unmountRoute", "setRunning"} : Begin(t, step, q)
    BY <1>0, <2>1 DEF NamingSteps
  <2>2. CASE UNCHANGED <<pc, req>>
    BY <1>10, <2>2 DEF BeginDelete, BeginStart, BeginStop, BeginRestart, Accept, RequestNamed, NamingSteps
  <2> QED BY <1>10, <2>1, <2>2 DEF BeginDelete, BeginStart, BeginStop, BeginRestart
<1> QED BY <1>2, <1>3, <1>4, <1>5, <1>6, <1>7, <1>8, <1>9, <1>10 DEF LockedRequest, UnlockedRequest

\* A request that goes on names the revision it named, or the one it inserted.
LEMMA StepNames ==
    ASSUME TypeOK, NEW t \in Threads, RequestNamed(t), Step(t)
    PROVE  RequestNamed(t)'
<1>1. req \in [Threads -> Request] /\ req[t] \in Request /\ pc \in [Threads -> Steps]
  BY DEF TypeOK
<1>2. ASSUME NEW step, Goto(t, step), step \in NamingSteps => pc[t] \in NamingSteps PROVE RequestNamed(t)'
  BY <1>2, GotoEffect DEF RequestNamed
<1>3. ASSUME Return(t) PROVE RequestNamed(t)'
  BY <1>3, ReturnEffect DEF RequestNamed, NamingSteps
<1>4. ASSUME Raise(t) PROVE RequestNamed(t)'
  BY <1>3, <1>4 DEF Raise
<1>5. ASSUME NEW succeeded, LeaveReconcile(t, succeeded) PROVE RequestNamed(t)'
  BY <1>2, <1>3, <1>5, LeaveEffect DEF NamingSteps
<1>6. ASSUME NEW step, pc' = [pc EXCEPT ![t] = step], step \notin NamingSteps PROVE RequestNamed(t)'
  BY <1>1, <1>6 DEF RequestNamed
<1>7. CASE BuildInsert(t)
  <2>1. req' = [req EXCEPT ![t] = [req[t] EXCEPT !.rev = NextRevision(App(t))]]
    BY <1>1, <1>7 DEF BuildInsert
  <2>2. [req[t] EXCEPT !.rev = NextRevision(App(t))].rev = NextRevision(App(t))
    BY <1>1 DEF Request
  <2> QED BY <1>1, <1>7, <2>1, <2>2 DEF BuildInsert, RequestNamed
<1>8. CASE Publish(t)
  <2>1. CASE Raise(t)
    BY <1>4, <2>1
  <2>2. CASE ~Raise(t)
    <3> DEFINE p == IF req[t].op = "route" THEN req[t].route ELSE row[App(t)].route
               e == IF req[t].op = "enable" THEN req[t].enabled ELSE row[App(t)].enabled
               x == IF req[t].op = "policy" THEN req[t].policy ELSE row[App(t)].policy
    <3>1. req' = [req EXCEPT ![t] = [req[t] EXCEPT !.route = p, !.enabled = e, !.policy = x]]
      BY <1>8, <2>2 DEF Publish
    <3> HIDE DEF p, e, x
    <3>2. [req[t] EXCEPT !.route = p, !.enabled = e, !.policy = x].rev = req[t].rev
      BY <1>1 DEF Request
    <3>3. req[t].rev \in Revs
      BY <1>8 DEF Publish, At, RequestNamed, NamingSteps
    <3> QED BY <1>1, <3>1, <3>2, <3>3 DEF RequestNamed
  <2> QED BY <2>1, <2>2
<1>9. CASE ReadDesired(t) \/ CreatePreflight(t) \/ NextApp(t)
  BY <1>4, <1>6, <1>9 DEF ReadDesired, CreatePreflight, NextApp, NamingSteps
<1>10. CASE ApplyRow(t)
  <2>1. CASE LeaveReconcile(t, FALSE) \/ Goto(t, "applyPreview")
    BY <1>2, <1>5, <2>1 DEF NamingSteps
  <2>2. CASE pc' = [pc EXCEPT ![t] = "applyMount"]
    BY <1>6, <2>2 DEF NamingSteps
  <2> QED BY <1>10, <2>1, <2>2 DEF ApplyRow
<1>11. CASE ApplyMount(t) \/ ApplyPreview(t)
  BY <1>2, <1>5, <1>11 DEF ApplyMount, ApplyPreview, NamingSteps
<1>12. CASE CreateRevisionRow(t) \/ CreateAppRow(t)
  BY <1>2, <1>4, <1>12 DEF CreateRevisionRow, CreateAppRow, At, NamingSteps
<1>13. CASE Desire(t) \/ SetRunning(t) \/ DeleteGit(t)
  BY <1>2, <1>3, <1>13 DEF Desire, SetRunning, DeleteGit, NamingSteps
<1>14. CASE BuildRelease(t) \/ FinishMountLive(t) \/ FinishUnmount(t) \/ DeleteRow(t) \/ FleetDone(t)
  BY <1>3, <1>14 DEF BuildRelease, FinishMountLive, FinishUnmount, DeleteRow, FleetDone
<1> QED BY <1>7, <1>8, <1>9, <1>10, <1>11, <1>12, <1>13, <1>14 DEF Step

\* No row loses its current revision.
LEMMA RowsStayNamed ==
    ASSUME TypeOK, RevisionsAreNamed, NEW t \in Threads, NEW b \in Apps,
           \/ LockedRequest(t, b) \/ UnlockedRequest(t, b)
           \/ BeginReconcile(t) \/ Startup(t) \/ Step(t)
    PROVE  RowsNamed'
<1>1. /\ App(t) \in Apps /\ registered \subseteq Apps
      /\ row \in [Apps -> Row] /\ \A a \in Apps : row[a] \in Row
  BY DEF TypeOK, Request, App
<1>2. \A a \in registered : row[a].current \in Revs
  BY DEF RevisionsAreNamed
<1>3. ASSUME registered' \subseteq registered, \A a \in registered' : row'[a].current = row[a].current
      PROVE  RowsNamed'
  BY <1>2, <1>3 DEF RowsNamed
<1>4. ASSUME UNCHANGED <<registered, row>> PROVE RowsNamed'
  BY <1>2, <1>4 DEF RowsNamed
<1>5. ASSUME NEW c \in Apps, NEW s, row' = [row EXCEPT ![c].status = s], UNCHANGED registered
      PROVE  RowsNamed'
  <2>1. [row[c] EXCEPT !.status = s].current = row[c].current
    BY <1>1 DEF Row
  <2> QED BY <1>1, <1>3, <1>5, <2>1
<1>6. CASE LockedRequest(t, b)
  BY <1>4, <1>6 DEF LockedRequest, BeginBuild, BeginPreview, BeginPromote, BeginRollback, dbVars
<1>7. CASE UnlockedRequest(t, b)
  <2>1. CASE BeginStart(t, b)
    BY <1>5, <2>1 DEF BeginStart
  <2>2. CASE BeginStop(t, b)
    BY <1>5, <2>2 DEF BeginStop
  <2>3. CASE ~BeginStart(t, b) /\ ~BeginStop(t, b)
    BY <1>4, <1>7, <2>3 DEF UnlockedRequest, BeginCreate, BeginDelete, BeginRoute, BeginEnable, BeginPolicy,
                            BeginRestart, dbVars
  <2> QED BY <2>1, <2>2, <2>3
<1>8. CASE BeginReconcile(t)
  BY <1>4, <1>8 DEF BeginReconcile, dbVars
<1>9. CASE Startup(t)
  <2> DEFINE rebuilt == {a \in onMain : BackfilledReleases[a] # {}}
  <2>1. /\ registered' = registered \cup rebuilt
        /\ row' = [a \in Apps |-> IF a \in rebuilt THEN RebuiltRow(a, BackfilledReleases[a]) ELSE row[a]]
    BY <1>9 DEF Startup
  <2>2. \A a \in rebuilt : a \in Apps /\ RebuiltRow(a, BackfilledReleases[a]).current \in Revs
    BY RebuiltType, BackfilledType DEF TypeOK
  <2> HIDE DEF rebuilt
  <2> QED BY <1>1, <1>2, <2>1, <2>2 DEF RowsNamed
<1>10. CASE CreateAppRow(t)
  <2>1. CASE Raise(t)
    BY <1>4, <2>1 DEF Raise, dbVars
  <2>2. CASE ~Raise(t)
    <3> DEFINE status == IF req[t].launch THEN "running" ELSE "stopped"
    <3>1. /\ registered' = registered \cup {App(t)}
          /\ row' = [row EXCEPT ![App(t)] = [NoRow(App(t)) EXCEPT !.status = status, !.current = 1]]
      BY <1>10, <2>2 DEF CreateAppRow
    <3> HIDE DEF status
    <3>2. [NoRow(App(t)) EXCEPT !.status = status, !.current = 1].current = 1
      BY DEF NoRow
    <3> QED BY <1>1, <1>2, <3>1, <3>2, RevisionRange DEF RowsNamed
  <2> QED BY <2>1, <2>2
<1>11. CASE ApplyRow(t)
  <2> DEFINE spec == req[t].live[App(t)]
             r == DesiredLive(t)
             exposed == [row[App(t)] EXCEPT !.route = spec.route, !.enabled = spec.enabled, !.policy = spec.policy]
             changed == r # 0 /\ r # row[App(t)].current
             new == IF changed THEN PromotedRow(exposed, r) ELSE exposed
  <2>1. CASE UNCHANGED <<registered, row>>
    BY <1>4, <2>1
  <2>2. CASE ~UNCHANGED <<registered, row>>
    <3>1. row' = [row EXCEPT ![App(t)] = new] /\ UNCHANGED registered /\ App(t) \in registered
      BY <1>11, <2>2 DEF ApplyRow, dbVars
    <3>2. exposed.current = row[App(t)].current
      BY <1>1 DEF Row
    <3>3. PromotedRow(exposed, r).current = r
      BY <1>1 DEF PromotedRow, Row
    <3>4. r # 0 => r \in Revs
      BY DEF DesiredLive, KnownRevs
    <3>5. new.current \in Revs
      BY <1>2, <3>1, <3>2, <3>3, <3>4
    <3> HIDE DEF new
    <3> QED BY <1>1, <1>2, <3>1, <3>5 DEF RowsNamed
  <2> QED BY <2>1, <2>2
<1>12. CASE ApplyPreview(t)
  <2>1. CASE UNCHANGED <<registered, row>>
    BY <1>4, <2>1
  <2>2. CASE ~UNCHANGED <<registered, row>>
    <3>1. PICK x : row' = [row EXCEPT ![App(t)].preview = x] /\ UNCHANGED registered
      <4>1. \/ row' = [row EXCEPT ![App(t)].preview = req[t].preview[App(t)]]
            \/ row' = [row EXCEPT ![App(t)].preview = 0]
        BY <1>12, <2>2 DEF ApplyPreview, dbVars
      <4>2. UNCHANGED registered
        BY <1>12 DEF ApplyPreview, dbVars
      <4> QED BY <4>1, <4>2
    <3>2. [row[App(t)] EXCEPT !.preview = x].current = row[App(t)].current
      BY <1>1 DEF Row
    <3> QED BY <1>1, <1>3, <3>1, <3>2
  <2> QED BY <2>1, <2>2
<1>13. CASE CreatePreflight(t)
  BY <1>1, <1>4, <1>5, <1>13 DEF CreatePreflight, Raise, dbVars
<1>14. CASE SetRunning(t)
  BY <1>1, <1>4, <1>5, <1>14 DEF SetRunning
<1>15. CASE DeleteRow(t)
  <2>1. CASE App(t) \in registered
    <3>1. registered' = registered \ {App(t)} /\ row' = [row EXCEPT ![App(t)] = NoRow(App(t))]
      BY <1>15, <2>1 DEF DeleteRow
    <3> QED BY <1>1, <1>3, <3>1
  <2>2. CASE App(t) \notin registered
    BY <1>4, <1>15, <2>2 DEF DeleteRow, dbVars
  <2> QED BY <2>1, <2>2
<1>16. CASE \/ BuildInsert(t) \/ BuildRelease(t) \/ CreateRevisionRow(t) \/ Publish(t) \/ Desire(t)
            \/ ReadDesired(t) \/ ApplyMount(t) \/ FinishMountLive(t) \/ FinishUnmount(t) \/ DeleteGit(t)
            \/ NextApp(t) \/ FleetDone(t)
  <2>1. UNCHANGED <<registered, row>>
    BY <1>16 DEF BuildInsert, BuildRelease, CreateRevisionRow, Publish, Desire, ReadDesired, ApplyMount,
                 FinishMountLive, FinishUnmount, DeleteGit, NextApp, FleetDone, Raise, dbVars
  <2> QED BY <1>4, <2>1
<1> QED BY <1>6, <1>7, <1>8, <1>9, <1>10, <1>11, <1>12, <1>13, <1>14, <1>15, <1>16 DEF Step

LEMMA StepNamed ==
    ASSUME TypeOK, RevisionsAreNamed, [Next]_vars
    PROVE  RevisionsAreNamed'
<1>1. RowsNamed /\ \A t \in Threads : RequestNamed(t)
  BY NamedParts
<1>2. ASSUME RowsNamed', \A t \in Threads : RequestNamed(t)' PROVE RevisionsAreNamed'
  BY <1>2 DEF RevisionsAreNamed, RowsNamed, RequestNamed, NamingSteps
<1>3. ASSUME NEW t \in Threads, OnlyMoves(t), RequestNamed(t)' PROVE \A u \in Threads : RequestNamed(u)'
  BY <1>1, <1>3 DEF OnlyMoves, RequestNamed
<1>4. CASE UNCHANGED vars
  BY <1>4 DEF RevisionsAreNamed, vars
<1>5. CASE Crash
  BY <1>1, <1>2, <1>5 DEF Crash, RowsNamed, RequestNamed, NamingSteps, dbVars
<1>6. ASSUME NEW t \in Threads, NEW a \in Apps, LockedRequest(t, a) \/ UnlockedRequest(t, a)
      PROVE  RevisionsAreNamed'
  <2>1. RequestNamed(t)' /\ OnlyMoves(t)
    BY <1>1, <1>6, RequestNames, LockedRequestEffect, UnlockedRequestEffect
  <2>2. RowsNamed'
    BY <1>6, RowsStayNamed
  <2> QED BY <1>2, <1>3, <2>1, <2>2
<1>7. ASSUME NEW t \in Threads, BeginReconcile(t) \/ Startup(t) PROVE RevisionsAreNamed'
  <2>1. RequestNamed(t)' /\ OnlyMoves(t)
    BY <1>7, FleetEffect DEF RequestNamed, NamingSteps
  <2>2. RowsNamed'
    BY <1>7, RowsStayNamed, ConstantsAssumption
  <2> QED BY <1>2, <1>3, <2>1, <2>2
<1>8. ASSUME NEW t \in Threads, Step(t) PROVE RevisionsAreNamed'
  <2>1. RequestNamed(t)' /\ OnlyMoves(t)
    BY <1>1, <1>8, StepNames, StepEffect
  <2>2. RowsNamed'
    BY <1>8, RowsStayNamed, ConstantsAssumption
  <2> QED BY <1>2, <1>3, <2>1, <2>2
<1> QED BY <1>4, <1>5, <1>6, <1>7, <1>8 DEF Next

\* Every variable keeps its type, whatever the threads do and wherever the process
\* crashes; it takes RevisionsAreNamed to show that no release is numbered 0.
THEOREM TypeCorrect == Spec => []TypeOK
<1>1. Init => TypeOK /\ RevisionsAreNamed
  BY InitType, InitNamed
<1>2. TypeOK /\ RevisionsAreNamed /\ [Next]_vars => TypeOK' /\ RevisionsAreNamed'
  BY StepType, StepNamed
<1> QED BY <1>1, <1>2, PTL DEF Spec

\* Every registered app has a current revision, also right after startup rebuilt
\* its row from Git, and no request writes to Git without a revision to write.
THEOREM RevisionsNamed == Spec => []RevisionsAreNamed
<1>1. Init => TypeOK /\ RevisionsAreNamed
  BY InitType, InitNamed
<1>2. TypeOK /\ RevisionsAreNamed /\ [Next]_vars => TypeOK' /\ RevisionsAreNamed'
  BY StepType, StepNamed
<1> QED BY <1>1, <1>2, PTL DEF Spec

-----------------------------------------------------------------------------
(* The per-app lock *)

\* Why the lock excludes: a thread that runs a locked operation is the holder of
\* the lock of the app it runs it on, and never goes to another app.
LockHeld ==
    \A t \in Threads :
        /\ pc[t] # "idle" /\ req[t].op \in LockedOps => lock[req[t].app] = t
        /\ pc[t] = "nextApp" => req[t].op \in FleetOps

LEMMA OpsDisjoint == LockedOps \cap FleetOps = {}
  BY DEF LockedOps, FleetOps

LEMMA StepLockHeld ==
    ASSUME TypeOK, LockHeld, [Next]_vars
    PROVE  LockHeld'
<1>1. \A t \in Threads : req[t].app \in Apps /\ t # Nobody
  BY ConstantsAssumption DEF TypeOK, Request
<1>2. CASE UNCHANGED vars
  BY <1>2 DEF LockHeld, vars
<1>3. CASE Crash
  BY <1>3 DEF Crash, LockHeld
<1>4. ASSUME NEW t \in Threads, NEW a \in Apps, LockedRequest(t, a) PROVE LockHeld'
  <2>1. /\ OnlyMoves(t) /\ pc[t] = "idle" /\ pc'[t] \in {"insert", "publish"}
        /\ req'[t].op \in LockedOps /\ req'[t].app = a
        /\ lock[a] = Nobody /\ lock' = [lock EXCEPT ![a] = t]
    BY <1>4, LockedRequestEffect
  <2>2. lock'[a] = t /\ \A b \in Apps \ {a} : lock'[b] = lock[b]
    BY <2>1 DEF TypeOK
  <2> QED BY <1>1, <2>1, <2>2 DEF LockHeld, OnlyMoves
<1>5. ASSUME NEW t \in Threads, NEW a \in Apps, UnlockedRequest(t, a) PROVE LockHeld'
  <2>1. OnlyMoves(t) /\ UNCHANGED lock /\ pc'[t] # "nextApp"
    BY <1>5, UnlockedRequestEffect
  <2>2. pc'[t] = "idle" \/ req'[t].op \notin LockedOps
    BY <1>5, UnlockedRequestEffect
  <2> QED BY <2>1, <2>2 DEF LockHeld, OnlyMoves
<1>6. ASSUME NEW t \in Threads, BeginReconcile(t) \/ Startup(t) PROVE LockHeld'
  BY <1>6, FleetEffect, OpsDisjoint DEF LockHeld, OnlyMoves
<1>7. ASSUME NEW t \in Threads, Step(t) PROVE LockHeld'
  <2>1. pc[t] # "idle" /\ OnlyMoves(t)
    BY <1>7, StepEffect
  <2>2. CASE pc'[t] = "idle" /\ Unlock(t)
    <3>1. \A a \in Apps : lock[a] # t => lock'[a] = lock[a]
      BY <2>2 DEF Unlock
    <3> QED BY <1>1, <2>1, <2>2, <3>1 DEF LockHeld, OnlyMoves
  <2>3. CASE /\ UNCHANGED lock /\ req'[t].op = req[t].op
             /\ req'[t].app = req[t].app \/ pc[t] = "nextApp"
             /\ pc'[t] = "nextApp" => pc[t] = "nextApp" \/ req[t].op \in FleetOps
    BY <2>1, <2>3, OpsDisjoint DEF LockHeld, OnlyMoves
  <2> QED BY <1>7, <2>2, <2>3, StepEffect
<1> QED BY <1>2, <1>3, <1>4, <1>5, <1>6, <1>7 DEF Next

\* No two of build, preview, promote and rollback ever run on one app at the same
\* time, with any number of request threads and however the process crashes.
THEOREM LockExcludes == Spec => []LockedOperationsExclude
<1>1. Init => TypeOK /\ RevisionsAreNamed /\ LockHeld
  <2>1. Init => LockHeld
    BY DEF Init, LockHeld
  <2> QED BY <2>1, InitType, InitNamed
<1>2. TypeOK /\ RevisionsAreNamed /\ LockHeld /\ [Next]_vars => TypeOK' /\ RevisionsAreNamed' /\ LockHeld'
  BY StepType, StepNamed, StepLockHeld
<1>3. LockHeld => LockedOperationsExclude
  <2>1. ASSUME LockHeld, NEW t \in Threads, NEW u \in Threads,
               pc[t] # "idle", req[t].op \in LockedOps, pc[u] # "idle", req[u].op \in LockedOps,
               req[t].app = req[u].app
        PROVE  t = u
    <3>1. lock[req[t].app] = t /\ lock[req[u].app] = u
      BY <2>1 DEF LockHeld
    <3> QED BY <2>1, <3>1
  <2> QED BY <2>1 DEF LockedOperationsExclude
<1> QED BY <1>1, <1>2, <1>3, PTL DEF Spec

\* Why no lock is left behind: a lock is taken and given up together with the
\* operation, and while the process is down no thread serves anything.
LocksOwned == LocksAreInUse /\ (phase = "down" => \A t \in Threads : pc[t] = "idle")

\* No step of a request takes the process down.
LEMMA StepPhase ==
    ASSUME NEW t \in Threads, Step(t)
    PROVE  phase' = phase \/ phase' = "up"
<1>1. CASE \/ BuildInsert(t) \/ BuildRelease(t) \/ CreateRevisionRow(t) \/ CreateAppRow(t)
           \/ CreatePreflight(t) \/ Publish(t) \/ Desire(t) \/ ReadDesired(t)
  BY <1>1 DEF BuildInsert, BuildRelease, CreateRevisionRow, CreateAppRow, CreatePreflight, Publish, Desire,
              ReadDesired, Raise
<1>2. CASE ApplyRow(t) \/ ApplyMount(t) \/ ApplyPreview(t)
  BY <1>2 DEF ApplyRow, ApplyMount, ApplyPreview
<1>3. CASE \/ SetRunning(t) \/ FinishMountLive(t) \/ FinishUnmount(t) \/ DeleteGit(t) \/ DeleteRow(t)
           \/ NextApp(t) \/ FleetDone(t)
  BY <1>3 DEF SetRunning, FinishMountLive, FinishUnmount, DeleteGit, DeleteRow, NextApp, FleetDone
<1> QED BY <1>1, <1>2, <1>3 DEF Step

\* A request, locked or not, is accepted while the server is up, and leaves it up.
LEMMA RequestPhase ==
    ASSUME NEW t \in Threads, NEW a \in Apps, LockedRequest(t, a) \/ UnlockedRequest(t, a)
    PROVE  phase = "up" /\ phase' = "up" /\ pc[t] = "idle"
<1>1. CASE LockedRequest(t, a)
  BY <1>1 DEF LockedRequest, BeginBuild, BeginPreview, BeginPromote, BeginRollback, AcceptLocked, Accept
<1>2. CASE UnlockedRequest(t, a)
  BY <1>2 DEF UnlockedRequest, BeginCreate, BeginDelete, BeginRoute, BeginEnable, BeginPolicy, BeginStart,
              BeginStop, BeginRestart, Accept
<1> QED BY <1>1, <1>2

LEMMA StepLocksOwned ==
    ASSUME TypeOK, LockHeld, LocksOwned, [Next]_vars
    PROVE  LocksOwned'
<1>1. lock \in [Apps -> Threads \cup {Nobody}]
  BY DEF TypeOK
<1>2. CASE UNCHANGED vars
  BY <1>2 DEF LocksOwned, LocksAreInUse, vars
<1>3. CASE Crash
  BY <1>3 DEF Crash, LocksOwned, LocksAreInUse
<1>4. ASSUME NEW t \in Threads, OnlyMoves(t), UNCHANGED lock, pc[t] = "idle"
      PROVE  LocksAreInUse'
  BY <1>1, <1>4 DEF LocksOwned, LocksAreInUse, OnlyMoves
<1>5. ASSUME NEW t \in Threads, NEW a \in Apps, LockedRequest(t, a) PROVE LocksOwned'
  <2>1. /\ OnlyMoves(t) /\ pc[t] = "idle" /\ pc'[t] # "idle"
        /\ req'[t].op \in LockedOps /\ req'[t].app = a
        /\ lock' = [lock EXCEPT ![a] = t]
    BY <1>5, LockedRequestEffect
  <2>2. lock'[a] = t /\ \A b \in Apps \ {a} : lock'[b] = lock[b] /\ lock[b] # t
    <3>1. lock'[a] = t /\ \A b \in Apps \ {a} : lock'[b] = lock[b]
      BY <1>1, <2>1
    <3>2. \A b \in Apps : lock[b] # t
      BY <2>1, ConstantsAssumption DEF LocksOwned, LocksAreInUse
    <3> QED BY <3>1, <3>2
  <2>3. LocksAreInUse'
    BY <1>1, <2>1, <2>2 DEF LocksOwned, LocksAreInUse, OnlyMoves
  <2> QED BY <1>5, <2>3, RequestPhase DEF LocksOwned
<1>6. ASSUME NEW t \in Threads, NEW a \in Apps, UnlockedRequest(t, a) PROVE LocksOwned'
  <2>1. OnlyMoves(t) /\ UNCHANGED lock /\ pc[t] = "idle"
    BY <1>6, UnlockedRequestEffect, RequestPhase
  <2> QED BY <1>4, <1>6, <2>1, RequestPhase DEF LocksOwned
<1>7. ASSUME NEW t \in Threads, BeginReconcile(t) \/ Startup(t) PROVE LocksOwned'
  <2>1. pc[t] = "idle" /\ phase' # "down"
    BY <1>7 DEF BeginReconcile, Accept, Startup, LocksOwned
  <2>2. OnlyMoves(t) /\ UNCHANGED lock
    BY <1>7, FleetEffect
  <2> QED BY <1>4, <2>1, <2>2 DEF LocksOwned
<1>8. ASSUME NEW t \in Threads, Step(t) PROVE LocksOwned'
  <2>1. pc[t] # "idle" /\ OnlyMoves(t)
    BY <1>8, StepEffect
  <2>2. phase' # "down"
    BY <1>8, <2>1, StepPhase DEF LocksOwned
  <2>3. CASE pc'[t] = "idle" /\ Unlock(t)
    <3>1. \A a \in Apps : lock'[a] # Nobody => lock[a] # t /\ lock'[a] = lock[a]
      BY <2>3 DEF Unlock
    <3> QED BY <1>1, <2>1, <2>2, <3>1 DEF LocksOwned, LocksAreInUse, OnlyMoves
  <2>4. CASE /\ UNCHANGED lock /\ pc'[t] # "idle" /\ req'[t].op = req[t].op
             /\ req'[t].app = req[t].app \/ pc[t] = "nextApp"
    <3>1. \A a \in Apps : lock[a] = t => pc[t] # "nextApp"
      BY <1>1, OpsDisjoint, ConstantsAssumption DEF LockHeld, LocksOwned, LocksAreInUse
    <3> QED BY <1>1, <2>1, <2>2, <2>4, <3>1 DEF LocksOwned, LocksAreInUse, OnlyMoves
  <2> QED BY <1>8, <2>3, <2>4, StepEffect
<1> QED BY <1>2, <1>3, <1>5, <1>6, <1>7, <1>8 DEF Next

\* No per-app lock is ever left behind: whoever holds one is at work under it,
\* with any number of threads and apps, whatever fails and wherever it crashes.
THEOREM NoLockIsLeaked == Spec => []LocksAreInUse
<1>1. Init => TypeOK /\ RevisionsAreNamed /\ LockHeld /\ LocksOwned
  <2>1. Init => LockHeld /\ LocksOwned
    BY DEF Init, LockHeld, LocksOwned, LocksAreInUse
  <2> QED BY <2>1, InitType, InitNamed
<1>2. TypeOK /\ RevisionsAreNamed /\ LockHeld /\ LocksOwned /\ [Next]_vars
      => TypeOK' /\ RevisionsAreNamed' /\ LockHeld' /\ LocksOwned'
  BY StepType, StepNamed, StepLockHeld, StepLocksOwned
<1>3. LocksOwned => LocksAreInUse
  BY DEF LocksOwned
<1> QED BY <1>1, <1>2, <1>3, PTL DEF Spec

-----------------------------------------------------------------------------
(* Git: a desired revision is released *)

\* What a request is about to record as desired has been published.
PublishedFirst ==
    \A t \in Threads :
        /\ pc[t] = "desire" => req[t].rev \in releases[req[t].app]
        /\ pc[t] # "deleteGit"

\* A thread comes to write desired state only from publishing the release, and to
\* delete from Git only from a delete request.
LEMMA StepTarget ==
    ASSUME TypeOK, NEW t \in Threads, Step(t)
    PROVE  pc'[t] # "deleteGit" /\ (pc'[t] = "desire" => Publish(t) /\ ~Raise(t))
<1> DEFINE Target == pc'[t] \notin {"deleteGit", "desire"}
<1>1. pc \in [Threads -> Steps]
  BY DEF TypeOK
<1>2. ASSUME NEW step, pc' = [pc EXCEPT ![t] = step], step \notin {"deleteGit", "desire"} PROVE Target
  BY <1>1, <1>2
<1>3. ASSUME NEW step, Goto(t, step), step \notin {"deleteGit", "desire"} PROVE Target
  BY <1>2, <1>3 DEF Goto
<1>4. ASSUME Return(t) \/ Raise(t) PROVE Target
  BY <1>2, <1>4 DEF Return, Raise
<1>5. ASSUME NEW succeeded, LeaveReconcile(t, succeeded) PROVE Target
  BY <1>3, <1>4, <1>5, LeaveEffect
<1> HIDE DEF Target
<1>6. CASE Publish(t)
  <2>1. CASE Raise(t)
    BY <1>4, <2>1 DEF Target
  <2>2. CASE ~Raise(t)
    BY <1>1, <1>6, <2>2 DEF Publish
  <2> QED BY <2>1, <2>2
<1>7. CASE BuildInsert(t) \/ ReadDesired(t) \/ CreatePreflight(t) \/ NextApp(t)
  <2>1. Target
    BY <1>2, <1>4, <1>7 DEF BuildInsert, ReadDesired, CreatePreflight, NextApp
  <2> QED BY <2>1 DEF Target
<1>8. CASE CreateRevisionRow(t) \/ CreateAppRow(t) \/ Desire(t) \/ SetRunning(t) \/ DeleteGit(t)
  <2>1. Target
    BY <1>3, <1>4, <1>8 DEF CreateRevisionRow, CreateAppRow, Desire, SetRunning, DeleteGit
  <2> QED BY <2>1 DEF Target
<1>9. CASE ApplyRow(t)
  <2>1. LeaveReconcile(t, FALSE) \/ Goto(t, "applyPreview") \/ pc' = [pc EXCEPT ![t] = "applyMount"]
    BY <1>9 DEF ApplyRow
  <2>2. CASE LeaveReconcile(t, FALSE)
    <3>1. Target
      BY <1>5, <2>2
    <3> QED BY <3>1 DEF Target
  <2>3. CASE Goto(t, "applyPreview")
    BY <2>3, GotoEffect
  <2>4. CASE pc' = [pc EXCEPT ![t] = "applyMount"]
    BY <1>1, <2>4
  <2> QED BY <2>1, <2>2, <2>3, <2>4
<1>10. CASE ApplyMount(t) \/ ApplyPreview(t)
  <2>1. Target
    BY <1>3, <1>5, <1>10 DEF ApplyMount, ApplyPreview
  <2> QED BY <2>1 DEF Target
<1>11. CASE BuildRelease(t) \/ FinishMountLive(t) \/ FinishUnmount(t) \/ DeleteRow(t) \/ FleetDone(t)
  <2>1. Target
    BY <1>4, <1>11 DEF BuildRelease, FinishMountLive, FinishUnmount, DeleteRow, FleetDone
  <2> QED BY <2>1 DEF Target
<1> QED BY <1>6, <1>7, <1>8, <1>9, <1>10, <1>11 DEF Step

\* Without a delete in progress, the releases on main only grow, and only a step
\* that records desired state changes it.
LEMMA GitGrows ==
    ASSUME TypeOK, PublishedFirst, [Next]_vars
    PROVE  /\ \A a \in Apps : releases[a] \subseteq releases'[a]
           /\ UNCHANGED <<desired, desiredPreview>> \/ \E t \in Threads : Desire(t)
<1> DEFINE Grows == /\ \A a \in Apps : releases[a] \subseteq releases'[a]
                    /\ UNCHANGED <<desired, desiredPreview>>
<1>1. ASSUME UNCHANGED gitVars PROVE Grows
  BY <1>1 DEF gitVars
<1>2. CASE UNCHANGED vars
  BY <1>1, <1>2 DEF vars, gitVars
<1>3. CASE Crash
  BY <1>1, <1>3 DEF Crash
<1>4. ASSUME NEW t \in Threads, NEW a \in Apps, LockedRequest(t, a) \/ UnlockedRequest(t, a) PROVE Grows
  BY <1>1, <1>4 DEF LockedRequest, UnlockedRequest, BeginBuild, BeginPreview, BeginPromote, BeginRollback,
                    BeginCreate, BeginDelete, BeginRoute, BeginEnable, BeginPolicy, BeginStart, BeginStop,
                    BeginRestart
<1>5. ASSUME NEW t \in Threads, BeginReconcile(t) PROVE Grows
  BY <1>1, <1>5 DEF BeginReconcile
<1>6. ASSUME NEW t \in Threads, Startup(t) PROVE Grows
  BY <1>6 DEF Startup, BackfilledReleases
<1>7. ASSUME NEW t \in Threads, Step(t) PROVE Grows \/ Desire(t)
  <2>1. CASE BuildRelease(t)
    BY <2>1 DEF BuildRelease, TypeOK
  <2>2. CASE Publish(t)
    BY <1>1, <2>2 DEF Publish, Raise, TypeOK
  <2>3. ~DeleteGit(t)
    BY DEF DeleteGit, At, PublishedFirst
  <2>4. Desire(t) => \A a \in Apps : releases[a] \subseteq releases'[a]
    BY DEF Desire
  <2>5. CASE \/ BuildInsert(t) \/ CreateRevisionRow(t) \/ CreateAppRow(t) \/ CreatePreflight(t)
             \/ ReadDesired(t) \/ ApplyRow(t) \/ ApplyMount(t) \/ ApplyPreview(t)
             \/ SetRunning(t) \/ FinishMountLive(t) \/ FinishUnmount(t) \/ DeleteRow(t)
             \/ NextApp(t) \/ FleetDone(t)
    <3>1. UNCHANGED gitVars
      BY <2>5 DEF BuildInsert, CreateRevisionRow, CreateAppRow, CreatePreflight, ReadDesired, ApplyRow,
                  ApplyMount, ApplyPreview, SetRunning, FinishMountLive, FinishUnmount, DeleteRow,
                  NextApp, FleetDone, Raise
    <3> QED BY <1>1, <3>1
  <2> HIDE DEF Grows
  <2> QED BY <1>7, <2>1, <2>2, <2>3, <2>5 DEF Step
<1>8. \A t \in Threads : Desire(t) => UNCHANGED releases
  BY DEF Desire
<1> QED BY <1>2, <1>3, <1>4, <1>5, <1>6, <1>7, <1>8 DEF Next

LEMMA StepReleased ==
    ASSUME "delete" \notin Ops, TypeOK, DesiredIsReleased, PublishedFirst, [Next]_vars
    PROVE  DesiredIsReleased' /\ PublishedFirst'
<1>1. \A t \in Threads : req[t].app \in Apps
  BY DEF TypeOK, Request
<1>2. \A a \in Apps : releases[a] \subseteq releases'[a]
  BY GitGrows
<1>3. DesiredIsReleased'
  <2>1. CASE UNCHANGED <<desired, desiredPreview>>
    BY <1>2, <2>1 DEF DesiredIsReleased
  <2>2. ASSUME NEW t \in Threads, Desire(t) PROVE DesiredIsReleased'
    <3>1. UNCHANGED releases /\ req[t].rev \in releases[App(t)]
      BY <2>2 DEF Desire, At, PublishedFirst, App
    <3>2. ASSUME NEW a \in Apps PROVE desired'[a] = desired[a] \/ (a = App(t) /\ desired'[a].rev = req[t].rev)
      BY <2>2, <3>2 DEF Desire, TypeOK
    <3>3. ASSUME NEW a \in Apps
          PROVE  desiredPreview'[a] = desiredPreview[a] \/ desiredPreview'[a] = 0
                    \/ (a = App(t) /\ desiredPreview'[a] = req[t].rev)
      BY <2>2, <3>3 DEF Desire, TypeOK
    <3> QED BY <3>1, <3>2, <3>3 DEF DesiredIsReleased
  <2> QED BY <2>1, <2>2, GitGrows
<1>4. ASSUME NEW t \in Threads, OnlyMoves(t), pc'[t] # "deleteGit",
             pc'[t] = "desire" => req'[t].rev \in releases'[req'[t].app]
      PROVE  PublishedFirst'
  BY <1>1, <1>2, <1>4 DEF PublishedFirst, OnlyMoves
<1>5. PublishedFirst'
  <2>1. CASE UNCHANGED vars
    BY <2>1 DEF PublishedFirst, vars
  <2>2. CASE Crash
    BY <2>2 DEF Crash, PublishedFirst
  <2>3. ASSUME NEW t \in Threads, NEW a \in Apps, LockedRequest(t, a) PROVE PublishedFirst'
    BY <1>4, <2>3, LockedRequestEffect
  <2>4. ASSUME NEW t \in Threads, NEW a \in Apps, UnlockedRequest(t, a) PROVE PublishedFirst'
    <3>1. CASE BeginDelete(t, a)
      BY <3>1 DEF BeginDelete, Accept
    <3>2. CASE ~BeginDelete(t, a)
      <4>1. pc'[t] # "deleteGit"
        <5>1. CASE \E q : \E step \in {"createRev", "publish", "mountLive", "unmountRoute", "setRunning"} : Begin(t, step, q)
          BY <5>1, BeginEffect
        <5>2. CASE UNCHANGED pc
          BY <5>2 DEF PublishedFirst
        <5> QED BY <2>4, <3>2, <5>1, <5>2 DEF UnlockedRequest, BeginCreate, BeginRoute, BeginEnable, BeginPolicy,
                BeginStart, BeginStop, BeginRestart
      <4>2. OnlyMoves(t) /\ pc'[t] # "desire"
        BY <2>4, UnlockedRequestEffect
      <4> QED BY <1>4, <4>1, <4>2
    <3> QED BY <3>1, <3>2
  <2>5. ASSUME NEW t \in Threads, BeginReconcile(t) \/ Startup(t) PROVE PublishedFirst'
    BY <1>4, <2>5, FleetEffect
  <2>6. ASSUME NEW t \in Threads, Step(t) PROVE PublishedFirst'
    <3>1. OnlyMoves(t) /\ pc'[t] # "deleteGit"
      BY <2>6, StepEffect, StepTarget
    <3>2. ASSUME pc'[t] = "desire" PROVE req'[t].rev \in releases'[req'[t].app]
      <4> DEFINE p == IF req[t].op = "route" THEN req[t].route ELSE row[App(t)].route
                 e == IF req[t].op = "enable" THEN req[t].enabled ELSE row[App(t)].enabled
                 x == IF req[t].op = "policy" THEN req[t].policy ELSE row[App(t)].policy
      <4>1. Publish(t) /\ ~Raise(t)
        BY <2>6, <3>2, StepTarget
      <4>2. /\ releases' = [releases EXCEPT ![App(t)] = @ \cup {req[t].rev}]
            /\ req' = [req EXCEPT ![t] = [req[t] EXCEPT !.route = p, !.enabled = e, !.policy = x]]
        BY <4>1 DEF Publish
      <4> HIDE DEF p, e, x
      <4>3. /\ [req[t] EXCEPT !.route = p, !.enabled = e, !.policy = x].rev = req[t].rev
            /\ [req[t] EXCEPT !.route = p, !.enabled = e, !.policy = x].app = req[t].app
        BY DEF TypeOK, Request
      <4> QED BY <1>1, <4>2, <4>3 DEF TypeOK, App
    <3> QED BY <1>4, <3>1, <3>2
  <2> QED BY <2>1, <2>2, <2>3, <2>4, <2>5, <2>6 DEF Next
<1> QED BY <1>3, <1>5

\* Desired state on main never selects a revision whose release is not on main, in
\* every interleaving of every operation but delete, with crashes; with delete the
\* statement is false for concurrent requests, because delete takes no lock.
THEOREM DesiredReleased == ASSUME "delete" \notin Ops PROVE Spec => []DesiredIsReleased
<1>1. Init => TypeOK /\ RevisionsAreNamed /\ DesiredIsReleased /\ PublishedFirst
  <2>1. Init => DesiredIsReleased
    <3>1. \A a \in Apps : NoSpec(a).rev = 0 /\ [NoSpec(a) EXCEPT !.rev = 1].rev = 1
      BY DEF NoSpec
    <3>2. ASSUME Init, NEW a \in Apps PROVE desired[a].rev = (IF a \in Seeded THEN 1 ELSE 0)
      BY <3>1, <3>2 DEF Init
    <3>3. ASSUME Init, NEW a \in Apps
          PROVE  releases[a] = (IF a \in Seeded THEN {1} ELSE {}) /\ desiredPreview[a] = 0
      BY <3>3 DEF Init
    <3> QED BY <3>2, <3>3 DEF DesiredIsReleased
  <2>2. Init => PublishedFirst
    BY DEF Init, PublishedFirst
  <2> QED BY <2>1, <2>2, InitType, InitNamed
<1>2. TypeOK /\ RevisionsAreNamed /\ DesiredIsReleased /\ PublishedFirst /\ [Next]_vars
        => TypeOK' /\ RevisionsAreNamed' /\ DesiredIsReleased' /\ PublishedFirst'
  BY StepType, StepNamed, StepReleased
<1> QED BY <1>1, <1>2, PTL DEF Spec

-----------------------------------------------------------------------------
(* One request at a time.  With a single request thread the operations do follow each   *)
(* other, and what the rows, Git and the dispatcher say of an app can be related; the   *)
(* app of the request in progress is excepted from its Publish or first change to its   *)
(* mount, and all are while the process is down.  With several threads the three        *)
(* statements proved from this are false: an exposure change takes no lock.             *)

PublishOps == {"create", "preview", "promote", "rollback"} \cup ExposureOps
Applying == {"applyRow", "applyMount", "applyPreview"}
Creating == {"createRev", "createRow"}
Runs(a) == row[a].status = "running" /\ row[a].enabled

\* What Git and the rows hold of the revisions of an app.
AppStored(a) ==
    /\ a \in onMain => a \in registered
    /\ releases[a] \subseteq KnownRevs(a)
    /\ desired[a].rev # 0 => a \in onMain /\ desired[a].rev \in releases[a]
    /\ desiredPreview[a] # 0 => a \in onMain /\ desiredPreview[a] \in releases[a]
    /\ a \in registered => /\ row[a].current \in KnownRevs(a)
                           /\ row[a].rollback # 0 => row[a].rollback \in KnownRevs(a)
Stored == \A a \in Apps : AppStored(a)

\* Route p is not one that app b has or is to get.
Apart(p, b) == p # row[b].route /\ (desired[b].rev # 0 => p # desired[b].route)
RoutesApart ==
    \A a, b \in registered : a # b => /\ Apart(row[a].route, b)
                                      /\ desired[a].rev # 0 => Apart(desired[a].route, b)

FollowsGit(a) == desired[a].rev # 0 => RowMatchesGit(a)
ShowsPreview(a) == row[a].preview = desiredPreview[a]
Serves(a) == Runs(a) => liveMount[row[a].route] = [app |-> a, rev |-> row[a].current]
Rightly(p) == LET a == liveMount[p].app
              IN  a # Nobody => a \in registered /\ Runs(a) /\ p = row[a].route

\* Nothing is excepted.
Settled ==
    /\ Stored /\ RoutesApart
    /\ \A a \in Apps : FollowsGit(a)
    /\ \A a \in registered \ failed : ShowsPreview(a) /\ Serves(a)
    /\ \A p \in Routes : Rightly(p)

-----------------------------------------------------------------------------
(* The same with the exceptions for the step that thread t is at *)

Course(t) ==
    /\ pc[t] # "idle" => phase # "down"
    /\ phase = "up" /\ pc[t] # "idle" => req[t].op # "startup"
    /\ phase = "starting" => pc[t] # "idle" /\ req[t].op = "startup"
    /\ pc[t] = "nextApp" => req[t].op \in FleetOps
    /\ pc[t] \in {"insert", "release"} => req[t].op = "build"
    /\ pc[t] \in Creating \cup {"preflight"} => req[t].op = "create"
    /\ pc[t] \in {"publish", "desire", "read"} => req[t].op \in PublishOps
    /\ pc[t] \in Applying => req[t].op \in PublishOps \cup FleetOps
    /\ pc[t] = "unmountRoute" => req[t].op \in {"create", "stop"}
    /\ pc[t] = "setRunning" => req[t].op = "restart"
    /\ pc[t] = "mountLive" => req[t].op \in {"start", "restart"}
    /\ pc[t] \in {"deleteGit", "deleteRow"} => req[t].op = "delete"

InHand(t) ==
    /\ pc[t] \in Creating => App(t) \notin registered
    /\ pc[t] \notin {"idle", "nextApp"} \cup Creating => App(t) \in registered
    /\ pc[t] \in {"release", "createRow", "publish", "desire"} => req[t].rev \in KnownRevs(App(t))
    /\ pc[t] \in Creating => req[t].rev = 1
    /\ pc[t] = "desire" => App(t) \in onMain /\ req[t].rev \in releases[App(t)]
    /\ pc[t] = "deleteRow" => releases[App(t)] = {} /\ App(t) \notin onMain
    /\ pc[t] \in Applying \cup {"nextApp"} => req[t].live = desired /\ req[t].preview = desiredPreview

Routed(t) ==
    /\ (pc[t] = "publish" /\ req[t].op = "route") \/ pc[t] = "desire"
          => \A b \in registered \ {App(t)} : Apart(req[t].route, b)
    /\ pc[t] \in Creating => \A b \in registered : Apart(ManifestRoute[App(t)], b)
    /\ pc[t] \in {"applyMount", "unmountRoute"}
          => \A b \in registered \ {App(t)} : req[t].route # row[b].route

Rewriting(t, a) == pc[t] \in {"read", "applyRow"} /\ req[t].op \notin FleetOps /\ a = App(t)
Followed(t) == phase # "down" => \A a \in Apps : ~Rewriting(t, a) => FollowsGit(a)

Previewing(t, a) ==
    \/ pc[t] \in {"read", "applyRow", "applyMount", "applyPreview", "deleteRow"} /\ a = App(t)
    \/ pc[t] # "idle" /\ req[t].op \in FleetOps /\ a \in req[t].todo
Previewed(t) == phase # "down" => \A a \in registered \ failed : ~Previewing(t, a) => ShowsPreview(a)

Remounting(t, a) == a = App(t) /\ pc[t] \in {"applyMount", "unmountRoute"}
MountedBy(t, p) ==
    LET a == liveMount[p].app
    IN  a # Nobody => /\ a \in registered
                      /\ Remounting(t, a) => p = req[t].route
                      /\ ~Remounting(t, a) => Runs(a) /\ p = row[a].route
                      /\ pc[t] \in {"deleteGit", "deleteRow"} => a # App(t)
Mounted(t) == \A p \in Routes : MountedBy(t, p)

Unserved(t, a) ==
    /\ a = App(t)
    /\ \/ pc[t] \in {"applyMount", "setRunning", "mountLive", "deleteGit", "deleteRow"}
       \/ pc[t] \in {"publish", "desire", "read", "applyRow"} /\ req[t].op = "create"
Served(t) == phase # "down" => \A a \in registered \ failed : ~Unserved(t, a) => Serves(a)

Planned(t) ==
    /\ pc[t] = "applyPreview" /\ desired[App(t)].rev # 0 => Serves(App(t))
    /\ pc[t] \in {"read", "applyRow"} /\ req[t].op = "create" => desired[App(t)].rev # 0
    /\ pc[t] = "applyMount" => desired[App(t)].rev # 0 /\ (req[t].running <=> Runs(App(t)))
    /\ pc[t] = "mountLive" => Runs(App(t))
    /\ pc[t] = "unmountRoute" => row[App(t)].status = "stopped"
    /\ pc[t] = "setRunning" => req[t].running = row[App(t)].enabled

\* An operation that is no exposure change leaves the exposure alone.
Kept(t) ==
    req[t].op \notin ExposureOps =>
        /\ pc[t] = "desire" => req[t].route = row[App(t)].route /\ req[t].enabled = row[App(t)].enabled
        /\ pc[t] \in {"read", "applyRow"} /\ desired[App(t)].rev # 0 =>
              desired[App(t)].route = row[App(t)].route /\ desired[App(t)].enabled = row[App(t)].enabled
        /\ pc[t] = "applyMount" =>
              /\ req[t].route = row[App(t)].route
              /\ liveMount[req[t].route].app = App(t) => req[t].running

Turn(t) ==
    /\ Stored /\ RoutesApart
    /\ Course(t) /\ InHand(t) /\ Routed(t)
    /\ Followed(t) /\ Previewed(t) /\ Mounted(t) /\ Served(t) /\ Planned(t) /\ Kept(t)

-----------------------------------------------------------------------------
LEMMA TurnTypes ==
    ASSUME TypeOK, NEW t \in Threads
    PROVE  /\ pc[t] \in Steps /\ req[t] \in Request /\ App(t) \in Apps
           /\ App(t) # Nobody /\ phase \in {"up", "down", "starting"}
  BY ConstantsAssumption DEF TypeOK, Request, App

\* The steps at which everything is settled.
LEMMA SettledWhile ==
    ASSUME NEW t, Turn(t), phase # "down",
           \/ pc[t] \in {"idle", "insert", "release", "createRev", "createRow", "preflight"}
           \/ pc[t] \in {"publish", "desire"} /\ req[t].op # "create"
    PROVE  Settled
<1> USE DEF PublishOps, ExposureOps, FleetOps, Creating
<1>1. \A a \in Apps : FollowsGit(a)
  BY DEF Turn, Followed, Rewriting
<1>2. \A a \in registered \ failed : ShowsPreview(a)
  BY DEF Turn, Previewed, Previewing, Course
<1>3. \A a \in registered \ failed : Serves(a)
  BY DEF Turn, Served, Unserved
<1>4. \A p \in Routes : Rightly(p)
  BY DEF Turn, Mounted, MountedBy, Remounting, Rightly
<1> QED BY <1>1, <1>2, <1>3, <1>4 DEF Settled, Turn

\* Nothing changes but that more revisions are known and more apps have failed.
LEMMA SettledStays ==
    ASSUME Settled, UNCHANGED <<gitVars, registered, row, mountVars>>, failed \subseteq failed',
           UNCHANGED revState \/ \A a \in Apps : KnownRevs(a) \subseteq KnownRevs(a)'
    PROVE  Settled'
<1>1. \A a \in Apps : KnownRevs(a) \subseteq KnownRevs(a)'
  BY DEF KnownRevs
<1>2. Stored'
  BY <1>1 DEF Settled, gitVars, Stored, AppStored
<1> QED BY <1>2 DEF Settled, gitVars, mountVars, RoutesApart, Apart, FollowsGit,
         RowMatchesGit, ShowsPreview, Serves, Runs, Rightly

\* A request that comes to its end with everything settled.
LEMMA Rests ==
    ASSUME NEW t, Settled', pc'[t] = "idle", phase' # "starting"
    PROVE  Turn(t)'
<1>1. Course(t)' /\ InHand(t)' /\ Routed(t)' /\ Planned(t)' /\ Kept(t)'
  BY DEF Course, InHand, Routed, Planned, Kept, Creating, Applying
<1>2. Followed(t)' /\ Previewed(t)' /\ Mounted(t)' /\ Served(t)'
  BY DEF Settled, Followed, Previewed, Mounted, MountedBy, Served, Rightly, Remounting
<1> QED BY <1>1, <1>2 DEF Turn, Settled

\* A request that is under way with everything settled.
LEMMA Proceeds ==
    ASSUME NEW t, Settled',
           pc'[t] \notin {"idle", "applyMount", "unmountRoute", "deleteGit", "deleteRow"},
           Course(t)', InHand(t)', Routed(t)', Planned(t)', Kept(t)'
    PROVE  Turn(t)'
<1>1. Followed(t)' /\ Previewed(t)' /\ Mounted(t)' /\ Served(t)'
  BY DEF Settled, Followed, Previewed, Mounted, MountedBy, Served, Rightly, Remounting
<1> QED BY <1>1 DEF Turn, Settled

\* What a request that is accepted finds.
LEMMA Accepted ==
    ASSUME NEW t, NEW o, Turn(t), Accept(t, o)
    PROVE  Settled
  BY SettledWhile DEF Accept

LEMMA OpNames ==
    /\ \A o \in PublishOps : o \notin FleetOps /\ o \notin {"startup", "build", "start", "stop", "restart", "delete"}
    /\ {"build", "start", "stop", "restart", "delete"} \cap (FleetOps \cup ExposureOps) = {}
    /\ {"create", "preview", "promote", "rollback"} \cap ExposureOps = {}
    /\ ExposureOps \subseteq PublishOps /\ ExposureOps = {"route", "enable", "policy"}
    /\ FleetOps = {"reconcile", "startup"} /\ FleetOps \cap PublishOps = {}
  BY DEF PublishOps, ExposureOps, FleetOps

\* A request that enters the common tail with its revision known.
LEMMA EntersTail ==
    ASSUME TypeOK, NEW t \in Threads, Settled', phase' = "up", pc'[t] = "publish",
           NEW a \in Apps, req'[t].app = a, a \in registered',
           req'[t].op \in PublishOps, req'[t].rev \in KnownRevs(a)',
           NEW p, req'[t].op = "route" => req'[t].route = p /\ \A b \in registered' \ {a} : Apart(p, b)'
    PROVE  Turn(t)'
<1>1. Course(t)' /\ InHand(t)' /\ Routed(t)' /\ Planned(t)' /\ Kept(t)'
  BY OpNames DEF Course, InHand, Routed, Planned, Kept, Creating, Applying, App, Apart, KnownRevs
<1> QED BY <1>1, Proceeds

LEMMA BeginLockedTurn ==
    ASSUME TypeOK, NEW t \in Threads, NEW a \in Apps, LockedRequest(t, a), Turn(t)
    PROVE  Turn(t)'
<1>1. /\ Settled /\ a \in registered
      /\ UNCHANGED <<gitVars, dbVars, mountVars, phase, failed>> /\ phase = "up"
  BY Accepted DEF LockedRequest, BeginBuild, BeginPreview, BeginPromote, BeginRollback, AcceptLocked, Accept
<1>2. Settled'
  BY <1>1, SettledStays DEF dbVars
<1>3. CASE BeginBuild(t, a)
  <2>1. LET f == [Frame("build", a) EXCEPT !.rev = NextRevision(a)] IN f.op = "build" /\ f.app = a
    BY DEF Frame
  <2>2. pc'[t] = "insert" /\ req'[t] = [Frame("build", a) EXCEPT !.rev = NextRevision(a)]
    BY <1>3, BeginEffect DEF BeginBuild
  <2>3. Course(t)' /\ InHand(t)' /\ Routed(t)' /\ Planned(t)' /\ Kept(t)'
    BY <1>1, <2>1, <2>2, OpNames DEF Course, InHand, Routed, Planned, Kept, Creating, Applying, App, dbVars
  <2> QED BY <1>2, <2>2, <2>3, Proceeds
<1>4. CASE BeginPreview(t, a) \/ BeginPromote(t, a) \/ BeginRollback(t, a)
  <2>2. PICK o \in {"preview", "promote", "rollback"}, r \in KnownRevs(a) :
           Begin(t, "publish", [Frame(o, a) EXCEPT !.rev = r])
    <3>1. row[a].rollback # 0 => row[a].rollback \in KnownRevs(a)
      BY <1>1 DEF Settled, Stored, AppStored
    <3> QED BY <1>4, <3>1 DEF BeginPreview, BeginPromote, BeginRollback
  <2>3. pc'[t] = "publish" /\ req'[t].op = o /\ req'[t].app = a /\ req'[t].rev = r
    <3>1. LET f == [Frame(o, a) EXCEPT !.rev = r] IN f.op = o /\ f.app = a /\ f.rev = r
      BY DEF Frame
    <3>2. pc'[t] = "publish" /\ req'[t] = [Frame(o, a) EXCEPT !.rev = r]
      BY <2>2, BeginEffect
    <3> QED BY <3>1, <3>2
  <2>4. r \in KnownRevs(a)' /\ a \in registered'
    BY <1>1, <2>2 DEF KnownRevs, dbVars
  <2> QED BY <1>1, <1>2, <2>3, <2>4, EntersTail, OpNames DEF PublishOps
<1> QED BY <1>3, <1>4 DEF LockedRequest

LEMMA RoutesFree ==
    ASSUME TypeOK, Settled, NEW p, NEW a \in Apps,
           \A b \in registered \ {a} : row[b].route # p
    PROVE  \A b \in registered \ {a} : Apart(p, b)
<1>1. ASSUME NEW b \in registered, desired[b].rev # 0 PROVE desired[b].route = row[b].route
  <2>1. RowMatchesGit(b)
    BY <1>1 DEF Settled, FollowsGit, TypeOK
  <2> QED BY <2>1 DEF RowMatchesGit
<1> QED BY <1>1 DEF Apart

\* The route a request may have is one that no other app has.
LEMMA AvailableIsFree ==
    ASSUME TypeOK, Settled, NEW p, NEW a \in registered, p = row[a].route \/ RouteAvailable(p, a)
    PROVE  \A b \in registered \ {a} : row[b].route # p
<1>1. \A b \in registered \ {a} : row[b].route # row[a].route
  BY DEF Settled, RoutesApart, Apart
<1> QED BY <1>1 DEF RouteAvailable, RouteHolders

LEMMA BeginExposureTurn ==
    ASSUME TypeOK, NEW t \in Threads, NEW a \in Apps, Turn(t),
           BeginRoute(t, a) \/ BeginEnable(t, a) \/ BeginPolicy(t, a)
    PROVE  Turn(t)'
<1>1. /\ Settled /\ a \in registered
      /\ UNCHANGED <<gitVars, dbVars, mountVars, phase, failed>> /\ phase = "up"
  BY Accepted DEF BeginRoute, BeginEnable, BeginPolicy, Accept
<1>2. Settled'
  BY <1>1, SettledStays DEF dbVars
<1>3. PICK o, p :
         /\ o \in ExposureOps /\ pc'[t] = "publish" /\ req'[t].op = o /\ req'[t].app = a /\ req'[t].rev = row[a].current
         /\ o = "route" => req'[t].route = p /\ (p = row[a].route \/ RouteAvailable(p, a))
  <2>1. CASE BeginRoute(t, a)
    <3>1. \A r, p : LET f == [Frame("route", a) EXCEPT !.rev = r, !.route = p]
                    IN f.op = "route" /\ f.app = a /\ f.rev = r /\ f.route = p
      BY DEF Frame
    <3>2. PICK p : /\ p = row[a].route \/ RouteAvailable(p, a)
                   /\ Begin(t, "publish", [Frame("route", a) EXCEPT !.rev = row[a].current, !.route = p])
      BY <2>1 DEF BeginRoute
    <3>3. pc'[t] = "publish" /\ req'[t] = [Frame("route", a) EXCEPT !.rev = row[a].current, !.route = p]
      BY <3>2, BeginEffect
    <3> QED BY <3>1, <3>2, <3>3, OpNames
  <2>2. CASE BeginEnable(t, a)
    <3>1. \A r, e : LET f == [Frame("enable", a) EXCEPT !.rev = r, !.enabled = e]
                    IN f.op = "enable" /\ f.app = a /\ f.rev = r
      BY DEF Frame
    <3>2. PICK e : Begin(t, "publish", [Frame("enable", a) EXCEPT !.rev = row[a].current, !.enabled = e])
      BY <2>2 DEF BeginEnable
    <3>3. pc'[t] = "publish" /\ req'[t] = [Frame("enable", a) EXCEPT !.rev = row[a].current, !.enabled = e]
      BY <3>2, BeginEffect
    <3> QED BY <3>1, <3>3, OpNames
  <2>3. CASE BeginPolicy(t, a)
    <3>1. \A r, x : LET f == [Frame("policy", a) EXCEPT !.rev = r, !.policy = x]
                    IN f.op = "policy" /\ f.app = a /\ f.rev = r
      BY DEF Frame
    <3>2. PICK x : Begin(t, "publish", [Frame("policy", a) EXCEPT !.rev = row[a].current, !.policy = x])
      BY <2>3 DEF BeginPolicy
    <3>3. pc'[t] = "publish" /\ req'[t] = [Frame("policy", a) EXCEPT !.rev = row[a].current, !.policy = x]
      BY <3>2, BeginEffect
    <3> QED BY <3>1, <3>3, OpNames
  <2> QED BY <2>1, <2>2, <2>3
<1>4. row[a].current \in KnownRevs(a)
  BY <1>1 DEF Settled, Stored, AppStored
<1>5. row[a].current \in KnownRevs(a)' /\ a \in registered'
  BY <1>1, <1>4 DEF KnownRevs, dbVars
<1>6. ASSUME o = "route" PROVE \A b \in registered' \ {a} : Apart(p, b)'
  <2>1. \A b \in registered \ {a} : Apart(p, b)
    BY <1>1, <1>3, <1>6, AvailableIsFree, RoutesFree
  <2> QED BY <1>1, <2>1 DEF Apart, dbVars, gitVars
<1> QED BY <1>1, <1>2, <1>3, <1>5, <1>6, EntersTail, OpNames

LEMMA BeginCreateTurn ==
    ASSUME TypeOK, NEW t \in Threads, NEW a \in Apps, Turn(t), BeginCreate(t, a)
    PROVE  Turn(t)'
<1>1. /\ Settled /\ a \notin registered /\ RouteHolders(ManifestRoute[a]) = {}
      /\ UNCHANGED <<gitVars, dbVars, mountVars, phase, failed>> /\ phase = "up"
  BY Accepted DEF BeginCreate, Accept
<1>2. Settled'
  BY <1>1, SettledStays DEF dbVars
<1>3. pc'[t] = "createRev" /\ req'[t].op = "create" /\ req'[t].app = a /\ req'[t].rev = 1
  <2>1. PICK l : Begin(t, "createRev", [Frame("create", a) EXCEPT !.rev = 1, !.launch = l])
    BY DEF BeginCreate
  <2>2. LET f == [Frame("create", a) EXCEPT !.rev = 1, !.launch = l] IN f.op = "create" /\ f.app = a /\ f.rev = 1
    BY DEF Frame
  <2>3. pc'[t] = "createRev" /\ req'[t] = [Frame("create", a) EXCEPT !.rev = 1, !.launch = l]
    BY <2>1, BeginEffect
  <2> QED BY <2>2, <2>3
<1>4. \A b \in registered' : Apart(ManifestRoute[a], b)'
  <2>1. \A b \in registered \ {a} : Apart(ManifestRoute[a], b)
    BY <1>1, RoutesFree DEF RouteHolders
  <2> QED BY <1>1, <2>1 DEF Apart, dbVars, gitVars
<1>5. Course(t)' /\ InHand(t)' /\ Routed(t)' /\ Planned(t)' /\ Kept(t)'
  BY <1>1, <1>3, <1>4, OpNames DEF Course, InHand, Routed, Planned, Kept, Creating, Applying, App, dbVars, Apart
<1> QED BY <1>2, <1>3, <1>5, Proceeds

LEMMA UpWhile ==
    ASSUME TypeOK, NEW t \in Threads, Turn(t), pc[t] # "idle", req[t].op # "startup"
    PROVE  phase = "up"
  BY TurnTypes DEF Turn, Course

LEMMA RaiseTurn ==
    ASSUME TypeOK, NEW t \in Threads, Settled, phase = "up", Raise(t)
    PROVE  Turn(t)'
<1>1. pc'[t] = "idle" /\ UNCHANGED <<gitVars, dbVars, mountVars, phase, failed>>
  BY ReturnEffect DEF Raise
<1>2. Settled'
  BY <1>1, SettledStays DEF dbVars
<1> QED BY <1>1, <1>2, Rests

LEMMA KnownUpdate ==
    ASSUME TypeOK, NEW x \in Apps, NEW r \in Revs, NEW s, s # "absent",
           revState' = [revState EXCEPT ![x][r] = s]
    PROVE  /\ \A a \in Apps : KnownRevs(a) \subseteq KnownRevs(a)'
           /\ r \in KnownRevs(x)'
<1>1. \A a \in Apps : revState[a] \in [Revs -> States]
  BY DEF TypeOK
<1>2. revState' = [revState EXCEPT ![x] = [revState[x] EXCEPT ![r] = s]]
  OBVIOUS
<1>3. revState'[x] = [revState[x] EXCEPT ![r] = s] /\ \A a \in Apps \ {x} : revState'[a] = revState[a]
  BY <1>2 DEF TypeOK
<1>4. \A q \in Revs : revState'[x][q] = IF q = r THEN s ELSE revState[x][q]
  BY <1>1, <1>3
<1> QED BY <1>3, <1>4 DEF KnownRevs

LEMMA BuildInsertTurn ==
    ASSUME TypeOK, NEW t \in Threads, Turn(t), BuildInsert(t)
    PROVE  Turn(t)'
<1>0. PICK x \in Apps : x = App(t)
  BY TurnTypes
<1>9. PICK number : number = NextRevision(x)
  OBVIOUS
<1>1. /\ pc[t] = "insert" /\ number \in Revs /\ revState' = [revState EXCEPT ![x][number] = "validated"]
      /\ pc' = [pc EXCEPT ![t] = "release"] /\ req' = [req EXCEPT ![t].rev = number]
      /\ UNCHANGED <<gitVars, registered, row, mountVars, phase, failed>>
  BY <1>0, <1>9 DEF BuildInsert, At
<1>2. x \in registered /\ req[t].op = "build" /\ phase = "up"
  BY <1>0, <1>1, UpWhile, TurnTypes DEF Turn, Course, InHand, Creating
<1>3. /\ \A a \in Apps : KnownRevs(a) \subseteq KnownRevs(a)'
      /\ number \in KnownRevs(x)'
  BY <1>1, KnownUpdate
<1>4. Settled
  BY <1>1, <1>2, SettledWhile
<1>5. Settled'
  BY <1>1, <1>3, <1>4, SettledStays
<1>6. /\ pc'[t] = "release" /\ req'[t] = [req[t] EXCEPT !.rev = number]
      /\ req'[t].app = req[t].app /\ req'[t].op = "build" /\ req'[t].rev = number
  BY <1>1, <1>2 DEF TypeOK, Request
<1>7. Course(t)' /\ InHand(t)' /\ Routed(t)' /\ Planned(t)' /\ Kept(t)'
  <2>1. App(t)' = x
    BY <1>0, <1>6 DEF App
  <2> QED BY <1>1, <1>2, <1>3, <1>6, <2>1, OpNames DEF Course, InHand, Routed, Planned, Kept, Creating, Applying
<1> QED BY <1>5, <1>6, <1>7, Proceeds

LEMMA BuildReleaseTurn ==
    ASSUME TypeOK, NEW t \in Threads, Turn(t), BuildRelease(t)
    PROVE  Turn(t)'
<1>1. /\ pc[t] = "release" /\ releases' = [releases EXCEPT ![App(t)] = @ \cup {req[t].rev}]
      /\ pc'[t] = "idle"
      /\ UNCHANGED <<desired, desiredPreview, onMain, dbVars, mountVars, phase, failed>>
  BY ReturnEffect DEF BuildRelease, At
<1>2. Settled /\ phase = "up" /\ req[t].rev \in KnownRevs(App(t)) /\ App(t) \in Apps
  BY <1>1, UpWhile, TurnTypes, SettledWhile DEF Turn, Course, InHand
<1>3. Stored'
  BY <1>1, <1>2 DEF Settled, Stored, AppStored, TypeOK, dbVars, KnownRevs
<1>4. Settled'
  BY <1>1, <1>2, <1>3 DEF Settled, dbVars, mountVars, RoutesApart, Apart, FollowsGit,
         RowMatchesGit, ShowsPreview, Serves, Runs, Rightly
<1> QED BY <1>1, <1>2, <1>4, Rests

LEMMA CreateRevisionTurn ==
    ASSUME TypeOK, NEW t \in Threads, Turn(t), CreateRevisionRow(t)
    PROVE  Turn(t)'
<1>0. PICK x \in Apps : x = App(t)
  BY TurnTypes
<1>1. pc[t] = "createRev" /\ req[t].op = "create" /\ phase = "up" /\ x \in Apps /\ x \notin registered
      /\ req[t].rev = 1 /\ \A b \in registered : Apart(ManifestRoute[x], b)
  BY <1>0, UpWhile, TurnTypes, OpNames DEF CreateRevisionRow, At, Turn, Course, InHand, Routed, Creating
<1>2. Settled
  BY <1>1, SettledWhile
<1>3. CASE Raise(t)
  BY <1>1, <1>2, <1>3, RaiseTurn
<1>4. CASE ~Raise(t)
  <2>1. /\ revState' = [revState EXCEPT ![x][1] = "live"] /\ Goto(t, "createRow")
        /\ UNCHANGED <<gitVars, registered, row, mountVars, phase, failed>>
    BY <1>0, <1>4 DEF CreateRevisionRow
  <2>2. pc'[t] = "createRow" /\ req' = req
    BY <2>1, GotoEffect
  <2>3. /\ \A a \in Apps : KnownRevs(a) \subseteq KnownRevs(a)'
        /\ 1 \in KnownRevs(x)'
    BY <1>1, <2>1, RevisionRange, KnownUpdate
  <2>4. Settled'
    BY <1>2, <2>1, <2>3, SettledStays
  <2>5. Course(t)' /\ InHand(t)' /\ Routed(t)' /\ Planned(t)' /\ Kept(t)'
    BY <1>0, <1>1, <2>1, <2>2, <2>3, OpNames
    DEF Course, InHand, Routed, Planned, Kept, Creating, Applying, App, Apart, gitVars
  <2> QED BY <2>2, <2>4, <2>5, Proceeds
<1> QED BY <1>3, <1>4

LEMMA CreateRowTurn ==
    ASSUME TypeOK, NEW t \in Threads, Turn(t), CreateAppRow(t)
    PROVE  Turn(t)'
<1>1. PICK x \in Apps : x = App(t)
  BY TurnTypes
<1>2. /\ pc[t] = "createRow" /\ req[t].op = "create" /\ phase = "up" /\ x \notin registered
      /\ req[t].rev = 1 /\ 1 \in KnownRevs(x) /\ \A b \in registered : Apart(ManifestRoute[x], b)
  BY <1>1, UpWhile, TurnTypes, OpNames DEF CreateAppRow, At, Turn, Course, InHand, Routed, Creating
<1>3. Settled
  BY <1>2, SettledWhile
<1>4. PICK s \in {"running", "stopped"} :
         row' = [row EXCEPT ![x] = [NoRow(x) EXCEPT !.status = s, !.current = 1]]
  BY <1>1, <1>2 DEF CreateAppRow
<1>5. /\ registered' = registered \cup {x} /\ Goto(t, "publish")
      /\ UNCHANGED <<gitVars, revState, mountVars, phase, failed>>
  BY <1>1, <1>2 DEF CreateAppRow
<1>6. pc'[t] = "publish" /\ req' = req
  BY <1>5, GotoEffect
<1>7. /\ \A a \in Apps \ {x} : row'[a] = row[a]
      /\ row'[x].route = ManifestRoute[x] /\ row'[x].current = 1 /\ row'[x].rollback = 0 /\ row'[x].preview = 0
  BY <1>4 DEF TypeOK, NoRow
<1>8. x \notin onMain /\ desired[x].rev = 0 /\ desiredPreview[x] = 0
  BY <1>2, <1>3 DEF Settled, Stored, AppStored
<1>9. Stored'
  BY <1>2, <1>3, <1>5, <1>7, <1>8 DEF Settled, Stored, AppStored, KnownRevs, gitVars
<1>10. RoutesApart'
  BY <1>2, <1>3, <1>5, <1>7, <1>8 DEF Settled, RoutesApart, Apart, gitVars, TypeOK
<1>11. Course(t)' /\ InHand(t)' /\ Routed(t)' /\ Planned(t)' /\ Kept(t)'
  BY <1>1, <1>2, <1>5, <1>6, OpNames
  DEF Course, InHand, Routed, Planned, Kept, Creating, Applying, App, KnownRevs, PublishOps
<1>12. Followed(t)' /\ Previewed(t)'
  BY <1>3, <1>5, <1>7, <1>8 DEF Settled, Followed, FollowsGit, RowMatchesGit, Previewed, ShowsPreview, gitVars, TypeOK
<1>13. Mounted(t)'
  BY <1>2, <1>3, <1>5, <1>6, <1>7
  DEF Settled, Mounted, MountedBy, Rightly, Remounting, Runs, mountVars, TypeOK
<1>14. Served(t)'
  BY <1>1, <1>2, <1>3, <1>5, <1>6, <1>7 DEF Settled, Served, Unserved, Serves, Runs, mountVars, App, TypeOK
<1> QED BY <1>9, <1>10, <1>11, <1>12, <1>13, <1>14 DEF Turn

\* A request that has stopped a settled app and is to unmount it.
LEMMA StopsApp ==
    ASSUME TypeOK, NEW t \in Threads, Settled, phase = "up", NEW x \in registered, x \in Apps,
           row' = [row EXCEPT ![x].status = "stopped"],
           UNCHANGED <<gitVars, registered, revState, mountVars, phase, failed>>,
           pc'[t] = "unmountRoute", req'[t].app = x, req'[t].route = row[x].route,
           req'[t].op \in {"create", "stop"}
    PROVE  Turn(t)'
<1>1. /\ \A a \in Apps \ {x} : row'[a] = row[a]
      /\ row'[x].route = row[x].route /\ row'[x].current = row[x].current /\ row'[x].enabled = row[x].enabled
      /\ row'[x].policy = row[x].policy /\ row'[x].preview = row[x].preview
      /\ row'[x].rollback = row[x].rollback /\ row'[x].status = "stopped"
  BY DEF TypeOK, Row
<1>2. Stored'
  BY <1>1 DEF Settled, Stored, AppStored, KnownRevs, gitVars
<1>3. RoutesApart'
  BY <1>1 DEF Settled, RoutesApart, Apart, gitVars, TypeOK
<1>4. \A b \in registered \ {x} : row[x].route # row[b].route
  BY DEF Settled, RoutesApart, Apart
<1>5. Course(t)' /\ InHand(t)' /\ Routed(t)' /\ Planned(t)' /\ Kept(t)'
  BY <1>1, <1>4, OpNames DEF Course, InHand, Routed, Planned, Kept, Creating, Applying, App, TypeOK
<1>6. Followed(t)' /\ Previewed(t)'
  BY <1>1 DEF Settled, Followed, FollowsGit, RowMatchesGit, Previewed, ShowsPreview, gitVars, TypeOK
<1>7. Mounted(t)'
  BY <1>1 DEF Settled, Mounted, MountedBy, Rightly, Remounting, Runs, mountVars, TypeOK, App
<1>8. Served(t)'
  BY <1>1 DEF Settled, Served, Unserved, Serves, Runs, mountVars, App, TypeOK
<1> QED BY <1>2, <1>3, <1>5, <1>6, <1>7, <1>8 DEF Turn

LEMMA CreatePreflightTurn ==
    ASSUME TypeOK, NEW t \in Threads, Turn(t), CreatePreflight(t)
    PROVE  Turn(t)'
<1>1. PICK x \in Apps : x = App(t)
  BY TurnTypes
<1>2. pc[t] = "preflight" /\ req[t].op = "create" /\ phase = "up"
  BY UpWhile, OpNames DEF CreatePreflight, At, Turn, Course
<1>3. Settled
  BY <1>2, SettledWhile
<1>4. CASE Raise(t)
  BY <1>2, <1>3, <1>4, RaiseTurn
<1>5. CASE ~Raise(t)
  <2>1. /\ x \in registered /\ row' = [row EXCEPT ![x].status = "stopped"]
        /\ req' = [req EXCEPT ![t] = [req[t] EXCEPT !.route = row[x].route]]
        /\ pc' = [pc EXCEPT ![t] = "unmountRoute"]
        /\ UNCHANGED <<gitVars, registered, revState, mountVars, phase, failed>>
    BY <1>1, <1>5 DEF CreatePreflight, TypeOK
  <2>2. /\ pc'[t] = "unmountRoute" /\ req'[t].app = x /\ req'[t].route = row[x].route
        /\ req'[t].op = "create"
    BY <1>1, <1>2, <2>1 DEF TypeOK, Request, App
  <2> QED BY <1>2, <1>3, <2>1, <2>2, StopsApp
<1> QED BY <1>4, <1>5

LEMMA PublishTurn ==
    ASSUME TypeOK, NEW t \in Threads, Turn(t), Publish(t)
    PROVE  Turn(t)'
<1>1. PICK x \in Apps : x = App(t)
  BY TurnTypes
<1>2. /\ pc[t] = "publish" /\ req[t].op \in PublishOps /\ phase = "up" /\ x \in registered
      /\ req[t].rev \in KnownRevs(x)
      /\ req[t].op = "route" => \A b \in registered \ {x} : Apart(req[t].route, b)
  BY <1>1, UpWhile, OpNames DEF Publish, At, Turn, Course, InHand, Routed, Creating
<1>3. PICK p, e, q : /\ p = (IF req[t].op = "route" THEN req[t].route ELSE row[x].route)
                     /\ e = (IF req[t].op = "enable" THEN req[t].enabled ELSE row[x].enabled)
                     /\ q = (IF req[t].op = "policy" THEN req[t].policy ELSE row[x].policy)
  OBVIOUS
<1>4. /\ releases' = [releases EXCEPT ![x] = @ \cup {req[t].rev}] /\ onMain' = onMain \cup {x}
      /\ req' = [req EXCEPT ![t] = [req[t] EXCEPT !.route = p, !.enabled = e, !.policy = q]]
      /\ pc' = [pc EXCEPT ![t] = "desire"]
      /\ UNCHANGED <<desired, desiredPreview, dbVars, mountVars, phase, lock, failed>>
  BY <1>1, <1>2, <1>3 DEF Publish
<1>5. /\ pc'[t] = "desire" /\ App(t)' = x /\ req'[t].op = req[t].op /\ req'[t].rev = req[t].rev
      /\ req'[t].route = p /\ req'[t].enabled = e
  BY <1>1, <1>4 DEF TypeOK, Request, App
<1>6. Stored'
  BY <1>2, <1>4 DEF Turn, Stored, AppStored, KnownRevs, dbVars, TypeOK
<1>7. RoutesApart'
  BY <1>4 DEF Turn, RoutesApart, Apart, dbVars
<1>8. \A b \in registered \ {x} : Apart(p, b)
  BY <1>2, <1>3 DEF Turn, RoutesApart
<1>9. Course(t)' /\ Planned(t)'
  BY <1>2, <1>4, <1>5, OpNames DEF Course, Planned, Creating, Applying
<1>10. InHand(t)'
  BY <1>2, <1>4, <1>5 DEF InHand, Creating, Applying, KnownRevs, dbVars, TypeOK
<1>11. Routed(t)'
  BY <1>4, <1>5, <1>8 DEF Routed, Apart, Creating, dbVars
<1>12. Kept(t)'
  BY <1>3, <1>4, <1>5, OpNames DEF Kept, dbVars
<1>13. Followed(t)' /\ Previewed(t)' /\ Mounted(t)' /\ Served(t)'
  BY <1>1, <1>2, <1>4, <1>5, OpNames
  DEF Turn, Followed, Rewriting, FollowsGit, RowMatchesGit, Previewed, Previewing, ShowsPreview, Mounted, MountedBy,
      Remounting, Runs, Served, Unserved, Serves, dbVars, mountVars
<1> QED BY <1>6, <1>7, <1>9, <1>10, <1>11, <1>12, <1>13 DEF Turn

LEMMA DesireTurn ==
    ASSUME TypeOK, NEW t \in Threads, Turn(t), Desire(t)
    PROVE  Turn(t)'
<1>1. PICK x \in Apps : x = App(t)
  BY TurnTypes
<1>2. /\ pc[t] = "desire" /\ req[t].op \in PublishOps /\ phase = "up" /\ x \in registered
      /\ req[t].rev \in KnownRevs(x) /\ x \in onMain /\ req[t].rev \in releases[x]
      /\ \A b \in registered \ {x} : Apart(req[t].route, b)
  BY <1>1, UpWhile, OpNames DEF Desire, At, Turn, Course, InHand, Routed, Creating
<1>3. /\ pc'[t] = "read" /\ req' = req /\ App(t)' = x
      /\ UNCHANGED <<releases, onMain, dbVars, mountVars, phase, failed>>
  BY <1>1, GotoEffect DEF Desire, App
<1>4. \A a \in Apps \ {x} : desired'[a] = desired[a] /\ desiredPreview'[a] = desiredPreview[a]
  BY <1>1 DEF Desire, TypeOK
<1>5. desiredPreview'[x] \in {0, desiredPreview[x], req[t].rev}
  BY <1>1 DEF Desire, TypeOK
<1>6. \/ req[t].op = "preview" /\ desired'[x] = desired[x]
      \/ /\ req[t].op # "preview" /\ desired'[x].rev = req[t].rev
         /\ desired'[x].route = req[t].route /\ desired'[x].enabled = req[t].enabled
  BY <1>1 DEF Desire, TypeOK
<1>7. req[t].rev # 0
  BY <1>2 DEF KnownRevs, Revs
<1>8. Stored'
  BY <1>2, <1>3, <1>4, <1>5, <1>6 DEF Turn, Stored, AppStored, KnownRevs, dbVars
<1>9. RoutesApart'
  BY <1>2, <1>3, <1>4, <1>6 DEF Turn, RoutesApart, Apart, dbVars, TypeOK
<1>10. Course(t)' /\ InHand(t)' /\ Routed(t)'
  BY <1>2, <1>3, OpNames DEF Course, InHand, Routed, Creating, Applying, KnownRevs, dbVars
<1>11. Planned(t)'
  BY <1>3, <1>6, <1>7 DEF Planned
<1>12. Kept(t)'
  <2>1. SUFFICES ASSUME req[t].op \notin ExposureOps, desired'[x].rev # 0
                 PROVE  desired'[x].route = row[x].route /\ desired'[x].enabled = row[x].enabled
    BY <1>3 DEF Kept, dbVars
  <2>2. CASE req[t].op = "preview"
    <3>1. RowMatchesGit(x)
      BY <1>2, <1>6, <2>1, <2>2 DEF Turn, Followed, Rewriting, FollowsGit
    <3> QED BY <1>6, <2>2, <3>1 DEF RowMatchesGit
  <2>3. CASE req[t].op # "preview"
    BY <1>1, <1>2, <1>6, <2>1, <2>3 DEF Turn, Kept
  <2> QED BY <2>2, <2>3
<1>13. Followed(t)' /\ Previewed(t)'
  BY <1>2, <1>3, <1>4, OpNames
  DEF Turn, Followed, Rewriting, FollowsGit, RowMatchesGit, Previewed, Previewing, ShowsPreview, dbVars, TypeOK
<1>14. Mounted(t)' /\ Served(t)'
  BY <1>1, <1>2, <1>3 DEF Turn, Mounted, MountedBy, Remounting, Runs, Served, Unserved, Serves, dbVars, mountVars
<1> QED BY <1>8, <1>9, <1>10, <1>11, <1>12, <1>13, <1>14 DEF Turn

LEMMA ReadDesiredTurn ==
    ASSUME TypeOK, NEW t \in Threads, Turn(t), ReadDesired(t)
    PROVE  Turn(t)'
<1>1. PICK x \in Apps : x = App(t)
  BY TurnTypes
<1>2. pc[t] = "read" /\ req[t].op \in PublishOps /\ phase = "up" /\ x \in registered
  BY <1>1, UpWhile, OpNames DEF ReadDesired, At, Turn, Course, InHand, Creating
<1>3. /\ req' = [req EXCEPT ![t] = [req[t] EXCEPT !.live = desired, !.preview = desiredPreview]]
      /\ pc' = [pc EXCEPT ![t] = "applyRow"]
      /\ UNCHANGED <<gitVars, dbVars, mountVars, phase, lock, failed>>
  BY <1>1, <1>2 DEF ReadDesired, TypeOK
<1>4. /\ pc'[t] = "applyRow" /\ App(t)' = x /\ req'[t].op = req[t].op /\ req'[t].todo = req[t].todo
      /\ req'[t].live = desired /\ req'[t].preview = desiredPreview
  BY <1>1, <1>3 DEF TypeOK, Request, App
<1>5. Stored' /\ RoutesApart'
  BY <1>3 DEF Turn, Stored, AppStored, RoutesApart, Apart, KnownRevs, gitVars, dbVars
<1>6. Course(t)' /\ InHand(t)' /\ Routed(t)' /\ Planned(t)' /\ Kept(t)'
  BY <1>1, <1>2, <1>3, <1>4, OpNames
  DEF Turn, Course, InHand, Routed, Planned, Kept, Creating, Applying, gitVars, dbVars
<1>7. Followed(t)' /\ Previewed(t)' /\ Mounted(t)' /\ Served(t)'
  BY <1>1, <1>2, <1>3, <1>4, OpNames
  DEF Turn, Followed, Rewriting, FollowsGit, RowMatchesGit, Previewed, Previewing, ShowsPreview, Mounted, MountedBy,
      Remounting, Runs, Served, Unserved, Serves, gitVars, dbVars, mountVars
<1> QED BY <1>5, <1>6, <1>7 DEF Turn

\* The end of one app's reconcile, with everything settled but the previews of the
\* apps that a pass over the fleet has yet to reach.
LEMMA LeavesTurn ==
    ASSUME TypeOK, NEW t \in Threads, Turn(t), pc[t] \in Applying, NEW ok \in BOOLEAN, LeaveReconcile(t, ok),
           UNCHANGED <<gitVars, phase, registered>>, Stored', RoutesApart',
           \A a \in Apps : FollowsGit(a)',
           \A a \in registered \ failed' : Serves(a)',
           \A a \in registered \ failed' : (req[t].op \in FleetOps /\ a \in req[t].todo) \/ ShowsPreview(a)',
           \A p \in Routes : Rightly(p)'
    PROVE  Turn(t)'
<1>1. /\ pc[t] # "idle" /\ phase # "down" /\ (phase = "starting" => req[t].op = "startup")
      /\ (phase = "up" => req[t].op # "startup") /\ App(t) \in registered
      /\ req[t].op \in PublishOps \cup FleetOps /\ req[t].live = desired /\ req[t].preview = desiredPreview
  BY DEF Turn, Course, InHand, Applying, Creating
<1>2. CASE req[t].op \in FleetOps
  <2>1. pc'[t] = "nextApp" /\ req' = req
    BY <1>2, GotoEffect, OpNames DEF LeaveReconcile
  <2>2. Course(t)' /\ InHand(t)' /\ Routed(t)' /\ Planned(t)' /\ Kept(t)'
    BY <1>1, <1>2, <2>1 DEF Course, InHand, Routed, Planned, Kept, Creating, Applying, gitVars
  <2>3. Followed(t)' /\ Previewed(t)' /\ Mounted(t)' /\ Served(t)'
    BY <1>2, <2>1 DEF Followed, Previewed, Previewing, Mounted, MountedBy, Served, Rightly, Remounting
  <2> QED BY <2>2, <2>3 DEF Turn
<1>3. CASE req[t].op \notin FleetOps
  <2>1. Settled' /\ phase = "up" /\ phase' = "up"
    BY <1>1, <1>3, OpNames, TurnTypes DEF Settled
  <2>2. CASE Return(t)
    BY <2>1, <2>2, ReturnEffect, Rests
  <2>3. CASE req[t].op = "create" /\ Goto(t, "preflight")
    <3>1. pc'[t] = "preflight" /\ req' = req
      BY <2>3, GotoEffect
    <3>2. Course(t)' /\ InHand(t)' /\ Routed(t)' /\ Planned(t)' /\ Kept(t)'
      BY <1>1, <2>1, <2>3, <3>1, OpNames DEF Course, InHand, Routed, Planned, Kept, Creating, Applying, App
    <3> QED BY <2>1, <3>1, <3>2, Proceeds
  <2> QED BY <1>3, <2>2, <2>3 DEF LeaveReconcile
<1> QED BY <1>2, <1>3

\* An app that is failed for the reason of a route would share it.
LEMMA NoClash ==
    ASSUME TypeOK, Stored, RoutesApart, NEW x \in Apps, x \in registered, desired[x].rev # 0
    PROVE  ~RouteClash(desired, x) /\ ~RouteRefused(desired[x].route, x)
<1>1. \A b \in registered \ {x} : Apart(desired[x].route, b)
  BY DEF RoutesApart
<1>2. \A b \in Apps : desired[b].rev # 0 => b \in registered
  BY DEF Stored, AppStored
<1> QED BY <1>1, <1>2 DEF RouteClash, RouteRefused, RouteHolders, Apart

LEMMA ApplyRowTurn ==
    ASSUME TypeOK, NEW t \in Threads, Turn(t), ApplyRow(t)
    PROVE  Turn(t)'
<1>1. PICK x \in Apps : x = App(t)
  BY TurnTypes
<1>2. /\ pc[t] = "applyRow" /\ req[t].op \in PublishOps \cup FleetOps /\ phase # "down" /\ x \in registered
      /\ req[t].live = desired /\ req[t].preview = desiredPreview
      /\ req[t].op = "create" => desired[x].rev # 0
      /\ (phase = "starting" => req[t].op = "startup") /\ (phase = "up" => req[t].op # "startup")
  BY <1>1 DEF ApplyRow, At, Turn, Course, InHand, Planned, Creating, Applying
<1>3. CASE desired[x].rev = 0
  <2>1. Goto(t, "applyPreview") /\ UNCHANGED <<gitVars, dbVars, mountVars, phase, failed>>
    BY <1>1, <1>2, <1>3 DEF ApplyRow
  <2>2. pc'[t] = "applyPreview" /\ req' = req
    BY <2>1, GotoEffect
  <2>3. Stored' /\ RoutesApart'
    BY <2>1 DEF Turn, Stored, AppStored, RoutesApart, Apart, KnownRevs, gitVars, dbVars
  <2>4. Course(t)' /\ InHand(t)' /\ Routed(t)' /\ Planned(t)' /\ Kept(t)'
    BY <1>1, <1>2, <1>3, <2>1, <2>2, OpNames
    DEF Turn, Course, InHand, Routed, Planned, Kept, Creating, Applying, App, gitVars, dbVars
  <2>5. Followed(t)' /\ Previewed(t)' /\ Mounted(t)' /\ Served(t)'
    BY <1>1, <1>2, <1>3, <2>1, <2>2
    DEF Turn, Followed, Rewriting, FollowsGit, RowMatchesGit, Previewed, Previewing, ShowsPreview, Mounted, MountedBy,
        Remounting, Runs, Served, Unserved, Serves, App, gitVars, dbVars, mountVars
  <2> QED BY <2>3, <2>4, <2>5 DEF Turn
<1>4. CASE desired[x].rev # 0
  <2>1. /\ ~RouteClash(desired, x) /\ ~RouteRefused(desired[x].route, x)
    BY <1>2, <1>4, NoClash DEF Turn
  <2>2. PICK r : r = desired[x].rev /\ r \in KnownRevs(x) /\ r # 0
    BY <1>4 DEF Turn, Stored, AppStored
  <2>3. PICK old : old = row[x] /\ old \in Row
    BY DEF TypeOK
  <2>4. PICK exposed : exposed = [old EXCEPT !.route = desired[x].route, !.enabled = desired[x].enabled,
                                             !.policy = desired[x].policy]
    OBVIOUS
  <2>5. PICK new : new = (IF r # old.current THEN PromotedRow(exposed, r) ELSE exposed)
    OBVIOUS
  <2>20. PICK run : run = (new.enabled /\ new.status = "running")
    OBVIOUS
  <2>6. /\ row' = [row EXCEPT ![x] = new]
        /\ revState' = IF r = old.current THEN revState
                       ELSE [revState EXCEPT ![x] = [s \in Revs |-> IF s = r THEN "live"
                                                     ELSE IF s = old.current THEN "archived" ELSE @[s]]]
        /\ req' = [req EXCEPT ![t].route = old.route, ![t].running = run]
        /\ pc' = [pc EXCEPT ![t] = "applyMount"]
        /\ UNCHANGED <<gitVars, registered, mountVars, phase, lock, failed>>
    <3>1. DesiredLive(t) = r
      BY <1>1, <1>2, <2>2 DEF DesiredLive
    <3>2. ~(\/ x \notin registered
            \/ desired[x].rev # 0 /\ (RouteClash(req[t].live, x) \/ RouteRefused(desired[x].route, x)))
      BY <1>2, <2>1
    <3>3. (r # 0 /\ r # old.current) <=> r # old.current
      BY <2>2
    <3>4. row' = [row EXCEPT ![x] = new]
      BY <1>1, <1>2, <1>4, <2>3, <2>4, <2>5, <3>1, <3>2, <3>3 DEF ApplyRow
    <3>5. revState' = IF r = old.current THEN revState
                      ELSE [revState EXCEPT ![x] = [s \in Revs |-> IF s = r THEN "live"
                                                    ELSE IF s = old.current THEN "archived" ELSE @[s]]]
      BY <1>1, <1>2, <1>4, <2>3, <3>1, <3>2, <3>3 DEF ApplyRow
    <3>6. req' = [req EXCEPT ![t].route = old.route, ![t].running = run]
      BY <1>1, <1>2, <1>4, <2>3, <2>4, <2>5, <2>20, <3>1, <3>2, <3>3 DEF ApplyRow
    <3>7. /\ pc' = [pc EXCEPT ![t] = "applyMount"]
          /\ UNCHANGED <<gitVars, registered, mountVars, phase, lock, failed>>
      BY <1>1, <1>2, <1>4, <3>2 DEF ApplyRow
    <3> QED BY <3>4, <3>5, <3>6, <3>7
  <2>7. /\ new.route = desired[x].route /\ new.enabled = desired[x].enabled /\ new.policy = desired[x].policy
        /\ new.status = old.status /\ new.current = r
        /\ new.rollback \in {old.rollback, old.current}
    BY <2>3, <2>4, <2>5 DEF PromotedRow, Row
  <2>8. row'[x] = new /\ \A a \in Apps \ {x} : row'[a] = row[a]
    BY <2>6 DEF TypeOK
  <2>9. /\ pc'[t] = "applyMount" /\ App(t)' = x /\ req'[t].op = req[t].op /\ req'[t].todo = req[t].todo
        /\ req'[t].live = desired /\ req'[t].preview = desiredPreview /\ req'[t].route = old.route
        /\ (req'[t].running <=> (new.enabled /\ new.status = "running"))
    <3>1. req' = [req EXCEPT ![t] = [req[t] EXCEPT !.route = old.route, !.running = run]]
      BY <2>6 DEF TypeOK
    <3>2. LET f == [req[t] EXCEPT !.route = old.route, !.running = run]
          IN  /\ f.app = req[t].app /\ f.op = req[t].op /\ f.todo = req[t].todo /\ f.live = req[t].live
              /\ f.preview = req[t].preview /\ f.route = old.route /\ f.running = run
      BY DEF TypeOK, Request
    <3>3. req'[t] = [req[t] EXCEPT !.route = old.route, !.running = run] /\ pc'[t] = "applyMount"
      BY <2>6, <3>1 DEF TypeOK
    <3>4. req'[t].running = run /\ App(t)' = x
      BY <1>1, <3>2, <3>3 DEF App
    <3>5. req'[t].running <=> (new.enabled /\ new.status = "running")
      BY <2>20, <3>4
    <3> QED BY <1>2, <3>2, <3>3, <3>4, <3>5
  <2>10. \A a \in Apps : KnownRevs(a) \subseteq KnownRevs(a)'
    <3>1. revState'[x] = revState[x] \/ revState'[x] = [s \in Revs |-> IF s = r THEN "live"
                                                     ELSE IF s = old.current THEN "archived" ELSE revState[x][s]]
      BY <2>6 DEF TypeOK
    <3>2. \A a \in Apps \ {x} : revState'[a] = revState[a]
      BY <2>6 DEF TypeOK
    <3> QED BY <3>1, <3>2 DEF KnownRevs
  <2>11. Stored'
    <3>1. old.current \in KnownRevs(x) /\ (old.rollback # 0 => old.rollback \in KnownRevs(x))
      BY <1>2, <2>3 DEF Turn, Stored, AppStored
    <3>2. AppStored(x)'
      BY <2>2, <2>6, <2>7, <2>8, <2>10, <3>1 DEF Turn, Stored, AppStored, gitVars
    <3>3. ASSUME NEW a \in Apps \ {x} PROVE AppStored(a)'
      BY <2>6, <2>8, <2>10 DEF Turn, Stored, AppStored, gitVars
    <3> QED BY <3>2, <3>3 DEF Stored
  <2>12. RoutesApart'
    BY <1>2, <1>4, <2>6, <2>7, <2>8 DEF Turn, RoutesApart, Apart, gitVars, TypeOK
  <2>13. Course(t)' /\ InHand(t)'
    BY <1>1, <1>2, <2>6, <2>9, OpNames DEF Course, InHand, Creating, Applying, gitVars
  <2>14. Routed(t)'
    BY <1>2, <2>3, <2>6, <2>8, <2>9 DEF Turn, Routed, RoutesApart, Apart, Creating, TypeOK
  <2>15. Planned(t)'
    BY <1>4, <2>6, <2>8, <2>9 DEF Planned, Runs, gitVars
  <2>16. Kept(t)'
    <3>1. SUFFICES ASSUME req[t].op \notin ExposureOps
                   PROVE  /\ old.route = row'[x].route
                          /\ liveMount[old.route].app = x => req'[t].running
      BY <2>6, <2>9 DEF Kept, mountVars
    <3>2. desired[x].route = old.route /\ desired[x].enabled = old.enabled
      BY <1>1, <1>2, <1>4, <2>3, <3>1 DEF Turn, Kept
    <3>3. liveMount[old.route].app = x => Runs(x)
      BY <1>1, <1>2, <2>3, TurnTypes DEF Turn, Mounted, MountedBy, Remounting, Row
    <3> QED BY <2>3, <2>7, <2>8, <2>9, <3>2, <3>3 DEF Runs
  <2>17. Followed(t)'
    <3>1. FollowsGit(x)'
      <4>1. desired[x] \in LiveSpec
        BY DEF TypeOK
      <4>2. [rev |-> r, route |-> new.route, enabled |-> new.enabled, policy |-> new.policy] = desired[x]
        BY <2>2, <2>7, <4>1 DEF LiveSpec
      <4> QED BY <2>6, <2>7, <2>8, <4>2 DEF FollowsGit, RowMatchesGit, gitVars
    <3>2. ASSUME NEW a \in Apps \ {x} PROVE FollowsGit(a)'
      BY <1>1, <1>2, <2>6, <2>8 DEF Turn, Followed, Rewriting, FollowsGit, RowMatchesGit, gitVars
    <3> QED BY <3>1, <3>2 DEF Followed
  <2>18. Previewed(t)' /\ Served(t)'
    BY <1>1, <1>2, <2>6, <2>8, <2>9
    DEF Turn, Previewed, Previewing, ShowsPreview, Runs, Served, Unserved, Serves, gitVars, mountVars, TypeOK
  <2>19. Mounted(t)'
    BY <1>1, <1>2, <2>3, <2>6, <2>8, <2>9
    DEF Turn, Mounted, MountedBy, Remounting, Runs, mountVars, TypeOK
  <2> QED BY <2>11, <2>12, <2>13, <2>14, <2>15, <2>16, <2>17, <2>18, <2>19 DEF Turn
<1> QED BY <1>3, <1>4

LEMMA ApplyMountTurn ==
    ASSUME TypeOK, NEW t \in Threads, Turn(t), ApplyMount(t)
    PROVE  Turn(t)'
<1>1. PICK x \in Apps : x = App(t)
  BY TurnTypes
<1>2. /\ pc[t] = "applyMount" /\ req[t].op \in PublishOps \cup FleetOps /\ phase # "down" /\ x \in registered
      /\ req[t].live = desired /\ req[t].preview = desiredPreview
      /\ desired[x].rev # 0 /\ (req[t].running <=> Runs(x))
      /\ (phase = "starting" => req[t].op = "startup") /\ (phase = "up" => req[t].op # "startup")
      /\ \A b \in registered \ {x} : req[t].route # row[b].route
  BY <1>1 DEF ApplyMount, At, Turn, Course, InHand, Planned, Routed, Creating, Applying
<1>3. row[x].route = desired[x].route /\ x # Nobody
  <2>1. RowMatchesGit(x)
    BY <1>2 DEF Turn, Followed, Rewriting, FollowsGit
  <2> QED BY <1>1, <2>1, TurnTypes DEF RowMatchesGit
<1>4. PICK old, route : old = req[t].route /\ route = row[x].route /\ old \in Routes /\ route \in Routes
  BY DEF TypeOK, Request, Row
<1>5. PICK moved : moved = WithoutOldRoute(t)
  OBVIOUS
<1>6. /\ moved \in [Routes -> Mount]
      /\ \A p \in Routes : moved[p] = IF p = old /\ old # route THEN Unmounted ELSE liveMount[p]
  BY <1>1, <1>2, <1>3, <1>4, <1>5, UnmountedType DEF WithoutOldRoute, TypeOK
<1>7. ASSUME NEW p \in Routes, moved[p].app # Nobody
      PROVE  /\ moved[p].app \in registered
             /\ moved[p].app = x => p = old /\ p = route
             /\ moved[p].app # x => Runs(moved[p].app) /\ p = row[moved[p].app].route
  <2>1. moved[p] = liveMount[p] /\ ~(p = old /\ old # route)
    BY <1>6, <1>7 DEF Unmounted
  <2> QED BY <1>1, <1>2, <1>4, <1>7, <2>1 DEF Turn, Mounted, MountedBy, Remounting
<1>8. /\ Unmounted.app = Nobody /\ \A b \in registered \ {x} : row[b].route # route /\ row[b].route # old
      /\ \A b \in registered \ {x} : moved[row[b].route] = liveMount[row[b].route] /\ row[b].route \in Routes
  BY <1>2, <1>4, <1>6 DEF Unmounted, Turn, RoutesApart, Apart, TypeOK, Row
<1>9. \A a \in Apps : FollowsGit(a)
  BY <1>2 DEF Turn, Followed, Rewriting
<1>10. \A b \in (registered \ failed) \ {x} : Serves(b)
  BY <1>1, <1>2 DEF Turn, Served, Unserved
<1>11. /\ UNCHANGED <<gitVars, dbVars, previewMount, phase>>
       /\ \/ /\ Goto(t, "applyPreview") /\ UNCHANGED failed
             /\ \/ Runs(x) /\ MountLive(x, moved, TRUE)
                \/ ~Runs(x) /\ liveMount' = [moved EXCEPT ![route] = Unmounted]
          \/ Runs(x) /\ MountLive(x, moved, FALSE) /\ LeaveReconcile(t, FALSE)
  BY <1>1, <1>2, <1>3, <1>4, <1>5 DEF ApplyMount
<1>12. Stored' /\ RoutesApart'
  BY <1>11 DEF Turn, Stored, AppStored, RoutesApart, Apart, KnownRevs, gitVars, dbVars
<1>13. CASE Runs(x) /\ MountLive(x, moved, FALSE) /\ LeaveReconcile(t, FALSE)
  <2>1. liveMount' = moved
    BY <1>13 DEF MountLive
  <2>2. failed' = failed \cup {x}
    BY <1>1, <1>13 DEF LeaveReconcile, App
  <2>3. \A p \in Routes : Rightly(p)'
    BY <1>4, <1>7, <1>11, <1>13, <2>1 DEF Rightly, Runs, dbVars
  <2>4. \A a \in registered \ failed' : Serves(a)'
    BY <1>8, <1>10, <1>11, <2>1, <2>2 DEF Serves, Runs, dbVars
  <2>5. \A a \in registered \ failed' : (req[t].op \in FleetOps /\ a \in req[t].todo) \/ ShowsPreview(a)'
    BY <1>1, <1>2, <1>11, <2>2 DEF Turn, Previewed, Previewing, ShowsPreview, gitVars, dbVars
  <2>6. \A a \in Apps : FollowsGit(a)'
    BY <1>9, <1>11 DEF FollowsGit, RowMatchesGit, gitVars, dbVars
  <2>7. pc[t] \in Applying /\ UNCHANGED <<gitVars, phase, registered>>
    BY <1>2, <1>11 DEF Applying, dbVars
  <2> QED BY <1>12, <1>13, <2>3, <2>4, <2>5, <2>6, <2>7, LeavesTurn
<1>14. CASE /\ Goto(t, "applyPreview") /\ UNCHANGED failed
            /\ \/ Runs(x) /\ MountLive(x, moved, TRUE)
               \/ ~Runs(x) /\ liveMount' = [moved EXCEPT ![route] = Unmounted]
  <2>1. pc'[t] = "applyPreview" /\ req' = req /\ App(t)' = x
    BY <1>1, <1>14, GotoEffect DEF App
  <2>2. /\ Runs(x) => liveMount'[route] = [app |-> x, rev |-> row[x].current]
        /\ ~Runs(x) => liveMount'[route] = Unmounted
        /\ \A p \in Routes \ {route} : liveMount'[p] = moved[p]
    BY <1>4, <1>6, <1>14 DEF MountLive, Runs
  <2>3. Serves(x)
        <=> (Runs(x) => liveMount[route] = [app |-> x, rev |-> row[x].current])
    BY <1>4 DEF Serves
  <2>4. Serves(x)'
    BY <1>4, <1>11, <2>2 DEF Serves, Runs, dbVars
  <2>5. Course(t)' /\ InHand(t)' /\ Routed(t)' /\ Planned(t)' /\ Kept(t)'
    BY <1>1, <1>2, <1>11, <2>1, <2>4 DEF Course, InHand, Routed, Planned, Kept, Creating, Applying, gitVars, dbVars
  <2>6. Followed(t)'
    BY <1>9, <1>11 DEF Followed, FollowsGit, RowMatchesGit, gitVars, dbVars
  <2>7. Previewed(t)'
    BY <1>1, <1>2, <1>11, <1>14, <2>1 DEF Turn, Previewed, Previewing, ShowsPreview, gitVars, dbVars
  <2>8. Mounted(t)'
    <3>1. SUFFICES ASSUME NEW p \in Routes, liveMount'[p].app # Nobody
                   PROVE  /\ liveMount'[p].app \in registered
                          /\ Runs(liveMount'[p].app) /\ p = row[liveMount'[p].app].route
      BY <1>11, <2>1 DEF Mounted, MountedBy, Remounting, Runs, dbVars
    <3>2. CASE p = route
      BY <1>2, <1>4, <1>8, <2>2, <3>1, <3>2
    <3>3. CASE p # route
      BY <1>7, <2>2, <3>1, <3>3
    <3> QED BY <3>2, <3>3
  <2>9. Served(t)'
    <3>1. ASSUME NEW a \in (registered \ failed) \ {x} PROVE Serves(a)'
      BY <1>8, <1>10, <1>11, <2>2 DEF Serves, Runs, dbVars
    <3> QED BY <1>11, <1>14, <2>4, <3>1 DEF Served, dbVars
  <2> QED BY <1>12, <2>5, <2>6, <2>7, <2>8, <2>9 DEF Turn
<1> QED BY <1>11, <1>13, <1>14

LEMMA ApplyPreviewTurn ==
    ASSUME TypeOK, NEW t \in Threads, Turn(t), ApplyPreview(t)
    PROVE  Turn(t)'
<1>1. PICK x \in Apps : x = App(t)
  BY TurnTypes
<1>2. /\ pc[t] = "applyPreview" /\ pc[t] \in Applying /\ phase # "down" /\ x \in registered
      /\ req[t].live = desired /\ req[t].preview = desiredPreview
      /\ (desired[x].rev # 0 => Serves(x)) /\ (x \notin failed => Serves(x))
  BY <1>1 DEF ApplyPreview, At, Turn, Course, InHand, Planned, Served, Unserved, Creating, Applying
<1>3. PICK r, shown : r = desiredPreview[x] /\ shown = row[x].preview
  OBVIOUS
<1>4. r # 0 => r \in KnownRevs(x)
  BY <1>3 DEF Turn, Stored, AppStored
<1>5. shown # 0 => shown \in Revs
  BY <1>3, RevisionRange DEF TypeOK, Row
<1>6. UNCHANGED <<gitVars, liveMount, phase, registered>>
  BY DEF ApplyPreview, dbVars
<1>7. /\ UNCHANGED revState \/ \E q \in Revs, s \in {"warming", "archived"} : revState' = [revState EXCEPT ![x][q] = s]
      /\ \E ok \in BOOLEAN, q \in {r, shown} :
            /\ LeaveReconcile(t, ok)
            /\ (row' = row /\ q = shown) \/ row' = [row EXCEPT ![x].preview = q]
            /\ ok => q = r
  <2>1. r # 0 => r \in Revs
    BY <1>4 DEF KnownRevs
  <2>2. PICK st, ok, q : /\ ApplyPreview(t)
        /\ st = revState' /\ ok \in BOOLEAN /\ q \in {r, shown}
        /\ LeaveReconcile(t, ok) /\ ((row' = row /\ q = shown) \/ row' = [row EXCEPT ![x].preview = q])
        /\ (ok => q = r)
    BY <1>1, <1>2, <1>3, <1>4 DEF ApplyPreview, dbVars
  <2>3. UNCHANGED revState \/ \E p \in Revs, s \in {"warming", "archived"} : revState' = [revState EXCEPT ![x][p] = s]
    BY <1>1, <1>2, <1>3, <1>5, <2>1 DEF ApplyPreview, dbVars
  <2> QED BY <2>2, <2>3
<1>8. PICK ok \in BOOLEAN, q \in {r, shown} :
         /\ LeaveReconcile(t, ok)
         /\ (row' = row /\ q = shown) \/ row' = [row EXCEPT ![x].preview = q]
         /\ ok => q = r
  BY <1>7
<1>9. /\ \A a \in Apps \ {x} : row'[a] = row[a]
      /\ row'[x].route = row[x].route /\ row'[x].current = row[x].current /\ row'[x].enabled = row[x].enabled
      /\ row'[x].policy = row[x].policy /\ row'[x].preview = q
      /\ row'[x].rollback = row[x].rollback /\ row'[x].status = row[x].status
  BY <1>3, <1>8 DEF TypeOK, Row
<1>10. \A a \in Apps : KnownRevs(a) \subseteq KnownRevs(a)'
  <2>1. CASE UNCHANGED revState
    BY <2>1 DEF KnownRevs
  <2>2. CASE ~UNCHANGED revState
    <3>1. PICK p \in Revs, s \in {"warming", "archived"} : revState' = [revState EXCEPT ![x][p] = s]
      BY <1>7, <2>2
    <3> QED BY <3>1, KnownUpdate
  <2> QED BY <2>1, <2>2
<1>11. failed' = IF ~ok THEN failed \cup {x} ELSE IF desired[x].rev # 0 THEN failed \ {x} ELSE failed
  BY <1>1, <1>2, <1>8 DEF LeaveReconcile, App
<1>12. Stored'
  BY <1>6, <1>9, <1>10 DEF Turn, Stored, AppStored, gitVars
<1>13. RoutesApart'
  BY <1>6, <1>9 DEF Turn, RoutesApart, Apart, gitVars, TypeOK
<1>14. \A a \in Apps : FollowsGit(a)'
  BY <1>2, <1>6, <1>9 DEF Turn, Followed, Rewriting, FollowsGit, RowMatchesGit, gitVars
<1>15. \A a \in registered \ failed' : Serves(a)'
  <2>1. Serves(x) => Serves(x)'
    BY <1>6, <1>9 DEF Serves, Runs
  <2>2. ASSUME NEW a \in registered \ failed', a # x PROVE Serves(a)'
    <3>1. a \in Apps /\ a \notin failed
      BY <1>11, <2>2 DEF TypeOK
    <3>2. Serves(a)
      BY <1>1, <1>2, <2>2, <3>1 DEF Turn, Served, Unserved
    <3> QED BY <1>6, <1>9, <2>2, <3>1, <3>2 DEF Serves, Runs
  <2> QED BY <1>2, <1>11, <2>1, <2>2
<1>16. \A a \in registered \ failed' : (req[t].op \in FleetOps /\ a \in req[t].todo) \/ ShowsPreview(a)'
  <2>1. x \in failed' \/ ShowsPreview(x)'
    BY <1>3, <1>6, <1>8, <1>9, <1>11 DEF ShowsPreview, gitVars
  <2>2. ASSUME NEW a \in registered \ failed', a # x
        PROVE  (req[t].op \in FleetOps /\ a \in req[t].todo) \/ ShowsPreview(a)'
    BY <1>1, <1>2, <1>6, <1>9, <1>11, <2>2 DEF Turn, Previewed, Previewing, ShowsPreview, gitVars, TypeOK
  <2> QED BY <2>1, <2>2
<1>17. \A p \in Routes : Rightly(p)'
  <2>1. \A a \in Apps : row'[a].status = row[a].status /\ row'[a].enabled = row[a].enabled
                        /\ row'[a].route = row[a].route
    BY <1>9
  <2>2. ASSUME NEW p \in Routes, NEW a, a = liveMount[p].app, a # Nobody
        PROVE  a \in Apps /\ a \in registered /\ Runs(a) /\ p = row[a].route
    BY <1>2, <2>2 DEF Turn, Mounted, MountedBy, Remounting, TypeOK
  <2> QED BY <1>6, <2>1, <2>2 DEF Rightly, Runs
<1> QED BY <1>2, <1>6, <1>8, <1>12, <1>13, <1>14, <1>15, <1>16, <1>17, LeavesTurn

\* What a change of the status of a row leaves alone.
LEMMA StatusUpdate ==
    ASSUME TypeOK, NEW x \in Apps, NEW s, row' = [row EXCEPT ![x].status = s]
    PROVE  /\ \A a \in Apps \ {x} : row'[a] = row[a]
           /\ row'[x].route = row[x].route /\ row'[x].current = row[x].current
           /\ row'[x].enabled = row[x].enabled /\ row'[x].policy = row[x].policy
           /\ row'[x].preview = row[x].preview /\ row'[x].rollback = row[x].rollback /\ row'[x].status = s
  BY DEF TypeOK, Row

LEMMA BeginStartTurn ==
    ASSUME TypeOK, NEW t \in Threads, NEW x \in Apps, Turn(t), BeginStart(t, x)
    PROVE  Turn(t)'
<1>1. /\ pc[t] = "idle" /\ phase = "up" /\ x \in registered
      /\ row' = [row EXCEPT ![x].status = "running"]
      /\ UNCHANGED <<gitVars, registered, revState, mountVars, phase, lock, failed>>
  BY DEF BeginStart, Accept
<1>2. Settled
  BY <1>1, SettledWhile
<1>3. /\ \A a \in Apps \ {x} : row'[a] = row[a]
      /\ row'[x].route = row[x].route /\ row'[x].current = row[x].current
      /\ row'[x].enabled = row[x].enabled /\ row'[x].policy = row[x].policy
      /\ row'[x].preview = row[x].preview /\ row'[x].rollback = row[x].rollback /\ row'[x].status = "running"
  BY <1>1, StatusUpdate
<1>4. Stored'
  BY <1>1, <1>2, <1>3 DEF Settled, Stored, AppStored, KnownRevs, gitVars
<1>5. RoutesApart'
  BY <1>1, <1>2, <1>3 DEF Settled, RoutesApart, Apart, gitVars, TypeOK
<1>6. \A a \in Apps : FollowsGit(a)' /\ (a \in registered \ failed => ShowsPreview(a)')
  BY <1>1, <1>2, <1>3 DEF Settled, FollowsGit, RowMatchesGit, ShowsPreview, gitVars
<1>7. \A p \in Routes : Rightly(p)'
  <2>1. \A a \in Apps : (Runs(a) => Runs(a)') /\ row'[a].route = row[a].route
    BY <1>3 DEF Runs
  <2>2. \A p \in Routes : liveMount[p].app # Nobody => liveMount[p].app \in Apps
    BY DEF TypeOK, Mount
  <2> QED BY <1>1, <1>2, <2>1, <2>2 DEF Settled, Rightly, mountVars
<1>8. \A a \in (registered \ failed) \ {x} : a \in Apps /\ Serves(a)'
  BY <1>1, <1>2, <1>3 DEF Settled, Serves, Runs, mountVars, TypeOK
<1>9. CASE row[x].enabled
  <2>1. Frame("start", x).op = "start" /\ Frame("start", x).app = x
    BY DEF Frame
  <2>2. pc'[t] = "mountLive" /\ req'[t].op = "start" /\ App(t)' = x
    BY <1>9, <2>1, BeginEffect DEF BeginStart, App
  <2>3. Course(t)' /\ InHand(t)' /\ Routed(t)' /\ Planned(t)' /\ Kept(t)'
    BY <1>1, <1>3, <1>9, <2>2, OpNames DEF Course, InHand, Routed, Planned, Kept, Creating, Applying, Runs
  <2>4. Followed(t)' /\ Previewed(t)' /\ Mounted(t)' /\ Served(t)'
    BY <1>1, <1>6, <1>7, <1>8, <2>2
    DEF Followed, Previewed, Mounted, MountedBy, Rightly, Remounting, Served, Unserved, TypeOK
  <2> QED BY <1>4, <1>5, <2>3, <2>4 DEF Turn
<1>10. CASE ~row[x].enabled
  <2>1. pc'[t] = "idle"
    BY <1>1, <1>10 DEF BeginStart
  <2>2. Serves(x)'
    BY <1>3, <1>10 DEF Serves, Runs
  <2>3. Settled'
    BY <1>1, <1>4, <1>5, <1>6, <1>7, <1>8, <2>2 DEF Settled, TypeOK
  <2> QED BY <1>1, <2>1, <2>3, Rests
<1> QED BY <1>9, <1>10

LEMMA BeginStopTurn ==
    ASSUME TypeOK, NEW t \in Threads, NEW x \in Apps, Turn(t), BeginStop(t, x)
    PROVE  Turn(t)'
<1>1. /\ pc[t] = "idle" /\ phase = "up" /\ x \in registered
      /\ row' = [row EXCEPT ![x].status = "stopped"]
      /\ UNCHANGED <<gitVars, registered, revState, mountVars, phase, lock, failed>>
      /\ Begin(t, "unmountRoute", [Frame("stop", x) EXCEPT !.route = row[x].route])
  BY DEF BeginStop, Accept
<1>2. LET f == [Frame("stop", x) EXCEPT !.route = row[x].route]
      IN  f.op = "stop" /\ f.app = x /\ f.route = row[x].route
  BY DEF Frame
<1>3. pc'[t] = "unmountRoute" /\ req'[t] = [Frame("stop", x) EXCEPT !.route = row[x].route]
  BY <1>1, BeginEffect
<1>4. Settled
  BY <1>1, SettledWhile
<1> QED BY <1>1, <1>2, <1>3, <1>4, StopsApp

\* With the route of a settled app unmounted, the app is mounted nowhere, and every
\* other app is where it was.
LEMMA Unmounts ==
    ASSUME TypeOK, Settled, NEW x \in Apps, x \in registered,
           UNCHANGED dbVars, liveMount' = [liveMount EXCEPT ![row[x].route] = Unmounted]
    PROVE  /\ \A p \in Routes : liveMount'[p].app # x /\ Rightly(p)'
           /\ \A a \in (registered \ failed) \ {x} : Serves(a)'
<1>1. /\ row[x].route \in Routes /\ Unmounted.app = Nobody /\ x # Nobody
      /\ \A a \in registered : row[a].route \in Routes
  BY ConstantsAssumption DEF Unmounted, TypeOK, Row
<1>2. \A p \in Routes : liveMount'[p] = IF p = row[x].route THEN Unmounted ELSE liveMount[p]
  BY DEF TypeOK
<1>3. \A a \in registered \ {x} : row[a].route # row[x].route
  BY DEF Settled, RoutesApart, Apart
<1>4. ASSUME NEW p \in Routes PROVE liveMount'[p].app # x /\ Rightly(p)'
  BY <1>1, <1>2 DEF Settled, Rightly, Runs, dbVars
<1>5. ASSUME NEW a \in (registered \ failed) \ {x} PROVE Serves(a)'
  BY <1>1, <1>2, <1>3 DEF Settled, Serves, Runs, dbVars
<1> QED BY <1>4, <1>5

LEMMA BeginRestartTurn ==
    ASSUME TypeOK, NEW t \in Threads, NEW x \in Apps, Turn(t), BeginRestart(t, x)
    PROVE  Turn(t)'
<1>1. /\ pc[t] = "idle" /\ phase = "up" /\ x \in registered
      /\ liveMount' = [liveMount EXCEPT ![row[x].route] = Unmounted]
      /\ UNCHANGED <<gitVars, dbVars, previewMount, phase, lock, failed>>
      /\ Begin(t, "setRunning", [Frame("restart", x) EXCEPT !.running = row[x].enabled])
  BY DEF BeginRestart, Accept
<1>2. Settled
  BY <1>1, SettledWhile
<1>3. LET f == [Frame("restart", x) EXCEPT !.running = row[x].enabled]
      IN  f.op = "restart" /\ f.app = x /\ f.running = row[x].enabled
  BY DEF Frame
<1>4. pc'[t] = "setRunning" /\ req'[t] = [Frame("restart", x) EXCEPT !.running = row[x].enabled]
  BY <1>1, BeginEffect
<1>5. App(t)' = x /\ req'[t].op = "restart" /\ req'[t].running = row[x].enabled
  BY <1>3, <1>4 DEF App
<1>6. /\ \A p \in Routes : Rightly(p)'
      /\ \A a \in (registered \ failed) \ {x} : Serves(a)'
  BY <1>1, <1>2, Unmounts
<1>7. Stored' /\ RoutesApart'
  BY <1>1, <1>2 DEF Settled, Stored, AppStored, RoutesApart, Apart, KnownRevs, gitVars, dbVars
<1>8. Course(t)' /\ InHand(t)' /\ Routed(t)' /\ Planned(t)' /\ Kept(t)'
  BY <1>1, <1>4, <1>5, OpNames DEF Course, InHand, Routed, Planned, Kept, Creating, Applying, dbVars
<1>9. Followed(t)' /\ Previewed(t)'
  BY <1>1, <1>2 DEF Settled, Followed, FollowsGit, RowMatchesGit, Previewed, ShowsPreview, gitVars, dbVars
<1>10. Mounted(t)' /\ Served(t)'
  BY <1>1, <1>4, <1>5, <1>6 DEF Mounted, MountedBy, Rightly, Remounting, Served, Unserved, dbVars
<1> QED BY <1>7, <1>8, <1>9, <1>10 DEF Turn

\* What holds while an app that nothing else is amiss with is not served.
LEMMA UnservedAlone ==
    ASSUME TypeOK, NEW t \in Threads, Turn(t), pc[t] \in {"setRunning", "mountLive", "deleteGit", "deleteRow"}
    PROVE  /\ phase = "up" /\ App(t) \in Apps /\ App(t) \in registered /\ Stored /\ RoutesApart
           /\ \A a \in Apps : FollowsGit(a)
           /\ \A a \in (registered \ failed) \ {App(t)} : ShowsPreview(a) /\ Serves(a)
           /\ pc[t] # "deleteRow" => \A a \in registered \ failed : ShowsPreview(a)
           /\ \A p \in Routes : Rightly(p)
<1>1. req[t].op \in {"start", "restart", "delete"} /\ App(t) \in registered /\ App(t) \in Apps
  BY TurnTypes DEF Turn, Course, InHand, Creating
<1>2. phase = "up" /\ req[t].op \notin FleetOps
  BY <1>1, UpWhile, OpNames
<1>3. \A a \in Apps : FollowsGit(a)
  BY <1>2 DEF Turn, Followed, Rewriting
<1>4. /\ \A a \in (registered \ failed) \ {App(t)} : ShowsPreview(a)
      /\ pc[t] # "deleteRow" => \A a \in registered \ failed : ShowsPreview(a)
  BY <1>2 DEF Turn, Previewed, Previewing
<1>5. \A a \in (registered \ failed) \ {App(t)} : Serves(a)
  BY <1>2 DEF Turn, Served, Unserved
<1>6. \A p \in Routes : Rightly(p)
  BY DEF Turn, Mounted, MountedBy, Remounting, Rightly
<1> QED BY <1>1, <1>2, <1>3, <1>4, <1>5, <1>6 DEF Turn

LEMMA SetRunningTurn ==
    ASSUME TypeOK, NEW t \in Threads, Turn(t), SetRunning(t)
    PROVE  Turn(t)'
<1>1. PICK x \in Apps : x = App(t)
  BY TurnTypes
<1>2. /\ pc[t] = "setRunning" /\ phase = "up" /\ x \in registered /\ Stored /\ RoutesApart
      /\ \A a \in Apps : FollowsGit(a)
      /\ \A a \in (registered \ failed) \ {x} : ShowsPreview(a) /\ Serves(a)
      /\ \A a \in registered \ failed : ShowsPreview(a)
      /\ \A p \in Routes : Rightly(p)
      /\ req[t].op = "restart" /\ req[t].running = row[x].enabled
  BY <1>1, UnservedAlone DEF SetRunning, At, Turn, Course, Planned
<1>3. /\ row' = [row EXCEPT ![x].status = "running"]
      /\ UNCHANGED <<gitVars, registered, revState, mountVars, phase, failed>>
  BY <1>1, <1>2 DEF SetRunning
<1>4. /\ \A a \in Apps \ {x} : row'[a] = row[a]
      /\ row'[x].route = row[x].route /\ row'[x].current = row[x].current
      /\ row'[x].enabled = row[x].enabled /\ row'[x].policy = row[x].policy
      /\ row'[x].preview = row[x].preview /\ row'[x].rollback = row[x].rollback /\ row'[x].status = "running"
  BY <1>3, StatusUpdate
<1>5. Stored'
  BY <1>2, <1>3, <1>4 DEF Stored, AppStored, KnownRevs, gitVars
<1>6. RoutesApart'
  BY <1>2, <1>3, <1>4 DEF RoutesApart, Apart, gitVars, TypeOK
<1>7. \A a \in Apps : FollowsGit(a)' /\ (a \in registered \ failed => ShowsPreview(a)')
  BY <1>2, <1>3, <1>4 DEF FollowsGit, RowMatchesGit, ShowsPreview, gitVars
<1>8. \A p \in Routes : Rightly(p)'
  <2>1. \A a \in Apps : (Runs(a) => Runs(a)') /\ row'[a].route = row[a].route
    BY <1>4 DEF Runs
  <2>2. \A p \in Routes : liveMount[p].app # Nobody => liveMount[p].app \in Apps
    BY DEF TypeOK, Mount
  <2> QED BY <1>2, <1>3, <2>1, <2>2 DEF Rightly, mountVars
<1>9. \A a \in (registered \ failed) \ {x} : a \in Apps /\ Serves(a)'
  BY <1>2, <1>3, <1>4 DEF Serves, Runs, mountVars, TypeOK
<1>10. CASE req[t].running
  <2>1. pc'[t] = "mountLive" /\ req' = req /\ App(t)' = x
    BY <1>1, <1>10, GotoEffect DEF SetRunning, App
  <2>2. Course(t)' /\ InHand(t)' /\ Routed(t)' /\ Planned(t)' /\ Kept(t)'
    BY <1>2, <1>3, <1>4, <1>10, <2>1, OpNames DEF Course, InHand, Routed, Planned, Kept, Creating, Applying, Runs
  <2>3. Followed(t)' /\ Previewed(t)' /\ Mounted(t)' /\ Served(t)'
    BY <1>3, <1>7, <1>8, <1>9, <2>1
    DEF Followed, Previewed, Mounted, MountedBy, Rightly, Remounting, Served, Unserved, TypeOK
  <2> QED BY <1>5, <1>6, <2>2, <2>3 DEF Turn
<1>11. CASE ~req[t].running
  <2>1. pc'[t] = "idle"
    BY <1>11, ReturnEffect DEF SetRunning
  <2>2. Serves(x)'
    BY <1>2, <1>4, <1>11 DEF Serves, Runs
  <2>3. Settled'
    BY <1>3, <1>5, <1>6, <1>7, <1>8, <1>9, <2>2 DEF Settled, TypeOK
  <2> QED BY <1>2, <1>3, <2>1, <2>3, Rests
<1> QED BY <1>10, <1>11

LEMMA FinishMountTurn ==
    ASSUME TypeOK, NEW t \in Threads, Turn(t), FinishMountLive(t)
    PROVE  Turn(t)'
<1>1. PICK x \in Apps : x = App(t)
  BY TurnTypes
<1>2. /\ pc[t] = "mountLive" /\ phase = "up" /\ x \in registered /\ Stored /\ RoutesApart
      /\ \A a \in Apps : FollowsGit(a)
      /\ \A a \in (registered \ failed) \ {x} : Serves(a)
      /\ \A a \in registered \ failed : ShowsPreview(a)
      /\ \A p \in Routes : Rightly(p)
      /\ Runs(x)
  BY <1>1, UnservedAlone DEF FinishMountLive, At, Turn, Planned
<1>3. pc'[t] = "idle" /\ UNCHANGED <<gitVars, dbVars, previewMount, phase>>
  BY ReturnEffect DEF FinishMountLive
<1>4. Stored' /\ RoutesApart' /\ \A a \in Apps : FollowsGit(a)'
  BY <1>2, <1>3 DEF Stored, AppStored, RoutesApart, Apart, KnownRevs, FollowsGit, RowMatchesGit, gitVars, dbVars
<1>5. CASE MountLive(x, liveMount, TRUE) /\ failed' = failed
  <2>1. liveMount' = [liveMount EXCEPT ![row[x].route] = [app |-> x, rev |-> row[x].current]]
    BY <1>2, <1>5 DEF MountLive, Runs
  <2>2. /\ row[x].route \in Routes /\ \A a \in registered : row[a].route \in Routes
        /\ \A p \in Routes : liveMount'[p] = IF p = row[x].route THEN [app |-> x, rev |-> row[x].current]
                                             ELSE liveMount[p]
        /\ \A a \in registered \ {x} : row[a].route # row[x].route
    BY <1>2, <2>1 DEF TypeOK, Row, RoutesApart, Apart
  <2>3. \A p \in Routes : Rightly(p)'
    BY <1>2, <1>3, <2>2 DEF Rightly, Runs, dbVars
  <2>4. \A a \in registered \ failed : Serves(a)'
    BY <1>2, <1>3, <2>2 DEF Serves, Runs, dbVars
  <2> QED BY <1>2, <1>3, <1>4, <1>5, <2>3, <2>4, Rests DEF Settled, ShowsPreview, gitVars, dbVars
<1>6. CASE MountLive(x, liveMount, FALSE) /\ failed' = failed \cup {x}
  <2>1. liveMount' = liveMount
    BY <1>6 DEF MountLive
  <2>2. Settled'
    BY <1>2, <1>3, <1>4, <1>6, <2>1 DEF Settled, ShowsPreview, Serves, Runs, Rightly, gitVars, dbVars
  <2> QED BY <1>2, <1>3, <2>2, Rests
<1> QED BY <1>1, <1>5, <1>6 DEF FinishMountLive

LEMMA FinishUnmountTurn ==
    ASSUME TypeOK, NEW t \in Threads, Turn(t), FinishUnmount(t)
    PROVE  Turn(t)'
<1>1. PICK x \in Apps : x = App(t)
  BY TurnTypes
<1>2. /\ pc[t] = "unmountRoute" /\ req[t].op \in {"create", "stop"} /\ x \in registered
      /\ row[x].status = "stopped" /\ \A b \in registered \ {x} : req[t].route # row[b].route
  BY <1>1 DEF FinishUnmount, At, Turn, Course, InHand, Planned, Routed, Creating
<1>3. phase = "up" /\ req[t].op \notin FleetOps
  BY <1>2, UpWhile, OpNames DEF PublishOps
<1>4. /\ pc'[t] = "idle" /\ UNCHANGED <<gitVars, dbVars, previewMount, phase, failed>>
      /\ liveMount' = [liveMount EXCEPT ![req[t].route] = Unmounted]
  BY ReturnEffect DEF FinishUnmount
<1>5. /\ \A p \in Routes : liveMount'[p] = IF p = req[t].route THEN Unmounted ELSE liveMount[p]
      /\ Unmounted.app = Nobody /\ \A a \in registered : row[a].route \in Routes
  BY <1>4 DEF TypeOK, Unmounted, Row
<1>6. Stored' /\ RoutesApart' /\ \A a \in Apps : FollowsGit(a)'
  BY <1>2, <1>3, <1>4
  DEF Turn, Followed, Rewriting, Stored, AppStored, RoutesApart, Apart, KnownRevs, FollowsGit, RowMatchesGit,
      gitVars, dbVars
<1>7. \A a \in registered \ failed : ShowsPreview(a)'
  BY <1>2, <1>3, <1>4 DEF Turn, Previewed, Previewing, ShowsPreview, gitVars, dbVars
<1>8. \A a \in registered \ failed : Serves(a)'
  <2>1. Serves(x)'
    BY <1>2, <1>4 DEF Serves, Runs, dbVars
  <2>2. ASSUME NEW a \in registered \ failed, a # x PROVE Serves(a)'
    <3>1. Serves(a)
      BY <1>1, <1>3, <2>2 DEF Turn, Served, Unserved
    <3> QED BY <1>2, <1>4, <1>5, <2>2, <3>1 DEF Serves, Runs, dbVars
  <2> QED BY <2>1, <2>2
<1>9. \A p \in Routes : Rightly(p)'
  BY <1>1, <1>2, <1>4, <1>5 DEF Turn, Mounted, MountedBy, Remounting, Rightly, Runs, dbVars
<1> QED BY <1>3, <1>4, <1>6, <1>7, <1>8, <1>9, Rests DEF Settled, dbVars

LEMMA BeginDeleteTurn ==
    ASSUME TypeOK, NEW t \in Threads, NEW x \in Apps, Turn(t), BeginDelete(t, x)
    PROVE  Turn(t)'
<1>1. /\ pc[t] = "idle" /\ phase = "up" /\ x \in registered
      /\ liveMount' = [liveMount EXCEPT ![row[x].route] = Unmounted]
      /\ UNCHANGED <<gitVars, dbVars, phase, lock, failed>>
      /\ Begin(t, "deleteGit", Frame("delete", x))
  BY DEF BeginDelete, Accept
<1>2. Settled
  BY <1>1, SettledWhile
<1>3. Frame("delete", x).op = "delete" /\ Frame("delete", x).app = x
  BY DEF Frame
<1>4. pc'[t] = "deleteGit" /\ App(t)' = x /\ req'[t].op = "delete"
  BY <1>1, <1>3, BeginEffect DEF App
<1>5. /\ \A p \in Routes : liveMount'[p].app # x /\ Rightly(p)'
      /\ \A a \in (registered \ failed) \ {x} : Serves(a)'
  BY <1>1, <1>2, Unmounts
<1>6. Stored' /\ RoutesApart'
  BY <1>1, <1>2 DEF Settled, Stored, AppStored, RoutesApart, Apart, KnownRevs, gitVars, dbVars
<1>7. Course(t)' /\ InHand(t)' /\ Routed(t)' /\ Planned(t)' /\ Kept(t)'
  BY <1>1, <1>4, OpNames DEF Course, InHand, Routed, Planned, Kept, Creating, Applying, dbVars
<1>8. Followed(t)' /\ Previewed(t)'
  BY <1>1, <1>2 DEF Settled, Followed, FollowsGit, RowMatchesGit, Previewed, ShowsPreview, gitVars, dbVars
<1>9. Mounted(t)' /\ Served(t)'
  BY <1>1, <1>4, <1>5 DEF Mounted, MountedBy, Rightly, Remounting, Served, Unserved, dbVars
<1> QED BY <1>6, <1>7, <1>8, <1>9 DEF Turn

LEMMA DeleteGitTurn ==
    ASSUME TypeOK, NEW t \in Threads, Turn(t), DeleteGit(t)
    PROVE  Turn(t)'
<1>1. PICK x \in Apps : x = App(t)
  BY TurnTypes
<1>2. /\ pc[t] = "deleteGit" /\ phase = "up" /\ x \in registered /\ Stored /\ RoutesApart
      /\ \A a \in Apps : FollowsGit(a)
      /\ \A a \in (registered \ failed) \ {x} : ShowsPreview(a) /\ Serves(a)
      /\ \A p \in Routes : Rightly(p) /\ liveMount[p].app # x
      /\ req[t].op = "delete"
  BY <1>1, UnservedAlone, TurnTypes DEF DeleteGit, At, Turn, Course, Mounted, MountedBy
<1>3. /\ \A a \in Apps \ {x} : /\ desired'[a] = desired[a] /\ desiredPreview'[a] = desiredPreview[a]
                               /\ releases'[a] = releases[a]
      /\ desired'[x] = NoSpec(x) /\ desiredPreview'[x] = 0 /\ releases'[x] = {} /\ onMain' = onMain \ {x}
      /\ UNCHANGED <<dbVars, mountVars, phase, failed>>
  BY <1>1 DEF DeleteGit, TypeOK
<1>4. desired'[x].rev = 0
  BY <1>3 DEF NoSpec
<1>5. pc'[t] = "deleteRow" /\ req' = req /\ App(t)' = x
  BY <1>1, GotoEffect DEF DeleteGit, App
<1>6. Stored'
  BY <1>2, <1>3, <1>4 DEF Stored, AppStored, KnownRevs, dbVars
<1>7. RoutesApart'
  BY <1>2, <1>3, <1>4 DEF RoutesApart, Apart, dbVars, TypeOK
<1>8. Course(t)' /\ InHand(t)' /\ Routed(t)' /\ Planned(t)' /\ Kept(t)'
  BY <1>2, <1>3, <1>5, OpNames DEF Course, InHand, Routed, Planned, Kept, Creating, Applying, dbVars
<1>9. Followed(t)' /\ Previewed(t)'
  BY <1>2, <1>3, <1>4, <1>5
  DEF Followed, FollowsGit, RowMatchesGit, Previewed, Previewing, ShowsPreview, dbVars, TypeOK
<1>10. Mounted(t)' /\ Served(t)'
  BY <1>2, <1>3, <1>5
  DEF Mounted, MountedBy, Rightly, Remounting, Served, Unserved, Serves, Runs, dbVars, mountVars
<1> QED BY <1>6, <1>7, <1>8, <1>9, <1>10 DEF Turn

LEMMA DeleteRowTurn ==
    ASSUME TypeOK, NEW t \in Threads, Turn(t), DeleteRow(t)
    PROVE  Turn(t)'
<1>1. PICK x \in Apps : x = App(t)
  BY TurnTypes
<1>2. /\ pc[t] = "deleteRow" /\ phase = "up" /\ x \in registered /\ Stored /\ RoutesApart
      /\ \A a \in Apps : FollowsGit(a)
      /\ \A a \in (registered \ failed) \ {x} : ShowsPreview(a) /\ Serves(a)
      /\ \A p \in Routes : Rightly(p) /\ liveMount[p].app # x
      /\ releases[x] = {} /\ x \notin onMain
  BY <1>1, UnservedAlone, TurnTypes DEF DeleteRow, At, Turn, InHand, Mounted, MountedBy
<1>3. /\ registered' = registered \ {x} /\ failed' = failed \ {x}
      /\ \A a \in Apps \ {x} : row'[a] = row[a] /\ revState'[a] = revState[a]
      /\ UNCHANGED <<gitVars, mountVars, phase>>
  BY <1>1, <1>2 DEF DeleteRow, TypeOK
<1>4. pc'[t] = "idle"
  BY ReturnEffect DEF DeleteRow
<1>5. desired[x].rev = 0 /\ desiredPreview[x] = 0
  BY <1>2 DEF Stored, AppStored
<1>6. Stored'
  BY <1>2, <1>3, <1>5 DEF Stored, AppStored, KnownRevs, gitVars
<1>7. RoutesApart'
  BY <1>2, <1>3 DEF RoutesApart, Apart, gitVars, TypeOK
<1>8. \A a \in Apps : FollowsGit(a)'
  BY <1>2, <1>3, <1>5 DEF FollowsGit, RowMatchesGit, gitVars
<1>9. \A a \in registered' \ failed' : ShowsPreview(a)' /\ Serves(a)'
  BY <1>2, <1>3 DEF ShowsPreview, Serves, Runs, gitVars, mountVars, TypeOK
<1>10. \A p \in Routes : Rightly(p)'
  BY <1>2, <1>3 DEF Rightly, Runs, mountVars, TypeOK
<1> QED BY <1>2, <1>3, <1>4, <1>6, <1>7, <1>8, <1>9, <1>10, Rests DEF Settled

\* What a request over the fleet carries.
LEMMA FleetRequestFields ==
    ASSUME NEW o, NEW apps
    PROVE  LET q == FleetRequest(o, apps)
           IN  /\ q.op = o /\ q.live = desired /\ q.preview = desiredPreview /\ q.todo = FleetTodo(apps)
               /\ apps \subseteq q.todo
  BY DEF FleetRequest, NoRequest, Frame, FleetTodo

LEMMA BeginReconcileTurn ==
    ASSUME TypeOK, NEW t \in Threads, Turn(t), BeginReconcile(t)
    PROVE  Turn(t)'
<1>1. /\ pc[t] = "idle" /\ phase = "up" /\ UNCHANGED <<gitVars, dbVars, mountVars, phase, lock, failed>>
      /\ Begin(t, "nextApp", FleetRequest("reconcile", registered))
  BY DEF BeginReconcile, Accept
<1>2. Settled'
  BY <1>1, SettledWhile, SettledStays DEF dbVars
<1>3. pc'[t] = "nextApp" /\ req'[t] = FleetRequest("reconcile", registered)
  BY <1>1, BeginEffect
<1>4. req'[t].op = "reconcile" /\ req'[t].live = desired /\ req'[t].preview = desiredPreview
  BY <1>3, FleetRequestFields
<1>5. Course(t)' /\ InHand(t)' /\ Routed(t)' /\ Planned(t)' /\ Kept(t)'
  BY <1>1, <1>3, <1>4, OpNames DEF Course, InHand, Routed, Planned, Kept, Creating, Applying, gitVars
<1> QED BY <1>2, <1>3, <1>5, Proceeds

LEMMA NextAppTurn ==
    ASSUME TypeOK, NEW t \in Threads, Turn(t), NextApp(t)
    PROVE  Turn(t)'
<1>1. PICK x \in req[t].todo :
         /\ req' = [req EXCEPT ![t].app = x, ![t].todo = @ \ {x}]
         /\ pc' = [pc EXCEPT ![t] = IF x \in registered THEN "applyRow" ELSE "nextApp"]
  BY DEF NextApp
<1>2. /\ pc[t] = "nextApp" /\ UNCHANGED <<gitVars, dbVars, mountVars, phase, lock, failed>>
      /\ req[t].op \in FleetOps /\ req[t].live = desired /\ req[t].preview = desiredPreview
      /\ phase # "down" /\ (phase = "starting" => req[t].op = "startup") /\ (phase = "up" => req[t].op # "startup")
  BY DEF NextApp, At, Turn, Course, InHand
<1>3. x \in Apps /\ req' = [req EXCEPT ![t] = [req[t] EXCEPT !.app = x, !.todo = req[t].todo \ {x}]]
  BY <1>1 DEF TypeOK, Request
<1>4. /\ App(t)' = x /\ req'[t].op = req[t].op /\ req'[t].todo = req[t].todo \ {x}
      /\ req'[t].live = desired /\ req'[t].preview = desiredPreview
      /\ pc'[t] = IF x \in registered THEN "applyRow" ELSE "nextApp"
  BY <1>1, <1>2, <1>3 DEF TypeOK, Request, App
<1>5. Stored' /\ RoutesApart'
  BY <1>2 DEF Turn, Stored, AppStored, RoutesApart, Apart, KnownRevs, gitVars, dbVars
<1>6. Course(t)' /\ InHand(t)' /\ Routed(t)'
  BY <1>2, <1>4, OpNames DEF Course, InHand, Routed, Creating, Applying, gitVars, dbVars
<1>7. \A a \in Apps : FollowsGit(a)
  BY <1>2 DEF Turn, Followed, Rewriting
<1>8. Planned(t)' /\ Kept(t)'
  <2>1. req'[t].op # "create"
    BY <1>2, <1>4, OpNames
  <2>2. Planned(t)'
    BY <1>4, <2>1 DEF Planned
  <2>3. desired[x].rev # 0 => desired[x].route = row[x].route /\ desired[x].enabled = row[x].enabled
    <3>1. desired[x].rev # 0 => RowMatchesGit(x)
      BY <1>3, <1>7 DEF FollowsGit
    <3> QED BY <3>1 DEF RowMatchesGit
  <2> QED BY <1>2, <1>4, <2>2, <2>3 DEF Kept, gitVars, dbVars
<1>9. Followed(t)'
  BY <1>2, <1>7 DEF Followed, FollowsGit, RowMatchesGit, gitVars, dbVars
<1>10. Previewed(t)'
  BY <1>2, <1>4 DEF Turn, Previewed, Previewing, ShowsPreview, gitVars, dbVars
<1>11. Mounted(t)'
  BY <1>2, <1>4 DEF Turn, Mounted, MountedBy, Remounting, Runs, dbVars, mountVars
<1>12. Served(t)'
  BY <1>2, <1>4, OpNames DEF Turn, Served, Unserved, Serves, Runs, dbVars, mountVars
<1> QED BY <1>5, <1>6, <1>8, <1>9, <1>10, <1>11, <1>12 DEF Turn

\* The end of a pass over the fleet: no app is excepted any more.
LEMMA FleetSettles ==
    ASSUME TypeOK, NEW t \in Threads, Turn(t), FleetDone(t)
    PROVE  Settled /\ phase' = "up" /\ pc'[t] = "idle" /\ UNCHANGED <<gitVars, dbVars, mountVars, failed>>
<1>1. /\ pc[t] = "nextApp" /\ req[t].todo = {} /\ pc'[t] = "idle"
      /\ phase' = (IF req[t].op = "startup" THEN "up" ELSE phase)
      /\ UNCHANGED <<gitVars, dbVars, mountVars, failed>>
  BY ReturnEffect DEF FleetDone, At
<1>2. phase # "down" /\ phase' = "up"
  BY <1>1, TurnTypes DEF Turn, Course
<1>3. \A a \in Apps : FollowsGit(a)
  BY <1>1, <1>2 DEF Turn, Followed, Rewriting
<1>4. \A a \in registered \ failed : ShowsPreview(a)
  BY <1>1, <1>2 DEF Turn, Previewed, Previewing
<1>5. \A a \in registered \ failed : Serves(a)
  BY <1>1, <1>2 DEF Turn, Served, Unserved
<1>6. \A p \in Routes : Rightly(p)
  BY <1>1 DEF Turn, Mounted, MountedBy, Remounting, Rightly
<1> QED BY <1>1, <1>2, <1>3, <1>4, <1>5, <1>6 DEF Settled, Turn

LEMMA FleetDoneTurn ==
    ASSUME TypeOK, NEW t \in Threads, Turn(t), FleetDone(t)
    PROVE  Turn(t)'
<1>1. Settled'
  BY FleetSettles, SettledStays DEF dbVars
<1> QED BY <1>1, FleetSettles, Rests

LEMMA CrashTurn ==
    ASSUME NEW t \in Threads, Turn(t), Crash
    PROVE  Turn(t)'
<1>1. /\ phase' = "down" /\ pc'[t] = "idle" /\ UNCHANGED <<gitVars, dbVars>>
      /\ \A p \in Routes : liveMount'[p].app = Nobody
  BY DEF Crash, Unmounted
<1>2. Stored' /\ RoutesApart'
  BY <1>1 DEF Turn, Stored, AppStored, RoutesApart, Apart, KnownRevs, gitVars, dbVars
<1>3. Course(t)' /\ InHand(t)' /\ Routed(t)' /\ Planned(t)' /\ Kept(t)'
  BY <1>1 DEF Course, InHand, Routed, Planned, Kept, Creating, Applying
<1>4. Followed(t)' /\ Previewed(t)' /\ Mounted(t)' /\ Served(t)'
  BY <1>1 DEF Followed, Previewed, Mounted, MountedBy, Served
<1> QED BY <1>2, <1>3, <1>4 DEF Turn

-----------------------------------------------------------------------------
(* Startup *)

\* What startup makes of an app whose releases are those of revisions that SQLite knows.
LEMMA StartupApp ==
    ASSUME TypeOK, NEW t \in Threads, Startup(t), NEW a \in Apps, AppStored(a)
    PROVE  /\ AppStored(a)' /\ (a \in registered' <=> a \in registered)
           /\ KnownRevs(a) \subseteq KnownRevs(a)'
           /\ desired[a].rev # 0 => /\ row'[a].current = desired[a].rev /\ row'[a].route = desired[a].route
                                    /\ row'[a].enabled = desired[a].enabled
                                    /\ row'[a].policy = desired[a].policy
           /\ desired[a].rev # 0 /\ a \in registered => row'[a].preview = desiredPreview[a]
           /\ desired[a].rev = 0 => row'[a].route = row[a].route
<1>1. PICK rel : rel = BackfilledReleases[a]
  OBVIOUS
<1>2. rel = releases[a] \cup (IF a \in registered THEN KnownRevs(a) ELSE {})
  BY <1>1 DEF BackfilledReleases
<1>3. releases[a] \subseteq rel /\ rel \subseteq KnownRevs(a) /\ rel \subseteq Revs
  BY <1>2 DEF AppStored, KnownRevs
<1>4. /\ UNCHANGED <<desired, desiredPreview, onMain>> /\ releases'[a] = rel
      /\ (a \in registered' <=> a \in registered \/ (a \in onMain /\ rel # {}))
      /\ row'[a] = (IF a \in onMain /\ rel # {} THEN RebuiltRow(a, rel) ELSE row[a])
      /\ revState'[a] = (IF a \in onMain /\ rel # {} THEN RebuiltStates(a, rel) ELSE revState[a])
  BY <1>1 DEF Startup, BackfilledReleases
<1>5. a \in registered' <=> a \in registered
  BY <1>4 DEF AppStored
<1>6. KnownRevs(a) \subseteq KnownRevs(a)'
  <2>1. CASE a \in onMain /\ rel # {}
    BY <1>4, <2>1 DEF KnownRevs, RebuiltStates
  <2>2. CASE ~(a \in onMain /\ rel # {})
    BY <1>4, <2>2 DEF KnownRevs
  <2> QED BY <2>1, <2>2
<1>7. CASE ~(a \in onMain /\ rel # {})
  <2>1. row'[a] = row[a] /\ desired[a].rev = 0
    BY <1>3, <1>4, <1>7 DEF AppStored
  <2>2. AppStored(a)'
    BY <1>3, <1>4, <1>5, <1>6, <2>1 DEF AppStored
  <2> QED BY <1>5, <1>6, <2>1, <2>2
<1>8. CASE a \in onMain /\ rel # {}
  <2>1. /\ row'[a].current = RebuiltCurrent(a, rel) /\ row'[a].preview = RebuiltPreview(a, rel)
        /\ row'[a].rollback = MaxIn({r \in rel : r < RebuiltCurrent(a, rel)})
        /\ desired[a].rev # 0 => /\ row'[a].route = desired[a].route /\ row'[a].enabled = desired[a].enabled
                                 /\ row'[a].policy = desired[a].policy
        /\ desired[a].rev = 0 => row'[a].route = row[a].route
    BY <1>4, <1>8 DEF RebuiltRow
  <2>2. RebuiltCurrent(a, rel) \in rel
    BY <1>3, <1>8, MaxInType DEF RebuiltCurrent, IsMax
  <2>3. row'[a].rollback # 0 => row'[a].rollback \in rel
    <3>1. PICK S : S = {r \in rel : r < RebuiltCurrent(a, rel)} /\ S \in SUBSET Revs
      BY <1>3
    <3>2. S = {} => MaxIn(S) = 0
      BY DEF MaxIn
    <3>3. S # {} => MaxIn(S) \in S
      BY <3>1, MaxInType DEF IsMax
    <3> QED BY <2>1, <3>1, <3>2, <3>3
  <2>4. desired[a].rev # 0 => row'[a].current = desired[a].rev
    BY <1>3, <2>1 DEF RebuiltCurrent, AppStored
  <2>5. row'[a].preview = desiredPreview[a]
    BY <1>3, <2>1 DEF RebuiltPreview, AppStored
  <2>6. AppStored(a)'
    BY <1>3, <1>4, <1>5, <1>6, <2>1, <2>2, <2>3 DEF AppStored
  <2> QED BY <1>5, <1>6, <2>1, <2>4, <2>5, <2>6
<1> QED BY <1>7, <1>8

\* What startup mounts, and of which apps it says that it could not.
LEMMA StartupMounts ==
    ASSUME TypeOK, NEW t \in Threads, Startup(t)
    PROVE  \E chosen \in SUBSET registered' :
              /\ \A a \in chosen : Runs(a)'
              /\ \A a, b \in chosen : row'[a].route = row'[b].route => a = b
              /\ \A a \in registered' \ failed' : Runs(a)' => a \in chosen
              /\ \A p \in Routes :
                    \/ \E a \in chosen : row'[a].route = p /\ liveMount'[p] = [app |-> a, rev |-> row'[a].current]
                    \/ liveMount'[p] = Unmounted /\ \A a \in chosen : row'[a].route # p
<1> DEFINE rebuilt == {a \in onMain : BackfilledReleases[a] # {}}
           apps == registered \cup rebuilt
           rows == [a \in Apps |-> IF a \in rebuilt THEN RebuiltRow(a, BackfilledReleases[a]) ELSE row[a]]
<1>1. registered' = apps /\ row' = rows
  BY DEF Startup
<1>2. PICK chosen \in SUBSET apps :
           /\ Bootstrapped(apps, rows, chosen)
           /\ failed' = Wanted(apps, rows) \ chosen
           /\ liveMount' = [p \in Routes |->
                 IF \E a \in chosen : rows[a].route = p
                 THEN LET a == CHOOSE b \in chosen : rows[b].route = p
                      IN  [app |-> a, rev |-> rows[a].current]
                 ELSE Unmounted]
  BY DEF Startup
<1> HIDE DEF apps, rows
<1>3. /\ \A a \in chosen : Runs(a)'
      /\ \A a, b \in chosen : row'[a].route = row'[b].route => a = b
      /\ \A a \in registered' \ failed' : Runs(a)' => a \in chosen
  BY <1>1, <1>2 DEF Bootstrapped, Wanted, Runs
<1>4. ASSUME NEW p \in Routes
      PROVE  \/ \E a \in chosen : row'[a].route = p /\ liveMount'[p] = [app |-> a, rev |-> row'[a].current]
             \/ liveMount'[p] = Unmounted /\ \A a \in chosen : row'[a].route # p
  <2>1. CASE \E a \in chosen : rows[a].route = p
    <3>1. PICK a : a = (CHOOSE b \in chosen : rows[b].route = p)
      OBVIOUS
    <3>2. a \in chosen /\ rows[a].route = p
      BY <2>1, <3>1
    <3>3. liveMount'[p] = [app |-> a, rev |-> rows[a].current]
      BY <1>2, <2>1, <3>1
    <3> QED BY <1>1, <3>2, <3>3
  <2>2. CASE ~\E a \in chosen : rows[a].route = p
    BY <1>1, <1>2, <2>2
  <2> QED BY <2>1, <2>2
<1> QED BY <1>1, <1>2, <1>3, <1>4

LEMMA StartupTurn ==
    ASSUME TypeOK, NEW t \in Threads, Turn(t), Startup(t)
    PROVE  Turn(t)'
<1>1. \A a \in Apps : AppStored(a)
  BY DEF Turn, Stored
<1>2. \A a \in Apps :
         /\ AppStored(a)' /\ (a \in registered' <=> a \in registered)
         /\ desired[a].rev # 0 => /\ row'[a].current = desired[a].rev /\ row'[a].route = desired[a].route
                                  /\ row'[a].enabled = desired[a].enabled
                                  /\ row'[a].policy = desired[a].policy
         /\ desired[a].rev = 0 => row'[a].route = row[a].route
  BY <1>1, StartupApp
<1>3. UNCHANGED <<desired, desiredPreview, onMain>> /\ phase' = "starting" /\ registered' \subseteq Apps
  BY DEF Startup, TypeOK
<1>4. PICK apps : registered' = apps /\ Begin(t, "nextApp", FleetRequest("startup", apps))
  BY DEF Startup
<1>5. pc'[t] = "nextApp" /\ req'[t] = FleetRequest("startup", apps)
  BY <1>4, BeginEffect
<1>6. /\ req'[t].op = "startup" /\ req'[t].live = desired /\ req'[t].preview = desiredPreview
      /\ registered' \subseteq req'[t].todo
  BY <1>4, <1>5, FleetRequestFields
<1>7. Stored'
  BY <1>2 DEF Stored
<1>8. RoutesApart'
  BY <1>2, <1>3 DEF Turn, RoutesApart, Apart, TypeOK
<1>9. Course(t)' /\ InHand(t)' /\ Routed(t)' /\ Planned(t)' /\ Kept(t)'
  BY <1>3, <1>5, <1>6, OpNames DEF Course, InHand, Routed, Planned, Kept, Creating, Applying
<1>10. Followed(t)'
  <2>1. ASSUME NEW a \in Apps, desired[a].rev # 0
        PROVE  [rev |-> row'[a].current, route |-> row'[a].route, enabled |-> row'[a].enabled,
                policy |-> row'[a].policy] = desired[a]
    <3>1. desired[a] \in LiveSpec
      BY DEF TypeOK
    <3> QED BY <1>2, <2>1, <3>1 DEF LiveSpec
  <2> QED BY <1>3, <2>1 DEF Followed, FollowsGit, RowMatchesGit
<1>11. Previewed(t)'
  BY <1>5, <1>6, OpNames DEF Previewed, Previewing
<1>12. PICK chosen \in SUBSET registered' :
              /\ \A a \in chosen : Runs(a)'
              /\ \A a, b \in chosen : row'[a].route = row'[b].route => a = b
              /\ \A a \in registered' \ failed' : Runs(a)' => a \in chosen
              /\ \A p \in Routes :
                    \/ \E a \in chosen : row'[a].route = p /\ liveMount'[p] = [app |-> a, rev |-> row'[a].current]
                    \/ liveMount'[p] = Unmounted /\ \A a \in chosen : row'[a].route # p
  BY StartupMounts
<1>13. Mounted(t)'
  <2>1. ASSUME NEW p \in Routes, NEW a, a = liveMount'[p].app, a # Nobody
        PROVE  a \in registered' /\ Runs(a)' /\ row'[a].route = p
    <3>1. a \in chosen /\ row'[a].route = p
      <4>1. liveMount'[p] # Unmounted
        BY <2>1 DEF Unmounted
      <4>2. PICK b \in chosen : row'[b].route = p /\ liveMount'[p] = [app |-> b, rev |-> row'[b].current]
        BY <1>12, <4>1
      <4> QED BY <2>1, <4>2
    <3> QED BY <1>12, <3>1
  <2>2. pc'[t] \notin {"applyMount", "unmountRoute", "deleteGit", "deleteRow"}
    BY <1>5
  <2> QED BY <2>1, <2>2 DEF Mounted, MountedBy, Remounting
<1>14. Served(t)'
  <2>1. \A a \in registered' : row'[a].route \in Routes
    <3>1. \A a \in Apps : row[a].route \in Routes /\ desired[a].route \in Routes
      BY DEF TypeOK, Row, LiveSpec
    <3> QED BY <1>2, <1>3, <3>1
  <2>2. ASSUME NEW a \in registered' \ failed', Runs(a)'
        PROVE  liveMount'[row'[a].route] = [app |-> a, rev |-> row'[a].current]
    <3>1. a \in chosen /\ row'[a].route \in Routes
      BY <1>12, <2>1, <2>2
    <3>2. PICK b \in chosen : /\ row'[b].route = row'[a].route
                             /\ liveMount'[row'[a].route] = [app |-> b, rev |-> row'[b].current]
      BY <1>12, <3>1
    <3>3. a = b
      BY <1>12, <3>1, <3>2
    <3> QED BY <3>2, <3>3
  <2> QED BY <2>2 DEF Served, Serves
<1> QED BY <1>7, <1>8, <1>9, <1>10, <1>11, <1>13, <1>14 DEF Turn

-----------------------------------------------------------------------------
(* The induction, and what follows from it *)

LEMMA InitTurn ==
    ASSUME Init, NEW t \in Threads
    PROVE  Turn(t)
<1>1. Seeded \subseteq Apps /\ 1 \in Revs
  BY ConstantsAssumption DEF Revs
<1>2. ASSUME NEW a \in Seeded
      PROVE  /\ desired[a] = [rev |-> 1, route |-> ManifestRoute[a], enabled |-> TRUE, policy |-> DefaultPolicy]
             /\ releases[a] = {1} /\ revState[a][1] = "live" /\ desiredPreview[a] = 0
             /\ row[a] = [status |-> "running", route |-> ManifestRoute[a], enabled |-> TRUE,
                          policy |-> DefaultPolicy, current |-> 1, preview |-> 0, rollback |-> 0]
             /\ desired[a].rev = 1 /\ desired[a].route = ManifestRoute[a]
             /\ row[a].status = "running" /\ row[a].route = ManifestRoute[a] /\ row[a].enabled = TRUE
             /\ row[a].policy = DefaultPolicy /\ row[a].current = 1 /\ row[a].preview = 0 /\ row[a].rollback = 0
  <2>1. [rev |-> 1, route |-> ManifestRoute[a], enabled |-> TRUE, policy |-> DefaultPolicy] = desired[a]
    BY <1>1 DEF Init, NoSpec
  <2>2. revState[a] = [r \in Revs |-> IF a \in Seeded /\ r = 1 THEN "live" ELSE "absent"]
    BY <1>1 DEF Init
  <2>3. revState[a][1] = "live"
    BY <1>1, <2>2
  <2>4. row[a] = [status |-> "running", route |-> ManifestRoute[a], enabled |-> TRUE,
                  policy |-> DefaultPolicy, current |-> 1, preview |-> 0, rollback |-> 0]
    BY <1>1 DEF Init, NoRow
  <2>5. releases[a] = {1} /\ desiredPreview[a] = 0
    BY <1>1 DEF Init
  <2>6. desired[a].rev = 1 /\ desired[a].route = ManifestRoute[a]
    BY <2>1
  <2>7. /\ row[a].status = "running" /\ row[a].route = ManifestRoute[a] /\ row[a].enabled = TRUE
        /\ row[a].policy = DefaultPolicy /\ row[a].current = 1 /\ row[a].preview = 0 /\ row[a].rollback = 0
    BY <2>4
  <2> QED BY <2>1, <2>3, <2>4, <2>5, <2>6, <2>7
<1>3. ASSUME NEW a \in Apps
      PROVE  /\ a \notin Seeded => desired[a].rev = 0 /\ releases[a] = {}
             /\ desiredPreview[a] = 0
  <2>1. /\ a \notin Seeded => desired[a] = NoSpec(a) /\ releases[a] = {}
        /\ desiredPreview[a] = 0
    BY DEF Init
  <2>2. NoSpec(a).rev = 0
    BY DEF NoSpec
  <2> QED BY <2>1, <2>2
<1>4. ASSUME NEW a \in Seeded
      PROVE  /\ row[a].status = "running" /\ row[a].route = ManifestRoute[a] /\ row[a].enabled = TRUE
             /\ row[a].policy = DefaultPolicy /\ row[a].current = 1 /\ row[a].preview = 0 /\ row[a].rollback = 0
  BY <1>2
<1>5. registered = Seeded /\ onMain = Seeded /\ failed = {} /\ phase = "up" /\ pc[t] = "idle"
  BY DEF Init
<1>6. Stored
  <2>2. \A a \in Seeded : 1 \in KnownRevs(a)
    BY <1>1, <1>2 DEF KnownRevs
  <2>3. ASSUME NEW a \in Apps PROVE AppStored(a)
    <3>1. CASE a \in Seeded
      <4>1. desired[a].rev = 1 /\ releases[a] = {1} /\ desiredPreview[a] = 0
        BY <1>2, <3>1
      <4>2. row[a].current = 1 /\ row[a].rollback = 0 /\ a \in registered /\ a \in onMain
        BY <1>4, <1>5, <3>1
      <4>3. 1 \in KnownRevs(a)
        BY <2>2, <3>1
      <4> QED BY <4>1, <4>2, <4>3 DEF AppStored
    <3>2. CASE a \notin Seeded
      BY <1>3, <1>5, <3>2 DEF AppStored
    <3> QED BY <3>1, <3>2
  <2> QED BY <2>3 DEF Stored
<1>7. RoutesApart
  <2>1. ASSUME NEW a \in Seeded, NEW b \in Seeded, a # b PROVE ManifestRoute[a] # ManifestRoute[b]
    BY <2>1, ConstantsAssumption
  <2>2. \A a \in Seeded : row[a].route = ManifestRoute[a] /\ desired[a].route = ManifestRoute[a]
    BY <1>2, <1>4
  <2> QED BY <1>5, <2>1, <2>2 DEF RoutesApart, Apart
<1>8. ASSUME NEW a \in Apps PROVE FollowsGit(a)
  <2>1. CASE a \in Seeded
    <3>1. RowMatchesGit(a)
      BY <1>2, <1>4, <2>1 DEF RowMatchesGit
    <3> QED BY <3>1 DEF FollowsGit
  <2>2. CASE a \notin Seeded
    BY <1>3, <2>2 DEF FollowsGit
  <2> QED BY <2>1, <2>2
<1>9. \A a \in registered : ShowsPreview(a)
  BY <1>3, <1>4, <1>5, ConstantsAssumption DEF ShowsPreview
<1>10. ASSUME NEW a \in Seeded, NEW p \in Routes, p = ManifestRoute[a]
       PROVE  liveMount[p] = [app |-> a, rev |-> 1] /\ liveMount[p].app = a
  <2>1. (CHOOSE b \in Seeded : ManifestRoute[b] = p) = a
    BY <1>10, ConstantsAssumption
  <2>2. liveMount[p] = [app |-> a, rev |-> 1]
    BY <1>10, <2>1 DEF Init
  <2> QED BY <2>2
<1>11. ASSUME NEW p \in Routes, liveMount[p].app # Nobody PROVE \E a \in Seeded : ManifestRoute[a] = p
  BY <1>11 DEF Init, Unmounted
<1>12. \A a \in registered : Serves(a)
  <2>1. SUFFICES ASSUME NEW a \in Seeded
                 PROVE  liveMount[row[a].route] = [app |-> a, rev |-> row[a].current]
    BY <1>5 DEF Serves
  <2>2. ManifestRoute[a] \in Routes
    BY ConstantsAssumption
  <2>3. liveMount[ManifestRoute[a]] = [app |-> a, rev |-> 1]
    BY <1>10, <2>2
  <2>4. row[a].route = ManifestRoute[a] /\ row[a].current = 1
    BY <1>4
  <2> QED BY <2>3, <2>4
<1>13. \A p \in Routes : Rightly(p)
  <2>1. SUFFICES ASSUME NEW p \in Routes, liveMount[p].app # Nobody
                 PROVE  LET a == liveMount[p].app IN a \in registered /\ Runs(a) /\ p = row[a].route
    BY DEF Rightly
  <2>2. PICK a \in Seeded : ManifestRoute[a] = p
    BY <1>11, <2>1
  <2>3. liveMount[p].app = a
    BY <1>10, <2>2
  <2> QED BY <1>4, <1>5, <2>2, <2>3 DEF Runs
<1>14. Course(t) /\ InHand(t) /\ Routed(t) /\ Planned(t) /\ Kept(t)
  BY <1>5 DEF Course, InHand, Routed, Planned, Kept, Creating, Applying
<1>15. Followed(t) /\ Previewed(t) /\ Mounted(t) /\ Served(t)
  BY <1>5, <1>8, <1>9, <1>12, <1>13 DEF Followed, Previewed, Mounted, MountedBy, Served, Rightly, Remounting
<1> QED BY <1>6, <1>7, <1>14, <1>15 DEF Turn

LEMMA StutterTurn ==
    ASSUME NEW t, Turn(t), UNCHANGED vars
    PROVE  Turn(t)'
<1>1. /\ UNCHANGED <<desired, desiredPreview, releases, onMain, registered, row, revState, liveMount>>
      /\ UNCHANGED <<phase, pc, req, failed>>
  BY DEF vars
<1>2. Stored' /\ RoutesApart'
  BY <1>1 DEF Turn, Stored, AppStored, KnownRevs, RoutesApart, Apart
<1>3. Course(t)' /\ InHand(t)'
  BY <1>1 DEF Turn, Course, InHand, KnownRevs, App
<1>4. Routed(t)' /\ Kept(t)'
  BY <1>1 DEF Turn, Routed, Apart, Kept, App
<1>5. Followed(t)' /\ Previewed(t)'
  BY <1>1 DEF Turn, Followed, Rewriting, FollowsGit, RowMatchesGit, Previewed, Previewing, ShowsPreview, App
<1>6. Mounted(t)' /\ Served(t)' /\ Planned(t)'
  BY <1>1 DEF Turn, Mounted, MountedBy, Remounting, Served, Unserved, Serves, Runs, Planned, App
<1> QED BY <1>2, <1>3, <1>4, <1>5, <1>6 DEF Turn

\* The invariant of a single request thread.
LEMMA StepTurn ==
    ASSUME NEW t, Threads = {t}, TypeOK, Turn(t), [Next]_vars
    PROVE  Turn(t)'
<1>1. t \in Threads /\ \A u \in Threads : u = t
  OBVIOUS
<1>2. CASE UNCHANGED vars
  BY <1>2, StutterTurn
<1>3. CASE Crash
  BY <1>1, <1>3, CrashTurn
<1>4. ASSUME NEW a \in Apps, LockedRequest(t, a) PROVE Turn(t)'
  BY <1>1, <1>4, BeginLockedTurn
<1>5. ASSUME NEW a \in Apps, UnlockedRequest(t, a) PROVE Turn(t)'
  BY <1>1, <1>5, BeginCreateTurn, BeginDeleteTurn, BeginExposureTurn, BeginStartTurn, BeginStopTurn, BeginRestartTurn
     DEF UnlockedRequest
<1>6. CASE BeginReconcile(t)
  BY <1>1, <1>6, BeginReconcileTurn
<1>7. CASE Startup(t)
  BY <1>1, <1>7, StartupTurn
<1>8. CASE Step(t)
  <2>1. CASE BuildInsert(t) \/ BuildRelease(t) \/ CreateRevisionRow(t) \/ CreateAppRow(t) \/ CreatePreflight(t)
    BY <1>1, <2>1, BuildInsertTurn, BuildReleaseTurn, CreateRevisionTurn, CreateRowTurn, CreatePreflightTurn
  <2>2. CASE Publish(t) \/ Desire(t) \/ ReadDesired(t)
    BY <1>1, <2>2, PublishTurn, DesireTurn, ReadDesiredTurn
  <2>3. CASE ApplyRow(t) \/ ApplyMount(t) \/ ApplyPreview(t)
    BY <1>1, <2>3, ApplyRowTurn, ApplyMountTurn, ApplyPreviewTurn
  <2>4. CASE SetRunning(t) \/ FinishMountLive(t) \/ FinishUnmount(t)
    BY <1>1, <2>4, SetRunningTurn, FinishMountTurn, FinishUnmountTurn
  <2>5. CASE DeleteGit(t) \/ DeleteRow(t)
    BY <1>1, <2>5, DeleteGitTurn, DeleteRowTurn
  <2>6. CASE NextApp(t) \/ FleetDone(t)
    BY <1>1, <2>6, NextAppTurn, FleetDoneTurn
  <2> QED BY <1>8, <2>1, <2>2, <2>3, <2>4, <2>5, <2>6 DEF Step
<1> QED BY <1>1, <1>2, <1>3, <1>4, <1>5, <1>6, <1>7, <1>8 DEF Next

LEMMA QuietOf ==
    ASSUME NEW t \in Threads, NEW a, Quiet(a)
    PROVE  phase = "up" /\ (pc[t] = "idle" \/ (req[t].op \notin FleetOps /\ App(t) # a))
  BY DEF Quiet, App

\* One app is served where, when and at the revision its row says.
LEMMA TurnServes ==
    ASSUME TypeOK, NEW t \in Threads, Turn(t), NEW a \in Apps, Quiet(a), a \notin failed
    PROVE  ServesRow(a)
<1>1. phase = "up" /\ (pc[t] = "idle" \/ App(t) # a) /\ a # Nobody
  BY QuietOf, ConstantsAssumption
<1>2. ~Unserved(t, a) \/ a \notin registered
  BY <1>1 DEF Unserved
<1>3. pc[t] = "idle" => ~Remounting(t, a)
  BY DEF Remounting
<1>4. ~Remounting(t, a)
  BY <1>1, <1>3 DEF Remounting
<1>5. a \in registered => Serves(a)
  BY <1>1, <1>2 DEF Turn, Served, Unserved
<1>6. ASSUME NEW p \in Routes, liveMount[p].app = a
      PROVE  a \in registered /\ Runs(a) /\ p = row[a].route
  BY <1>1, <1>4, <1>6 DEF Turn, Mounted, MountedBy
<1>7. ASSUME NEW p \in Routes, a \in registered, Runs(a), p = row[a].route
      PROVE  liveMount[p].app = a /\ liveMount[p].rev = row[a].current
  BY <1>5, <1>7 DEF Serves
<1> QED BY <1>6, <1>7 DEF ServesRow, Runs

LEMMA TurnFollows ==
    ASSUME TypeOK, NEW t \in Threads, Turn(t)
    PROVE  RowFollowsGit
<1>1. SUFFICES ASSUME NEW a \in registered, Quiet(a)
               PROVE  /\ desired[a].rev # 0 => RowMatchesGit(a)
                      /\ a \notin failed => row[a].preview = desiredPreview[a]
  BY DEF RowFollowsGit
<1>2. phase = "up" /\ (pc[t] = "idle" \/ (req[t].op \notin FleetOps /\ App(t) # a)) /\ a \in Apps
  BY <1>1, QuietOf DEF TypeOK
<1>3. FollowsGit(a)
  BY <1>2 DEF Turn, Followed, Rewriting
<1>4. a \notin failed => ShowsPreview(a)
  BY <1>2 DEF Turn, Previewed, Previewing
<1> QED BY <1>3, <1>4 DEF FollowsGit, ShowsPreview

LEMMA TurnRoutes ==
    ASSUME NEW t, Turn(t)
    PROVE  RoutesAreDistinct
  BY DEF Turn, RoutesApart, Apart, RoutesAreDistinct

\* With one request at a time, no two registered apps ever hold one route, neither in
\* their rows nor in what Git wants of them: RouteAvailable refuses the second.
THEOREM RoutesDistinct == ASSUME NEW t, Threads = {t} PROVE Spec => []RoutesAreDistinct
<1>1. Init => TypeOK /\ RevisionsAreNamed /\ Turn(t)
  BY InitType, InitNamed, InitTurn
<1>2. TypeOK /\ RevisionsAreNamed /\ Turn(t) /\ [Next]_vars => TypeOK' /\ RevisionsAreNamed' /\ Turn(t)'
  BY StepType, StepNamed, StepTurn
<1>3. Turn(t) => RoutesAreDistinct
  BY TurnRoutes
<1> QED BY <1>1, <1>2, <1>3, PTL DEF Spec

\* With one request at a time, once it is done the row of an app says what Git says,
\* after every failure, crash and startup on the way.
THEOREM RowsFollowGit == ASSUME NEW t, Threads = {t} PROVE Spec => []RowFollowsGit
<1>1. Init => TypeOK /\ RevisionsAreNamed /\ Turn(t)
  BY InitType, InitNamed, InitTurn
<1>2. TypeOK /\ RevisionsAreNamed /\ Turn(t) /\ [Next]_vars => TypeOK' /\ RevisionsAreNamed' /\ Turn(t)'
  BY StepType, StepNamed, StepTurn
<1>3. TypeOK /\ Turn(t) => RowFollowsGit
  BY TurnFollows
<1> QED BY <1>1, <1>2, <1>3, PTL DEF Spec

\* With one request at a time, once it is done the dispatcher serves every app that
\* loaded at the route and the revision of its row, and no app anywhere else.
THEOREM DispatcherFollows == ASSUME NEW t, Threads = {t} PROVE Spec => []DispatcherFollowsRow
<1>1. Init => TypeOK /\ RevisionsAreNamed /\ Turn(t)
  BY InitType, InitNamed, InitTurn
<1>2. TypeOK /\ RevisionsAreNamed /\ Turn(t) /\ [Next]_vars => TypeOK' /\ RevisionsAreNamed' /\ Turn(t)'
  BY StepType, StepNamed, StepTurn
<1>3. TypeOK /\ Turn(t) => DispatcherFollowsRow
  BY TurnServes DEF DispatcherFollowsRow
<1> QED BY <1>1, <1>2, <1>3, PTL DEF Spec

-----------------------------------------------------------------------------
(* The action properties *)

\* Of the steps of a locked operation only ApplyMount touches the live routes.
LEMMA LockedSteps ==
    ASSUME NEW t, Turn(t), req[t].op \in LockedOps, Step(t), ~ApplyMount(t)
    PROVE  UNCHANGED liveMount
<1>1. ~FinishMountLive(t) /\ ~FinishUnmount(t)
  BY DEF FinishMountLive, FinishUnmount, At, Turn, Course, LockedOps
<1>2. CASE BuildInsert(t) \/ BuildRelease(t) \/ CreateRevisionRow(t) \/ CreateAppRow(t) \/ CreatePreflight(t)
  BY <1>2 DEF BuildInsert, BuildRelease, CreateRevisionRow, CreateAppRow, CreatePreflight, Raise, mountVars
<1>3. CASE Publish(t) \/ Desire(t) \/ ReadDesired(t)
  BY <1>3 DEF Publish, Desire, ReadDesired, Raise, mountVars
<1>4. CASE ApplyRow(t) \/ ApplyPreview(t)
  BY <1>4 DEF ApplyRow, ApplyPreview, mountVars
<1>5. CASE SetRunning(t) \/ DeleteGit(t) \/ DeleteRow(t) \/ NextApp(t) \/ FleetDone(t)
  BY <1>5 DEF SetRunning, DeleteGit, DeleteRow, NextApp, FleetDone, mountVars
<1> QED BY <1>1, <1>2, <1>3, <1>4, <1>5 DEF Step

\* A locked operation mounts its app where it is mounted already.
LEMMA LockedMount ==
    ASSUME TypeOK, NEW t \in Threads, Turn(t), req[t].op \in LockedOps, ApplyMount(t),
           NEW p \in Routes, liveMount[p].app # Nobody
    PROVE  liveMount'[p].app = liveMount[p].app
<1>1. PICK x \in Apps : x = App(t)
  BY TurnTypes
<1>2. /\ pc[t] = "applyMount" /\ phase # "down" /\ x \in registered /\ req[t].live = desired
      /\ desired[x].rev # 0 /\ (req[t].running <=> Runs(x))
      /\ \A b \in registered \ {x} : req[t].route # row[b].route
  BY <1>1 DEF ApplyMount, At, Turn, Course, InHand, Planned, Routed, Creating, Applying
<1>3. row[x].route = desired[x].route
  <2>1. RowMatchesGit(x)
    BY <1>2 DEF Turn, Followed, Rewriting, FollowsGit
  <2> QED BY <1>1, <2>1, TurnTypes DEF RowMatchesGit
<1>4. req[t].op \notin ExposureOps
  BY DEF LockedOps, ExposureOps
<1>5. req[t].route = row[x].route /\ (liveMount[row[x].route].app = x => req[t].running)
  BY <1>1, <1>2, <1>4 DEF Turn, Kept
<1>6. WithoutOldRoute(t) = liveMount
  BY <1>1, <1>2, <1>3, <1>5 DEF WithoutOldRoute
<1>7. p = row[x].route => liveMount[p].app = x /\ Runs(x)
  <2>1. ASSUME p = row[x].route, liveMount[p].app # x PROVE FALSE
    <3>1. liveMount[p].app \in registered /\ row[liveMount[p].app].route = p
      BY <1>1, <2>1 DEF Turn, Mounted, MountedBy, Remounting
    <3> QED BY <1>2, <2>1, <3>1 DEF Turn, RoutesApart, Apart
  <2> QED BY <1>2, <1>5, <2>1
<1>8. CASE req[t].running /\ MountLive(x, liveMount, TRUE)
  <2>1. liveMount' = [liveMount EXCEPT ![row[x].route] = [app |-> x, rev |-> row[x].current]]
    BY <1>2, <1>8 DEF MountLive, Runs
  <2> QED BY <1>7, <2>1 DEF TypeOK
<1>9. CASE req[t].running /\ MountLive(x, liveMount, FALSE)
  BY <1>9 DEF MountLive
<1>10. CASE ~req[t].running /\ liveMount' = [liveMount EXCEPT ![desired[x].route] = Unmounted]
  BY <1>2, <1>3, <1>7, <1>10 DEF TypeOK
<1> QED BY <1>1, <1>2, <1>6, <1>8, <1>9, <1>10 DEF ApplyMount

\* Accepting a locked request, or any request that is done at once, mounts nothing.
LEMMA AcceptedMounts ==
    ASSUME TypeOK, NEW t \in Threads, NEW a \in Apps, LockedRequest(t, a) \/ UnlockedRequest(t, a),
           pc'[t] = "idle" \/ req'[t].op \in LockedOps
    PROVE  UNCHANGED liveMount
<1>1. CASE LockedRequest(t, a)
  BY <1>1 DEF LockedRequest, BeginBuild, BeginPreview, BeginPromote, BeginRollback, mountVars
<1>2. CASE UnlockedRequest(t, a)
  <2>1. pc'[t] = "idle"
    BY <1>2, UnlockedRequestEffect
  <2>2. ~BeginRestart(t, a) /\ ~BeginDelete(t, a)
    BY <2>1, BeginEffect DEF BeginRestart, BeginDelete
  <2> QED BY <1>2, <2>2 DEF UnlockedRequest, BeginCreate, BeginRoute, BeginEnable, BeginPolicy, BeginStart, BeginStop, mountVars
<1> QED BY <1>1, <1>2

LEMMA StepHasNoGap ==
    ASSUME NEW t, Threads = {t}, TypeOK, Turn(t), [Next]_vars,
           NEW p \in Routes, liveMount[p].app # Nobody, phase' = "up",
           pc[t] = "idle" \/ req[t].op \in LockedOps, pc'[t] = "idle" \/ req'[t].op \in LockedOps
    PROVE  liveMount'[p].app = liveMount[p].app
<1>1. t \in Threads /\ \A u \in Threads : u = t
  OBVIOUS
<1>2. CASE UNCHANGED vars
  BY <1>2 DEF vars
<1>3. ~Crash /\ ~Startup(t)
  BY DEF Crash, Startup
<1>4. ASSUME NEW a \in Apps, LockedRequest(t, a) \/ UnlockedRequest(t, a) PROVE UNCHANGED liveMount
  BY <1>1, <1>4, AcceptedMounts
<1>5. CASE BeginReconcile(t)
  BY <1>5 DEF BeginReconcile, mountVars
<1>6. CASE Step(t)
  <2>1. req[t].op \in LockedOps
    BY <1>1, <1>6, StepEffect
  <2> QED BY <1>1, <1>6, <2>1, LockedSteps, LockedMount
<1> QED BY <1>1, <1>2, <1>3, <1>4, <1>5, <1>6 DEF Next

\* With one request at a time, build, preview, promote and rollback never take a
\* served route down, not even for the moment between two of their steps.
THEOREM PromotionsHaveNoGap == ASSUME NEW u, Threads = {u} PROVE Spec => PromotionHasNoGap
<1>1. Init => TypeOK /\ RevisionsAreNamed /\ Turn(u)
  BY InitType, InitNamed, InitTurn
<1>2. TypeOK /\ RevisionsAreNamed /\ Turn(u) /\ [Next]_vars => TypeOK' /\ RevisionsAreNamed' /\ Turn(u)'
  BY StepType, StepNamed, StepTurn
<1>3. TypeOK /\ Turn(u) /\ [Next]_vars
        => [\A p \in Routes :
                (/\ liveMount[p].app # Nobody /\ phase' = "up"
                 /\ \A t \in Threads : pc[t] = "idle" \/ req[t].op \in LockedOps
                 /\ \A t \in Threads : pc'[t] = "idle" \/ req'[t].op \in LockedOps)
                => liveMount'[p].app = liveMount[p].app]_vars
  BY StepHasNoGap
<1> QED BY <1>1, <1>2, <1>3, PTL DEF Spec, PromotionHasNoGap

-----------------------------------------------------------------------------
(* Startup, whatever any number of requests did before the crash *)

\* An app that Git publishes has its source tree on main.
RootedOnMain ==
    /\ \A a \in Apps : desired[a].rev # 0 => a \in onMain
    /\ \A t \in Threads : pc[t] = "desire" => App(t) \in onMain

Restored(a) == desired[a].rev # 0 => RowMatchesGit(a) /\ ShowsPreview(a) /\ desired[a].rev \in KnownRevs(a)
Reached(a) == desired[a].rev # 0 => Serves(a)

\* Thread t makes the pass over the fleet that ends startup: it finds the rows as Git
\* wants them, so its steps change none of an app that Git publishes.
Restoring(t) ==
    /\ pc[t] \in Applying \cup {"nextApp"} /\ req[t].op = "startup"
    /\ req[t].live = desired /\ req[t].preview = desiredPreview
    /\ pc[t] \in Applying => App(t) \in registered
    /\ \A a \in registered : Restored(a)
    /\ \A a \in registered \ failed : Reached(a)
    /\ pc[t] = "applyMount" =>
          /\ desired[App(t)].rev # 0 /\ ~RouteClash(desired, App(t))
          /\ req[t].route = row[App(t)].route /\ (req[t].running <=> Runs(App(t)))
    /\ pc[t] = "applyPreview" => Reached(App(t))

OthersRest(t) == \A u \in Threads \ {t} : pc[u] = "idle"
StartupInv ==
    /\ phase = "down" => \A t \in Threads : pc[t] = "idle"
    /\ phase = "starting" => \E t \in Threads : Restoring(t) /\ OthersRest(t)

LEMMA MainGrows ==
    ASSUME PublishedFirst, [Next]_vars
    PROVE  onMain \subseteq onMain'
<1>1. CASE UNCHANGED vars
  BY <1>1 DEF vars
<1>2. CASE Crash
  BY <1>2 DEF Crash, gitVars
<1>3. ASSUME NEW t \in Threads, NEW a \in Apps, LockedRequest(t, a) \/ UnlockedRequest(t, a) PROVE UNCHANGED onMain
  BY <1>3 DEF LockedRequest, UnlockedRequest, BeginBuild, BeginPreview, BeginPromote, BeginRollback,
              BeginCreate, BeginDelete, BeginRoute, BeginEnable, BeginPolicy, BeginStart, BeginStop,
              BeginRestart, gitVars
<1>4. ASSUME NEW t \in Threads, BeginReconcile(t) \/ Startup(t) PROVE UNCHANGED onMain
  BY <1>4 DEF BeginReconcile, Startup, gitVars
<1>5. ASSUME NEW t \in Threads, Step(t) PROVE onMain \subseteq onMain'
  <2>1. CASE BuildRelease(t) \/ Publish(t) \/ Desire(t)
    BY <2>1 DEF BuildRelease, Publish, Desire, Raise, gitVars
  <2>2. ~DeleteGit(t)
    BY DEF DeleteGit, At, PublishedFirst
  <2>3. CASE \/ BuildInsert(t) \/ CreateRevisionRow(t) \/ CreateAppRow(t) \/ CreatePreflight(t)
             \/ ReadDesired(t) \/ ApplyRow(t) \/ ApplyMount(t) \/ ApplyPreview(t)
             \/ SetRunning(t) \/ FinishMountLive(t) \/ FinishUnmount(t) \/ DeleteRow(t)
             \/ NextApp(t) \/ FleetDone(t)
    BY <2>3 DEF BuildInsert, CreateRevisionRow, CreateAppRow, CreatePreflight, ReadDesired, ApplyRow,
                ApplyMount, ApplyPreview, SetRunning, FinishMountLive, FinishUnmount, DeleteRow,
                NextApp, FleetDone, Raise, gitVars
  <2> QED BY <1>5, <2>1, <2>2, <2>3 DEF Step
<1> QED BY <1>1, <1>2, <1>3, <1>4, <1>5 DEF Next

LEMMA StepRooted ==
    ASSUME TypeOK, PublishedFirst, RootedOnMain, [Next]_vars
    PROVE  RootedOnMain'
<1>1. onMain \subseteq onMain' /\ \A t \in Threads : req[t].app \in Apps
  BY MainGrows DEF TypeOK, Request
<1>2. \A a \in Apps : desired'[a].rev # 0 => a \in onMain'
  <2>1. CASE UNCHANGED desired
    BY <1>1, <2>1 DEF RootedOnMain
  <2>2. ASSUME NEW t \in Threads, Desire(t) PROVE \A a \in Apps : desired'[a].rev # 0 => a \in onMain'
    <3>1. App(t) \in onMain
      BY <2>2 DEF Desire, At, RootedOnMain
    <3>2. \A a \in Apps : a # App(t) => desired'[a] = desired[a]
      BY <2>2 DEF Desire, TypeOK
    <3> QED BY <1>1, <3>1, <3>2 DEF RootedOnMain
  <2> QED BY <2>1, <2>2, GitGrows
<1>3. ASSUME NEW t \in Threads, OnlyMoves(t), pc'[t] = "desire" => req'[t].app \in onMain'
      PROVE  \A u \in Threads : pc'[u] = "desire" => App(u)' \in onMain'
  BY <1>1, <1>3 DEF RootedOnMain, OnlyMoves, App
<1>4. \A u \in Threads : pc'[u] = "desire" => App(u)' \in onMain'
  <2>1. CASE UNCHANGED vars
    BY <2>1 DEF RootedOnMain, App, vars
  <2>2. CASE Crash
    BY <2>2 DEF Crash
  <2>3. ASSUME NEW t \in Threads, NEW a \in Apps, LockedRequest(t, a) \/ UnlockedRequest(t, a)
        PROVE  OnlyMoves(t) /\ pc'[t] # "desire"
    BY <2>3, LockedRequestEffect, UnlockedRequestEffect
  <2>4. ASSUME NEW t \in Threads, BeginReconcile(t) \/ Startup(t) PROVE OnlyMoves(t) /\ pc'[t] # "desire"
    BY <2>4, FleetEffect
  <2>5. ASSUME NEW t \in Threads, Step(t) PROVE OnlyMoves(t) /\ (pc'[t] = "desire" => req'[t].app \in onMain')
    <3>1. OnlyMoves(t)
      BY <2>5, StepEffect
    <3>2. ASSUME pc'[t] = "desire" PROVE req'[t].app \in onMain'
      <4>1. Publish(t) /\ ~Raise(t)
        BY <2>5, <3>2, StepTarget
      <4>2. onMain' = onMain \cup {App(t)} /\ pc[t] = "publish"
        BY <4>1 DEF Publish, At
      <4>3. req'[t].app = req[t].app
        BY <2>5, <3>2, <4>2, StepEffect
      <4> QED BY <4>2, <4>3 DEF App
    <3> QED BY <3>1, <3>2
  <2> QED BY <1>3, <2>1, <2>2, <2>3, <2>4, <2>5 DEF Next
<1> QED BY <1>2, <1>4 DEF RootedOnMain

\* What rebuilding makes of an app that Git publishes.
LEMMA StartupRestores ==
    ASSUME TypeOK, NEW t \in Threads, Startup(t), NEW a \in Apps, desired[a].rev # 0, a \in onMain,
           desired[a].rev \in releases[a], desiredPreview[a] # 0 => desiredPreview[a] \in releases[a]
    PROVE  Restored(a)'
<1>1. PICK rel : rel = BackfilledReleases[a]
  OBVIOUS
<1>2. releases[a] \subseteq rel /\ rel \subseteq Revs /\ rel # {} /\ 0 \notin rel
  BY <1>1 DEF BackfilledReleases, TypeOK, KnownRevs, Revs
<1>3. /\ UNCHANGED <<desired, desiredPreview>>
      /\ row'[a] = RebuiltRow(a, rel) /\ revState'[a] = RebuiltStates(a, rel)
  BY <1>1, <1>2 DEF Startup
<1>4. RebuiltCurrent(a, rel) = desired[a].rev /\ RebuiltPreview(a, rel) = desiredPreview[a]
  BY <1>2 DEF RebuiltCurrent, RebuiltPreview
<1>5. /\ row'[a].current = desired[a].rev /\ row'[a].preview = desiredPreview[a]
      /\ row'[a].route = desired[a].route /\ row'[a].enabled = desired[a].enabled
      /\ row'[a].policy = desired[a].policy
  BY <1>3, <1>4 DEF RebuiltRow
<1>6. desired[a].rev \in KnownRevs(a)'
  BY <1>2, <1>3, <1>4 DEF RebuiltStates, KnownRevs
<1>7. RowMatchesGit(a)'
  <2>1. desired[a] \in LiveSpec
    BY DEF TypeOK
  <2> QED BY <1>3, <1>5, <2>1 DEF RowMatchesGit, LiveSpec
<1> QED BY <1>3, <1>5, <1>6, <1>7 DEF Restored, ShowsPreview

LEMMA StartupRestoring ==
    ASSUME TypeOK, DesiredIsReleased, RootedOnMain, StartupInv, NEW t \in Threads, Startup(t)
    PROVE  Restoring(t)' /\ OthersRest(t)'
<1>1. PICK apps : registered' = apps /\ Begin(t, "nextApp", FleetRequest("startup", apps))
  BY DEF Startup
<1>2. pc'[t] = "nextApp" /\ req'[t] = FleetRequest("startup", apps) /\ OnlyMoves(t)
  BY <1>1, BeginEffect
<1>3. /\ req'[t].op = "startup" /\ req'[t].live = desired /\ req'[t].preview = desiredPreview
      /\ UNCHANGED <<desired, desiredPreview>>
  BY <1>2, FleetRequestFields DEF Startup
<1>4. OthersRest(t)'
  BY <1>2 DEF Startup, StartupInv, OthersRest, OnlyMoves
<1>5. registered' \subseteq Apps
  BY DEF Startup, TypeOK
<1>6. \A a \in registered' : Restored(a)'
  <2>1. ASSUME NEW a \in Apps, desired[a].rev = 0 PROVE Restored(a)'
    BY <1>3, <2>1 DEF Restored
  <2> QED BY <1>5, <2>1, StartupRestores DEF RootedOnMain, DesiredIsReleased
<1>7. PICK chosen \in SUBSET registered' :
              /\ \A a \in chosen : Runs(a)'
              /\ \A a, b \in chosen : row'[a].route = row'[b].route => a = b
              /\ \A a \in registered' \ failed' : Runs(a)' => a \in chosen
              /\ \A p \in Routes :
                    \/ \E a \in chosen : row'[a].route = p /\ liveMount'[p] = [app |-> a, rev |-> row'[a].current]
                    \/ liveMount'[p] = Unmounted /\ \A a \in chosen : row'[a].route # p
  BY StartupMounts
<1>8. ASSUME NEW a \in registered' \ failed', desired[a].rev # 0, Runs(a)'
      PROVE  liveMount'[row'[a].route] = [app |-> a, rev |-> row'[a].current]
  <2>1. desired[a] \in LiveSpec /\ Restored(a)'
    BY <1>5, <1>6, <1>8 DEF TypeOK
  <2>2. row'[a].route \in Routes
    BY <1>3, <1>8, <2>1 DEF Restored, RowMatchesGit, LiveSpec
  <2>3. PICK b \in chosen : /\ row'[b].route = row'[a].route
                           /\ liveMount'[row'[a].route] = [app |-> b, rev |-> row'[b].current]
    BY <1>7, <1>8, <2>2
  <2> QED BY <1>7, <1>8, <2>3
<1>9. \A a \in registered' \ failed' : Reached(a)'
  BY <1>3, <1>8 DEF Reached, Serves
<1> QED BY <1>2, <1>3, <1>4, <1>6, <1>9 DEF Restoring, Applying

-----------------------------------------------------------------------------
(* The pass over the fleet *)

\* The row of app a says the same, status included.
SameRow(a) ==
    /\ row'[a].status = row[a].status /\ row'[a].route = row[a].route /\ row'[a].enabled = row[a].enabled
    /\ row'[a].policy = row[a].policy /\ row'[a].current = row[a].current

LEMMA RestoredStays ==
    ASSUME NEW a, Restored(a), UNCHANGED <<desired, desiredPreview>>, SameRow(a),
           KnownRevs(a) \subseteq KnownRevs(a)',
           desired[a].rev # 0 => row'[a].preview \in {row[a].preview, desiredPreview[a]}
    PROVE  Restored(a)'
  BY DEF Restored, RowMatchesGit, ShowsPreview, SameRow

LEMMA ReachedStays ==
    ASSUME NEW a, Reached(a), UNCHANGED desired, SameRow(a),
           desired[a].rev # 0 => liveMount'[row[a].route] = liveMount[row[a].route]
    PROVE  Reached(a)'
  BY DEF Reached, Serves, Runs, SameRow

\* An app is done with: the pass goes on with the next.
LEMMA LeavesRestoring ==
    ASSUME TypeOK, NEW t \in Threads, Restoring(t), NEW ok \in BOOLEAN, LeaveReconcile(t, ok),
           UNCHANGED <<desired, desiredPreview, registered>>,
           \A a \in registered : Restored(a)', \A a \in registered \ failed' : Reached(a)'
    PROVE  Restoring(t)'
<1>1. Goto(t, "nextApp")
  <2>1. req[t].op \in FleetOps /\ req[t].op # "create"
    BY DEF Restoring, FleetOps
  <2> QED BY <2>1 DEF LeaveReconcile
<1>2. pc'[t] = "nextApp" /\ UNCHANGED req
  BY <1>1, GotoEffect
<1> QED BY <1>2 DEF Restoring, Applying

LEMMA RestoringNext ==
    ASSUME TypeOK, NEW t \in Threads, Restoring(t), NextApp(t)
    PROVE  Restoring(t)'
<1>1. PICK x \in req[t].todo :
         /\ req' = [req EXCEPT ![t].app = x, ![t].todo = @ \ {x}]
         /\ pc' = [pc EXCEPT ![t] = IF x \in registered THEN "applyRow" ELSE "nextApp"]
  BY DEF NextApp
<1>2. UNCHANGED <<desired, desiredPreview, registered, row, revState, liveMount, failed>>
  BY DEF NextApp, gitVars, dbVars, mountVars
<1>3. x \in Apps /\ req' = [req EXCEPT ![t] = [req[t] EXCEPT !.app = x, !.todo = req[t].todo \ {x}]]
  BY <1>1 DEF TypeOK, Request
<1>4. /\ App(t)' = x /\ req'[t].op = req[t].op
      /\ req'[t].live = req[t].live /\ req'[t].preview = req[t].preview
      /\ pc'[t] = IF x \in registered THEN "applyRow" ELSE "nextApp"
  BY <1>1, <1>2, <1>3 DEF TypeOK, Request, App
<1>5. \A a : SameRow(a) /\ KnownRevs(a) \subseteq KnownRevs(a)' /\ row'[a].preview = row[a].preview
  BY <1>2 DEF SameRow, KnownRevs
<1>6. \A a \in registered : Restored(a)'
  BY <1>2, <1>5, RestoredStays DEF Restoring
<1>7. \A a \in registered \ failed : Reached(a)'
  BY <1>2, <1>5, ReachedStays DEF Restoring
<1> QED BY <1>2, <1>4, <1>6, <1>7 DEF Restoring, Applying

LEMMA RestoringRow ==
    ASSUME TypeOK, NEW t \in Threads, Restoring(t), ApplyRow(t)
    PROVE  Restoring(t)'
<1>1. PICK x \in Apps : x = App(t)
  BY TurnTypes
<1>2. /\ pc[t] = "applyRow" /\ x \in registered /\ req[t].live = desired /\ req[t].preview = desiredPreview
      /\ Restored(x) /\ req[t].op = "startup"
  BY <1>1 DEF ApplyRow, At, Restoring, Applying
<1>3. UNCHANGED <<desired, desiredPreview, registered, liveMount>>
  BY DEF ApplyRow, gitVars, dbVars, mountVars
<1>4. ASSUME NEW a \in registered, SameRow(a), row'[a].preview = row[a].preview, UNCHANGED revState
      PROVE  Restored(a)' /\ (Reached(a) => Reached(a)')
  BY <1>3, <1>4, RestoredStays, ReachedStays DEF Restoring, KnownRevs
<1>5. PICK old : old = row[x] /\ old \in Row
  BY DEF TypeOK
<1>6. PICK exposed : exposed = [old EXCEPT !.route = desired[x].route, !.enabled = desired[x].enabled,
                                           !.policy = desired[x].policy]
  OBVIOUS
<1>7. PICK run : run = (exposed.enabled /\ exposed.status = "running")
  OBVIOUS
<1>8. \/ UNCHANGED <<row, revState>> /\ LeaveReconcile(t, FALSE)
      \/ UNCHANGED <<row, revState>> /\ desired[x].rev = 0 /\ Goto(t, "applyPreview") /\ UNCHANGED failed
      \/ /\ desired[x].rev # 0 /\ ~RouteClash(desired, x) /\ row' = [row EXCEPT ![x] = exposed]
         /\ req' = [req EXCEPT ![t].route = old.route, ![t].running = run]
         /\ pc' = [pc EXCEPT ![t] = "applyMount"] /\ UNCHANGED <<revState, failed>>
  <2>1. desired[x].rev # 0 => DesiredLive(t) = desired[x].rev /\ old.current = desired[x].rev
    BY <1>1, <1>2, <1>5 DEF DesiredLive, Restored, RowMatchesGit
  <2>2. CASE desired[x].rev = 0
    BY <1>1, <1>2, <2>2 DEF ApplyRow, dbVars
  <2>3. CASE desired[x].rev # 0
    <3>1. ~(DesiredLive(t) # 0 /\ DesiredLive(t) # old.current)
      BY <2>1, <2>3
    <3> QED BY <1>1, <1>2, <1>5, <1>6, <1>7, <2>3, <3>1 DEF ApplyRow, dbVars
  <2> QED BY <2>2, <2>3
<1>9. CASE UNCHANGED <<row, revState>> /\ LeaveReconcile(t, FALSE)
  <2>1. \A a : SameRow(a) /\ row'[a].preview = row[a].preview
    BY <1>9 DEF SameRow
  <2>2. failed \subseteq failed'
    BY <1>9 DEF LeaveReconcile
  <2> QED BY <1>3, <1>4, <1>9, <2>1, <2>2, LeavesRestoring DEF Restoring
<1>10. CASE UNCHANGED <<row, revState>> /\ desired[x].rev = 0 /\ Goto(t, "applyPreview") /\ UNCHANGED failed
  <2>1. \A a : SameRow(a) /\ row'[a].preview = row[a].preview
    BY <1>10 DEF SameRow
  <2>2. \A a \in registered : Restored(a)' /\ (Reached(a) => Reached(a)')
    BY <1>4, <1>10, <2>1
  <2>3. pc'[t] = "applyPreview" /\ UNCHANGED req /\ App(t)' = x
    BY <1>1, <1>10, GotoEffect DEF App
  <2>4. Reached(x)'
    BY <1>3, <1>10 DEF Reached
  <2>5. req'[t] = req[t] /\ App(t)' \in registered'
    BY <1>2, <1>3, <2>3
  <2> QED BY <1>1, <1>2, <1>3, <1>10, <2>2, <2>3, <2>4, <2>5 DEF Restoring, Applying
<1>11. CASE /\ desired[x].rev # 0 /\ ~RouteClash(desired, x) /\ row' = [row EXCEPT ![x] = exposed]
            /\ req' = [req EXCEPT ![t].route = old.route, ![t].running = run]
            /\ pc' = [pc EXCEPT ![t] = "applyMount"] /\ UNCHANGED <<revState, failed>>
  <2>1. RowMatchesGit(x)
    BY <1>2, <1>11 DEF Restored
  <2>2. old.route = desired[x].route /\ old.enabled = desired[x].enabled /\ old.policy = desired[x].policy
    BY <1>5, <2>1 DEF RowMatchesGit
  <2>3. /\ exposed.status = old.status /\ exposed.route = old.route /\ exposed.enabled = old.enabled
        /\ exposed.policy = old.policy /\ exposed.current = old.current /\ exposed.preview = old.preview
    BY <1>5, <1>6, <2>2 DEF Row
  <2>4. row'[x] = exposed /\ \A a \in Apps \ {x} : row'[a] = row[a]
    BY <1>11 DEF TypeOK
  <2>5. ASSUME NEW a \in registered PROVE SameRow(a) /\ row'[a].preview = row[a].preview
    <3>1. CASE a = x
      BY <1>5, <2>3, <2>4, <3>1 DEF SameRow
    <3>2. CASE a # x
      <4>1. row'[a] = row[a]
        BY <2>4, <2>5, <3>2 DEF TypeOK
      <4> QED BY <4>1 DEF SameRow
    <3> QED BY <3>1, <3>2
  <2>6. \A a \in registered : Restored(a)' /\ (Reached(a) => Reached(a)')
    BY <1>4, <1>11, <2>5
  <2>7. /\ pc'[t] = "applyMount" /\ App(t)' = x /\ req'[t].op = req[t].op
        /\ req'[t].live = req[t].live /\ req'[t].preview = req[t].preview /\ req'[t].route = old.route
        /\ req'[t].running = run
    <3>1. req' = [req EXCEPT ![t] = [req[t] EXCEPT !.route = old.route, !.running = run]]
      BY <1>11 DEF TypeOK
    <3>2. LET f == [req[t] EXCEPT !.route = old.route, !.running = run]
          IN  /\ f.app = req[t].app /\ f.op = req[t].op /\ f.live = req[t].live
              /\ f.preview = req[t].preview /\ f.route = old.route /\ f.running = run
      BY DEF TypeOK, Request
    <3>3. req'[t] = [req[t] EXCEPT !.route = old.route, !.running = run] /\ pc'[t] = "applyMount"
      BY <1>11, <3>1 DEF TypeOK
    <3> QED BY <1>1, <3>2, <3>3 DEF App
  <2>8. req'[t].running <=> Runs(x)'
    BY <1>7, <2>4, <2>7 DEF Runs
  <2>9. ~RouteClash(desired, x)'
    BY <1>3, <1>11 DEF RouteClash
  <2>10. row'[x].route = old.route
    BY <2>3, <2>4
  <2> QED BY <1>2, <1>3, <1>11, <2>6, <2>7, <2>8, <2>9, <2>10 DEF Restoring, Applying
<1> QED BY <1>8, <1>9, <1>10, <1>11

LEMMA RestoringMount ==
    ASSUME TypeOK, NEW t \in Threads, Restoring(t), ApplyMount(t)
    PROVE  Restoring(t)'
<1>1. PICK x \in Apps : x = App(t)
  BY TurnTypes
<1>2. /\ pc[t] = "applyMount" /\ x \in registered /\ req[t].live = desired /\ Restored(x)
      /\ desired[x].rev # 0 /\ ~RouteClash(desired, x)
      /\ req[t].route = row[x].route /\ (req[t].running <=> Runs(x))
  BY <1>1 DEF ApplyMount, At, Restoring, Applying
<1>3. UNCHANGED <<desired, desiredPreview, registered, row, revState>>
  BY DEF ApplyMount, gitVars, dbVars
<1>4. PICK route \in Routes : route = row[x].route
  BY DEF TypeOK, Row
<1>5. desired[x].route = route
  BY <1>2, <1>4 DEF Restored, RowMatchesGit
<1>6. WithoutOldRoute(t) = liveMount
  BY <1>1, <1>2, <1>4, <1>5 DEF WithoutOldRoute
<1>7. \A a : SameRow(a) /\ KnownRevs(a) \subseteq KnownRevs(a)' /\ row'[a].preview = row[a].preview
  BY <1>3 DEF SameRow, KnownRevs
<1>8. \A a \in registered : Restored(a)'
  BY <1>3, <1>7, RestoredStays DEF Restoring
<1>9. ASSUME NEW m, liveMount' = [liveMount EXCEPT ![route] = m], NEW a \in registered, a # x, Reached(a)
      PROVE  Reached(a)'
  <2>1. ASSUME desired[a].rev # 0 PROVE row[a].route # route
    <3>1. desired[a].route # route /\ a \in Apps
      BY <1>2, <1>5, <1>9, <2>1 DEF RouteClash, TypeOK
    <3>2. RowMatchesGit(a)
      BY <2>1, <1>9 DEF Restoring, Restored
    <3>3. row[a].route = desired[a].route
      BY <3>2 DEF RowMatchesGit
    <3> QED BY <3>1, <3>3
  <2>2. ASSUME desired[a].rev # 0 PROVE liveMount'[row[a].route] = liveMount[row[a].route]
    BY <1>9, <2>1, <2>2 DEF TypeOK, Row
  <2> QED BY <1>3, <1>7, <1>9, <2>2, ReachedStays
<1>10. CASE Runs(x) /\ MountLive(x, liveMount, FALSE) /\ LeaveReconcile(t, FALSE)
  <2>1. UNCHANGED liveMount /\ failed \subseteq failed'
    BY <1>10 DEF MountLive, LeaveReconcile
  <2>2. \A a \in registered \ failed' : Reached(a)'
    BY <1>3, <1>7, <2>1, ReachedStays DEF Restoring
  <2> QED BY <1>3, <1>8, <1>10, <2>2, LeavesRestoring
<1>11. ASSUME NEW m, liveMount' = [liveMount EXCEPT ![route] = m], Runs(x) => m = [app |-> x, rev |-> row[x].current],
              Goto(t, "applyPreview"), UNCHANGED failed
       PROVE  Restoring(t)'
  <2>1. pc'[t] = "applyPreview" /\ UNCHANGED req /\ App(t)' = x
    BY <1>1, <1>11, GotoEffect DEF App
  <2>3. Reached(x)'
    <3>1. liveMount'[route] = m
      BY <1>11 DEF TypeOK
    <3> QED BY <1>3, <1>4, <1>11, <3>1 DEF Reached, Serves, Runs
  <2>4. \A a \in registered \ failed : Reached(a)'
    BY <1>9, <1>11, <2>3 DEF Restoring
  <2>5. req'[t] = req[t] /\ App(t)' \in registered'
    BY <1>2, <1>3, <2>1
  <2> QED BY <1>1, <1>2, <1>3, <1>8, <1>11, <2>1, <2>3, <2>4, <2>5 DEF Restoring, Applying
<1>12. CASE Runs(x) /\ MountLive(x, liveMount, TRUE) /\ Goto(t, "applyPreview") /\ UNCHANGED failed
  <2>1. liveMount' = [liveMount EXCEPT ![route] = [app |-> x, rev |-> row[x].current]]
    BY <1>4, <1>12 DEF MountLive, Runs
  <2> QED BY <1>11, <1>12, <2>1
<1>13. CASE ~Runs(x) /\ liveMount' = [liveMount EXCEPT ![route] = Unmounted] /\ Goto(t, "applyPreview") /\ UNCHANGED failed
  BY <1>11, <1>13
<1> QED BY <1>1, <1>2, <1>5, <1>6, <1>10, <1>12, <1>13 DEF ApplyMount

LEMMA RestoringPreview ==
    ASSUME TypeOK, NEW t \in Threads, Restoring(t), ApplyPreview(t)
    PROVE  Restoring(t)'
<1>1. PICK x \in Apps : x = App(t)
  BY TurnTypes
<1>2. /\ pc[t] = "applyPreview" /\ x \in registered /\ req[t].live = desired /\ req[t].preview = desiredPreview
      /\ Restored(x) /\ Reached(x)
  BY <1>1 DEF ApplyPreview, At, Restoring, Applying
<1>3. PICK r, shown : r = desiredPreview[x] /\ shown = row[x].preview
  OBVIOUS
<1>4. shown # 0 => shown \in Revs
  BY <1>3, RevisionRange DEF TypeOK, Row
<1>5. UNCHANGED <<desired, desiredPreview, registered, liveMount>>
  BY DEF ApplyPreview, gitVars, dbVars
<1>6. PICK ok \in BOOLEAN, q \in {r, shown} :
         LeaveReconcile(t, ok) /\ (row' = row \/ row' = [row EXCEPT ![x].preview = q])
  <2>1. LeaveReconcile(t, FALSE) \/ LeaveReconcile(t, TRUE) \/ LeaveReconcile(t, x \in registered)
    BY <1>1 DEF ApplyPreview
  <2>2. \E ok \in BOOLEAN : LeaveReconcile(t, ok)
    <3>1. (x \in registered) \in BOOLEAN
      OBVIOUS
    <3> QED BY <2>1, <3>1
  <2>3. row' = row \/ row' = [row EXCEPT ![x].preview = r] \/ (r = 0 /\ row' = [row EXCEPT ![x].preview = 0])
    BY <1>1, <1>2, <1>3 DEF ApplyPreview, dbVars
  <2>4. \E q \in {r, shown} : row' = row \/ row' = [row EXCEPT ![x].preview = q]
    BY <2>3
  <2> QED BY <2>2, <2>4
<1>7. UNCHANGED revState \/ \E p \in Revs, s \in {"warming", "archived"} : revState' = [revState EXCEPT ![x][p] = s]
  BY <1>1, <1>2, <1>3, <1>4 DEF ApplyPreview, KnownRevs, dbVars
<1>8. \A a \in Apps : KnownRevs(a) \subseteq KnownRevs(a)'
  <2>1. CASE UNCHANGED revState
    BY <2>1 DEF KnownRevs
  <2>2. CASE ~UNCHANGED revState
    <3>1. PICK p \in Revs, s \in {"warming", "archived"} : revState' = [revState EXCEPT ![x][p] = s]
      BY <1>7, <2>2
    <3> QED BY <3>1, KnownUpdate
  <2> QED BY <2>1, <2>2
<1>9. ASSUME NEW a \in registered
      PROVE  /\ SameRow(a) /\ KnownRevs(a) \subseteq KnownRevs(a)'
             /\ row'[a].preview \in {row[a].preview, desiredPreview[a]}
  <2>1. a \in Apps /\ row[a] \in Row
    BY DEF TypeOK
  <2>2. row'[a] = row[a] \/ (a = x /\ row'[a] = [row[a] EXCEPT !.preview = q])
    BY <1>6, <2>1 DEF TypeOK
  <2>3. SameRow(a) /\ (row'[a].preview = row[a].preview \/ (a = x /\ row'[a].preview = q))
    <3>1. CASE row'[a] = row[a]
      BY <3>1 DEF SameRow
    <3>2. CASE a = x /\ row'[a] = [row[a] EXCEPT !.preview = q]
      BY <2>1, <3>2 DEF SameRow, Row
    <3> QED BY <2>2, <3>1, <3>2
  <2> QED BY <1>3, <1>6, <1>8, <2>1, <2>3
<1>10. \A a \in registered : Restored(a)' /\ (Reached(a) => Reached(a)')
  BY <1>5, <1>9, RestoredStays, ReachedStays DEF Restoring
<1>11. \A a \in failed \ failed' : a = x
  BY <1>1, <1>6 DEF LeaveReconcile, App
<1> QED BY <1>2, <1>5, <1>6, <1>10, <1>11, LeavesRestoring DEF Restoring

-----------------------------------------------------------------------------
LEMMA StutterRestoring ==
    ASSUME NEW t, Restoring(t), UNCHANGED vars
    PROVE  Restoring(t)'
<1>1. /\ UNCHANGED <<desired, desiredPreview, registered, row, revState, liveMount, pc, req, failed>>
  BY DEF vars
<1>2. \A a \in registered : Restored(a)'
  BY <1>1 DEF Restoring, Restored, RowMatchesGit, ShowsPreview, KnownRevs
<1>3. \A a : Reached(a) => Reached(a)'
  BY <1>1 DEF Reached, Serves, Runs
<1>4. pc[t] = "applyPreview" => Reached(App(t))'
  BY <1>1, <1>3 DEF Restoring, App
<1> QED BY <1>1, <1>2, <1>3, <1>4 DEF Restoring, App, Runs, RouteClash

\* The phase changes by a crash, by startup and by the end of its pass.
LEMMA PhaseStays ==
    ASSUME [Next]_vars, ~Crash, \A t \in Threads : ~Startup(t) /\ ~FleetDone(t)
    PROVE  UNCHANGED phase
<1>1. CASE UNCHANGED vars
  BY <1>1 DEF vars
<1>2. ASSUME NEW t \in Threads, NEW a \in Apps, LockedRequest(t, a) \/ UnlockedRequest(t, a) PROVE UNCHANGED phase
  BY <1>2 DEF LockedRequest, UnlockedRequest, BeginBuild, BeginPreview, BeginPromote, BeginRollback, BeginCreate,
         BeginDelete, BeginRoute, BeginEnable, BeginPolicy, BeginStart, BeginStop, BeginRestart
<1>3. ASSUME NEW t \in Threads, BeginReconcile(t) PROVE UNCHANGED phase
  BY <1>3 DEF BeginReconcile
<1>4. ASSUME NEW t \in Threads, Step(t) PROVE UNCHANGED phase
  <2>1. CASE BuildInsert(t) \/ BuildRelease(t) \/ CreateRevisionRow(t) \/ CreateAppRow(t) \/ CreatePreflight(t)
    BY <2>1 DEF BuildInsert, BuildRelease, CreateRevisionRow, CreateAppRow, CreatePreflight, Raise
  <2>2. CASE Publish(t) \/ Desire(t) \/ ReadDesired(t)
    BY <2>2 DEF Publish, Desire, ReadDesired, Raise
  <2>3. CASE ApplyRow(t) \/ ApplyMount(t) \/ ApplyPreview(t)
    BY <2>3 DEF ApplyRow, ApplyMount, ApplyPreview
  <2>4. CASE SetRunning(t) \/ FinishMountLive(t) \/ FinishUnmount(t) \/ DeleteGit(t) \/ DeleteRow(t) \/ NextApp(t)
    BY <2>4 DEF SetRunning, FinishMountLive, FinishUnmount, DeleteGit, DeleteRow, NextApp
  <2> QED BY <1>4, <2>1, <2>2, <2>3, <2>4 DEF Step
<1> QED BY <1>1, <1>2, <1>3, <1>4 DEF Next

\* While the process starts, nothing moves but the thread that starts it.
LEMMA OnlyStartup ==
    ASSUME TypeOK, StartupInv, [Next]_vars, phase # "up", ~UNCHANGED vars, ~Crash
    PROVE  \/ phase = "down" /\ \E t \in Threads : Startup(t)
           \/ phase = "starting" /\ \E t \in Threads : Restoring(t) /\ OthersRest(t) /\ Step(t)
<1>1. ASSUME NEW t \in Threads, NEW a \in Apps PROVE ~LockedRequest(t, a) /\ ~UnlockedRequest(t, a) /\ ~BeginReconcile(t)
  BY DEF LockedRequest, UnlockedRequest, BeginBuild, BeginPreview, BeginPromote, BeginRollback, BeginCreate,
         BeginDelete, BeginRoute, BeginEnable, BeginPolicy, BeginStart, BeginStop, BeginRestart, BeginReconcile,
         AcceptLocked, Accept
<1>2. Apps # {}
  BY ConstantsAssumption
<1>3. PICK t \in Threads : Step(t) \/ Startup(t)
  BY <1>1, <1>2 DEF Next
<1>4. CASE Startup(t)
  BY <1>4 DEF Startup
<1>5. CASE Step(t)
  <2>1. pc[t] # "idle"
    BY <1>5, StepEffect
  <2>2. phase = "starting"
    BY <2>1 DEF TypeOK, StartupInv
  <2> QED BY <1>5, <2>1, <2>2 DEF StartupInv, OthersRest
<1> QED BY <1>3, <1>4, <1>5

LEMMA StepStartup ==
    ASSUME TypeOK, DesiredIsReleased, RootedOnMain, StartupInv, [Next]_vars
    PROVE  StartupInv'
<1>1. CASE UNCHANGED vars
  <2>1. UNCHANGED <<phase, pc>>
    BY <1>1 DEF vars
  <2> QED BY <1>1, <2>1, StutterRestoring DEF StartupInv, OthersRest
<1>2. CASE Crash
  BY <1>2 DEF Crash, StartupInv
<1>3. CASE phase = "up" /\ ~Crash
  <2>1. \A t \in Threads : ~Startup(t)
    BY <1>3 DEF Startup
  <2>2. phase' = "up"
    <3>1. CASE \E t \in Threads : FleetDone(t)
      BY <1>3, <3>1 DEF FleetDone
    <3> QED BY <1>3, <2>1, <3>1, PhaseStays
  <2> QED BY <2>2 DEF StartupInv
<1>4. ASSUME NEW t \in Threads, Startup(t) PROVE StartupInv'
  <2>1. phase' = "starting"
    BY <1>4 DEF Startup
  <2> QED BY <1>4, <2>1, StartupRestoring DEF StartupInv
<1>5. ASSUME NEW t \in Threads, Restoring(t), OthersRest(t), Step(t), phase = "starting" PROVE StartupInv'
  <2>1. OthersRest(t)'
    BY <1>5, StepEffect DEF OthersRest, OnlyMoves
  <2>2. CASE FleetDone(t)
    BY <1>5, <2>2 DEF FleetDone, Restoring, StartupInv
  <2>3. CASE NextApp(t) \/ ApplyRow(t) \/ ApplyMount(t) \/ ApplyPreview(t)
    <3>1. Restoring(t)'
      BY <1>5, <2>3, RestoringNext, RestoringRow, RestoringMount, RestoringPreview
    <3>2. UNCHANGED phase
      BY <2>3 DEF NextApp, ApplyRow, ApplyMount, ApplyPreview
    <3> QED BY <1>5, <2>1, <3>1, <3>2 DEF StartupInv
  <2>4. FleetDone(t) \/ NextApp(t) \/ ApplyRow(t) \/ ApplyMount(t) \/ ApplyPreview(t)
    BY <1>5 DEF Restoring, Applying, Step, BuildInsert, BuildRelease, CreateRevisionRow, CreateAppRow, CreatePreflight,
       Publish, Desire, ReadDesired, SetRunning, FinishMountLive, FinishUnmount, DeleteGit, DeleteRow, At
  <2> QED BY <2>2, <2>3, <2>4
<1> QED BY <1>1, <1>2, <1>3, <1>4, <1>5, OnlyStartup

\* Only the end of startup's pass over the fleet lets requests in, and leaves all as it is.
LEMMA StartupEnds ==
    ASSUME TypeOK, StartupInv, [Next]_vars, phase = "starting", phase' = "up", NEW a \in registered \ failed,
           desired[a].rev # 0
    PROVE  /\ RowMatchesGit(a) /\ row[a].preview = desiredPreview[a]
           /\ row[a].status = "running" /\ row[a].enabled =>
                  liveMount[row[a].route] = [app |-> a, rev |-> row[a].current]
<1>1. PICK t \in Threads : Restoring(t)
  BY DEF StartupInv
<1> QED BY <1>1 DEF Restoring, Restored, ShowsPreview, Reached, Serves, Runs

LEMMA InitReleased == Init => DesiredIsReleased /\ PublishedFirst /\ RootedOnMain /\ StartupInv
<1>1. \A a \in Apps : NoSpec(a).rev = 0
  BY DEF NoSpec
<1>2. ASSUME Init, NEW a \in Apps
      PROVE  /\ a \notin Seeded => desired[a].rev = 0
             /\ a \in Seeded => desired[a].rev = 1 /\ releases[a] = {1} /\ a \in onMain
             /\ desiredPreview[a] = 0
  <2>1. a \in Seeded => desired[a].rev = 1
    BY <1>2 DEF Init, NoSpec
  <2> QED BY <1>1, <1>2, <2>1 DEF Init
<1> QED BY <1>2 DEF Init, DesiredIsReleased, PublishedFirst, RootedOnMain, StartupInv

\* Whatever any number of requests did before the crash, and whatever fails to load,
\* startup lets requests in with the rows of all apps that did load as Git wants them,
\* and with their routes serving them; as for DesiredReleased, delete is excepted.
THEOREM StartupRestoresAll == ASSUME "delete" \notin Ops PROVE Spec => StartupConverges
<1> DEFINE IInv == /\ TypeOK /\ RevisionsAreNamed /\ DesiredIsReleased /\ PublishedFirst
                   /\ RootedOnMain /\ StartupInv
<1>1. Init => IInv
  BY InitType, InitNamed, InitReleased
<1>2. IInv /\ [Next]_vars => IInv'
  BY StepType, StepNamed, StepReleased, StepRooted, StepStartup
<1>3. IInv /\ [Next]_vars =>
         [phase = "starting" /\ phase' = "up" =>
            \A a \in registered \ failed :
             desired[a].rev # 0 =>
                /\ RowMatchesGit(a) /\ row[a].preview = desiredPreview[a]
                /\ row[a].status = "running" /\ row[a].enabled =>
                       liveMount[row[a].route] = [app |-> a, rev |-> row[a].current]]_vars
  BY StartupEnds
<1> QED BY <1>1, <1>2, <1>3, PTL DEF Spec, StartupConverges

-----------------------------------------------------------------------------
(* The numbers of revisions: from the choice of a build's number to its INSERT, *)
(* no other thread gives the app a revision.                                    *)

\* An app that anything is known of has its first revision, and its row names known ones.
WellFounded(a) ==
    /\ a \in registered \cup onMain \/ releases[a] # {} => 1 \in KnownRevs(a)
    /\ a \in registered => row[a].current \in KnownRevs(a)
    /\ row[a].preview # 0 => row[a].preview \in KnownRevs(a)

\* So has the app that a request is about to publish or to number a revision of.
Founding == {"insert", "release", "createRow", "publish"}
Founded(t) ==
    /\ pc[t] \in Founding => 1 \in KnownRevs(App(t))
    /\ pc[t] = "insert" => req[t].op \in LockedOps
    /\ pc[t] # "deleteRow"

NumbersInv == (\A a \in Apps : WellFounded(a)) /\ (\A t \in Threads : Founded(t))

\* How a thread gets to the steps that Founded speaks of.
LEMMA StepArrives ==
    ASSUME TypeOK, NEW t \in Threads, Step(t)
    PROVE  /\ pc'[t] # "insert" /\ (pc'[t] = "deleteRow" => DeleteGit(t))
           /\ pc'[t] = "release" => BuildInsert(t)
           /\ pc'[t] = "createRow" => CreateRevisionRow(t) /\ revState[App(t)][1] = "absent"
           /\ pc'[t] = "publish" => CreateAppRow(t)
<1> DEFINE Arrives == pc'[t] \notin Founding \cup {"deleteRow"}
<1>1. pc \in [Threads -> Steps]
  BY DEF TypeOK
<1>2. ASSUME NEW step, pc' = [pc EXCEPT ![t] = step], step \notin Founding \cup {"deleteRow"} PROVE Arrives
  BY <1>1, <1>2
<1>3. ASSUME NEW step, Goto(t, step), step \notin Founding \cup {"deleteRow"} PROVE Arrives
  BY <1>2, <1>3 DEF Goto
<1>4. ASSUME Return(t) \/ Raise(t) PROVE Arrives
  BY <1>2, <1>4 DEF Return, Raise, Founding
<1>5. ASSUME NEW succeeded, LeaveReconcile(t, succeeded) PROVE Arrives
  BY <1>3, <1>4, <1>5, LeaveEffect DEF Founding
<1>6. Arrives => pc'[t] \notin {"insert", "deleteRow", "release", "createRow", "publish"}
  BY DEF Founding
<1>7. CASE BuildInsert(t)
  BY <1>1, <1>7 DEF BuildInsert
<1>8. CASE CreateRevisionRow(t)
  <2>1. CASE Raise(t)
    <3>1. Arrives
      BY <1>4, <2>1
    <3> QED BY <1>6, <3>1
  <2>2. CASE revState[App(t)][1] = "absent" /\ Goto(t, "createRow")
    BY <1>8, <2>2, GotoEffect
  <2> QED BY <1>8, <2>1, <2>2 DEF CreateRevisionRow
<1>9. CASE CreateAppRow(t)
  <2>1. CASE Raise(t)
    <3>1. Arrives
      BY <1>4, <2>1
    <3> QED BY <1>6, <3>1
  <2>2. CASE Goto(t, "publish")
    BY <1>9, <2>2, GotoEffect
  <2> QED BY <1>9, <2>1, <2>2 DEF CreateAppRow
<1>10. CASE DeleteGit(t)
  BY <1>10, GotoEffect DEF DeleteGit
<1>11. CASE BuildRelease(t) \/ FinishMountLive(t) \/ FinishUnmount(t) \/ DeleteRow(t) \/ FleetDone(t)
  <2>1. Arrives
    BY <1>4, <1>11 DEF BuildRelease, FinishMountLive, FinishUnmount, DeleteRow, FleetDone
  <2> QED BY <1>6, <2>1
<1>12. CASE CreatePreflight(t) \/ Publish(t) \/ ReadDesired(t) \/ NextApp(t)
  <2>1. Arrives
    BY <1>2, <1>4, <1>12 DEF CreatePreflight, Publish, ReadDesired, NextApp, Founding
  <2> QED BY <1>6, <2>1
<1>13. CASE Desire(t) \/ SetRunning(t)
  <2>1. Arrives
    BY <1>3, <1>4, <1>13 DEF Desire, SetRunning, Founding
  <2> QED BY <1>6, <2>1
<1>14. CASE ApplyRow(t) \/ ApplyMount(t) \/ ApplyPreview(t)
  <2>1. CASE \E succeeded : LeaveReconcile(t, succeeded)
    <3>1. Arrives
      BY <1>5, <2>1
    <3> QED BY <1>6, <3>1
  <2>2. CASE Goto(t, "applyPreview") \/ pc' = [pc EXCEPT ![t] = "applyMount"]
    <3>1. Arrives
      BY <1>2, <1>3, <2>2 DEF Founding
    <3> QED BY <1>6, <3>1
  <2>3. \/ \E succeeded : LeaveReconcile(t, succeeded)
        \/ Goto(t, "applyPreview") \/ pc' = [pc EXCEPT ![t] = "applyMount"]
    <3>1. CASE ApplyRow(t)
      BY <3>1 DEF ApplyRow
    <3>2. CASE ApplyMount(t)
      BY <3>2 DEF ApplyMount
    <3>3. CASE ApplyPreview(t)
      BY <3>3 DEF ApplyPreview
    <3> QED BY <1>14, <3>1, <3>2, <3>3
  <2> QED BY <2>1, <2>2, <2>3
<1> QED BY <1>7, <1>8, <1>9, <1>10, <1>11, <1>12, <1>13, <1>14 DEF Step

-----------------------------------------------------------------------------
(* What each step does to the known revisions *)

\* App a has what it needs, and no revision of it becomes known but by step grows.
Keeps(a, grows) ==
    /\ WellFounded(a)' /\ KnownRevs(a) \subseteq KnownRevs(a)'
    /\ 1 \in KnownRevs(a) /\ ~grows => KnownRevs(a)' = KnownRevs(a)

LEMMA KeepsUnchanged ==
    ASSUME NEW a, WellFounded(a), a \in registered' => a \in registered, a \in onMain' => a \in onMain,
           releases'[a] # {} => releases[a] # {}, revState'[a] = revState[a],
           row'[a].current = row[a].current, row'[a].preview = row[a].preview, NEW grows
    PROVE  Keeps(a, grows)
<1>1. KnownRevs(a)' = KnownRevs(a)
  BY DEF KnownRevs
<1> QED BY <1>1 DEF Keeps, WellFounded

LEMMA RequestKeeps ==
    ASSUME TypeOK, NumbersInv, NEW t \in Threads, NEW x \in Apps, LockedRequest(t, x) \/ UnlockedRequest(t, x),
           NEW a \in Apps
    PROVE  Keeps(a, FALSE)
<1>1. UNCHANGED <<registered, onMain, releases, revState>>
  BY DEF LockedRequest, UnlockedRequest, BeginBuild, BeginPreview, BeginPromote, BeginRollback,
         BeginCreate, BeginDelete, BeginRoute, BeginEnable, BeginPolicy, BeginStart, BeginStop, BeginRestart,
         gitVars, dbVars
<1>2. row' = row \/ \E s : row' = [row EXCEPT ![x].status = s]
  BY DEF LockedRequest, UnlockedRequest, BeginBuild, BeginPreview, BeginPromote, BeginRollback,
         BeginCreate, BeginDelete, BeginRoute, BeginEnable, BeginPolicy, BeginStart, BeginStop, BeginRestart,
         gitVars, dbVars
<1>3. row'[a].current = row[a].current /\ row'[a].preview = row[a].preview
  BY <1>2, StatusUpdate
<1> QED BY <1>1, <1>3, KeepsUnchanged DEF NumbersInv

LEMMA QuietStepKeeps ==
    ASSUME TypeOK, NumbersInv, NEW t \in Threads, NEW a \in Apps,
           \/ CreatePreflight(t) \/ Desire(t) \/ ReadDesired(t) \/ ApplyMount(t) \/ SetRunning(t)
           \/ FinishMountLive(t) \/ FinishUnmount(t) \/ NextApp(t) \/ FleetDone(t)
    PROVE  Keeps(a, FALSE)
<1>1. UNCHANGED <<registered, onMain, releases, revState>>
  BY DEF CreatePreflight, Desire, ReadDesired, ApplyMount, SetRunning, FinishMountLive, FinishUnmount, NextApp,
         FleetDone, Raise, gitVars, dbVars
<1>2. row' = row \/ \E s : row' = [row EXCEPT ![App(t)].status = s]
  BY DEF CreatePreflight, Desire, ReadDesired, ApplyMount, SetRunning, FinishMountLive, FinishUnmount, NextApp,
         FleetDone, Raise, gitVars, dbVars
<1>3. row'[a].current = row[a].current /\ row'[a].preview = row[a].preview
  BY <1>2, StatusUpdate, TurnTypes
<1> QED BY <1>1, <1>3, KeepsUnchanged DEF NumbersInv

LEMMA PublishKeeps ==
    ASSUME TypeOK, NumbersInv, NEW t \in Threads, BuildRelease(t) \/ Publish(t), NEW a \in Apps
    PROVE  Keeps(a, FALSE)
<1>1. PICK x \in Apps : x = App(t)
  BY TurnTypes
<1>2. 1 \in KnownRevs(x) /\ WellFounded(a)
  BY <1>1 DEF BuildRelease, Publish, At, NumbersInv, Founded, Founding
<1>3. UNCHANGED dbVars /\ onMain' \subseteq onMain \cup {x} /\ (a # x => releases'[a] = releases[a])
  BY <1>1 DEF BuildRelease, Publish, Raise, gitVars, TypeOK
<1>4. KnownRevs(a)' = KnownRevs(a)
  BY <1>3 DEF KnownRevs, dbVars
<1> QED BY <1>2, <1>3, <1>4 DEF Keeps, WellFounded, dbVars

LEMMA InsertKeeps ==
    ASSUME TypeOK, NumbersInv, NEW t \in Threads, BuildInsert(t), NEW a \in Apps
    PROVE  Keeps(a, a = App(t))
<1>1. PICK x \in Apps : x = App(t)
  BY TurnTypes
<1>2. UNCHANGED <<onMain, releases, registered, row>> /\ WellFounded(a)
  BY DEF BuildInsert, gitVars, NumbersInv
<1>3. PICK r \in Revs : revState' = [revState EXCEPT ![x][r] = "validated"]
  BY <1>1 DEF BuildInsert
<1>4. KnownRevs(a) \subseteq KnownRevs(a)'
  BY <1>3, KnownUpdate
<1>5. a # x => KnownRevs(a)' = KnownRevs(a)
  BY <1>3 DEF KnownRevs, TypeOK
<1> QED BY <1>1, <1>2, <1>4, <1>5 DEF Keeps, WellFounded

LEMMA CreateKeeps ==
    ASSUME TypeOK, NumbersInv, NEW t \in Threads, CreateRevisionRow(t) \/ CreateAppRow(t), NEW a \in Apps
    PROVE  Keeps(a, FALSE)
<1>1. PICK x \in Apps : x = App(t)
  BY TurnTypes
<1>2. WellFounded(a) /\ 1 \in Revs
  BY ConstantsAssumption DEF NumbersInv, Revs
<1>3. CASE Raise(t)
  BY <1>2, <1>3, KeepsUnchanged DEF Raise, gitVars, dbVars
<1>4. CASE revState[x][1] = "absent" /\ revState' = [revState EXCEPT ![x][1] = "live"]
           /\ UNCHANGED <<gitVars, registered, row>>
  <2>1. KnownRevs(a) \subseteq KnownRevs(a)'
    BY <1>2, <1>4, KnownUpdate
  <2>2. 1 \in KnownRevs(a) => a # x
    BY <1>4 DEF KnownRevs
  <2>3. a # x => KnownRevs(a)' = KnownRevs(a)
    BY <1>4 DEF KnownRevs, TypeOK
  <2> QED BY <1>2, <1>4, <2>1, <2>2, <2>3 DEF Keeps, WellFounded, gitVars
<1>5. CASE CreateAppRow(t) /\ ~Raise(t)
  <2>1. PICK s : /\ registered' = registered \cup {x} /\ row' = [row EXCEPT ![x] = [NoRow(x) EXCEPT !.status = s, !.current = 1]]
                 /\ UNCHANGED <<gitVars, revState>>
    BY <1>1, <1>5 DEF CreateAppRow
  <2>2. 1 \in KnownRevs(x)
    BY <1>1, <1>5 DEF CreateAppRow, At, NumbersInv, Founded, Founding
  <2>3. KnownRevs(a)' = KnownRevs(a)
    BY <2>1 DEF KnownRevs
  <2>4. LET w == [NoRow(x) EXCEPT !.status = s, !.current = 1] IN w.current = 1 /\ w.preview = 0
    BY DEF NoRow
  <2>5. a = x => row'[a].current = 1 /\ row'[a].preview = 0
    BY <2>1, <2>4 DEF TypeOK
  <2>6. a # x => row'[a] = row[a]
    BY <2>1 DEF TypeOK
  <2> QED BY <1>2, <2>1, <2>2, <2>3, <2>5, <2>6 DEF Keeps, WellFounded, gitVars
<1> QED BY <1>1, <1>3, <1>4, <1>5 DEF CreateRevisionRow, Goto, gitVars

LEMMA ApplyRowKeeps ==
    ASSUME TypeOK, NumbersInv, NEW t \in Threads, ApplyRow(t), NEW a \in Apps
    PROVE  Keeps(a, FALSE)
<1>1. PICK x \in Apps : x = App(t)
  BY TurnTypes
<1>2. PICK old, exposed, r : /\ old = row[x] /\ old \in Row
         /\ exposed = [old EXCEPT !.route = req[t].live[x].route, !.enabled = req[t].live[x].enabled,
                                  !.policy = req[t].live[x].policy]
         /\ r = DesiredLive(t)
  BY DEF TypeOK
<1>3. r # 0 => r \in KnownRevs(x)
  BY <1>1, <1>2 DEF DesiredLive
<1>4. UNCHANGED <<registered, onMain, releases>>
  BY DEF ApplyRow, gitVars, dbVars
<1>5. WellFounded(a) /\ WellFounded(x)
  BY DEF NumbersInv
<1>6. CASE UNCHANGED <<row, revState>>
  BY <1>4, <1>5, <1>6, KeepsUnchanged
<1>7. CASE row' = [row EXCEPT ![x] = exposed] /\ UNCHANGED revState
  <2>1. exposed.current = old.current /\ exposed.preview = old.preview
    BY <1>2 DEF Row
  <2>2. row'[a].current = row[a].current /\ row'[a].preview = row[a].preview
    BY <1>2, <1>7, <2>1 DEF TypeOK
  <2> QED BY <1>4, <1>5, <1>7, <2>2, KeepsUnchanged
<1>8. CASE /\ r # 0 /\ x \in registered /\ row' = [row EXCEPT ![x] = PromotedRow(exposed, r)]
           /\ revState' = [revState EXCEPT ![x] = [s \in Revs |-> IF s = r THEN "live"
                                                                 ELSE IF s = old.current THEN "archived" ELSE @[s]]]
  <2>1. LET w == PromotedRow(exposed, r) IN w.current = r /\ w.preview \in {0, old.preview}
    BY <1>2 DEF PromotedRow, Row
  <2>2. a = x => row'[a].current = r /\ row'[a].preview \in {0, row[a].preview}
    BY <1>2, <1>8, <2>1 DEF TypeOK
  <2>3. a # x => row'[a] = row[a] /\ revState'[a] = revState[a]
    BY <1>8 DEF TypeOK
  <2>4. old.current \in KnownRevs(x)
    BY <1>2, <1>5, <1>8 DEF WellFounded
  <2>5. revState'[x] = [s \in Revs |-> IF s = r THEN "live" ELSE IF s = old.current THEN "archived" ELSE revState[x][s]]
    BY <1>8 DEF TypeOK
  <2>6. KnownRevs(x)' = KnownRevs(x)
    BY <1>3, <1>8, <2>4, <2>5 DEF KnownRevs
  <2>7. KnownRevs(a)' = KnownRevs(a)
    BY <2>3, <2>6 DEF KnownRevs
  <2> QED BY <1>3, <1>4, <1>5, <1>8, <2>2, <2>3, <2>7 DEF Keeps, WellFounded
<1>9. PICK changed : changed = (r # 0 /\ r # old.current)
  OBVIOUS
<1>10. CASE changed
  BY <1>1, <1>2, <1>6, <1>8, <1>9, <1>10 DEF ApplyRow, dbVars
<1>11. CASE ~changed
  BY <1>1, <1>2, <1>6, <1>7, <1>9, <1>11 DEF ApplyRow, dbVars
<1> QED BY <1>9, <1>10, <1>11

LEMMA ApplyPreviewKeeps ==
    ASSUME TypeOK, NumbersInv, NEW t \in Threads, ApplyPreview(t), NEW a \in Apps
    PROVE  Keeps(a, FALSE)
<1>1. PICK x \in Apps : x = App(t)
  BY TurnTypes
<1>2. PICK r, shown : r = req[t].preview[x] /\ shown = row[x].preview
  OBVIOUS
<1>3. UNCHANGED <<registered, onMain, releases>>
  BY DEF ApplyPreview, gitVars, dbVars
<1>4. WellFounded(a) /\ WellFounded(x)
  BY DEF NumbersInv
<1>5. CASE UNCHANGED <<row, revState>>
  BY <1>3, <1>4, <1>5, KeepsUnchanged
<1>6. ASSUME NEW q, q = 0 \/ q \in KnownRevs(x), row' = row \/ row' = [row EXCEPT ![x].preview = q],
             \/ UNCHANGED revState
             \/ \E p \in KnownRevs(x), s \in {"warming", "archived"} : revState' = [revState EXCEPT ![x][p] = s]
      PROVE  Keeps(a, FALSE)
  <2>1. row'[a].current = row[a].current /\ (row'[a].preview = row[a].preview \/ (a = x /\ row'[a].preview = q))
    <3>1. row[a] \in Row
      BY DEF TypeOK
    <3>2. row'[a] = row[a] \/ (a = x /\ row'[a] = [row[a] EXCEPT !.preview = q])
      BY <1>6 DEF TypeOK
    <3>3. ASSUME row'[a] = [row[a] EXCEPT !.preview = q] PROVE row'[a].current = row[a].current /\ row'[a].preview = q
      BY <3>1, <3>3 DEF Row
    <3> QED BY <3>2, <3>3
  <2>2. KnownRevs(a)' = KnownRevs(a)
    <3>1. CASE UNCHANGED revState
      BY <3>1 DEF KnownRevs
    <3>2. ASSUME NEW p \in KnownRevs(x), NEW s \in {"warming", "archived"}, revState' = [revState EXCEPT ![x][p] = s]
          PROVE  KnownRevs(a)' = KnownRevs(a)
      <4>1. p \in Revs /\ revState[x][p] # "absent"
        BY DEF KnownRevs
      <4>2. revState'[a] = revState[a] \/ (a = x /\ revState'[a] = [revState[x] EXCEPT ![p] = s])
        BY <3>2 DEF TypeOK
      <4> QED BY <3>2, <4>1, <4>2 DEF KnownRevs, TypeOK
    <3> QED BY <1>6, <3>1, <3>2
  <2> QED BY <1>3, <1>4, <1>6, <2>1, <2>2 DEF Keeps, WellFounded
<1>7. CASE r # 0 /\ r \notin KnownRevs(x)
  BY <1>1, <1>2, <1>5, <1>7 DEF ApplyPreview, dbVars
<1>8. CASE r # 0 /\ r \in KnownRevs(x)
  <2>1. (row' = row \/ row' = [row EXCEPT ![x].preview = r]) /\ revState' = [revState EXCEPT ![x][r] = "warming"]
    BY <1>1, <1>2, <1>8 DEF ApplyPreview
  <2> QED BY <1>6, <1>8, <2>1
<1>9. CASE r = 0 /\ shown # 0
  <2>1. /\ row' = [row EXCEPT ![x].preview = 0]
        /\ UNCHANGED revState \/ revState' = [revState EXCEPT ![x][shown] = "archived"]
    BY <1>1, <1>2, <1>9 DEF ApplyPreview
  <2>2. shown \in KnownRevs(x)
    BY <1>2, <1>4, <1>9 DEF WellFounded
  <2> QED BY <1>6, <2>1, <2>2
<1>10. CASE r = 0 /\ shown = 0
  BY <1>1, <1>2, <1>5, <1>10 DEF ApplyPreview, dbVars
<1> QED BY <1>7, <1>8, <1>9, <1>10

\* Startup gives the app what the releases on main name; no request is under way then.
LEMMA StartupKeeps ==
    ASSUME TypeOK, NumbersInv, NEW t \in Threads, Startup(t), NEW a \in Apps
    PROVE  WellFounded(a)' /\ KnownRevs(a) \subseteq KnownRevs(a)'
<1>1. PICK rel : rel = BackfilledReleases[a]
  OBVIOUS
<1>2. /\ rel = releases[a] \cup (IF a \in registered THEN KnownRevs(a) ELSE {}) /\ rel \subseteq Revs
      /\ WellFounded(a)
  BY <1>1 DEF BackfilledReleases, TypeOK, KnownRevs, NumbersInv
<1>3. /\ UNCHANGED onMain /\ releases'[a] = rel
      /\ (a \in registered' <=> a \in registered \/ (a \in onMain /\ rel # {}))
      /\ row'[a] = (IF a \in onMain /\ rel # {} THEN RebuiltRow(a, rel) ELSE row[a])
      /\ revState'[a] = (IF a \in onMain /\ rel # {} THEN RebuiltStates(a, rel) ELSE revState[a])
  BY <1>1 DEF Startup, BackfilledReleases
<1>4. CASE ~(a \in onMain /\ rel # {})
  <2>1. KnownRevs(a)' = KnownRevs(a)
    BY <1>3, <1>4 DEF KnownRevs
  <2> QED BY <1>2, <1>3, <1>4, <2>1 DEF WellFounded
<1>5. CASE a \in onMain /\ rel # {}
  <2>1. KnownRevs(a) \subseteq KnownRevs(a)' /\ rel \subseteq KnownRevs(a)'
    BY <1>2, <1>3, <1>5 DEF RebuiltStates, KnownRevs
  <2>2. row'[a].current = RebuiltCurrent(a, rel) /\ row'[a].preview = RebuiltPreview(a, rel)
    BY <1>3, <1>5 DEF RebuiltRow
  <2>3. RebuiltCurrent(a, rel) \in rel
    BY <1>2, <1>5, MaxInType DEF RebuiltCurrent, IsMax
  <2>4. RebuiltPreview(a, rel) # 0 => RebuiltPreview(a, rel) \in rel
    BY DEF RebuiltPreview
  <2>5. 1 \in KnownRevs(a)
    BY <1>2, <1>5 DEF WellFounded
  <2> QED BY <2>1, <2>2, <2>3, <2>4, <2>5 DEF WellFounded
<1> QED BY <1>4, <1>5

\* What any step keeps.
LEMMA NumbersKept ==
    ASSUME TypeOK, NumbersInv, PublishedFirst, [Next]_vars, NEW a \in Apps
    PROVE  \/ Keeps(a, FALSE)
           \/ \E t \in Threads : BuildInsert(t) /\ a = App(t) /\ Keeps(a, TRUE)
           \/ (\E t \in Threads : Startup(t)) /\ WellFounded(a)' /\ KnownRevs(a) \subseteq KnownRevs(a)'
<1>1. CASE UNCHANGED vars
  BY <1>1, KeepsUnchanged DEF vars, NumbersInv
<1>2. CASE Crash
  BY <1>2, KeepsUnchanged DEF Crash, gitVars, dbVars, NumbersInv
<1>3. ASSUME NEW t \in Threads, NEW x \in Apps, LockedRequest(t, x) \/ UnlockedRequest(t, x) PROVE Keeps(a, FALSE)
  BY <1>3, RequestKeeps
<1>4. ASSUME NEW t \in Threads, BeginReconcile(t) PROVE Keeps(a, FALSE)
  BY <1>4, KeepsUnchanged DEF BeginReconcile, gitVars, dbVars, NumbersInv
<1>5. ASSUME NEW t \in Threads, Startup(t) PROVE WellFounded(a)' /\ KnownRevs(a) \subseteq KnownRevs(a)'
  BY <1>5, StartupKeeps
<1>6. ASSUME NEW t \in Threads, Step(t) PROVE Keeps(a, FALSE) \/ (BuildInsert(t) /\ a = App(t) /\ Keeps(a, TRUE))
  <2>1. ~DeleteGit(t) /\ ~DeleteRow(t)
    BY DEF DeleteGit, DeleteRow, At, PublishedFirst, NumbersInv, Founded
  <2>2. CASE BuildInsert(t)
    <3>1. Keeps(a, a = App(t))
      BY <2>2, InsertKeeps
    <3> QED BY <2>2, <3>1 DEF Keeps
  <2>3. CASE BuildRelease(t) \/ Publish(t)
    BY <2>3, PublishKeeps
  <2>4. CASE CreateRevisionRow(t) \/ CreateAppRow(t)
    BY <2>4, CreateKeeps
  <2>5. CASE ApplyRow(t) \/ ApplyPreview(t)
    BY <2>5, ApplyRowKeeps, ApplyPreviewKeeps
  <2>6. CASE \/ CreatePreflight(t) \/ Desire(t) \/ ReadDesired(t) \/ ApplyMount(t) \/ SetRunning(t)
             \/ FinishMountLive(t) \/ FinishUnmount(t) \/ NextApp(t) \/ FleetDone(t)
    BY <2>6, QuietStepKeeps
  <2> QED BY <1>6, <2>1, <2>2, <2>3, <2>4, <2>5, <2>6 DEF Step
<1> QED BY <1>1, <1>2, <1>3, <1>4, <1>5, <1>6 DEF Next

LEMMA StepNumbers ==
    ASSUME "delete" \notin Ops, TypeOK, NumbersInv, PublishedFirst, [Next]_vars
    PROVE  NumbersInv'
<1>1. \A a \in Apps : WellFounded(a)' /\ KnownRevs(a) \subseteq KnownRevs(a)'
  BY NumbersKept DEF Keeps
<1>2. ASSUME NEW t \in Threads, UNCHANGED <<pc[t], req[t]>> PROVE Founded(t)'
  BY <1>1, <1>2, TurnTypes DEF NumbersInv, Founded, App
<1>3. ASSUME NEW t \in Threads, OnlyMoves(t), Founded(t)' PROVE \A u \in Threads : Founded(u)'
  BY <1>2, <1>3 DEF OnlyMoves
<1>4. CASE UNCHANGED vars
  BY <1>1, <1>2, <1>4 DEF vars, NumbersInv
<1>5. CASE Crash
  <2>1. \A t \in Threads : pc'[t] = "idle"
    BY <1>5 DEF Crash
  <2> QED BY <1>1, <2>1 DEF NumbersInv, Founded, Founding
<1>6. ASSUME NEW t \in Threads, NEW a \in Apps, LockedRequest(t, a) PROVE OnlyMoves(t) /\ Founded(t)'
  <2>1. a \in registered
    BY <1>6 DEF LockedRequest, BeginBuild, BeginPreview, BeginPromote, BeginRollback, AcceptLocked
  <2>2. 1 \in KnownRevs(a)'
    BY <1>1, <2>1 DEF NumbersInv, WellFounded
  <2> QED BY <1>6, <2>2, LockedRequestEffect DEF Founded, App
<1>7. ASSUME NEW t \in Threads, NEW a \in Apps, UnlockedRequest(t, a) PROVE OnlyMoves(t) /\ Founded(t)'
  <2>1. pc'[t] \notin {"insert", "release", "createRow", "deleteRow"}
    BY <1>7, UnlockedRequestEffect
  <2>2. ASSUME pc'[t] = "publish" PROVE 1 \in KnownRevs(App(t))'
    <3>1. a \in registered
      <4>1. ~BeginCreate(t, a)
        <5>1. SUFFICES ASSUME BeginCreate(t, a) PROVE FALSE
          OBVIOUS
        <5>2. \E q : Begin(t, "createRev", q)
          BY <5>1 DEF BeginCreate
        <5> QED BY <2>2, <5>2, BeginEffect
      <4> QED BY <1>7, <4>1 DEF UnlockedRequest, BeginDelete, BeginRoute, BeginEnable, BeginPolicy, BeginStart,
                                BeginStop, BeginRestart
    <3>2. 1 \in KnownRevs(a)'
      BY <1>1, <3>1 DEF NumbersInv, WellFounded
    <3>3. App(t)' = a
      BY <1>7, <2>2, UnlockedRequestEffect DEF App
    <3> QED BY <3>2, <3>3
  <2> QED BY <1>7, <2>1, <2>2, UnlockedRequestEffect DEF Founded, Founding
<1>8. ASSUME NEW t \in Threads, BeginReconcile(t) \/ Startup(t) PROVE OnlyMoves(t) /\ Founded(t)'
  BY <1>8, FleetEffect DEF Founded, Founding
<1>9. ASSUME NEW t \in Threads, Step(t) PROVE OnlyMoves(t) /\ Founded(t)'
  <2>1. PICK x \in Apps : x = App(t)
    BY TurnTypes
  <2>2. OnlyMoves(t) /\ pc'[t] # "insert" /\ pc'[t] # "deleteRow"
    <3>1. ~DeleteGit(t)
      BY DEF DeleteGit, At, PublishedFirst
    <3> QED BY <1>9, <3>1, StepEffect, StepArrives
  <2>3. ASSUME pc'[t] \in {"release", "createRow", "publish"} PROVE 1 \in KnownRevs(App(t))'
    <3>1. pc[t] # "nextApp" /\ 1 \in KnownRevs(x)'
      <4>1. CASE BuildInsert(t) \/ CreateAppRow(t)
        <5>1. pc[t] \in {"insert", "createRow"}
          BY <4>1 DEF BuildInsert, CreateAppRow, At
        <5>2. 1 \in KnownRevs(x)
          BY <2>1, <5>1 DEF NumbersInv, Founded, Founding
        <5> QED BY <1>1, <5>1, <5>2
      <4>2. CASE CreateRevisionRow(t) /\ revState[App(t)][1] = "absent"
        <5>1. 1 \in Revs /\ pc[t] = "createRev"
          BY <4>2, ConstantsAssumption DEF Revs, CreateRevisionRow, At
        <5>2. revState' = [revState EXCEPT ![x][1] = "live"]
          BY <2>1, <4>2 DEF CreateRevisionRow
        <5> QED BY <5>1, <5>2, KnownUpdate
      <4> QED BY <1>9, <2>3, <4>1, <4>2, StepArrives
    <3>2. App(t)' = x
      BY <1>9, <2>1, <2>3, <3>1, StepEffect DEF App
    <3> QED BY <3>1, <3>2
  <2> QED BY <2>2, <2>3 DEF Founded, Founding
<1> QED BY <1>1, <1>3, <1>4, <1>5, <1>6, <1>7, <1>8, <1>9 DEF Next, NumbersInv

\* While a build waits for its INSERT it holds the app's lock, and only an INSERT of a
\* build could give the app another revision: its first one it has.
LEMMA StepHonours ==
    ASSUME TypeOK, LockHeld, StartupInv, PublishedFirst, NumbersInv, BuildNumberHonoured, [Next]_vars
    PROVE  BuildNumberHonoured'
<1>1. ASSUME NEW t \in Threads, UNCHANGED <<pc[t], req[t]>>, pc[t] = "insert"
      PROVE  req'[t].rev = NextRevision(App(t))'
  <2>1. PICK x \in Apps : x = App(t)
    BY TurnTypes
  <2>2. 1 \in KnownRevs(x) /\ lock[x] = t
    BY <1>1, <2>1 DEF NumbersInv, Founded, Founding, LockHeld, App
  <2>3. ASSUME NEW u \in Threads PROVE ~(BuildInsert(u) /\ x = App(u))
    <3>1. SUFFICES ASSUME BuildInsert(u), x = App(u) PROVE FALSE
      OBVIOUS
    <3>2. pc[u] = "insert" /\ lock[x] = u
      BY <3>1 DEF BuildInsert, At, NumbersInv, Founded, LockHeld, App
    <3>3. u = t
      BY <2>2, <3>2
    <3>4. pc'[u] = "release"
      BY <3>1 DEF BuildInsert, TypeOK
    <3> QED BY <1>1, <3>3, <3>4
  <2>4. \A u \in Threads : ~Startup(u)
    BY <1>1 DEF Startup, StartupInv
  <2>5. KnownRevs(x)' = KnownRevs(x)
    BY <2>2, <2>3, <2>4, NumbersKept DEF Keeps
  <2>6. NextRevision(x)' = NextRevision(x)
    BY <2>5 DEF NextRevision
  <2>7. req[t].rev = NextRevision(x)
    BY <1>1, <2>1 DEF BuildNumberHonoured, At
  <2>8. App(t)' = x
    BY <1>1, <2>1 DEF App
  <2> QED BY <1>1, <2>6, <2>7, <2>8
<1>2. ASSUME NEW t \in Threads, OnlyMoves(t), pc'[t] # "insert" PROVE BuildNumberHonoured'
  BY <1>1, <1>2 DEF OnlyMoves, BuildNumberHonoured, At
<1>3. CASE UNCHANGED vars
  <2>1. UNCHANGED <<pc, req>>
    BY <1>3 DEF vars
  <2> QED BY <1>1, <2>1 DEF BuildNumberHonoured, At
<1>4. CASE Crash
  BY <1>4 DEF Crash, BuildNumberHonoured, At
<1>5. ASSUME NEW t \in Threads, NEW a \in Apps, LockedRequest(t, a) PROVE BuildNumberHonoured'
  <2>1. CASE BeginBuild(t, a)
    <3>1. PICK n, q : n = NextRevision(a) /\ q = [Frame("build", a) EXCEPT !.rev = n]
      OBVIOUS
    <3>2. Begin(t, "insert", q) /\ UNCHANGED revState
      BY <2>1, <3>1 DEF BeginBuild, dbVars
    <3>3. req'[t].rev = NextRevision(a) /\ App(t)' = a /\ OnlyMoves(t)
      <4>1. q.rev = n /\ q.app = a
        BY <3>1 DEF Frame
      <4>2. req'[t] = q /\ OnlyMoves(t)
        BY <3>2, BeginEffect
      <4> QED BY <3>1, <4>1, <4>2 DEF App
    <3>4. KnownRevs(a)' = KnownRevs(a)
      BY <3>2 DEF KnownRevs
    <3>5. NextRevision(a)' = NextRevision(a)
      BY <3>4 DEF NextRevision
    <3> QED BY <1>1, <3>3, <3>5 DEF OnlyMoves, BuildNumberHonoured, At
  <2>2. CASE ~BeginBuild(t, a)
    <3>1. \E q : Begin(t, "publish", q)
      BY <1>5, <2>2 DEF LockedRequest, BeginPreview, BeginPromote, BeginRollback
    <3> QED BY <1>2, <3>1, BeginEffect
  <2> QED BY <2>1, <2>2
<1>6. ASSUME NEW t \in Threads, NEW a \in Apps, UnlockedRequest(t, a) PROVE BuildNumberHonoured'
  BY <1>2, <1>6, UnlockedRequestEffect
<1>7. ASSUME NEW t \in Threads, BeginReconcile(t) \/ Startup(t) PROVE BuildNumberHonoured'
  BY <1>2, <1>7, FleetEffect
<1>8. ASSUME NEW t \in Threads, Step(t) PROVE BuildNumberHonoured'
  BY <1>2, <1>8, StepEffect, StepArrives
<1> QED BY <1>3, <1>4, <1>5, <1>6, <1>7, <1>8 DEF Next

LEMMA InitNumbers == Init => NumbersInv /\ BuildNumberHonoured /\ LockHeld
<1>1. SUFFICES ASSUME Init PROVE NumbersInv /\ BuildNumberHonoured /\ LockHeld
  OBVIOUS
<1>2. \A t \in Threads : pc[t] = "idle"
  BY <1>1 DEF Init
<1>3. ASSUME NEW a \in Apps PROVE WellFounded(a)
  <2>1. 1 \in Revs
    BY ConstantsAssumption DEF Revs
  <2>2. CASE a \in Seeded
    <3>1. revState[a] = [r \in Revs |-> IF a \in Seeded /\ r = 1 THEN "live" ELSE "absent"]
      BY <1>1 DEF Init
    <3>2. 1 \in KnownRevs(a)
      BY <2>1, <2>2, <3>1 DEF KnownRevs
    <3>3. row[a] = [NoRow(a) EXCEPT !.status = "running", !.current = 1]
      BY <1>1, <2>2 DEF Init
    <3>4. row[a].current = 1 /\ row[a].preview = 0
      BY <3>3 DEF NoRow
    <3> QED BY <3>2, <3>4 DEF WellFounded
  <2>3. CASE a \notin Seeded
    <3>1. a \notin registered /\ a \notin onMain /\ releases[a] = {} /\ row[a] = NoRow(a)
      BY <1>1, <2>3 DEF Init
    <3>2. row[a].preview = 0
      BY <3>1 DEF NoRow
    <3> QED BY <3>1, <3>2 DEF WellFounded
  <2> QED BY <2>2, <2>3
<1> QED BY <1>2, <1>3 DEF NumbersInv, Founded, Founding, BuildNumberHonoured, LockHeld, At

\* The number under which build_revision wrote the artifact, the tag and the release is
\* the one its row gets, with any number of threads and however the process crashes;
\* the lock is why. Without the lock, or with a delete in between, it is false.
THEOREM BuildNumbersHonoured == ASSUME "delete" \notin Ops PROVE Spec => []BuildNumberHonoured
<1> DEFINE IInv == /\ TypeOK /\ RevisionsAreNamed /\ DesiredIsReleased /\ PublishedFirst
                   /\ RootedOnMain /\ StartupInv /\ LockHeld /\ NumbersInv /\ BuildNumberHonoured
<1>1. Init => IInv
  BY InitType, InitNamed, InitReleased, InitNumbers
<1>2. IInv /\ [Next]_vars => IInv'
  BY StepType, StepNamed, StepReleased, StepRooted, StepStartup, StepLockHeld, StepNumbers, StepHonours
<1>3. IInv => BuildNumberHonoured
  OBVIOUS
<1> QED BY <1>1, <1>2, <1>3, PTL DEF Spec

\* With one request at a time, Git wants only released revisions, delete included.
THEOREM DesiredReleasedInTurn == ASSUME NEW t, Threads = {t} PROVE Spec => []DesiredIsReleased
<1>1. Init => TypeOK /\ RevisionsAreNamed /\ Turn(t)
  BY InitType, InitNamed, InitTurn
<1>2. TypeOK /\ RevisionsAreNamed /\ Turn(t) /\ [Next]_vars => TypeOK' /\ RevisionsAreNamed' /\ Turn(t)'
  BY StepType, StepNamed, StepTurn
<1>3. Turn(t) => DesiredIsReleased
  BY DEF Turn, Stored, AppStored, DesiredIsReleased
<1> QED BY <1>1, <1>2, <1>3, PTL DEF Spec

LEMMA StartupEndsInTurn ==
    ASSUME NEW t, Threads = {t}, TypeOK, Turn(t), [Next]_vars, phase = "starting", phase' = "up",
           NEW a \in registered \ failed, desired[a].rev # 0
    PROVE  /\ RowMatchesGit(a) /\ row[a].preview = desiredPreview[a]
           /\ row[a].status = "running" /\ row[a].enabled =>
                  liveMount[row[a].route] = [app |-> a, rev |-> row[a].current]
<1>1. FleetDone(t)
  BY PhaseStays DEF Crash, Startup
<1>2. Settled
  BY <1>1, FleetSettles
<1>3. a \in Apps /\ FollowsGit(a) /\ ShowsPreview(a) /\ Serves(a)
  BY <1>2 DEF Settled, TypeOK
<1> QED BY <1>3 DEF FollowsGit, ShowsPreview, Serves, Runs

\* With one request at a time, startup restores all apps that load, delete included.
THEOREM StartupRestoresInTurn == ASSUME NEW t, Threads = {t} PROVE Spec => StartupConverges
<1>1. Init => TypeOK /\ RevisionsAreNamed /\ Turn(t)
  BY InitType, InitNamed, InitTurn
<1>2. TypeOK /\ RevisionsAreNamed /\ Turn(t) /\ [Next]_vars => TypeOK' /\ RevisionsAreNamed' /\ Turn(t)'
  BY StepType, StepNamed, StepTurn
<1>3. TypeOK /\ Turn(t) /\ [Next]_vars =>
         [phase = "starting" /\ phase' = "up" =>
            \A a \in registered \ failed :
             desired[a].rev # 0 =>
                /\ RowMatchesGit(a) /\ row[a].preview = desiredPreview[a]
                /\ row[a].status = "running" /\ row[a].enabled =>
                       liveMount[row[a].route] = [app |-> a, rev |-> row[a].current]]_vars
  BY StartupEndsInTurn
<1> QED BY <1>1, <1>2, <1>3, PTL DEF Spec, StartupConverges
=============================================================================
