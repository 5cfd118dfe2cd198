---------------------------- MODULE WorkersProofs ----------------------------
(***************************************************************************)
(* Theorems about Workers for every value of its constants: any number of  *)
(* mount paths, revisions, request threads and processes, any restart cap, *)
(* with and without a baseline to fork from, and any number of deaths.     *)
(***************************************************************************)
EXTENDS Workers, TLAPS

-----------------------------------------------------------------------------
(* Type correctness.  A thread that is past ensure_running has a revision, one that waits *)
(* for, stops or asks a worker has a process; without that, records and files would not   *)
(* keep their types.                                                                       *)

WithRev == {"start", "fork", "wait", "terminate", "persist"}
WithPid == {"fork", "wait", "terminate", "persist", "forward"}

JobOK(j) ==
    /\ j \in Job
    /\ j.pc # "idle" => j.mount \in Mounts
    /\ j.pc \in WithRev => j.rev \in Revs
    /\ j.pc \in WithPid => j.pid \in Pids

OsTypes == proc \in [Pids -> Proc] /\ file \in [Revs -> File \cup {None}]
ManagerTypes ==
    /\ record \in [Mounts -> Record \cup {None}] /\ quiet \subseteq Pids
    /\ starts \in [Mounts -> 0..WindowLen] /\ lock \in Threads \cup {None}
    /\ todo \subseteq Mounts \X Pids
BootTypes ==
    /\ phase \in {"up", "down", "booting"} /\ mounted \subseteq Mounts
    /\ wanted \in [Mounts -> Revs \cup {None}] /\ unread \subseteq Revs /\ crashes \in 0..MaxCrashes
JobTypes == job \in [Threads -> Job] /\ \A t \in Threads : JobOK(job[t])

TypeInv == OsTypes /\ ManagerTypes /\ BootTypes /\ JobTypes

LEMMA TypeInvImplies == TypeInv => TypeOK
  BY DEF TypeInv, TypeOK, OsTypes, ManagerTypes, BootTypes, JobTypes

LEMMA IdleOK == JobOK(Idle) /\ Idle \in Job /\ Idle.pc = "idle" /\ Idle.pid = 0
  BY DEF JobOK, Idle, Job, Steps, Doing, WithRev, WithPid

LEMMA KeeperIsThread == Keeper \in Threads /\ Sweeper \in Threads /\ Clients \subseteq Threads
  BY DEF Threads

\* One thread gets a new frame.
LEMMA FrameType ==
    ASSUME TypeInv, NEW t \in Threads, NEW f, JobOK(f), job' = [job EXCEPT ![t] = f]
    PROVE  JobTypes'
  BY DEF TypeInv, JobTypes, JobOK

LEMMA ToIdle ==
    ASSUME TypeInv, NEW t \in Threads, job' = [job EXCEPT ![t] = Idle]
    PROVE  JobTypes'
  BY IdleOK, FrameType

\* The frame of a request, a call or a mount that begins.
LEMMA NewFrame ==
    ASSUME NEW what \in Doing, NEW m \in Mounts, NEW r \in Revs
    PROVE  /\ JobOK([Idle EXCEPT !.pc = "ensure", !.what = what, !.mount = m])
           /\ JobOK([Idle EXCEPT !.pc = "stop", !.what = what, !.mount = m])
           /\ JobOK([Idle EXCEPT !.pc = "start", !.what = what, !.mount = m, !.rev = r])
  BY DEF JobOK, Idle, Job, Steps, WithRev, WithPid

\* A frame that goes on.
LEMMA NextFrame ==
    ASSUME TypeInv, NEW t \in Threads, NEW r \in Revs, NEW p \in Pids, job[t].pc # "idle"
    PROVE  /\ JobOK([job[t] EXCEPT !.pc = "start", !.rev = r])
           /\ JobOK([job[t] EXCEPT !.pc = "forward", !.pid = p])
           /\ JobOK([job[t] EXCEPT !.pc = "forward", !.rev = None, !.pid = p])
           /\ job[t].pc \in WithRev => \A pc \in {"fork", "wait"} : JobOK([job[t] EXCEPT !.pc = pc, !.pid = p])
           /\ job[t].pc \in WithRev \cap WithPid => JobOK([job[t] EXCEPT !.pc = "persist"])
<1>1. job[t] \in Job /\ JobOK(job[t])
  BY DEF TypeInv, JobTypes
<1>2. JobOK([job[t] EXCEPT !.pc = "start", !.rev = r])
  BY <1>1 DEF JobOK, Job, Steps, WithRev, WithPid
<1>3. JobOK([job[t] EXCEPT !.pc = "forward", !.pid = p])
  BY <1>1 DEF JobOK, Job, Steps, WithRev, WithPid
<1>4. JobOK([job[t] EXCEPT !.pc = "forward", !.rev = None, !.pid = p])
  BY <1>1 DEF JobOK, Job, Steps, WithRev, WithPid
<1>5. ASSUME NEW pc \in {"fork", "wait"}, job[t].pc \in WithRev PROVE JobOK([job[t] EXCEPT !.pc = pc, !.pid = p])
  BY <1>1, <1>5 DEF JobOK, Job, Steps, WithRev, WithPid
<1>6. ASSUME job[t].pc \in WithRev \cap WithPid PROVE JobOK([job[t] EXCEPT !.pc = "persist"])
  BY <1>1, <1>6 DEF JobOK, Job, Steps, WithRev, WithPid
<1> QED BY <1>2, <1>3, <1>4, <1>5, <1>6

LEMMA PidType == ASSUME Unused # {} PROVE NextPid \in Pids /\ proc[NextPid].state = "unused"
  BY DEF Unused, NextPid

LEMMA SpawnType ==
    ASSUME TypeInv, Unused # {}, NEW m \in Mounts, NEW r \in Revs
    PROVE  Spawn(m, r) \in [Pids -> Proc]
<1>1. [state |-> "starting", rev |-> r, mount |-> m, born |-> crashes] \in Proc
  BY DEF Proc, ProcState, TypeInv, BootTypes
<1> QED BY <1>1, PidType DEF Spawn, TypeInv, OsTypes

LEMMA KilledType ==
    ASSUME TypeInv, NEW p \in Pids
    PROVE  Killed(p) \in [Pids -> Proc]
<1>1. [proc[p] EXCEPT !.state = "dead", !.born = 0] \in Proc
  <2>1. proc[p] \in Proc /\ 0 \in 0..MaxCrashes
    BY WorkersAssumption DEF TypeInv, OsTypes
  <2> QED BY <2>1 DEF Proc, ProcState
<1>2. Killed(p) = [proc EXCEPT ![p] = [proc[p] EXCEPT !.state = "dead", !.born = 0]]
  BY DEF Killed, TypeInv, OsTypes
<1> QED BY <1>1, <1>2 DEF TypeInv, OsTypes

LEMMA FileType ==
    ASSUME TypeInv, NEW r \in Revs, NEW m \in Mounts, NEW p \in Pids
    PROVE  Persisted(r, m, p) \in [Revs -> File \cup {None}]
  BY DEF Persisted, File, TypeInv, OsTypes

LEMMA CountType == ASSUME TypeInv, NEW m \in Mounts, CountStart(m) PROVE starts' \in [Mounts -> 0..WindowLen]
<1>1. starts[m] \in 0..WindowLen
  BY DEF TypeInv, ManagerTypes
<1>2. (IF starts[m] = WindowLen THEN starts[m] ELSE starts[m] + 1) \in 0..WindowLen
  BY <1>1, WorkersAssumption
<1> QED BY <1>2 DEF CountStart, TypeInv, ManagerTypes

LEMMA TypeInit == Init => TypeInv
<1> SUFFICES ASSUME Init PROVE TypeInv
  OBVIOUS
<1>1. JobTypes
  BY IdleOK DEF Init, JobTypes
<1>2. Unborn \in Proc /\ 0 \in 0..MaxCrashes /\ 0 \in 0..WindowLen
  BY WorkersAssumption DEF Unborn, Proc, ProcState
<1> QED BY <1>1, <1>2 DEF Init, TypeInv, OsTypes, ManagerTypes, BootTypes

\* What start() hands to its caller.
LEMMA StartedType ==
    ASSUME TypeInv, NEW t \in Threads, NEW p \in Pids, Started(t, p), job[t].pc # "idle"
    PROVE  JobTypes' /\ BootTypes'
<1>1. JobOK([job[t] EXCEPT !.pc = "forward", !.rev = None, !.pid = p])
  <2>1. CASE Revs = {}
    BY <2>1 DEF TypeInv, JobTypes, JobOK, Job, Steps, WithRev, WithPid
  <2>2. CASE Revs # {}
    BY <2>2, NextFrame
  <2> QED BY <2>1, <2>2
<1>2. JobTypes'
  <2>1. CASE job[t].what = "request"
    <3> DEFINE f == [job[t] EXCEPT !.pc = "forward", !.rev = None, !.pid = p]
    <3>1. job' = [job EXCEPT ![t] = f] /\ JobOK(f)
      BY <1>1, <2>1 DEF Started
    <3> HIDE DEF f
    <3> QED BY <3>1, FrameType
  <2>2. CASE job[t].what # "request"
    BY <2>2, ToIdle DEF Started
  <2> QED BY <2>1, <2>2
<1>3. job[t].mount \in Mounts
  BY DEF TypeInv, JobTypes, JobOK
<1> QED BY <1>2, <1>3 DEF Started, TypeInv, BootTypes

\* What stop() pops.
LEMMA PopType ==
    ASSUME TypeInv, NEW t \in Threads, NEW what \in Doing, NEW m \in Mounts, record[m] # None, PopToStop(t, what, m)
    PROVE  JobTypes' /\ record' \in [Mounts -> Record \cup {None}]
<1> DEFINE f == [pc |-> "terminate", what |-> what, mount |-> m, rev |-> record[m].rev, pid |-> record[m].pid]
<1>1. record[m].rev \in Revs /\ record[m].pid \in Pids
  BY DEF TypeInv, ManagerTypes, Record
<1>2. JobOK(f)
  BY <1>1 DEF JobOK, Job, Steps, WithRev, WithPid
<1>3. job' = [job EXCEPT ![t] = f]
  BY DEF PopToStop
<1> HIDE DEF f
<1>4. JobTypes'
  BY <1>2, <1>3, FrameType
<1> QED BY <1>4 DEF PopToStop, TypeInv, ManagerTypes

\* One step of a thread.
LEMMA ThreadStepType ==
    ASSUME TypeInv, NEW t \in Threads, ThreadStep(t)
    PROVE  TypeInv'
<1> USE DEF osVars, bootVars
<1>k. JobOK(job[t]) /\ job[t] \in Job /\ Keeper \in Threads
  BY KeeperIsThread DEF TypeInv, JobTypes
<1>m. job[t].pc # "idle" => job[t].mount \in Mounts
  BY <1>k DEF JobOK
<1>1. CASE StartFindsWorker(t)
  <2>1. record[job[t].mount].pid \in Pids
    BY <1>1, <1>m DEF StartFindsWorker, HasWorker, TypeInv, ManagerTypes, Record
  <2>2. JobTypes' /\ BootTypes'
    BY <1>1, <2>1, StartedType DEF StartFindsWorker
  <2> QED BY <1>1, <2>2 DEF StartFindsWorker, TypeInv, OsTypes, ManagerTypes
<1>2. CASE StartSpawns(t)
  <2> DEFINE m == job[t].mount
  <2>1. m \in Mounts /\ job[t].rev \in Revs
    BY <1>2, <1>k DEF StartSpawns, JobOK, WithRev
  <2>2. record' \in [Mounts -> Record \cup {None}]
    BY <1>2, <2>1 DEF StartSpawns, TypeInv, ManagerTypes
  <2>3. starts' \in [Mounts -> 0..WindowLen]
    <3>1. CASE CountStart(m)
      BY <2>1, <3>1, CountType
    <3>2. CASE UNCHANGED starts
      BY <3>2 DEF TypeInv, ManagerTypes
    <3> QED BY <1>2, <3>1, <3>2 DEF StartSpawns
  <2>4. BootTypes' /\ file' = file /\ quiet' = quiet /\ todo' = todo
    BY <1>2 DEF StartSpawns, TypeInv, BootTypes
  <2>5. CASE StartFailed(t) /\ UNCHANGED <<proc, lock>>
    <3>1. JobTypes'
      BY <2>5, ToIdle DEF StartFailed
    <3> QED BY <2>2, <2>3, <2>4, <2>5, <3>1 DEF TypeInv, OsTypes, ManagerTypes
  <2>6. CASE Unused # {} /\ proc' = Spawn(m, job[t].rev) /\ lock' = t
             /\ \E how \in (IF Forkserver THEN {"fork", "wait"} ELSE {"wait"}) :
                   job' = [job EXCEPT ![t].pc = how, ![t].pid = NextPid]
    <3>1. PICK how \in {"fork", "wait"} : job' = [job EXCEPT ![t].pc = how, ![t].pid = NextPid]
      BY <2>6, WorkersAssumption
    <3> DEFINE f == [job[t] EXCEPT !.pc = how, !.pid = NextPid]
    <3>2. job' = [job EXCEPT ![t] = f]
      BY <3>1 DEF TypeInv, JobTypes
    <3>3. job[t].pc \in WithRev /\ job[t].pc # "idle"
      BY <1>2 DEF StartSpawns, WithRev
    <3>4. JobOK(f)
      BY <2>1, <2>6, <3>3, PidType, NextFrame
    <3> HIDE DEF f
    <3>5. JobTypes'
      BY <3>2, <3>4, FrameType
    <3>6. proc' \in [Pids -> Proc]
      BY <2>1, <2>6, SpawnType
    <3> QED BY <2>2, <2>3, <2>4, <2>6, <3>5, <3>6 DEF TypeInv, OsTypes, ManagerTypes
  <2> QED BY <1>2, <2>5, <2>6 DEF StartSpawns
<1>3. CASE Ready(t)
  <2>1. job[t].mount \in Mounts /\ job[t].rev \in Revs /\ job[t].pid \in Pids /\ job[t].pc # "idle"
    BY <1>3, <1>k DEF Ready, Starting, JobOK, WithRev, WithPid
  <2>2. JobTypes' /\ BootTypes'
    BY <1>3, <2>1, StartedType DEF Ready
  <2>3. proc' \in [Pids -> Proc]
    <3>1. proc[job[t].pid] \in Proc
      BY <2>1 DEF TypeInv, OsTypes
    <3>2. [proc[job[t].pid] EXCEPT !.state = "ready"] \in Proc
      BY <3>1 DEF Proc, ProcState
    <3>3. proc' = [proc EXCEPT ![job[t].pid] = [proc[job[t].pid] EXCEPT !.state = "ready"]]
      BY <1>3 DEF Ready, TypeInv, OsTypes
    <3> QED BY <3>2, <3>3 DEF TypeInv, OsTypes
  <2>4. file' \in [Revs -> File \cup {None}]
    BY <1>3, <2>1, FileType DEF Ready
  <2>5. record' \in [Mounts -> Record \cup {None}]
    <3>1. [rev |-> job[t].rev, pid |-> job[t].pid] \in Record
      BY <2>1 DEF Record
    <3> QED BY <1>3, <3>1 DEF Ready, TypeInv, ManagerTypes
  <2> QED BY <1>3, <2>2, <2>3, <2>4, <2>5 DEF Ready, TypeInv, OsTypes, ManagerTypes
<1>4. CASE NotReady(t)
  <2>1. job[t].pid \in Pids
    BY <1>4, <1>k DEF NotReady, Starting, JobOK, WithPid
  <2>2. JobTypes' /\ proc' \in [Pids -> Proc]
    BY <1>4, <2>1, ToIdle, KilledType DEF NotReady, StartFailed
  <2> QED BY <1>4, <2>2 DEF NotReady, TypeInv, OsTypes, ManagerTypes, BootTypes
<1>5. CASE ForkMiss(t)
  <2>1. job[t].mount \in Mounts /\ job[t].rev \in Revs /\ job[t].pid \in Pids
    BY <1>5, <1>k DEF ForkMiss, Starting, JobOK, WithRev, WithPid
  <2>2. Unused # {} /\ job[t].pc \in WithRev /\ job[t].pc # "idle"
    BY <1>5 DEF ForkMiss, WithRev
  <2>3. proc' \in [Pids -> Proc]
    <3> DEFINE g == Spawn(job[t].mount, job[t].rev)
    <3>1. g \in [Pids -> Proc]
      BY <2>1, <2>2, SpawnType
    <3>2. g[job[t].pid] \in Proc /\ 0 \in 0..MaxCrashes
      BY <2>1, <3>1, WorkersAssumption
    <3>3. [g[job[t].pid] EXCEPT !.state = "dead", !.born = 0] \in Proc
      BY <3>2 DEF Proc, ProcState
    <3>4. proc' = [g EXCEPT ![job[t].pid].state = "dead", ![job[t].pid].born = 0]
      BY <1>5 DEF ForkMiss, SpawnedInstead
    <3> HIDE DEF g
    <3>5. proc' = [g EXCEPT ![job[t].pid] = [g[job[t].pid] EXCEPT !.state = "dead", !.born = 0]]
      BY <3>1, <3>4
    <3> QED BY <3>1, <3>3, <3>5
  <2>4. JobTypes'
    <3> DEFINE f == [job[t] EXCEPT !.pc = "wait", !.pid = NextPid]
    <3>1. job' = [job EXCEPT ![t] = f]
      BY <1>5 DEF ForkMiss, TypeInv, JobTypes
    <3>2. JobOK(f)
      BY <2>1, <2>2, PidType, NextFrame
    <3> HIDE DEF f
    <3> QED BY <3>1, <3>2, FrameType
  <2> QED BY <1>5, <2>3, <2>4 DEF ForkMiss, TypeInv, OsTypes, ManagerTypes, BootTypes
<1>6. CASE EnsureRunning(t)
  <2> DEFINE m == job[t].mount
  <2>1. m \in Mounts /\ job[t].pc # "idle"
    BY <1>6, <1>k DEF EnsureRunning, JobOK
  <2>2. record' \in [Mounts -> Record \cup {None}]
    BY <1>6, <2>1 DEF EnsureRunning, TypeInv, ManagerTypes
  <2>3. JobTypes'
    <3>1. CASE HasWorker(m) /\ job' = [job EXCEPT ![t] = IF @.what = "request"
                                       THEN [@ EXCEPT !.pc = "forward", !.pid = record[m].pid] ELSE Idle]
      <4>1. record[m].pid \in Pids /\ record[m].rev \in Revs
        BY <2>1, <3>1 DEF HasWorker, TypeInv, ManagerTypes, Record
      <4>2. CASE job[t].what = "request"
        <5> DEFINE f == [job[t] EXCEPT !.pc = "forward", !.pid = record[m].pid]
        <5>1. JobOK(f)
          BY <2>1, <4>1, NextFrame
        <5>2. job' = [job EXCEPT ![t] = f]
          BY <3>1, <4>2 DEF TypeInv, JobTypes
        <5> HIDE DEF f
        <5> QED BY <5>1, <5>2, FrameType
      <4>3. CASE job[t].what # "request"
        <5>1. job' = [job EXCEPT ![t] = Idle]
          BY <3>1, <4>3 DEF TypeInv, JobTypes
        <5> QED BY <5>1, ToIdle
      <4> QED BY <4>2, <4>3
    <3>2. ASSUME NEW r \in Specs(m), job' = [job EXCEPT ![t].pc = "start", ![t].rev = r] PROVE JobTypes'
      <4> DEFINE f == [job[t] EXCEPT !.pc = "start", !.rev = r]
      <4>1. r \in Revs
        BY DEF Specs
      <4>2. JobOK(f)
        <5>1. CASE Pids = {}
          BY <1>k, <2>1, <4>1 DEF JobOK, Job, Steps, WithRev, WithPid
        <5>2. CASE Pids # {}
          BY <2>1, <4>1, <5>2, NextFrame
        <5> QED BY <5>1, <5>2
      <4>3. job' = [job EXCEPT ![t] = f]
        BY <3>2 DEF TypeInv, JobTypes
      <4> HIDE DEF f
      <4> QED BY <4>2, <4>3, FrameType
    <3>3. CASE job' = [job EXCEPT ![t] = Idle]
      BY <3>3, ToIdle
    <3> QED BY <1>6, <3>1, <3>2, <3>3 DEF EnsureRunning
  <2> QED BY <1>6, <2>2, <2>3 DEF EnsureRunning, TypeInv, OsTypes, ManagerTypes, BootTypes
<1>7. CASE Forward(t)
  <2>1. JobTypes'
    BY <1>7, ToIdle DEF Forward
  <2>2. quiet' \subseteq Pids
    BY <1>7 DEF Forward, TypeInv, ManagerTypes
  <2> QED BY <1>7, <2>1, <2>2 DEF Forward, TypeInv, OsTypes, ManagerTypes, BootTypes
<1>8. CASE Terminate(t)
  <2>1. job[t].pid \in Pids /\ job[t].rev \in Revs /\ job[t].pc \in WithRev \cap WithPid /\ job[t].pc # "idle"
    BY <1>8, <1>k DEF Terminate, JobOK, WithRev, WithPid
  <2>2. JobTypes'
    <3> DEFINE f == [job[t] EXCEPT !.pc = "persist"]
    <3>1. JobOK(f)
      BY <2>1, NextFrame
    <3>2. job' = [job EXCEPT ![t] = f]
      BY <1>8 DEF Terminate, TypeInv, JobTypes
    <3> HIDE DEF f
    <3> QED BY <3>1, <3>2, FrameType
  <2>3. proc' \in [Pids -> Proc]
    BY <1>8, <2>1, KilledType DEF Terminate
  <2> QED BY <1>8, <2>2, <2>3 DEF Terminate, TypeInv, OsTypes, ManagerTypes, BootTypes
<1>9. CASE Persist(t)
  <2>1. job[t].mount \in Mounts /\ job[t].pid \in Pids /\ job[t].rev \in Revs
    BY <1>9, <1>k DEF Persist, JobOK, WithRev, WithPid
  <2>2. file' \in [Revs -> File \cup {None}]
    BY <1>9, <2>1, FileType DEF Persist, TypeInv, OsTypes
  <2>3. JobTypes'
    <3>1. CASE Calls(t, "call", job[t].mount)
      BY <2>1, <3>1, NewFrame, FrameType DEF Calls, Doing
    <3>2. CASE job' = [job EXCEPT ![t] = Idle]
      BY <3>2, ToIdle
    <3> QED BY <1>9, <3>1, <3>2 DEF Persist
  <2> QED BY <1>9, <2>2, <2>3 DEF Persist, TypeInv, OsTypes, ManagerTypes, BootTypes
<1> QED BY <1>1, <1>2, <1>3, <1>4, <1>5, <1>6, <1>7, <1>8, <1>9 DEF ThreadStep

\* A call that begins, a tool, a stop.
LEMMA CallType ==
    ASSUME TypeInv, NEW t \in Threads, NEW what \in Doing, NEW m \in Mounts, Calls(t, what, m)
    PROVE  JobTypes'
<1> DEFINE f == [Idle EXCEPT !.pc = "ensure", !.what = what, !.mount = m]
<1>1. JobOK(f)
  <2>1. CASE Revs = {}
    BY <2>1 DEF JobOK, Idle, Job, Steps, WithRev, WithPid
  <2>2. CASE Revs # {}
    BY <2>2, NewFrame
  <2> QED BY <2>1, <2>2
<1>2. job' = [job EXCEPT ![t] = f]
  BY DEF Calls
<1> HIDE DEF f
<1> QED BY <1>1, <1>2, FrameType

LEMMA RequestType ==
    ASSUME TypeInv, NEW t \in Clients, NEW m \in Mounts, Request(t, m) \/ Probe(t, m) \/ RestartTool(t, m)
    PROVE  TypeInv'
<1> USE DEF osVars, bootVars
<1>0. t \in Threads
  BY DEF Threads
<1>1. CASE Request(t, m)
  <2>1. JobTypes'
    BY <1>0, <1>1, CallType DEF Request, Doing
  <2> QED BY <1>1, <2>1 DEF Request, TypeInv, OsTypes, ManagerTypes, BootTypes
<1>2. CASE Probe(t, m)
  <2>1. JobTypes'
    BY <1>0, <1>2, CallType DEF Probe, Doing
  <2> QED BY <1>2, <2>1 DEF Probe, TypeInv, OsTypes, ManagerTypes, BootTypes
<1>3. CASE RestartTool(t, m)
  <2>1. JobTypes' /\ record' \in [Mounts -> Record \cup {None}]
    <3>1. CASE record[m] = None
      <4>1. JobTypes'
        BY <1>0, <1>3, <3>1, CallType DEF RestartTool, Doing
      <4> QED BY <1>3, <3>1, <4>1 DEF RestartTool, TypeInv, ManagerTypes
    <3>2. CASE record[m] # None
      BY <1>0, <1>3, <3>2, PopType DEF RestartTool, Doing
    <3> QED BY <3>1, <3>2
  <2> QED BY <1>3, <2>1 DEF RestartTool, TypeInv, OsTypes, ManagerTypes, BootTypes
<1> QED BY <1>1, <1>2, <1>3

LEMMA KeeperType ==
    ASSUME TypeInv,
           \/ StopUnmounted \/ Sweep
           \/ \E m \in Mounts, r \in Revs : Mount(m, r)
           \/ \E m \in Mounts : Unmount(m)
    PROVE  TypeInv'
<1> USE DEF osVars, bootVars
<1>k. Keeper \in Threads /\ Sweeper \in Threads /\ JobOK(job[Keeper])
  BY KeeperIsThread DEF TypeInv, JobTypes
<1>1. CASE StopUnmounted
  <2>1. job[Keeper].mount \in Mounts
    BY <1>1, <1>k DEF StopUnmounted, JobOK
  <2>2. JobTypes' /\ record' \in [Mounts -> Record \cup {None}]
    <3>1. CASE record[job[Keeper].mount] = None
      <4>1. JobTypes'
        BY <1>1, <1>k, <3>1, ToIdle DEF StopUnmounted
      <4> QED BY <1>1, <3>1, <4>1 DEF StopUnmounted, TypeInv, ManagerTypes
    <3>2. CASE record[job[Keeper].mount] # None
      BY <1>1, <1>k, <2>1, <3>2, PopType DEF StopUnmounted, Doing
    <3> QED BY <3>1, <3>2
  <2> QED BY <1>1, <2>2 DEF StopUnmounted, TypeInv, OsTypes, ManagerTypes, BootTypes
<1>2. CASE SweepBegins
  <2>1. todo' \subseteq Mounts \X Pids
    BY <1>2 DEF SweepBegins, TypeInv, ManagerTypes
  <2> QED BY <1>2, <2>1 DEF SweepBegins, TypeInv, OsTypes, ManagerTypes, BootTypes, JobTypes
<1>3. CASE SweepNext
  <2>1. PICK e \in todo : /\ todo' = todo \ {e}
                          /\ IF StillIdle(e[1], e[2]) THEN PopToStop(Sweeper, "sweep", e[1])
                             ELSE UNCHANGED <<record, job>>
    BY <1>3 DEF SweepNext
  <2>2. e[1] \in Mounts
    BY DEF TypeInv, ManagerTypes
  <2>3. JobTypes' /\ record' \in [Mounts -> Record \cup {None}]
    <3>1. CASE StillIdle(e[1], e[2])
      BY <1>k, <2>1, <2>2, <3>1, PopType DEF StillIdle, Doing
    <3>2. CASE ~StillIdle(e[1], e[2])
      BY <2>1, <3>2 DEF TypeInv, ManagerTypes, JobTypes
    <3> QED BY <3>1, <3>2
  <2>4. todo' \subseteq Mounts \X Pids
    BY <2>1 DEF TypeInv, ManagerTypes
  <2> QED BY <1>3, <2>3, <2>4 DEF SweepNext, TypeInv, OsTypes, ManagerTypes, BootTypes
<1>4. ASSUME NEW m \in Mounts, NEW r \in Revs, Mount(m, r) PROVE TypeInv'
  <2>1. JobTypes'
    <3> DEFINE f == [Idle EXCEPT !.pc = "start", !.what = "mount", !.mount = m, !.rev = r]
    <3>1. JobOK(f) /\ job' = [job EXCEPT ![Keeper] = f]
      BY <1>4, NewFrame DEF Mount, Doing
    <3> HIDE DEF f
    <3> QED BY <1>k, <3>1, FrameType
  <2>2. BootTypes'
    BY <1>4 DEF Mount, TypeInv, BootTypes
  <2> QED BY <1>4, <2>1, <2>2 DEF Mount, TypeInv, OsTypes, ManagerTypes
<1>5. ASSUME NEW m \in Mounts, Unmount(m) PROVE TypeInv'
  <2>1. JobTypes'
    <3> DEFINE f == [Idle EXCEPT !.pc = "stop", !.what = "unmount", !.mount = m]
    <3>1. JobOK(f)
      BY DEF JobOK, Idle, Job, Steps, Doing, WithRev, WithPid
    <3>2. job' = [job EXCEPT ![Keeper] = f]
      BY <1>5 DEF Unmount
    <3> HIDE DEF f
    <3> QED BY <1>k, <3>1, <3>2, FrameType
  <2>2. BootTypes'
    BY <1>5 DEF Unmount, TypeInv, BootTypes
  <2> QED BY <1>5, <2>1, <2>2 DEF Unmount, TypeInv, OsTypes, ManagerTypes
<1> QED BY <1>1, <1>2, <1>3, <1>4, <1>5 DEF Sweep

LEMMA CrashType == TypeInv /\ Crash => TypeInv'
<1> SUFFICES ASSUME TypeInv, Crash PROVE TypeInv'
  OBVIOUS
<1>1. proc' \in [Pids -> Proc]
  <2>1. PICK last \in {"ready", "dead"} :
           proc' = [p \in Pids |-> IF proc[p].state = "starting" THEN [proc[p] EXCEPT !.state = last] ELSE proc[p]]
    BY DEF Crash
  <2>2. ASSUME NEW p \in Pids PROVE [proc[p] EXCEPT !.state = last] \in Proc
    <3>1. proc[p] \in Proc
      BY DEF TypeInv, OsTypes
    <3> QED BY <3>1 DEF Proc, ProcState
  <2> QED BY <2>1, <2>2 DEF TypeInv, OsTypes
<1>2. JobTypes'
  BY IdleOK DEF Crash, JobTypes
<1>3. crashes' \in 0..MaxCrashes
  BY WorkersAssumption DEF Crash, TypeInv, BootTypes
<1>4. 0 \in 0..WindowLen
  BY WorkersAssumption
<1> QED BY <1>1, <1>2, <1>3, <1>4 DEF Crash, TypeInv, OsTypes, ManagerTypes, BootTypes

LEMMA BootType == TypeInv /\ Bootstrap => TypeInv'
<1> SUFFICES ASSUME TypeInv, Bootstrap PROVE TypeInv'
  OBVIOUS
<1> USE DEF osVars, bootVars
<1>1. CASE BootBegins
  BY <1>1 DEF BootBegins, TypeInv, OsTypes, ManagerTypes, BootTypes, JobTypes
<1>2. ASSUME NEW r \in Revs, AdoptFile(r) PROVE TypeInv'
  <2>1. file[r] # None /\ file[r].mount \in Mounts /\ file[r].pid \in Pids
    BY <1>2 DEF AdoptFile, TypeInv, OsTypes, File
  <2>2. proc' \in [Pids -> Proc]
    BY <1>2, <2>1, KilledType DEF AdoptFile, TypeInv, OsTypes
  <2>3. file' \in [Revs -> File \cup {None}]
    BY <1>2, <2>1, FileType DEF AdoptFile, TypeInv, OsTypes
  <2>4. record' \in [Mounts -> Record \cup {None}]
    <3>1. Adopted(r) \in Record
      BY <2>1 DEF Adopted, Record
    <3> QED BY <1>2, <2>1, <3>1 DEF AdoptFile, TypeInv, ManagerTypes
  <2>5. BootTypes'
    BY <1>2, <2>1 DEF AdoptFile, TypeInv, BootTypes
  <2> QED BY <1>2, <2>2, <2>3, <2>4, <2>5 DEF AdoptFile, TypeInv, OsTypes, ManagerTypes, JobTypes
<1>3. ASSUME NEW m \in Mounts, BootMount(m) PROVE TypeInv'
  <2>1. wanted[m] \in Revs
    BY <1>3 DEF BootMount, TypeInv, BootTypes
  <2>2. JobTypes'
    <3> DEFINE f == [Idle EXCEPT !.pc = "start", !.what = "mount", !.mount = m, !.rev = wanted[m]]
    <3>1. JobOK(f) /\ job' = [job EXCEPT ![Keeper] = f]
      BY <1>3, <2>1, NewFrame DEF BootMount, Doing
    <3> HIDE DEF f
    <3> QED BY <3>1, KeeperIsThread, FrameType
  <2> QED BY <1>3, <2>2 DEF BootMount, TypeInv, OsTypes, ManagerTypes, BootTypes
<1>4. CASE BootEnds
  BY <1>4 DEF BootEnds, TypeInv, OsTypes, ManagerTypes, BootTypes, JobTypes
<1> QED BY <1>1, <1>2, <1>3, <1>4 DEF Bootstrap

LEMMA TimeType ==
    ASSUME TypeInv, \/ \E m \in Mounts : WindowMoves(m)
                    \/ \E p \in Pids : FallsQuiet(p) \/ Exit(p)
    PROVE  TypeInv'
<1> USE DEF osVars, bootVars
<1>1. ASSUME NEW m \in Mounts, WindowMoves(m) PROVE TypeInv'
  <2>1. starts[m] \in 0..WindowLen /\ starts[m] > 0
    BY <1>1 DEF WindowMoves, InWindow, TypeInv, ManagerTypes
  <2>2. starts[m] - 1 \in 0..WindowLen
    BY <2>1, WorkersAssumption
  <2>3. starts' \in [Mounts -> 0..WindowLen]
    BY <1>1, <2>2 DEF WindowMoves, TypeInv, ManagerTypes
  <2> QED BY <1>1, <2>3 DEF WindowMoves, TypeInv, OsTypes, ManagerTypes, BootTypes, JobTypes
<1>2. ASSUME NEW p \in Pids, FallsQuiet(p) PROVE TypeInv'
  BY <1>2 DEF FallsQuiet, TypeInv, OsTypes, ManagerTypes, BootTypes, JobTypes
<1>3. ASSUME NEW p \in Pids, Exit(p) PROVE TypeInv'
  <2>1. proc' \in [Pids -> Proc]
    BY <1>3, KilledType DEF Exit
  <2> QED BY <1>3, <2>1 DEF Exit, TypeInv, OsTypes, ManagerTypes, BootTypes, JobTypes
<1> QED BY <1>1, <1>2, <1>3

LEMMA TypeStep == TypeInv /\ [Next]_vars => TypeInv'
<1> SUFFICES ASSUME TypeInv, [Next]_vars PROVE TypeInv'
  OBVIOUS
<1>1. CASE Next
  BY <1>1, ThreadStepType, RequestType, KeeperType, CrashType, BootType, TimeType DEF Next
<1>2. CASE UNCHANGED vars
  BY <1>2 DEF vars, TypeInv, OsTypes, ManagerTypes, BootTypes, JobTypes
<1> QED BY <1>1, <1>2

\* Every variable of Workers keeps its type, for any number of threads, paths, revisions
\* and processes: no step writes a record, a spec file or a restart count out of range.
THEOREM WorkersTypeCorrect == Spec => []TypeOK
<1>1. TypeInv => TypeOK
  BY TypeInvImplies
<1> QED BY TypeInit, TypeStep, <1>1, PTL DEF Spec

-----------------------------------------------------------------------------
(* Names.  A process keeps the mount path and the revision it was started with; whatever  *)
(* refers to it (a record, a file, a thread) was written by the thread that started it or *)
(* was copied from something that refers to it.                                            *)

Unborns == \A p \in Pids : proc[p].state = "unused" => proc[p].mount = None

RecordNames == \A m \in Mounts : record[m] # None =>
                  proc[record[m].pid].mount = m /\ proc[record[m].pid].rev = record[m].rev

FileNames == \A r \in Revs : file[r] # None =>
                proc[file[r].pid].mount = file[r].mount /\ proc[file[r].pid].rev = r

\* What a thread in the middle of start(), stop() or a request knows of a process.
KnowsIn(procs, j) ==
    /\ j.pc \in {"fork", "wait", "terminate", "persist"} =>
          procs[j.pid].mount = j.mount /\ procs[j.pid].rev = j.rev
    /\ j.pc = "forward" => procs[j.pid].mount = j.mount

JobNames == \A t \in Threads : KnowsIn(proc, job[t])

Names == Unborns /\ RecordNames /\ FileNames /\ JobNames

\* No process changes its path or its revision once it has them.
Grow == \A p \in Pids : proc[p].mount # None => proc'[p].mount = proc[p].mount /\ proc'[p].rev = proc[p].rev

LEMMA NamesInit == Init => Names
<1> SUFFICES ASSUME Init PROVE Names
  OBVIOUS
<1>1. JobNames
  BY DEF Init, JobNames, KnowsIn, Idle
<1> QED BY <1>1 DEF Init, Names, Unborns, RecordNames, FileNames, Unborn

LEMMA NamesImply == TypeInv /\ Names => RecordsNameTheirProcess
  BY DEF Names, RecordNames, FileNames, JobNames, KnowsIn, RecordsNameTheirProcess

\* What is left alone still names its process.
LEMMA KeepNames ==
    ASSUME TypeInv, Names, Grow
    PROVE  /\ \A m \in Mounts : record[m] # None =>
                 proc'[record[m].pid].mount = m /\ proc'[record[m].pid].rev = record[m].rev
           /\ \A r \in Revs : file[r] # None =>
                 proc'[file[r].pid].mount = file[r].mount /\ proc'[file[r].pid].rev = r
           /\ \A t \in Threads : KnowsIn(proc', job[t])
<1>1. ASSUME NEW m \in Mounts, record[m] # None
      PROVE  proc'[record[m].pid].mount = m /\ proc'[record[m].pid].rev = record[m].rev
  <2>1. record[m].pid \in Pids
    BY <1>1 DEF TypeInv, ManagerTypes, Record
  <2> QED BY <1>1, <2>1, WorkersAssumption DEF Grow, Names, RecordNames
<1>2. ASSUME NEW r \in Revs, file[r] # None
      PROVE  proc'[file[r].pid].mount = file[r].mount /\ proc'[file[r].pid].rev = r
  <2>1. file[r].pid \in Pids /\ file[r].mount \in Mounts
    BY <1>2 DEF TypeInv, OsTypes, File
  <2> QED BY <1>2, <2>1, WorkersAssumption DEF Grow, Names, FileNames
<1>3. ASSUME NEW t \in Threads PROVE KnowsIn(proc', job[t])
  <2>1. KnowsIn(proc, job[t]) /\ JobOK(job[t])
    BY DEF Names, JobNames, TypeInv, JobTypes
  <2>2. job[t].pc \in {"fork", "wait", "terminate", "persist", "forward"} => job[t].pid \in Pids /\ job[t].mount \in Mounts
    BY <2>1 DEF JobOK, WithPid
  <2> QED BY <2>1, <2>2, WorkersAssumption DEF Grow, KnowsIn
<1> QED BY <1>1, <1>2, <1>3

LEMMA FrameNames ==
    ASSUME TypeInv, Names, Grow, NEW t \in Threads, NEW f, KnowsIn(proc', f), job' = [job EXCEPT ![t] = f]
    PROVE  JobNames'
<1>1. ASSUME NEW u \in Threads PROVE KnowsIn(proc', job'[u])
  BY KeepNames DEF TypeInv, JobTypes
<1> QED BY <1>1 DEF JobNames

LEMMA IdleNames ==
    ASSUME TypeInv, Names, Grow, NEW t \in Threads, job' = [job EXCEPT ![t] = Idle]
    PROVE  JobNames'
<1>1. KnowsIn(proc', Idle)
  BY DEF KnowsIn, Idle
<1> QED BY <1>1, FrameNames

\* The steps a process takes.
LEMMA StaysGrow == ASSUME TypeInv, Names, proc' = proc PROVE Grow /\ Unborns'
  BY DEF Grow, Names, Unborns

LEMMA KilledGrow ==
    ASSUME TypeInv, Names, NEW p \in Pids, proc' = Killed(p)
    PROVE  /\ Grow /\ Unborns'
           /\ proc'[p].state = "dead" /\ proc'[p].born = 0
           /\ \A q \in Pids \ {p} : proc'[q] = proc[q]
<1>1. proc' = [proc EXCEPT ![p] = [proc[p] EXCEPT !.state = "dead", !.born = 0]]
  BY DEF Killed, TypeInv, OsTypes
<1>2. proc[p] \in Proc
  BY DEF TypeInv, OsTypes
<1> DEFINE x == [proc[p] EXCEPT !.state = "dead", !.born = 0]
<1>3. x.state = "dead" /\ x.born = 0 /\ x.mount = proc[p].mount /\ x.rev = proc[p].rev
  BY <1>2 DEF Proc
<1>4. proc'[p] = x /\ \A q \in Pids \ {p} : proc'[q] = proc[q]
  BY <1>1 DEF TypeInv, OsTypes
<1> HIDE DEF x
<1>5. Grow
  BY <1>3, <1>4 DEF Grow
<1>6. Unborns'
  BY <1>3, <1>4 DEF Unborns, Names
<1> QED BY <1>3, <1>4, <1>5, <1>6

LEMMA SpawnIs ==
    ASSUME TypeInv, Unused # {}, NEW m \in Mounts, NEW r \in Revs
    PROVE  /\ Spawn(m, r)[NextPid] = [state |-> "starting", rev |-> r, mount |-> m, born |-> crashes]
           /\ \A q \in Pids \ {NextPid} : Spawn(m, r)[q] = proc[q]
  BY PidType DEF Spawn, TypeInv, OsTypes

LEMMA SpawnGrow ==
    ASSUME TypeInv, Names, Unused # {}, NEW m \in Mounts, NEW r \in Revs, proc' = Spawn(m, r)
    PROVE  Grow /\ Unborns'
<1>1. NextPid \in Pids /\ proc[NextPid].mount = None
  BY PidType DEF Names, Unborns
<1>2. /\ proc'[NextPid] = [state |-> "starting", rev |-> r, mount |-> m, born |-> crashes]
      /\ \A q \in Pids \ {NextPid} : proc'[q] = proc[q]
  BY SpawnIs
<1>3. Grow
  BY <1>1, <1>2 DEF Grow
<1>4. Unborns'
  <2>1. \A q \in Pids : proc'[q].state = "unused" => q # NextPid
    BY <1>2
  <2> QED BY <1>2, <2>1 DEF Names, Unborns
<1> QED BY <1>3, <1>4

\* The process given up and the one started instead.
LEMMA InsteadGrow ==
    ASSUME TypeInv, Names, Unused # {}, NEW t \in Threads, job[t].pc \in {"fork", "wait"}, proc' = SpawnedInstead(t)
    PROVE  /\ Grow /\ Unborns'
           /\ job[t].pid \in Pids /\ NextPid \in Pids /\ NextPid # job[t].pid
           /\ proc'[NextPid] = [state |-> "starting", rev |-> job[t].rev, mount |-> job[t].mount, born |-> crashes]
           /\ proc'[job[t].pid].state = "dead" /\ proc'[job[t].pid].born = 0
           /\ \A q \in Pids \ {NextPid, job[t].pid} : proc'[q] = proc[q]
<1> DEFINE m == job[t].mount
           r == job[t].rev
           p == job[t].pid
           g == Spawn(m, r)
           x == [g[p] EXCEPT !.state = "dead", !.born = 0]
<1>1. m \in Mounts /\ r \in Revs /\ p \in Pids
  <2>1. JobOK(job[t])
    BY DEF TypeInv, JobTypes
  <2> QED BY <2>1 DEF JobOK, WithRev, WithPid
<1>2. proc[p].mount = m
  BY DEF Names, JobNames, KnowsIn
<1>3. NextPid \in Pids /\ proc[NextPid].mount = None
  BY PidType DEF Names, Unborns
<1>4. NextPid # p
  BY <1>1, <1>2, <1>3, WorkersAssumption
<1>5. g \in [Pids -> Proc]
  BY <1>1, SpawnType
<1>6. g[p] = proc[p] /\ g[NextPid] = [state |-> "starting", rev |-> r, mount |-> m, born |-> crashes]
      /\ \A q \in Pids \ {NextPid} : g[q] = proc[q]
  BY <1>1, <1>4, SpawnIs
<1>7. proc' = [g EXCEPT ![p].state = "dead", ![p].born = 0]
  BY DEF SpawnedInstead
<1> HIDE DEF g
<1>8. proc' = [g EXCEPT ![p] = x]
  BY <1>1, <1>5, <1>7
<1>9. x.state = "dead" /\ x.born = 0 /\ x.mount = proc[p].mount /\ x.rev = proc[p].rev
  <2>1. g[p] \in Proc
    BY <1>1, <1>5
  <2> QED BY <1>6, <2>1 DEF Proc
<1> HIDE DEF x
<1>10. /\ proc'[p] = x
       /\ proc'[NextPid] = [state |-> "starting", rev |-> r, mount |-> m, born |-> crashes]
       /\ \A q \in Pids \ {NextPid, p} : proc'[q] = proc[q]
  BY <1>1, <1>3, <1>4, <1>5, <1>6, <1>8
<1> HIDE DEF m, r, p
<1>11. Grow
  BY <1>3, <1>9, <1>10 DEF Grow
<1>12. Unborns'
  <2>1. \A q \in Pids : proc'[q].state = "unused" => q # p /\ q # NextPid
    BY <1>9, <1>10
  <2> QED BY <1>10, <2>1 DEF Unborns, Names
<1> QED BY <1>1, <1>3, <1>4, <1>9, <1>10, <1>11, <1>12 DEF m, r, p

\* What start() hands to its caller names the worker.
LEMMA StartedNames ==
    ASSUME TypeInv, Names, Grow, NEW t \in Threads, NEW p \in Pids, Started(t, p),
           proc'[p].mount = job[t].mount
    PROVE  JobNames'
<1>1. CASE job[t].what = "request"
  <2> DEFINE f == [job[t] EXCEPT !.pc = "forward", !.rev = None, !.pid = p]
  <2>1. job' = [job EXCEPT ![t] = f]
    BY <1>1 DEF Started
  <2>2. f.pc = "forward" /\ f.pid = p /\ f.mount = job[t].mount
    <3>1. job[t] \in Job
      BY DEF TypeInv, JobTypes
    <3> QED BY <3>1 DEF Job
  <2> HIDE DEF f
  <2>3. KnowsIn(proc', f)
    BY <2>2 DEF KnowsIn
  <2> QED BY <2>1, <2>3, FrameNames
<1>2. CASE job[t].what # "request"
  BY <1>2, IdleNames DEF Started
<1> QED BY <1>1, <1>2

\* What stop() pops names the process it will terminate.
LEMMA PopNames ==
    ASSUME TypeInv, Names, proc' = proc, NEW t \in Threads, NEW what \in Doing, NEW m \in Mounts,
           record[m] # None, PopToStop(t, what, m)
    PROVE  JobNames' /\ RecordNames'
<1> DEFINE f == [pc |-> "terminate", what |-> what, mount |-> m, rev |-> record[m].rev, pid |-> record[m].pid]
<1>1. KnowsIn(proc', f)
  BY DEF Names, RecordNames, KnowsIn
<1>2. job' = [job EXCEPT ![t] = f]
  BY DEF PopToStop
<1> HIDE DEF f
<1>3. JobNames'
  BY <1>1, <1>2, FrameNames, StaysGrow
<1>4. RecordNames'
  BY DEF PopToStop, Names, RecordNames, TypeInv, ManagerTypes
<1> QED BY <1>3, <1>4

LEMMA CallNames ==
    ASSUME TypeInv, Names, Grow, NEW t \in Threads, NEW what \in Doing, NEW m \in Mounts, Calls(t, what, m)
    PROVE  JobNames'
<1> DEFINE f == [Idle EXCEPT !.pc = "ensure", !.what = what, !.mount = m]
<1>1. KnowsIn(proc', f)
  BY DEF KnowsIn, Idle
<1>2. job' = [job EXCEPT ![t] = f]
  BY DEF Calls
<1> HIDE DEF f
<1> QED BY <1>1, <1>2, FrameNames

\* One step of a thread.
LEMMA ThreadStepNames ==
    ASSUME TypeInv, Names, NEW t \in Threads, ThreadStep(t)
    PROVE  Names'
<1> USE DEF osVars, bootVars
<1>k. JobOK(job[t]) /\ job[t] \in Job /\ KnowsIn(proc, job[t])
  BY DEF TypeInv, JobTypes, Names, JobNames
<1>1. CASE StartFindsWorker(t)
  <2> DEFINE m == job[t].mount
  <2>1. m \in Mounts /\ record[m] # None /\ record[m].pid \in Pids
    BY <1>1, <1>k DEF StartFindsWorker, HasWorker, JobOK, TypeInv, ManagerTypes, Record
  <2>2. Grow /\ Unborns' /\ UNCHANGED <<proc, file, record>>
    BY <1>1, StaysGrow DEF StartFindsWorker
  <2>3. proc'[record[m].pid].mount = m
    BY <2>1, <2>2, KeepNames
  <2>4. JobNames'
    BY <1>1, <2>1, <2>2, <2>3, StartedNames DEF StartFindsWorker
  <2> QED BY <2>2, <2>4 DEF Names, RecordNames, FileNames
<1>2. CASE StartSpawns(t)
  <2> DEFINE m == job[t].mount
             r == job[t].rev
  <2>1. m \in Mounts /\ r \in Revs
    BY <1>2, <1>k DEF StartSpawns, JobOK, WithRev
  <2>2. record' = [record EXCEPT ![m] = None] /\ file' = file
    BY <1>2 DEF StartSpawns
  <2>3. CASE StartFailed(t) /\ UNCHANGED proc
    <3>1. Grow /\ Unborns'
      BY <2>3, StaysGrow
    <3>2. JobNames'
      BY <2>3, <3>1, IdleNames DEF StartFailed
    <3> QED BY <2>2, <2>3, <3>1, <3>2 DEF Names, RecordNames, FileNames, TypeInv, ManagerTypes
  <2>4. CASE /\ Unused # {} /\ proc' = Spawn(m, r)
             /\ \E how \in (IF Forkserver THEN {"fork", "wait"} ELSE {"wait"}) :
                   job' = [job EXCEPT ![t].pc = how, ![t].pid = NextPid]
    <3>1. Grow /\ Unborns'
      BY <2>1, <2>4, SpawnGrow
    <3>2. PICK how \in {"fork", "wait"} : job' = [job EXCEPT ![t].pc = how, ![t].pid = NextPid]
      BY <2>4, WorkersAssumption
    <3> DEFINE f == [job[t] EXCEPT !.pc = how, !.pid = NextPid]
    <3>3. job' = [job EXCEPT ![t] = f]
      BY <3>2 DEF TypeInv, JobTypes
    <3>4. f.pid = NextPid /\ f.mount = m /\ f.rev = r /\ f.pc # "forward"
      BY <1>k DEF Job
    <3>5. proc'[NextPid] = [state |-> "starting", rev |-> r, mount |-> m, born |-> crashes]
      BY <2>1, <2>4, SpawnIs
    <3> HIDE DEF f
    <3>6. KnowsIn(proc', f)
      BY <3>4, <3>5 DEF KnowsIn
    <3>7. JobNames'
      BY <3>1, <3>3, <3>6, FrameNames
    <3>8. RecordNames'
      BY <2>2, <3>1, KeepNames DEF RecordNames, TypeInv, ManagerTypes
    <3>9. FileNames'
      BY <2>2, <3>1, KeepNames DEF FileNames
    <3> QED BY <3>1, <3>7, <3>8, <3>9 DEF Names
  <2> QED BY <1>2, <2>3, <2>4 DEF StartSpawns
<1>3. CASE Ready(t)
  <2> DEFINE m == job[t].mount
             r == job[t].rev
             p == job[t].pid
  <2>1. m \in Mounts /\ r \in Revs /\ p \in Pids /\ proc[p].mount = m /\ proc[p].rev = r
    BY <1>3, <1>k DEF Ready, Starting, JobOK, WithRev, WithPid, KnowsIn
  <2>2. /\ proc'[p].state = "ready" /\ proc'[p].mount = proc[p].mount /\ proc'[p].rev = proc[p].rev
        /\ \A q \in Pids \ {p} : proc'[q] = proc[q]
    <3> DEFINE x == [proc[p] EXCEPT !.state = "ready"]
    <3>1. proc' = [proc EXCEPT ![p] = x]
      BY <1>3 DEF Ready, TypeInv, OsTypes
    <3>2. proc[p] \in Proc
      BY <2>1 DEF TypeInv, OsTypes
    <3>3. x.state = "ready" /\ x.mount = proc[p].mount /\ x.rev = proc[p].rev
      BY <3>2 DEF Proc
    <3> HIDE DEF x
    <3> QED BY <2>1, <3>1, <3>3 DEF TypeInv, OsTypes
  <2>3. Grow
    BY <2>2 DEF Grow
  <2>4. Unborns'
    BY <2>2 DEF Unborns, Names
  <2>5. JobNames'
    BY <1>3, <2>1, <2>2, <2>3, StartedNames DEF Ready
  <2>6. RecordNames'
    <3>1. record' = [record EXCEPT ![m] = [rev |-> r, pid |-> p]]
      BY <1>3 DEF Ready
    <3> QED BY <2>1, <2>2, <2>3, <3>1, KeepNames DEF RecordNames, TypeInv, ManagerTypes
  <2>7. FileNames'
    <3>1. file' = [file EXCEPT ![r] = [mount |-> m, pid |-> p]]
      BY <1>3 DEF Ready, Persisted
    <3> QED BY <2>1, <2>2, <2>3, <3>1, KeepNames DEF FileNames, TypeInv, OsTypes
  <2> QED BY <2>4, <2>5, <2>6, <2>7 DEF Names
<1>4. CASE NotReady(t)
  <2>1. job[t].pid \in Pids
    BY <1>4, <1>k DEF NotReady, Starting, JobOK, WithPid
  <2>2. Grow /\ Unborns' /\ UNCHANGED <<file, record>>
    BY <1>4, <2>1, KilledGrow DEF NotReady
  <2>3. JobNames'
    BY <1>4, <2>2, IdleNames DEF NotReady, StartFailed
  <2>4. RecordNames' /\ FileNames'
    BY <2>2, KeepNames DEF RecordNames, FileNames
  <2> QED BY <2>2, <2>3, <2>4 DEF Names
<1>5. CASE ForkMiss(t)
  <2>1. Unused # {} /\ job[t].pc \in {"fork", "wait"} /\ proc' = SpawnedInstead(t) /\ UNCHANGED <<file, record>>
    BY <1>5 DEF ForkMiss, Starting
  <2>2. /\ Grow /\ Unborns'
        /\ proc'[NextPid] = [state |-> "starting", rev |-> job[t].rev, mount |-> job[t].mount, born |-> crashes]
    BY <2>1, InsteadGrow
  <2>3. JobNames'
    <3> DEFINE f == [job[t] EXCEPT !.pc = "wait", !.pid = NextPid]
    <3>1. job' = [job EXCEPT ![t] = f]
      BY <1>5 DEF ForkMiss, TypeInv, JobTypes
    <3>2. f.pid = NextPid /\ f.mount = job[t].mount /\ f.rev = job[t].rev /\ f.pc = "wait"
      BY <1>k DEF Job
    <3> HIDE DEF f
    <3>3. KnowsIn(proc', f)
      BY <2>2, <3>2 DEF KnowsIn
    <3> QED BY <2>2, <3>1, <3>3, FrameNames
  <2>4. RecordNames' /\ FileNames'
    BY <2>1, <2>2, KeepNames DEF RecordNames, FileNames
  <2> QED BY <2>2, <2>3, <2>4 DEF Names
<1>6. CASE EnsureRunning(t)
  <2> DEFINE m == job[t].mount
  <2>1. m \in Mounts
    BY <1>6, <1>k DEF EnsureRunning, JobOK
  <2>2. Grow /\ Unborns' /\ UNCHANGED <<proc, file>>
    BY <1>6, StaysGrow DEF EnsureRunning
  <2>3. RecordNames' /\ FileNames'
    BY <1>6, <2>1, <2>2 DEF EnsureRunning, Names, RecordNames, FileNames, TypeInv, ManagerTypes
  <2>4. JobNames'
    <3>1. CASE HasWorker(m) /\ job' = [job EXCEPT ![t] = IF @.what = "request"
                                       THEN [@ EXCEPT !.pc = "forward", !.pid = record[m].pid] ELSE Idle]
      <4>1. CASE job[t].what = "request"
        <5> DEFINE f == [job[t] EXCEPT !.pc = "forward", !.pid = record[m].pid]
        <5>1. job' = [job EXCEPT ![t] = f]
          BY <3>1, <4>1 DEF TypeInv, JobTypes
        <5>2. f.pid = record[m].pid /\ f.mount = m /\ f.pc = "forward"
          BY <1>k DEF Job
        <5> HIDE DEF f
        <5>3. KnowsIn(proc', f)
          BY <2>1, <2>2, <3>1, <5>2 DEF KnowsIn, HasWorker, Names, RecordNames
        <5> QED BY <2>2, <5>1, <5>3, FrameNames
      <4>2. CASE job[t].what # "request"
        <5>1. job' = [job EXCEPT ![t] = Idle]
          BY <3>1, <4>2 DEF TypeInv, JobTypes
        <5> QED BY <2>2, <5>1, IdleNames
      <4> QED BY <4>1, <4>2
    <3>2. ASSUME NEW r \in Specs(m), job' = [job EXCEPT ![t].pc = "start", ![t].rev = r] PROVE JobNames'
      <4> DEFINE f == [job[t] EXCEPT !.pc = "start", !.rev = r]
      <4>1. job' = [job EXCEPT ![t] = f]
        BY <3>2 DEF TypeInv, JobTypes
      <4>2. f.pc = "start"
        BY <1>k DEF Job
      <4> HIDE DEF f
      <4>3. KnowsIn(proc', f)
        BY <4>2 DEF KnowsIn
      <4> QED BY <2>2, <4>1, <4>3, FrameNames
    <3>3. CASE job' = [job EXCEPT ![t] = Idle]
      BY <2>2, <3>3, IdleNames
    <3> QED BY <1>6, <3>1, <3>2, <3>3 DEF EnsureRunning
  <2> QED BY <2>2, <2>3, <2>4 DEF Names
<1>7. CASE Forward(t)
  <2>1. Grow /\ Unborns' /\ UNCHANGED <<proc, file, record>> /\ job' = [job EXCEPT ![t] = Idle]
    BY <1>7, StaysGrow DEF Forward
  <2>2. JobNames'
    BY <2>1, IdleNames
  <2> QED BY <2>1, <2>2 DEF Names, RecordNames, FileNames
<1>8. CASE Terminate(t)
  <2>1. job[t].pid \in Pids
    BY <1>8, <1>k DEF Terminate, JobOK, WithPid
  <2>2. Grow /\ Unborns' /\ UNCHANGED <<file, record>>
    BY <1>8, <2>1, KilledGrow DEF Terminate
  <2>3. JobNames'
    <3> DEFINE f == [job[t] EXCEPT !.pc = "persist"]
    <3>1. job' = [job EXCEPT ![t] = f]
      BY <1>8 DEF Terminate, TypeInv, JobTypes
    <3>2. f.pid = job[t].pid /\ f.mount = job[t].mount /\ f.rev = job[t].rev /\ f.pc = "persist"
      BY <1>k DEF Job
    <3>3. KnowsIn(proc', job[t]) /\ job[t].pc = "terminate"
      BY <1>8, <2>2, KeepNames DEF Terminate
    <3> HIDE DEF f
    <3>4. KnowsIn(proc', f)
      BY <3>2, <3>3 DEF KnowsIn
    <3> QED BY <2>2, <3>1, <3>4, FrameNames
  <2>4. RecordNames' /\ FileNames'
    BY <2>2, KeepNames DEF RecordNames, FileNames
  <2> QED BY <2>2, <2>3, <2>4 DEF Names
<1>9. CASE Persist(t)
  <2>1. /\ job[t].mount \in Mounts /\ job[t].pid \in Pids /\ job[t].rev \in Revs
        /\ proc[job[t].pid].mount = job[t].mount /\ proc[job[t].pid].rev = job[t].rev
    BY <1>9, <1>k DEF Persist, JobOK, WithRev, WithPid, KnowsIn
  <2>2. Grow /\ Unborns' /\ UNCHANGED <<proc, record>>
    BY <1>9, StaysGrow DEF Persist
  <2>3. FileNames'
    BY <1>9, <2>1, <2>2 DEF Persist, Persisted, Names, FileNames, TypeInv, OsTypes
  <2>4. JobNames'
    <3>1. CASE Calls(t, "call", job[t].mount)
      BY <2>1, <2>2, <3>1, CallNames DEF Doing
    <3>2. CASE job' = [job EXCEPT ![t] = Idle]
      BY <2>2, <3>2, IdleNames
    <3> QED BY <1>9, <3>1, <3>2 DEF Persist
  <2> QED BY <2>2, <2>3, <2>4 DEF Names, RecordNames
<1> QED BY <1>1, <1>2, <1>3, <1>4, <1>5, <1>6, <1>7, <1>8, <1>9 DEF ThreadStep

LEMMA RequestNames ==
    ASSUME TypeInv, Names, NEW t \in Clients, NEW m \in Mounts, Request(t, m) \/ Probe(t, m) \/ RestartTool(t, m)
    PROVE  Names'
<1> USE DEF osVars, bootVars
<1>0. t \in Threads
  BY DEF Threads
<1>1. Grow /\ Unborns' /\ UNCHANGED <<proc, file>>
  BY StaysGrow DEF Request, Probe, RestartTool
<1>2. JobNames' /\ RecordNames'
  <2>1. CASE UNCHANGED record /\ \E what \in Doing : Calls(t, what, m)
    <3>1. JobNames'
      BY <1>0, <1>1, <2>1, CallNames
    <3> QED BY <1>1, <2>1, <3>1 DEF Names, RecordNames
  <2>2. CASE record[m] # None /\ PopToStop(t, "call", m)
    BY <1>0, <1>1, <2>2, PopNames DEF Doing
  <2> QED BY <2>1, <2>2 DEF Request, Probe, RestartTool, Doing
<1> QED BY <1>1, <1>2 DEF Names, FileNames

LEMMA KeeperNames ==
    ASSUME TypeInv, Names,
           \/ StopUnmounted \/ Sweep
           \/ \E m \in Mounts, r \in Revs : Mount(m, r)
           \/ \E m \in Mounts : Unmount(m) \/ BootMount(m)
    PROVE  Names'
<1> USE DEF osVars, bootVars
<1>k. Keeper \in Threads /\ Sweeper \in Threads /\ JobOK(job[Keeper])
  BY KeeperIsThread DEF TypeInv, JobTypes
<1>0. Grow /\ Unborns' /\ proc' = proc /\ file' = file
  BY StaysGrow DEF StopUnmounted, Sweep, SweepBegins, SweepNext, Mount, Unmount, BootMount
<1>n. FileNames'
  BY <1>0 DEF Names, FileNames
<1>1. CASE StopUnmounted
  <2>1. job[Keeper].mount \in Mounts
    BY <1>1, <1>k DEF StopUnmounted, JobOK
  <2>2. CASE record[job[Keeper].mount] = None
    <3>1. JobNames'
      BY <1>0, <1>1, <1>k, <2>2, IdleNames DEF StopUnmounted
    <3> QED BY <1>0, <1>1, <1>n, <2>2, <3>1 DEF StopUnmounted, Names, RecordNames
  <2>3. CASE record[job[Keeper].mount] # None
    <3>1. JobNames' /\ RecordNames'
      BY <1>0, <1>1, <1>k, <2>1, <2>3, PopNames DEF StopUnmounted, Doing
    <3> QED BY <1>0, <1>n, <3>1 DEF Names
  <2> QED BY <2>2, <2>3
<1>2. CASE SweepBegins
  BY <1>0, <1>2 DEF SweepBegins, Names, RecordNames, FileNames, JobNames
<1>3. CASE SweepNext
  <2>1. PICK e \in todo : IF StillIdle(e[1], e[2]) THEN PopToStop(Sweeper, "sweep", e[1])
                          ELSE UNCHANGED <<record, job>>
    BY <1>3 DEF SweepNext
  <2>2. e[1] \in Mounts
    BY DEF TypeInv, ManagerTypes
  <2>3. JobNames' /\ RecordNames'
    <3>1. CASE StillIdle(e[1], e[2])
      BY <1>0, <1>k, <2>1, <2>2, <3>1, PopNames DEF StillIdle, Doing
    <3>2. CASE ~StillIdle(e[1], e[2])
      BY <1>0, <2>1, <3>2 DEF Names, RecordNames, JobNames
    <3> QED BY <3>1, <3>2
  <2> QED BY <1>0, <1>n, <2>3 DEF Names
<1>4. ASSUME NEW m \in Mounts, NEW r \in Revs, Mount(m, r) PROVE Names'
  <2> DEFINE f == [Idle EXCEPT !.pc = "start", !.what = "mount", !.mount = m, !.rev = r]
  <2>1. KnowsIn(proc', f)
    BY DEF KnowsIn, Idle
  <2>2. job' = [job EXCEPT ![Keeper] = f] /\ record' = record
    BY <1>4 DEF Mount
  <2> HIDE DEF f
  <2>3. JobNames'
    BY <1>0, <1>k, <2>1, <2>2, FrameNames
  <2> QED BY <1>0, <1>n, <2>2, <2>3 DEF Names, RecordNames
<1>5. ASSUME NEW m \in Mounts, Unmount(m) PROVE Names'
  <2> DEFINE f == [Idle EXCEPT !.pc = "stop", !.what = "unmount", !.mount = m]
  <2>1. KnowsIn(proc', f)
    BY DEF KnowsIn, Idle
  <2>2. job' = [job EXCEPT ![Keeper] = f] /\ record' = record
    BY <1>5 DEF Unmount
  <2> HIDE DEF f
  <2>3. JobNames'
    BY <1>0, <1>k, <2>1, <2>2, FrameNames
  <2> QED BY <1>0, <1>n, <2>2, <2>3 DEF Names, RecordNames
<1>6. ASSUME NEW m \in Mounts, BootMount(m) PROVE Names'
  <2> DEFINE f == [Idle EXCEPT !.pc = "start", !.what = "mount", !.mount = m, !.rev = wanted[m]]
  <2>1. KnowsIn(proc', f)
    BY DEF KnowsIn, Idle
  <2>2. job' = [job EXCEPT ![Keeper] = f] /\ record' = record
    BY <1>6 DEF BootMount
  <2> HIDE DEF f
  <2>3. JobNames'
    BY <1>0, <1>k, <2>1, <2>2, FrameNames
  <2> QED BY <1>0, <1>n, <2>2, <2>3 DEF Names, RecordNames
<1> QED BY <1>1, <1>2, <1>3, <1>4, <1>5, <1>6 DEF Sweep

LEMMA CrashNames == TypeInv /\ Names /\ Crash => Names'
<1> SUFFICES ASSUME TypeInv, Names, Crash PROVE Names'
  OBVIOUS
<1>1. PICK last \in {"ready", "dead"} :
         proc' = [p \in Pids |-> IF proc[p].state = "starting" THEN [proc[p] EXCEPT !.state = last] ELSE proc[p]]
  BY DEF Crash
<1>2. ASSUME NEW p \in Pids
      PROVE  /\ proc'[p].mount = proc[p].mount /\ proc'[p].rev = proc[p].rev
             /\ proc'[p].state = "unused" => proc[p].state = "unused"
  <2>1. proc[p] \in Proc
    BY DEF TypeInv, OsTypes
  <2> QED BY <1>1, <2>1 DEF Proc
<1>3. Grow /\ Unborns'
  BY <1>2 DEF Grow, Names, Unborns
<1>4. FileNames'
  BY <1>3, KeepNames DEF Crash, FileNames
<1>5. JobNames'
  BY DEF Crash, JobNames, KnowsIn, Idle
<1> QED BY <1>3, <1>4, <1>5 DEF Crash, Names, RecordNames

LEMMA AdoptNames == ASSUME TypeInv, Names, NEW r \in Revs, AdoptFile(r) PROVE Names'
<1>1. file[r] # None /\ file[r].mount \in Mounts /\ file[r].pid \in Pids
  BY DEF AdoptFile, TypeInv, OsTypes, File
<1>2. Grow /\ Unborns'
  BY <1>1, KilledGrow, StaysGrow DEF AdoptFile
<1>3. JobNames'
  BY <1>2, KeepNames DEF AdoptFile, JobNames
<1>4. FileNames'
  BY <1>1, <1>2, KeepNames DEF AdoptFile, Persisted, FileNames, TypeInv, OsTypes
<1>5. RecordNames'
  <2>1. CASE UNCHANGED record
    BY <1>2, <2>1, KeepNames DEF RecordNames
  <2>2. CASE record' = [record EXCEPT ![file[r].mount] = Adopted(r)]
    BY <1>1, <1>2, <2>2, KeepNames DEF Adopted, RecordNames, TypeInv, ManagerTypes
  <2> QED BY <2>1, <2>2 DEF AdoptFile
<1> QED BY <1>2, <1>3, <1>4, <1>5 DEF Names

LEMMA NamesStep == TypeInv /\ Names /\ [Next]_vars => Names'
<1> SUFFICES ASSUME TypeInv, Names, [Next]_vars PROVE Names'
  OBVIOUS
<1> USE DEF osVars, bootVars
<1>1. CASE \/ BootBegins \/ BootEnds \/ UNCHANGED vars
           \/ \E m \in Mounts : WindowMoves(m)
           \/ \E p \in Pids : FallsQuiet(p)
  BY <1>1 DEF BootBegins, BootEnds, WindowMoves, FallsQuiet, vars,
              Names, Unborns, RecordNames, FileNames, JobNames
<1>2. ASSUME NEW p \in Pids, Exit(p) PROVE Names'
  <2>1. Grow /\ Unborns' /\ UNCHANGED <<file, record, job>>
    BY <1>2, KilledGrow DEF Exit
  <2> QED BY <2>1, KeepNames DEF Names, RecordNames, FileNames, JobNames
<1>3. CASE Next
  BY <1>1, <1>2, <1>3, ThreadStepNames, RequestNames, KeeperNames, CrashNames, AdoptNames DEF Next, Bootstrap
<1> QED BY <1>1, <1>3

\* Records and spec files name a process of their own path and revision, and a proxy forwards
\* to a worker of the path it was asked for, over idle stops, restarts, forks, adoption and
\* any number of deaths of the control plane: no request reaches another app's worker.
THEOREM RecordsNameProcess == Spec => []RecordsNameTheirProcess
<1>1. TypeInv /\ Names => RecordsNameTheirProcess
  BY NamesImply
<1> QED BY TypeInit, TypeStep, NamesInit, NamesStep, <1>1, PTL DEF Spec

-----------------------------------------------------------------------------
(* Ownership.  The thread inside start() holds the lock and its path has no record, so no  *)
(* other thread gives the path a second worker; what a record names has become ready, so a *)
(* record is dropped only with a dead worker.                                              *)

Owning == {"fork", "wait", "terminate"}
Living(p) == proc[p].state \in {"starting", "ready"} /\ proc[p].born = crashes

WaitersHold == \A t \in Threads : job[t].pc \in {"fork", "wait"} => lock = t /\ record[job[t].mount] = None
RecordStates == \A m \in Mounts : record[m] # None => proc[record[m].pid].state \in {"ready", "dead"}
Births == \A p \in Pids : proc[p].born <= crashes
Owners == \A p \in Pids : Living(p) => Owned(p)

Control == WaitersHold /\ RecordStates /\ Births /\ Owners

LEMMA ControlInit == Init => Control
<1> SUFFICES ASSUME Init PROVE Control
  OBVIOUS
<1>1. WaitersHold
  BY DEF Init, WaitersHold, Idle
<1>2. RecordStates
  BY DEF Init, RecordStates
<1>3. Births
  BY DEF Init, Births, Unborn
<1>4. Owners
  BY DEF Init, Owners, Living, Unborn
<1> QED BY <1>1, <1>2, <1>3, <1>4 DEF Control

LEMMA OwnersImply == Control => LiveWorkersAreOwned
  BY DEF Control, Owners, Living, LiveWorkersAreOwned

\* Nobody waits inside start() while the lock is free, or but the one who holds it.
LEMMA OneWaiter ==
    ASSUME Control, NEW t \in Threads, lock \in {None, t}
    PROVE  \A u \in Threads \ {t} : job[u].pc \notin {"fork", "wait"}
  BY WorkersAssumption DEF Control, WaitersHold

\* A step that leaves the processes alone, drops at most a record without a living worker,
\* and moves at most one thread, which waits for no process before or after.
Harmless(t) ==
    /\ proc' = proc /\ crashes' = crashes /\ lock' = lock
    /\ job[t].pc \notin Owning /\ job'[t].pc \notin {"fork", "wait"}
    /\ \A u \in Threads \ {t} : job'[u] = job[u]
    /\ record' = record \/ \E m \in Mounts : ~HasWorker(m) /\ record' = [record EXCEPT ![m] = None]

LEMMA HarmlessControl ==
    ASSUME TypeInv, Control, NEW t \in Threads, Harmless(t)
    PROVE  Control'
<1>1. \A m \in Mounts : record'[m] \in {record[m], None}
  BY DEF Harmless, TypeInv, ManagerTypes
<1>2. WaitersHold'
  <2> SUFFICES ASSUME NEW u \in Threads, job'[u].pc \in {"fork", "wait"} PROVE lock' = u /\ record'[job'[u].mount] = None
    BY DEF WaitersHold
  <2>1. u # t /\ job'[u] = job[u]
    BY DEF Harmless
  <2>2. job[u].mount \in Mounts
    BY <2>1 DEF TypeInv, JobTypes, JobOK
  <2> QED BY <1>1, <2>1, <2>2 DEF Control, WaitersHold, Harmless
<1>3. RecordStates'
  BY <1>1 DEF Control, RecordStates, Harmless
<1>4. Births'
  BY DEF Control, Births, Harmless
<1>5. Owners'
  <2> SUFFICES ASSUME NEW q \in Pids, Living(q) PROVE Owned(q)'
    BY DEF Owners, Living, Harmless
  <2>1. CASE \E m \in Mounts : record[m] # None /\ record[m].pid = q
    <3>1. PICK m \in Mounts : record[m] # None /\ record[m].pid = q
      BY <2>1
    <3>2. HasWorker(m)
      BY <3>1 DEF Control, RecordStates, Living, HasWorker, Alive
    <3>3. record'[m] = record[m]
      BY <3>2 DEF Harmless, TypeInv, ManagerTypes
    <3> QED BY <3>1, <3>3 DEF Owned
  <2>2. CASE \E u \in Threads : job[u].pid = q /\ job[u].pc \in Owning
    <3>1. PICK u \in Threads : job[u].pid = q /\ job[u].pc \in Owning
      BY <2>2
    <3>2. job'[u] = job[u]
      BY <3>1 DEF Harmless
    <3> QED BY <3>1, <3>2 DEF Owned, Owning
  <2> QED BY <2>1, <2>2 DEF Control, Owners, Owned, Owning
<1> QED BY <1>2, <1>3, <1>4, <1>5 DEF Control

\* stop() takes the process of a record along.
LEMMA PopControl ==
    ASSUME TypeInv, Control, NEW t \in Threads, NEW what \in Doing, NEW m \in Mounts,
           lock = None, job[t].pc \notin Owning, record[m] # None, PopToStop(t, what, m),
           proc' = proc, crashes' = crashes, lock' = lock
    PROVE  Control'
<1>1. /\ record' = [record EXCEPT ![m] = None]
      /\ \A u \in Threads \ {t} : job'[u] = job[u]
      /\ job'[t].pc = "terminate" /\ job'[t].pid = record[m].pid
  BY DEF PopToStop, TypeInv, JobTypes
<1>2. WaitersHold'
  BY <1>1, OneWaiter DEF WaitersHold
<1>3. RecordStates' /\ Births'
  BY <1>1 DEF Control, RecordStates, Births, TypeInv, ManagerTypes
<1>4. Owners'
  <2> SUFFICES ASSUME NEW q \in Pids, Living(q) PROVE Owned(q)'
    BY DEF Owners, Living
  <2>1. CASE \E n \in Mounts : record[n] # None /\ record[n].pid = q
    <3>1. PICK n \in Mounts : record[n] # None /\ record[n].pid = q
      BY <2>1
    <3>2. CASE n = m
      BY <1>1, <3>1, <3>2 DEF Owned
    <3>3. CASE n # m
      <4>1. record'[n] = record[n]
        BY <1>1, <3>3 DEF TypeInv, ManagerTypes
      <4> QED BY <3>1, <4>1 DEF Owned
    <3> QED BY <3>2, <3>3
  <2>2. CASE \E u \in Threads : job[u].pid = q /\ job[u].pc \in Owning
    <3>1. PICK u \in Threads : job[u].pid = q /\ job[u].pc \in Owning
      BY <2>2
    <3>2. job'[u] = job[u]
      BY <1>1, <3>1
    <3> QED BY <3>1, <3>2 DEF Owned, Owning
  <2> QED BY <2>1, <2>2 DEF Control, Owners, Owned, Owning
<1> QED BY <1>2, <1>3, <1>4 DEF Control

\* A process ends; the thread that was to end it, if any, lets go of it.
LEMMA KilledControl ==
    ASSUME TypeInv, Names, Control, NEW p \in Pids, proc' = Killed(p),
           NEW t \in Threads, job[t].pc \in Owning => job[t].pid = p, job'[t].pc \notin {"fork", "wait"},
           \A u \in Threads \ {t} : job'[u] = job[u],
           record' = record, crashes' = crashes, lock' = lock \/ lock = t
    PROVE  Control'
<1>1. /\ proc'[p].state = "dead" /\ proc'[p].born = 0
      /\ \A q \in Pids \ {p} : proc'[q] = proc[q]
  BY KilledGrow
<1>2. WaitersHold'
  <2> SUFFICES ASSUME NEW u \in Threads, job'[u].pc \in {"fork", "wait"} PROVE lock' = u /\ record'[job'[u].mount] = None
    BY DEF WaitersHold
  <2>1. u # t /\ job'[u] = job[u]
    OBVIOUS
  <2> QED BY <2>1 DEF Control, WaitersHold
<1>3. RecordStates'
  <2>1. \A m \in Mounts : record[m] # None => record[m].pid \in Pids
    BY DEF TypeInv, ManagerTypes, Record
  <2> QED BY <1>1, <2>1 DEF Control, RecordStates
<1>4. Births'
  <2>1. crashes \in Nat
    BY WorkersAssumption DEF TypeInv, BootTypes
  <2> QED BY <1>1, <2>1 DEF Control, Births
<1>5. Owners'
  <2> SUFFICES ASSUME NEW q \in Pids, Living(q)' PROVE Owned(q)'
    BY DEF Owners
  <2>1. q # p /\ Living(q)
    BY <1>1 DEF Living
  <2>2. CASE \E m \in Mounts : record[m] # None /\ record[m].pid = q
    BY <2>2 DEF Owned
  <2>3. CASE \E u \in Threads : job[u].pid = q /\ job[u].pc \in Owning
    <3>1. PICK u \in Threads : job[u].pid = q /\ job[u].pc \in Owning
      BY <2>3
    <3>2. job'[u] = job[u]
      BY <2>1, <3>1
    <3> QED BY <3>1, <3>2 DEF Owned, Owning
  <2> QED BY <2>1, <2>2, <2>3 DEF Control, Owners, Owned, Owning
<1> QED BY <1>2, <1>3, <1>4, <1>5 DEF Control

\* start(): the lock is taken, the path has no record, and the new process has a waiter.
LEMMA SpawnControl ==
    ASSUME TypeInv, Names, Control, NEW t \in Threads, NEW m \in Mounts, NEW r \in Revs,
           Unused # {}, lock = None, job[t].pc = "start", ~HasWorker(m),
           record' = [record EXCEPT ![m] = None], proc' = Spawn(m, r), lock' = t, crashes' = crashes,
           job'[t].pc \in {"fork", "wait"}, job'[t].pid = NextPid, job'[t].mount = m,
           \A u \in Threads \ {t} : job'[u] = job[u]
    PROVE  Control'
<1>1. /\ NextPid \in Pids /\ proc[NextPid].state = "unused"
      /\ proc'[NextPid] = [state |-> "starting", rev |-> r, mount |-> m, born |-> crashes]
      /\ \A q \in Pids \ {NextPid} : proc'[q] = proc[q]
  BY PidType, SpawnIs
<1>2. record'[m] = None /\ \A n \in Mounts \ {m} : record'[n] = record[n]
  BY DEF TypeInv, ManagerTypes
<1>3. WaitersHold'
  BY <1>2, OneWaiter DEF WaitersHold
<1>4. RecordStates'
  <2> SUFFICES ASSUME NEW n \in Mounts, record'[n] # None PROVE proc'[record'[n].pid].state \in {"ready", "dead"}
    BY DEF RecordStates
  <2>1. record'[n] = record[n] /\ record[n].pid \in Pids /\ proc[record[n].pid].state \in {"ready", "dead"}
    BY <1>2 DEF TypeInv, ManagerTypes, Record, Control, RecordStates
  <2>2. record[n].pid # NextPid
    BY <1>1, <2>1
  <2> QED BY <1>1, <2>1, <2>2
<1>5. Births'
  <2>1. crashes \in Nat
    BY WorkersAssumption DEF TypeInv, BootTypes
  <2>2. proc'[NextPid].born = crashes
    BY <1>1
  <2> QED BY <1>1, <2>1, <2>2 DEF Control, Births
<1>6. Owners'
  <2> SUFFICES ASSUME NEW q \in Pids, Living(q)' PROVE Owned(q)'
    BY DEF Owners
  <2>1. CASE q = NextPid
    BY <2>1 DEF Owned
  <2>2. CASE q # NextPid
    <3>1. Living(q)
      BY <1>1, <2>2 DEF Living
    <3>2. CASE \E n \in Mounts : record[n] # None /\ record[n].pid = q
      <4>1. PICK n \in Mounts : record[n] # None /\ record[n].pid = q
        BY <3>2
      <4>2. HasWorker(n)
        BY <3>1, <4>1 DEF Control, RecordStates, Living, HasWorker, Alive
      <4>3. record'[n] = record[n]
        BY <1>2, <4>2
      <4> QED BY <4>1, <4>3 DEF Owned
    <3>3. CASE \E u \in Threads : job[u].pid = q /\ job[u].pc \in Owning
      <4>1. PICK u \in Threads : job[u].pid = q /\ job[u].pc \in Owning
        BY <3>3
      <4>2. job'[u] = job[u]
        BY <4>1 DEF Owning
      <4> QED BY <4>1, <4>2 DEF Owned, Owning
    <3> QED BY <3>1, <3>2, <3>3 DEF Control, Owners, Owned, Owning
  <2> QED BY <2>1, <2>2
<1> QED BY <1>3, <1>4, <1>5, <1>6 DEF Control

\* The ready event: the record takes the process over from the thread that waited.
LEMMA ReadyControl == ASSUME TypeInv, Control, NEW t \in Threads, Ready(t) PROVE Control'
<1> DEFINE m == job[t].mount
           p == job[t].pid
           x == [proc[p] EXCEPT !.state = "ready"]
<1>1. m \in Mounts /\ p \in Pids /\ job[t].rev \in Revs
  <2>1. JobOK(job[t])
    BY DEF TypeInv, JobTypes
  <2> QED BY <2>1 DEF Ready, Starting, JobOK, WithRev, WithPid
<1>2. lock = t /\ record[m] = None /\ lock' = None /\ crashes' = crashes
  BY DEF Ready, Starting, Control, WaitersHold, Started
<1>3. x.state = "ready" /\ x.born = proc[p].born
  <2>1. proc[p] \in Proc
    BY <1>1 DEF TypeInv, OsTypes
  <2> QED BY <2>1 DEF Proc
<1>4. proc' = [proc EXCEPT ![p] = x]
  BY DEF Ready, TypeInv, OsTypes
<1> HIDE DEF x
<1>5. proc'[p] = x /\ \A q \in Pids \ {p} : proc'[q] = proc[q]
  BY <1>1, <1>4 DEF TypeInv, OsTypes
<1>6. record'[m] # None /\ record'[m].pid = p /\ \A n \in Mounts \ {m} : record'[n] = record[n]
  <2>1. record' = [record EXCEPT ![m] = [rev |-> job[t].rev, pid |-> p]]
    BY DEF Ready
  <2>2. [rev |-> job[t].rev, pid |-> p] \in Record
    BY <1>1 DEF Record
  <2> QED BY <1>1, <2>1, <2>2, WorkersAssumption DEF TypeInv, ManagerTypes
<1>7. job'[t].pc \in {"forward", "idle"} /\ \A u \in Threads \ {t} : job'[u] = job[u]
  <2>1. job[t] \in Job
    BY DEF TypeInv, JobTypes
  <2>2. [job[t] EXCEPT !.pc = "forward", !.rev = None, !.pid = p].pc = "forward"
    BY <2>1 DEF Job
  <2> QED BY <2>2 DEF Ready, Started, TypeInv, JobTypes, Idle
<1> HIDE DEF m, p
<1>8. WaitersHold'
  BY <1>2, <1>7, OneWaiter DEF WaitersHold
<1>9. RecordStates'
  <2>1. \A n \in Mounts : record[n] # None => record[n].pid \in Pids
    BY DEF TypeInv, ManagerTypes, Record
  <2> QED BY <1>3, <1>5, <1>6, <2>1 DEF Control, RecordStates
<1>10. Births'
  BY <1>1, <1>2, <1>3, <1>5 DEF Control, Births
<1>11. Owners'
  <2> SUFFICES ASSUME NEW q \in Pids, Living(q)' PROVE Owned(q)'
    BY DEF Owners
  <2>1. CASE q = p
    BY <1>1, <1>6, <2>1 DEF Owned
  <2>2. CASE q # p
    <3>1. Living(q)
      BY <1>2, <1>5, <2>2 DEF Living
    <3>2. CASE \E n \in Mounts : record[n] # None /\ record[n].pid = q
      BY <1>2, <1>6, <3>2 DEF Owned
    <3>3. CASE \E u \in Threads : job[u].pid = q /\ job[u].pc \in Owning
      <4>1. PICK u \in Threads : job[u].pid = q /\ job[u].pc \in Owning
        BY <3>3
      <4>2. u # t
        BY <2>2, <4>1 DEF p
      <4> QED BY <1>7, <4>1, <4>2 DEF Owned, Owning
    <3> QED BY <3>1, <3>2, <3>3 DEF Control, Owners, Owned, Owning
  <2> QED BY <2>1, <2>2
<1> QED BY <1>8, <1>9, <1>10, <1>11 DEF Control

\* The waiter of a forked process goes on with the one spawned instead.
LEMMA ForkMissControl == ASSUME TypeInv, Names, Control, NEW t \in Threads, ForkMiss(t) PROVE Control'
<1> DEFINE p == job[t].pid
<1>1. /\ p \in Pids /\ NextPid \in Pids /\ NextPid # p
      /\ proc'[NextPid].state = "starting" /\ proc'[NextPid].born = crashes
      /\ proc'[p].state = "dead" /\ proc'[p].born = 0
      /\ \A q \in Pids \ {NextPid, p} : proc'[q] = proc[q]
  <2>1. Unused # {} /\ job[t].pc \in {"fork", "wait"} /\ proc' = SpawnedInstead(t)
    BY DEF ForkMiss, Starting
  <2>2. proc'[NextPid] = [state |-> "starting", rev |-> job[t].rev, mount |-> job[t].mount, born |-> crashes]
    BY <2>1, InsteadGrow
  <2>3. proc'[NextPid].state = "starting" /\ proc'[NextPid].born = crashes
    BY <2>2
  <2> QED BY <2>1, <2>3, InsteadGrow
<1>2. record' = record /\ lock' = lock /\ crashes' = crashes /\ lock = t
  BY DEF ForkMiss, Starting, bootVars
<1>3. /\ \A u \in Threads \ {t} : job'[u] = job[u]
      /\ job'[t].pc = "wait" /\ job'[t].pid = NextPid /\ job'[t].mount = job[t].mount
  <2>1. job[t] \in Job /\ [job[t] EXCEPT !.pc = "wait", !.pid = NextPid].pc = "wait"
        /\ [job[t] EXCEPT !.pc = "wait", !.pid = NextPid].pid = NextPid
        /\ [job[t] EXCEPT !.pc = "wait", !.pid = NextPid].mount = job[t].mount
    BY DEF TypeInv, JobTypes, Job
  <2>2. job' = [job EXCEPT ![t] = [job[t] EXCEPT !.pc = "wait", !.pid = NextPid]]
    BY DEF ForkMiss, TypeInv, JobTypes
  <2> QED BY <2>1, <2>2 DEF TypeInv, JobTypes
<1>4. Unused # {} /\ proc[NextPid].state = "unused"
  BY PidType DEF ForkMiss
<1>5. WaitersHold'
  BY <1>2, <1>3 DEF Control, WaitersHold, ForkMiss, Starting
<1>6. RecordStates'
  <2> SUFFICES ASSUME NEW n \in Mounts, record[n] # None PROVE proc'[record[n].pid].state \in {"ready", "dead"}
    BY <1>2 DEF RecordStates
  <2>1. record[n].pid \in Pids /\ proc[record[n].pid].state \in {"ready", "dead"}
    BY DEF TypeInv, ManagerTypes, Record, Control, RecordStates
  <2>2. record[n].pid # NextPid
    BY <1>4, <2>1
  <2> QED BY <1>1, <2>1, <2>2
<1>7. Births'
  <2>1. crashes \in Nat
    BY WorkersAssumption DEF TypeInv, BootTypes
  <2> QED BY <1>1, <1>2, <2>1 DEF Control, Births
<1>8. Owners'
  <2> SUFFICES ASSUME NEW q \in Pids, Living(q)' PROVE Owned(q)'
    BY DEF Owners
  <2>1. CASE q = NextPid
    BY <1>3, <2>1 DEF Owned
  <2>2. CASE q # NextPid
    <3>1. q # p /\ Living(q)
      BY <1>1, <1>2, <2>2 DEF Living
    <3>2. CASE \E n \in Mounts : record[n] # None /\ record[n].pid = q
      BY <1>2, <3>2 DEF Owned
    <3>3. CASE \E u \in Threads : job[u].pid = q /\ job[u].pc \in Owning
      BY <1>3, <3>1, <3>3 DEF Owned, Owning
    <3> QED BY <3>1, <3>2, <3>3 DEF Control, Owners, Owned, Owning
  <2> QED BY <2>1, <2>2
<1> QED BY <1>5, <1>6, <1>7, <1>8 DEF Control

\* What a dead control plane leaves behind was not started by the next one.
LEMMA CrashControl == TypeInv /\ Control /\ Crash => Control'
<1> SUFFICES ASSUME TypeInv, Control, Crash PROVE Control'
  OBVIOUS
<1>1. crashes' = crashes + 1 /\ crashes \in Nat
  BY WorkersAssumption DEF Crash, TypeInv, BootTypes
<1>2. ASSUME NEW q \in Pids PROVE proc'[q].born = proc[q].born /\ proc[q].born \in Nat
  <2>1. PICK last \in {"ready", "dead"} :
           proc' = [p \in Pids |-> IF proc[p].state = "starting" THEN [proc[p] EXCEPT !.state = last] ELSE proc[p]]
    BY DEF Crash
  <2>2. proc[q] \in Proc
    BY DEF TypeInv, OsTypes
  <2>3. [proc[q] EXCEPT !.state = last].born = proc[q].born
    BY <2>2 DEF Proc
  <2> QED BY <2>1, <2>2, <2>3, WorkersAssumption DEF Proc
<1>3. Births' /\ Owners'
  BY <1>1, <1>2 DEF Control, Births, Owners, Living
<1>4. WaitersHold' /\ RecordStates'
  BY DEF Crash, WaitersHold, RecordStates, Idle
<1> QED BY <1>3, <1>4 DEF Control

\* Adoption fills a path that has no record, or reaps.
LEMMA AdoptControl == ASSUME TypeInv, Names, Control, NEW r \in Revs, AdoptFile(r) PROVE Control'
<1> DEFINE m == file[r].mount
           p == file[r].pid
<1>1. m \in Mounts /\ p \in Pids
  BY DEF AdoptFile, TypeInv, OsTypes, File
<1>2. lock = None /\ UNCHANGED <<lock, job, crashes>>
  BY DEF AdoptFile, Unlocked
<1>3. WaitersHold'
  BY <1>2, WorkersAssumption DEF Control, WaitersHold
<1>4. CASE proc' = Killed(p) /\ record' = record
  <2>1. /\ proc'[p].state = "dead" /\ proc'[p].born = 0
        /\ \A q \in Pids \ {p} : proc'[q] = proc[q]
    BY <1>1, <1>4, KilledGrow
  <2>2. RecordStates'
    <3>1. \A n \in Mounts : record[n] # None => record[n].pid \in Pids
      BY DEF TypeInv, ManagerTypes, Record
    <3> QED BY <1>4, <2>1, <3>1 DEF Control, RecordStates
  <2>3. Births'
    <3>1. crashes \in Nat
      BY WorkersAssumption DEF TypeInv, BootTypes
    <3> QED BY <1>2, <2>1, <3>1 DEF Control, Births
  <2>4. Owners'
    BY <1>2, <1>4, <2>1 DEF Control, Owners, Living, Owned
  <2> QED BY <1>3, <2>2, <2>3, <2>4 DEF Control
<1>5. CASE proc' = proc /\ record' = record
  BY <1>2, <1>3, <1>5 DEF Control, RecordStates, Births, Owners, Living, Owned
<1>6. CASE proc' = proc /\ record[m] = None /\ Alive(p) /\ record' = [record EXCEPT ![m] = Adopted(r)]
  <2>1. record'[m].pid = p /\ \A n \in Mounts \ {m} : record'[n] = record[n]
    BY <1>1, <1>6 DEF Adopted, TypeInv, ManagerTypes
  <2>2. RecordStates'
    BY <1>1, <1>6, <2>1 DEF Control, RecordStates, Alive
  <2>3. Births'
    BY <1>2, <1>6 DEF Control, Births
  <2>4. Owners'
    <3> SUFFICES ASSUME NEW q \in Pids, Living(q) PROVE Owned(q)'
      BY <1>2, <1>6 DEF Owners, Living
    <3>1. CASE \E n \in Mounts : record[n] # None /\ record[n].pid = q
      <4>1. PICK n \in Mounts : record[n] # None /\ record[n].pid = q
        BY <3>1
      <4>2. n # m
        BY <1>6, <4>1
      <4> QED BY <2>1, <4>1, <4>2 DEF Owned
    <3>2. CASE \E u \in Threads : job[u].pid = q /\ job[u].pc \in Owning
      BY <1>2, <3>2 DEF Owned, Owning
    <3> QED BY <3>1, <3>2 DEF Control, Owners, Owned, Owning
  <2> QED BY <1>3, <2>2, <2>3, <2>4 DEF Control
<1> QED BY <1>4, <1>5, <1>6 DEF AdoptFile

LEMMA ThreadStepControl ==
    ASSUME TypeInv, Names, Control, NEW t \in Threads, ThreadStep(t)
    PROVE  Control'
<1> USE DEF osVars, bootVars
<1>k. JobOK(job[t]) /\ job[t] \in Job
  BY DEF TypeInv, JobTypes
<1>f. \A f : job' = [job EXCEPT ![t] = f] => job'[t] = f /\ \A u \in Threads \ {t} : job'[u] = job[u]
  BY DEF TypeInv, JobTypes
<1>i. Idle.pc = "idle"
  BY DEF Idle
<1>1. CASE StartFindsWorker(t)
  <2>1. Harmless(t)
    <3>1. [job[t] EXCEPT !.pc = "forward", !.rev = None, !.pid = record[job[t].mount].pid].pc = "forward"
      BY <1>k DEF Job
    <3>2. \A u \in Threads \ {t} : job'[u] = job[u]
      BY <1>1, <1>f DEF StartFindsWorker, Started
    <3>3. job'[t].pc \in {"forward", "idle"}
      BY <1>1, <1>i, <3>1 DEF StartFindsWorker, Started, TypeInv, JobTypes
    <3> QED BY <1>1, <3>2, <3>3 DEF StartFindsWorker, Started, Harmless, Owning
  <2> QED BY <2>1, HarmlessControl
<1>2. CASE StartSpawns(t)
  <2> DEFINE m == job[t].mount
             r == job[t].rev
  <2>1. /\ m \in Mounts /\ r \in Revs /\ ~HasWorker(m) /\ lock = None /\ job[t].pc = "start"
        /\ record' = [record EXCEPT ![m] = None] /\ crashes' = crashes
    BY <1>2, <1>k DEF StartSpawns, Replaceable, Unlocked, JobOK, WithRev
  <2>2. CASE StartFailed(t) /\ UNCHANGED <<proc, lock>>
    <3>1. Harmless(t)
      BY <1>f, <1>i, <2>1, <2>2 DEF StartFailed, Harmless, Owning
    <3> QED BY <3>1, HarmlessControl
  <2>3. CASE /\ Unused # {} /\ proc' = Spawn(m, r) /\ lock' = t
             /\ \E how \in (IF Forkserver THEN {"fork", "wait"} ELSE {"wait"}) :
                   job' = [job EXCEPT ![t].pc = how, ![t].pid = NextPid]
    <3>1. PICK how \in {"fork", "wait"} : job' = [job EXCEPT ![t].pc = how, ![t].pid = NextPid]
      BY <2>3, WorkersAssumption
    <3> DEFINE f == [job[t] EXCEPT !.pc = how, !.pid = NextPid]
    <3>2. job' = [job EXCEPT ![t] = f]
      BY <3>1 DEF TypeInv, JobTypes
    <3>3. f.pc \in {"fork", "wait"} /\ f.pid = NextPid /\ f.mount = m
      BY <1>k DEF Job
    <3> HIDE DEF f
    <3>4. job'[t] = f /\ \A u \in Threads \ {t} : job'[u] = job[u]
      BY <1>f, <3>2
    <3> QED BY <2>1, <2>3, <3>3, <3>4, SpawnControl
  <2> QED BY <1>2, <2>2, <2>3 DEF StartSpawns
<1>3. CASE Ready(t)
  BY <1>3, ReadyControl
<1>4. CASE NotReady(t)
  <2>1. job[t].pid \in Pids /\ lock = t /\ proc' = Killed(job[t].pid) /\ UNCHANGED <<record, crashes>>
    BY <1>4, <1>k DEF NotReady, Starting, JobOK, WithPid
  <2>2. job'[t] = Idle /\ \A u \in Threads \ {t} : job'[u] = job[u]
    BY <1>4, <1>f DEF NotReady, StartFailed
  <2> QED BY <1>i, <2>1, <2>2, KilledControl
<1>5. CASE ForkMiss(t)
  BY <1>5, ForkMissControl
<1>6. CASE EnsureRunning(t)
  <2> DEFINE m == job[t].mount
  <2>1. m \in Mounts /\ job[t].pc = "ensure"
    BY <1>6, <1>k DEF EnsureRunning, JobOK
  <2>2. job'[t].pc \in {"forward", "start", "idle"} /\ \A u \in Threads \ {t} : job'[u] = job[u]
    <3>1. CASE HasWorker(m) /\ job' = [job EXCEPT ![t] = IF @.what = "request"
                                       THEN [@ EXCEPT !.pc = "forward", !.pid = record[m].pid] ELSE Idle]
      <4>1. [job[t] EXCEPT !.pc = "forward", !.pid = record[m].pid].pc = "forward"
        BY <1>k DEF Job
      <4> QED BY <1>i, <3>1, <4>1 DEF TypeInv, JobTypes
    <3>2. ASSUME NEW r \in Specs(m), job' = [job EXCEPT ![t].pc = "start", ![t].rev = r]
          PROVE  job'[t].pc = "start" /\ \A u \in Threads \ {t} : job'[u] = job[u]
      <4>1. [job[t] EXCEPT !.pc = "start", !.rev = r].pc = "start"
        BY <1>k DEF Job
      <4>2. job' = [job EXCEPT ![t] = [job[t] EXCEPT !.pc = "start", !.rev = r]]
        BY <3>2 DEF TypeInv, JobTypes
      <4> QED BY <4>1, <4>2 DEF TypeInv, JobTypes
    <3>3. CASE job' = [job EXCEPT ![t] = Idle]
      BY <1>f, <1>i, <3>3
    <3> QED BY <1>6, <3>1, <3>2, <3>3 DEF EnsureRunning
  <2>3. Harmless(t)
    BY <1>6, <2>1, <2>2 DEF EnsureRunning, Harmless, Owning
  <2> QED BY <2>3, HarmlessControl
<1>7. CASE Forward(t)
  <2>1. Harmless(t)
    BY <1>7, <1>f, <1>i DEF Forward, Harmless, Owning
  <2> QED BY <2>1, HarmlessControl
<1>8. CASE Terminate(t)
  <2>1. job[t].pid \in Pids /\ proc' = Killed(job[t].pid) /\ UNCHANGED <<record, crashes, lock>>
    BY <1>8, <1>k DEF Terminate, JobOK, WithPid
  <2>2. job'[t].pc = "persist" /\ \A u \in Threads \ {t} : job'[u] = job[u]
    <3>1. [job[t] EXCEPT !.pc = "persist"].pc = "persist"
      BY <1>k DEF Job
    <3>2. job' = [job EXCEPT ![t] = [job[t] EXCEPT !.pc = "persist"]]
      BY <1>8 DEF Terminate, TypeInv, JobTypes
    <3> QED BY <1>f, <3>1, <3>2
  <2> QED BY <2>1, <2>2, KilledControl
<1>9. CASE Persist(t)
  <2>1. Harmless(t)
    <3>1. [Idle EXCEPT !.pc = "ensure", !.what = "call", !.mount = job[t].mount].pc = "ensure"
      BY DEF Idle
    <3>2. job'[t].pc \in {"ensure", "idle"} /\ \A u \in Threads \ {t} : job'[u] = job[u]
      BY <1>9, <1>f, <1>i, <3>1 DEF Persist, Calls
    <3> QED BY <1>9, <3>2 DEF Persist, Harmless, Owning
  <2> QED BY <2>1, HarmlessControl
<1> QED BY <1>1, <1>2, <1>3, <1>4, <1>5, <1>6, <1>7, <1>8, <1>9 DEF ThreadStep

LEMMA RequestControl ==
    ASSUME TypeInv, Control, NEW t \in Clients, NEW m \in Mounts, Request(t, m) \/ Probe(t, m) \/ RestartTool(t, m)
    PROVE  Control'
<1> USE DEF osVars, bootVars
<1>0. t \in Threads /\ job[t].pc = "idle"
  BY DEF Threads, Request, Probe, RestartTool, Idle
<1>1. CASE record' = record /\ \E what \in Doing : Calls(t, what, m)
  <2>1. PICK what \in Doing : Calls(t, what, m)
    BY <1>1
  <2>2. [Idle EXCEPT !.pc = "ensure", !.what = what, !.mount = m].pc = "ensure"
    BY DEF Idle
  <2>3. Harmless(t)
    BY <1>0, <1>1, <2>1, <2>2 DEF Calls, Harmless, Owning, Request, Probe, RestartTool, TypeInv, JobTypes
  <2> QED BY <1>0, <2>3, HarmlessControl
<1>2. CASE RestartTool(t, m) /\ record[m] # None
  BY <1>0, <1>2, PopControl DEF RestartTool, Unlocked, Doing, Owning
<1> QED BY <1>1, <1>2 DEF Request, Probe, RestartTool, Doing

LEMMA KeeperControl ==
    ASSUME TypeInv, Control,
           \/ StopUnmounted \/ Sweep
           \/ \E m \in Mounts, r \in Revs : Mount(m, r)
           \/ \E m \in Mounts : Unmount(m) \/ BootMount(m)
    PROVE  Control'
<1> USE DEF osVars, bootVars
<1>k. Keeper \in Threads /\ Sweeper \in Threads /\ JobOK(job[Keeper]) /\ Idle.pc = "idle"
  BY KeeperIsThread DEF TypeInv, JobTypes, Idle
<1>1. CASE StopUnmounted
  <2>1. job[Keeper].mount \in Mounts /\ job[Keeper].pc = "stop"
    BY <1>1, <1>k DEF StopUnmounted, JobOK
  <2>2. CASE record[job[Keeper].mount] = None
    <3>1. Harmless(Keeper)
      BY <1>1, <1>k, <2>1, <2>2 DEF StopUnmounted, Harmless, Owning, TypeInv, JobTypes
    <3> QED BY <1>k, <3>1, HarmlessControl
  <2>3. CASE record[job[Keeper].mount] # None
    BY <1>1, <1>k, <2>1, <2>3, PopControl DEF StopUnmounted, Unlocked, Doing, Owning
  <2> QED BY <2>2, <2>3
<1>2. CASE SweepBegins
  BY <1>2 DEF SweepBegins, Control, WaitersHold, RecordStates, Births, Owners, Living, Owned
<1>3. CASE SweepNext
  <2>1. PICK e \in todo : IF StillIdle(e[1], e[2]) THEN PopToStop(Sweeper, "sweep", e[1])
                          ELSE UNCHANGED <<record, job>>
    BY <1>3 DEF SweepNext
  <2>2. e[1] \in Mounts /\ lock = None /\ job[Sweeper].pc = "idle" /\ UNCHANGED <<proc, lock, crashes>>
    BY <1>3 DEF SweepNext, Unlocked, Idle, TypeInv, ManagerTypes
  <2>3. CASE StillIdle(e[1], e[2])
    BY <1>k, <2>1, <2>2, <2>3, PopControl DEF StillIdle, Doing, Owning
  <2>4. CASE ~StillIdle(e[1], e[2])
    BY <2>1, <2>2, <2>4 DEF Control, WaitersHold, RecordStates, Births, Owners, Living, Owned
  <2> QED BY <2>3, <2>4
<1>4. ASSUME NEW m \in Mounts, NEW r \in Revs, Mount(m, r) PROVE Control'
  <2>1. [Idle EXCEPT !.pc = "start", !.what = "mount", !.mount = m, !.rev = r].pc = "start"
    BY DEF Idle
  <2>2. Harmless(Keeper)
    BY <1>4, <1>k, <2>1 DEF Mount, Harmless, Owning, TypeInv, JobTypes
  <2> QED BY <1>k, <2>2, HarmlessControl
<1>5. ASSUME NEW m \in Mounts, Unmount(m) PROVE Control'
  <2>1. [Idle EXCEPT !.pc = "stop", !.what = "unmount", !.mount = m].pc = "stop"
    BY DEF Idle
  <2>2. Harmless(Keeper)
    BY <1>5, <1>k, <2>1 DEF Unmount, Harmless, Owning, TypeInv, JobTypes
  <2> QED BY <1>k, <2>2, HarmlessControl
<1>6. ASSUME NEW m \in Mounts, BootMount(m) PROVE Control'
  <2>1. [Idle EXCEPT !.pc = "start", !.what = "mount", !.mount = m, !.rev = wanted[m]].pc = "start"
    BY DEF Idle
  <2>2. Harmless(Keeper)
    BY <1>6, <1>k, <2>1 DEF BootMount, Harmless, Owning, TypeInv, JobTypes
  <2> QED BY <1>k, <2>2, HarmlessControl
<1> QED BY <1>1, <1>2, <1>3, <1>4, <1>5, <1>6 DEF Sweep

LEMMA ExitControl == ASSUME TypeInv, Names, Control, NEW p \in Pids, Exit(p) PROVE Control'
<1>1. proc' = Killed(p) /\ UNCHANGED <<record, lock, job, crashes>>
  BY DEF Exit, bootVars
<1>2. /\ proc'[p].state = "dead" /\ proc'[p].born = 0
      /\ \A q \in Pids \ {p} : proc'[q] = proc[q]
  BY <1>1, KilledGrow
<1>3. RecordStates'
  <2>1. \A n \in Mounts : record[n] # None => record[n].pid \in Pids
    BY DEF TypeInv, ManagerTypes, Record
  <2> QED BY <1>1, <1>2, <2>1 DEF Control, RecordStates
<1>4. Births'
  <2>1. crashes \in Nat
    BY WorkersAssumption DEF TypeInv, BootTypes
  <2> QED BY <1>1, <1>2, <2>1 DEF Control, Births
<1>5. WaitersHold' /\ Owners'
  BY <1>1, <1>2 DEF Control, WaitersHold, Owners, Living, Owned
<1> QED BY <1>3, <1>4, <1>5 DEF Control

LEMMA ControlStep == TypeInv /\ Names /\ Control /\ [Next]_vars => Control'
<1> SUFFICES ASSUME TypeInv, Names, Control, [Next]_vars PROVE Control'
  OBVIOUS
<1>1. CASE \/ BootBegins \/ BootEnds \/ UNCHANGED vars
           \/ \E m \in Mounts : WindowMoves(m)
           \/ \E p \in Pids : FallsQuiet(p)
  BY <1>1 DEF BootBegins, BootEnds, WindowMoves, FallsQuiet, vars, osVars, bootVars,
              Control, WaitersHold, RecordStates, Births, Owners, Living, Owned
<1>2. CASE Next
  BY <1>1, <1>2, ThreadStepControl, RequestControl, KeeperControl, CrashControl, AdoptControl, ExitControl
     DEF Next, Bootstrap
<1> QED BY <1>1, <1>2

\* A living worker that this control plane started is named by a record, awaited inside
\* start(), or about to be stopped: however many threads interleave in start, stop,
\* ensure_running and the sweep, none of them loses a process.
THEOREM WorkersAreOwned == Spec => []LiveWorkersAreOwned
<1>1. Control => LiveWorkersAreOwned
  BY OwnersImply
<1> QED BY TypeInit, TypeStep, NamesInit, NamesStep, ControlInit, ControlStep, <1>1, PTL DEF Spec

LEMMA PathsImply == TypeInv /\ Names /\ Control => OneWorkerPerPath
<1> SUFFICES ASSUME TypeInv, Names, Control,
                    NEW p \in Pids, NEW q \in Pids, Living(p), Living(q), proc[p].mount = proc[q].mount,
                    \A t \in Threads : job[t].pid \in {p, q} => job[t].pc # "terminate"
             PROVE  p = q
  BY DEF OneWorkerPerPath, Living
<1> DEFINE Named(x) == \E m \in Mounts : record[m] # None /\ record[m].pid = x
           Waited(x) == \E t \in Threads : job[t].pid = x /\ job[t].pc \in {"fork", "wait"}
<1>1. (Named(p) \/ Waited(p)) /\ (Named(q) \/ Waited(q))
  BY DEF Control, Owners, Owned
<1>2. \A x \in {p, q} : Named(x) => record[proc[x].mount] # None /\ record[proc[x].mount].pid = x
  BY DEF Names, RecordNames
<1>3. \A x \in {p, q} : Waited(x) => /\ record[proc[x].mount] = None
                                      /\ \E t \in Threads : lock = t /\ job[t].pid = x
  BY DEF Names, JobNames, KnowsIn, Control, WaitersHold
<1> QED BY <1>1, <1>2, <1>3

\* A mount path has at most one living worker of this control plane that is not being
\* stopped: the lock that start() keeps covers everything that could start a second one.
THEOREM PathsHaveOneWorker == Spec => []OneWorkerPerPath
<1>1. TypeInv /\ Names /\ Control => OneWorkerPerPath
  BY PathsImply
<1> QED BY TypeInit, TypeStep, NamesInit, NamesStep, ControlInit, ControlStep, <1>1, PTL DEF Spec
=============================================================================
