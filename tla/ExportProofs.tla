----------------------------- MODULE ExportProofs -----------------------------
(***************************************************************************)
(* Theorems about ExportJobs for every value of its constants: any number  *)
(* of jobs, keys, request threads and pool threads, with heartbeats that   *)
(* lapse, exceptions and crashes at any step.  The process slots are any   *)
(* set too, except for the last two theorems: a process that takes over    *)
(* from one that still runs defeats what they say (see OneProcess).        *)
(***************************************************************************)
EXTENDS ExportJobs, FiniteSetTheorems, WellFoundedInduction, TLAPS

-----------------------------------------------------------------------------
(* Type correctness.  A caller that submits and a worker that is busy have a job; *)
(* without that, the pool and the futures would not keep their types.              *)

JobTypes ==
    /\ status \in [Jobs -> Statuses] /\ attempts \in [Jobs -> Nat]
    /\ asked \subseteq Jobs /\ retired \subseteq Jobs
    /\ keyOf \in [Jobs -> Keys \cup {None}]
ArtifactTypes ==
    /\ artifacts \subseteq Artifact /\ withdrawn \subseteq Artifact /\ expired \subseteq Artifact
    /\ file \in [Jobs -> Nat]
CoordinatorTypes ==
    /\ pool \in [Instances -> Seq(Jobs)]
    /\ future \in [Instances -> [Jobs -> {"none", "pending", "done"}]]
    /\ callback \in [Instances -> SUBSET Jobs]
    /\ lock \in [Instances -> Callers \cup {None}]
SlotTypes == slot \in Instances \cup {None} /\ lapsed \in BOOLEAN

WithJob == {"submit", "register", "wedged"}
CallerOK(f) == f \in Caller /\ (f.pc \in WithJob => f.job \in Jobs)
WorkerOK(f) == f \in Worker /\ (f.pc # "idle" => f.job \in Jobs)
CallersOK == caller \in [Callers -> Caller] /\ \A c \in Callers : CallerOK(caller[c])
WorkersOK == worker \in [Workers -> Worker] /\ \A w \in Workers : WorkerOK(worker[w])

TypeInv == JobTypes /\ ArtifactTypes /\ CoordinatorTypes /\ SlotTypes /\ CallersOK /\ WorkersOK /\ crashes \in 0..MaxCrashes

LEMMA TypeInvImplies == TypeInv => TypeOK
  BY DEF TypeInv, TypeOK, JobTypes, ArtifactTypes, CoordinatorTypes, SlotTypes, CallersOK, WorkersOK

LEMMA HostType == \A x \in Instances \cup Threads \cup Workers : Host[x] \in Instances
  BY ExportAssumption

\* One caller, or one worker, gets a new frame.
LEMMA CallerStepType ==
    ASSUME TypeInv, NEW c \in Callers, NEW f, CallerOK(f), caller' = [caller EXCEPT ![c] = f]
    PROVE  CallersOK'
  BY DEF TypeInv, CallersOK, CallerOK

LEMMA GotoType ==
    ASSUME TypeInv, NEW c \in Callers, NEW pc \in CallerSteps, Goto(c, pc),
           pc \in WithJob => caller[c].pc \in WithJob
    PROVE  CallersOK'
<1> DEFINE f == [caller[c] EXCEPT !.pc = pc]
<1>1. CallerOK(caller[c])
  BY DEF TypeInv, CallersOK
<1>2. f \in Caller /\ f.job = caller[c].job /\ f.pc = pc
  BY <1>1 DEF CallerOK, Caller
<1>3. CallerOK(f)
  BY <1>1, <1>2 DEF CallerOK
<1>4. caller' = [caller EXCEPT ![c] = f]
  BY DEF Goto
<1> QED BY <1>3, <1>4, CallerStepType

LEMMA FrameType ==
    ASSUME NEW pc \in CallerSteps, NEW op \in {"start", "create", "list"}
    PROVE  /\ Frame(pc, op) \in Caller
           /\ Frame(pc, op).pc = pc
  BY DEF Frame, Caller, Artifact, Snapshot

LEMMA IdleType == WorkerOK(Idle) /\ Idle.pc = "idle"
  BY DEF WorkerOK, Idle, Worker, WorkerSteps

LEMMA ReturnType ==
    ASSUME TypeInv, NEW c \in Callers, Return(c)
    PROVE  CallersOK'
<1> DEFINE f == IF c \in Threads THEN Frame("idle", "list") ELSE [caller[c] EXCEPT !.pc = "recover", !.job = None]
<1>1. CallerOK(caller[c])
  BY DEF TypeInv, CallersOK
<1>2. f \in Caller /\ f.pc \notin WithJob
  <2>1. CASE c \in Threads
    BY <2>1, FrameType DEF CallerSteps, WithJob
  <2>2. CASE c \notin Threads
    BY <1>1, <2>2 DEF CallerOK, Caller, CallerSteps, WithJob
  <2> QED BY <2>1, <2>2
<1>3. CallerOK(f)
  BY <1>2 DEF CallerOK
<1>4. caller' = [caller EXCEPT ![c] = f]
  BY DEF Return
<1> QED BY <1>3, <1>4, CallerStepType

LEMMA WorkerStepType ==
    ASSUME TypeInv, NEW w \in Workers, NEW f, WorkerOK(f), worker' = [worker EXCEPT ![w] = f]
    PROVE  WorkersOK'
  BY DEF TypeInv, WorkersOK, WorkerOK

LEMMA WorkerAtType ==
    ASSUME TypeInv, NEW w \in Workers, NEW pc \in WorkerSteps, worker[w].pc # "idle", WorkerAt(w, pc)
    PROVE  WorkersOK'
<1> DEFINE f == [worker[w] EXCEPT !.pc = pc]
<1>1. WorkerOK(worker[w])
  BY DEF TypeInv, WorkersOK
<1>2. f \in Worker /\ f.job = worker[w].job
  BY <1>1 DEF WorkerOK, Worker
<1>3. WorkerOK(f)
  BY <1>1, <1>2 DEF WorkerOK
<1>4. worker' = [worker EXCEPT ![w] = f]
  BY DEF WorkerAt
<1> QED BY <1>3, <1>4, WorkerStepType

LEMMA TransitionType ==
    ASSUME TypeInv, NEW j, NEW expected, NEW new \in Statuses, Transition(j, expected, new)
    PROVE  JobTypes'
<1>1. CASE j \in Jobs
  <2>1. attempts[j] + 1 \in Nat
    BY <1>1 DEF TypeInv, JobTypes
  <2>2. status' \in [Jobs -> Statuses] /\ attempts' \in [Jobs -> Nat]
    BY <2>1 DEF TypeInv, JobTypes, Transition
  <2> QED BY <2>2 DEF TypeInv, JobTypes, Transition
<1>2. CASE j \notin Jobs
  <2>1. status' = status /\ attempts' = attempts
    BY <1>2 DEF TypeInv, JobTypes, Transition
  <2> QED BY <2>1 DEF TypeInv, JobTypes, Transition
<1> QED BY <1>1, <1>2

LEMMA UnlinkType ==
    ASSUME TypeInv, NEW j, Unlink(j)
    PROVE  ArtifactTypes'
  BY DEF TypeInv, ArtifactTypes, Unlink

LEMMA WithdrawType ==
    ASSUME TypeInv, NEW a, Withdraw(a)
    PROVE  ArtifactTypes'
  BY DEF TypeInv, ArtifactTypes, Withdraw

\* What an action leaves alone keeps its type.
LEMMA KeepsType ==
    ASSUME TypeInv
    PROVE  /\ UNCHANGED jobVars => JobTypes'
           /\ UNCHANGED artifactVars => ArtifactTypes'
           /\ UNCHANGED coordinatorVars => CoordinatorTypes'
           /\ UNCHANGED slotVars => SlotTypes'
           /\ UNCHANGED caller => CallersOK'
           /\ UNCHANGED worker => WorkersOK'
           /\ UNCHANGED crashes => (crashes \in 0..MaxCrashes)'
  BY DEF TypeInv, JobTypes, ArtifactTypes, CoordinatorTypes, SlotTypes, CallersOK, WorkersOK,
         jobVars, artifactVars, coordinatorVars, slotVars

LEMMA MaintainingType ==
    ASSUME TypeInv, NEW f \in Caller
    PROVE  Maintaining(f) \in Caller /\ Maintaining(f).pc \notin WithJob
<1> DEFINE found == {a \in artifacts \ withdrawn : Overdue(a)}
<1>1. found \in SUBSET Artifact
  BY DEF TypeInv, ArtifactTypes
<1>2. Maintaining(f) = [f EXCEPT !.seen = found, !.pc = IF found = {} THEN "prune" ELSE "dropFile"]
  BY DEF Maintaining
<1> HIDE DEF found
<1> QED BY <1>1, <1>2 DEF Caller, CallerSteps, WithJob

\* A caller works off a part of what it has seen and goes on at pc.
LEMMA SeenType ==
    ASSUME TypeInv, NEW c \in Callers, NEW rest \in SUBSET Artifact, NEW pc \in CallerSteps \ WithJob,
           caller' = [caller EXCEPT ![c].seen = rest, ![c].pc = pc]
    PROVE  CallersOK'
<1> DEFINE f == [caller[c] EXCEPT !.seen = rest, !.pc = pc]
<1>1. caller[c] \in Caller /\ caller \in [Callers -> Caller]
  BY DEF TypeInv, CallersOK, CallerOK
<1>2. f \in Caller /\ f.pc = pc
  BY <1>1 DEF Caller
<1>3. CallerOK(f)
  BY <1>2 DEF CallerOK
<1>4. caller' = [caller EXCEPT ![c] = f]
  BY <1>1
<1> HIDE DEF f
<1> QED BY <1>3, <1>4, CallerStepType

LEMMA MaintainType ==
    ASSUME TypeInv, NEW c \in Callers, Maintain(c)
    PROVE  TypeInv'
<1> USE KeepsType
<1>1. caller[c] \in Caller
  BY DEF TypeInv, CallersOK
<1>2. caller[c].seen \in SUBSET Artifact
  BY <1>1 DEF Caller
<1>3. CASE ExpireFile(c)
  BY <1>3, UnlinkType, GotoType DEF ExpireFile, TypeInv, CallerSteps, WithJob
<1>4. CASE ExpireRow(c)
  BY <1>4, WithdrawType, GotoType DEF ExpireRow, TypeInv, CallerSteps, WithJob
<1>5. CASE ExpireJob(c)
  <2> DEFINE rest == caller[c].seen \ {Current(c)}
  <2>1. JobTypes'
    BY <1>5, TransitionType DEF ExpireJob, Statuses, Terminal
  <2>2. CallersOK'
    <3>1. rest \in SUBSET Artifact
      BY <1>2
    <3>2. (IF rest = {} THEN "prune" ELSE "dropFile") \in CallerSteps \ WithJob
      BY DEF CallerSteps, WithJob
    <3> QED BY <1>5, <3>1, <3>2, SeenType DEF ExpireJob
  <2> QED BY <1>5, <2>1, <2>2 DEF ExpireJob, TypeInv
<1>6. CASE Prune(c)
  <2> DEFINE gone == {j \in retired : status[j] \in Terminal}
             rows == {a \in artifacts : a[1] \in gone}
  <2>1. JobTypes'
    BY <1>6 DEF Prune, TypeInv, JobTypes, Statuses
  <2>2. ArtifactTypes'
    BY <1>6 DEF Prune, TypeInv, ArtifactTypes
  <2>3. CallersOK'
    <3>1. rows \in SUBSET Artifact
      BY DEF TypeInv, ArtifactTypes
    <3>2. (IF rows = {} THEN "beat" ELSE "unlink") \in CallerSteps \ WithJob
      BY DEF CallerSteps, WithJob
    <3>3. caller' = [caller EXCEPT ![c].seen = rows, ![c].pc = IF rows = {} THEN "beat" ELSE "unlink"]
      BY <1>6 DEF Prune
    <3> HIDE DEF rows
    <3> QED BY <3>1, <3>2, <3>3, SeenType
  <2> QED BY <1>6, <2>1, <2>2, <2>3 DEF Prune, TypeInv
<1>7. CASE UnlinkPruned(c)
  <2> DEFINE rest == caller[c].seen \ {Current(c)}
  <2>1. ArtifactTypes'
    BY <1>7, UnlinkType DEF UnlinkPruned
  <2>2. CallersOK'
    <3>1. rest \in SUBSET Artifact
      BY <1>2
    <3>2. (IF rest = {} THEN "beat" ELSE "unlink") \in CallerSteps \ WithJob
      BY DEF CallerSteps, WithJob
    <3> QED BY <1>7, <3>1, <3>2, SeenType DEF UnlinkPruned
  <2> QED BY <1>7, <2>1, <2>2 DEF UnlinkPruned, TypeInv
<1>8. CASE Beat(c)
  <2>1. AfterMaintenance(caller[c]) \in CallerSteps \ WithJob
    BY <1>1 DEF AfterMaintenance, Caller, CallerSteps, WithJob
  <2>2. CallersOK'
    BY <1>8, <2>1, GotoType DEF Beat
  <2>3. SlotTypes'
    BY <1>8 DEF Beat, TypeInv, SlotTypes
  <2> QED BY <1>8, <2>2, <2>3 DEF Beat, TypeInv
<1> QED BY <1>3, <1>4, <1>5, <1>6, <1>7, <1>8 DEF Maintain

LEMMA RequestType ==
    ASSUME TypeInv, NEW t \in Threads, Request(t)
    PROVE  TypeInv'
<1> USE KeepsType
<1>1. t \in Callers
  BY DEF Callers
<1>2. ASSUME NEW op \in {"create", "list"}, NEW k \in Keys \cup {None}, Begin(t, op, k)
      PROVE  TypeInv'
  <2> DEFINE f == [Frame("idle", op) EXCEPT !.key = k]
  <2>0. Frame("idle", op) \in Caller
    BY FrameType DEF CallerSteps
  <2>1. f \in Caller
    BY <2>0 DEF Caller
  <2>2. caller' = [caller EXCEPT ![t] = Maintaining(f)]
    BY <1>2 DEF Begin
  <2> HIDE DEF f
  <2>3. CallerOK(Maintaining(f))
    BY <2>1, MaintainingType DEF CallerOK
  <2>4. CallersOK'
    BY <1>1, <2>2, <2>3, CallerStepType
  <2> QED BY <1>2, <2>4 DEF Begin, TypeInv
<1>3. ASSUME NEW j \in Jobs, Cancel(t, j)
      PROVE  TypeInv'
  <2>1. JobTypes'
    BY <1>3 DEF Cancel, TypeInv, JobTypes, Statuses, Active, Terminal
  <2> QED BY <1>3, <2>1 DEF Cancel, TypeInv
<1> QED BY <1>2, <1>3 DEF Request

LEMMA CreatingType ==
    ASSUME TypeInv, NEW t \in Threads, Creating(t)
    PROVE  TypeInv'
<1> USE KeepsType
<1>1. t \in Callers
  BY DEF Callers
<1>2. CASE Lookup(t)
  <2>1. CallersOK'
    BY <1>1, <1>2, ReturnType, GotoType DEF Lookup, CallerSteps, WithJob
  <2> QED BY <1>2, <2>1 DEF Lookup, TypeInv
<1>3. CASE EnforceQuotas(t)
  <2>1. CallersOK'
    BY <1>1, <1>3, ReturnType, GotoType DEF EnforceQuotas, CallerSteps, WithJob
  <2> QED BY <1>3, <2>1 DEF EnforceQuotas, TypeInv
<1>4. CASE Refuse(t)
  <2>1. CallersOK'
    BY <1>1, <1>4, ReturnType DEF Refuse
  <2> QED BY <1>4, <2>1 DEF Refuse, TypeInv
<1>5. CASE Insert(t)
  <2>1. CASE KeyTaken(caller[t].key)
    <3>1. CallersOK'
      BY <1>1, <1>5, <2>1, ReturnType DEF Insert
    <3> QED BY <1>5, <2>1, <3>1 DEF Insert, TypeInv
  <2>2. CASE ~KeyTaken(caller[t].key)
    <3>1. PICK j \in NewIds :
              /\ status' = [status EXCEPT ![j] = "queued"]
              /\ keyOf' = [keyOf EXCEPT ![j] = caller[t].key]
              /\ caller' = [caller EXCEPT ![t].pc = "submit", ![t].job = j]
              /\ UNCHANGED <<attempts, asked, retired>>
      BY <1>5, <2>2 DEF Insert
    <3>2. j \in Jobs
      BY DEF NewIds
    <3>3. caller[t] \in Caller /\ caller \in [Callers -> Caller] /\ caller[t].key \in Keys \cup {None}
      BY <1>1 DEF TypeInv, CallersOK, Caller
    <3>4. JobTypes'
      BY <3>1, <3>2, <3>3 DEF TypeInv, JobTypes, Statuses, Active
    <3> DEFINE f == [caller[t] EXCEPT !.pc = "submit", !.job = j]
    <3>5. CallerOK(f)
      BY <3>2, <3>3 DEF CallerOK, Caller, CallerSteps
    <3>6. caller' = [caller EXCEPT ![t] = f]
      BY <3>1, <3>3
    <3> HIDE DEF f
    <3>7. CallersOK'
      BY <1>1, <3>5, <3>6, CallerStepType
    <3> QED BY <1>5, <3>4, <3>7 DEF Insert, TypeInv
  <2> QED BY <2>1, <2>2
<1> QED BY <1>2, <1>3, <1>4, <1>5 DEF Creating

LEMMA FutureType ==
    ASSUME TypeInv, NEW i \in Instances, NEW j \in Jobs, NEW x \in {"none", "pending", "done"},
           future' = [future EXCEPT ![i][j] = x]
    PROVE  future' \in [Instances -> [Jobs -> {"none", "pending", "done"}]]
<1> DEFINE g == [future[i] EXCEPT ![j] = x]
<1>1. future \in [Instances -> [Jobs -> {"none", "pending", "done"}]]
  BY DEF TypeInv, CoordinatorTypes
<1>2. g \in [Jobs -> {"none", "pending", "done"}]
  BY <1>1
<1>3. future' = [future EXCEPT ![i] = g]
  OBVIOUS
<1> HIDE DEF g
<1> QED BY <1>1, <1>2, <1>3

LEMMA CoordinatorType ==
    ASSUME TypeInv, NEW c \in Callers, Submit(c) \/ Register(c)
    PROVE  TypeInv'
<1> USE KeepsType
<1>1. Host[c] \in Instances
  BY HostType DEF Callers
<1>2. CallerOK(caller[c])
  BY DEF TypeInv, CallersOK
<1>3. caller[c].pc \in WithJob => caller[c].job \in Jobs
  BY <1>2 DEF CallerOK
<1>4. CASE Submit(c)
  <2>0. caller[c].job \in Jobs
    BY <1>3, <1>4 DEF Submit, WithJob
  <2>1. CASE future[Host[c]][caller[c].job] = "pending"
    <3>1. CallersOK'
      BY <1>4, <2>1, ReturnType DEF Submit
    <3> QED BY <1>4, <2>1, <3>1 DEF Submit, TypeInv
  <2>2. CASE future[Host[c]][caller[c].job] # "pending"
    <3>1. CallersOK'
      BY <1>4, <2>2, GotoType DEF Submit, CallerSteps, WithJob
    <3>2. Append(pool[Host[c]], caller[c].job) \in Seq(Jobs)
      BY <1>1, <2>0 DEF TypeInv, CoordinatorTypes
    <3>3. pool' \in [Instances -> Seq(Jobs)]
      BY <1>1, <1>4, <2>2, <3>2 DEF Submit, TypeInv, CoordinatorTypes
    <3>4. future' \in [Instances -> [Jobs -> {"none", "pending", "done"}]]
      BY <1>1, <1>4, <2>0, <2>2, FutureType DEF Submit
    <3>5. lock' \in [Instances -> Callers \cup {None}] /\ callback' \in [Instances -> SUBSET Jobs]
      BY <1>1, <1>4, <2>2 DEF Submit, TypeInv, CoordinatorTypes
    <3>6. CoordinatorTypes'
      BY <3>3, <3>4, <3>5 DEF CoordinatorTypes
    <3> QED BY <1>4, <3>1, <3>6 DEF Submit, TypeInv
  <2> QED BY <2>1, <2>2
<1>5. CASE Register(c)
  <2>0. caller[c].job \in Jobs
    BY <1>3, <1>5 DEF Register, WithJob
  <2>1. CallersOK'
    BY <1>5, GotoType, ReturnType DEF Register, CallerSteps, WithJob
  <2>2. lock' \in [Instances -> Callers \cup {None}] /\ callback' \in [Instances -> SUBSET Jobs]
    <3>1. lock \in [Instances -> Callers \cup {None}] /\ callback \in [Instances -> SUBSET Jobs]
      BY DEF TypeInv, CoordinatorTypes
    <3>2. CASE future[Host[c]][caller[c].job] = "done"
      BY <1>5, <3>1, <3>2 DEF Register
    <3>3. CASE future[Host[c]][caller[c].job] # "done"
      <4>1. callback[Host[c]] \cup {caller[c].job} \in SUBSET Jobs
        BY <1>1, <2>0, <3>1
      <4>2. callback' = [callback EXCEPT ![Host[c]] = @ \cup {caller[c].job}] /\ lock' = [lock EXCEPT ![Host[c]] = None]
        BY <1>5, <3>3 DEF Register
      <4> QED BY <3>1, <4>1, <4>2
    <3> QED BY <3>2, <3>3
  <2>3. CoordinatorTypes'
    BY <1>5, <2>2 DEF Register, TypeInv, CoordinatorTypes
  <2> QED BY <1>5, <2>1, <2>3 DEF Register, TypeInv
<1> QED BY <1>4, <1>5

LEMMA PoolType ==
    ASSUME TypeInv, NEW w \in Workers, Take(w) \/ Finish(w) \/ Forget(w)
    PROVE  TypeInv'
<1> USE KeepsType
<1>1. Host[w] \in Instances
  BY HostType
<1>2. WorkerOK(worker[w]) /\ worker[w] \in Worker
  BY DEF TypeInv, WorkersOK
<1>3. CASE Take(w)
  <2> DEFINE f == [Idle EXCEPT !.pc = "claim", !.job = Head(pool[Host[w]])]
  <2>1. pool[Host[w]] \in Seq(Jobs) /\ pool[Host[w]] # <<>>
    BY <1>1, <1>3 DEF Take, TypeInv, CoordinatorTypes
  <2>2. Head(pool[Host[w]]) \in Jobs /\ Tail(pool[Host[w]]) \in Seq(Jobs)
    BY <2>1
  <2>3. WorkerOK(f)
    BY <2>2 DEF WorkerOK, Idle, Worker, WorkerSteps
  <2>4. worker' = [worker EXCEPT ![w] = f]
    BY <1>3 DEF Take
  <2> HIDE DEF f
  <2>5. WorkersOK'
    BY <2>3, <2>4, WorkerStepType
  <2>6. CoordinatorTypes'
    BY <1>1, <1>3, <2>2 DEF Take, TypeInv, CoordinatorTypes
  <2> QED BY <1>3, <2>5, <2>6 DEF Take, TypeInv
<1>4. CASE Finish(w)
  <2> DEFINE f == IF worker[w].job \in callback[Host[w]] THEN [worker[w] EXCEPT !.pc = "forget"] ELSE Idle
  <2>0. worker[w].job \in Jobs
    BY <1>2, <1>4 DEF Finish, WorkerOK
  <2>1. WorkerOK([worker[w] EXCEPT !.pc = "forget"])
    BY <1>2, <2>0 DEF WorkerOK, Worker, WorkerSteps
  <2>2. WorkerOK(f)
    BY <2>1, IdleType
  <2>3. worker' = [worker EXCEPT ![w] = f]
    BY <1>4 DEF Finish
  <2> HIDE DEF f
  <2>4. WorkersOK'
    BY <2>2, <2>3, WorkerStepType
  <2>5. future' \in [Instances -> [Jobs -> {"none", "pending", "done"}]]
    BY <1>1, <1>4, <2>0, FutureType DEF Finish
  <2>6. CoordinatorTypes'
    BY <1>4, <2>5 DEF Finish, TypeInv, CoordinatorTypes
  <2> QED BY <1>4, <2>4, <2>6 DEF Finish, TypeInv
<1>5. CASE Forget(w)
  <2>0. worker[w].job \in Jobs
    BY <1>2, <1>5 DEF Forget, WorkerOK
  <2>1. worker' = [worker EXCEPT ![w] = Idle]
    BY <1>5 DEF Forget
  <2>2. WorkersOK'
    BY <2>1, IdleType, WorkerStepType
  <2>3. future' \in [Instances -> [Jobs -> {"none", "pending", "done"}]]
    BY <1>1, <1>5, <2>0, FutureType DEF Forget
  <2>4. callback' \in [Instances -> SUBSET Jobs]
    BY <1>1, <1>5 DEF Forget, TypeInv, CoordinatorTypes
  <2>5. CoordinatorTypes'
    BY <1>5, <2>3, <2>4 DEF Forget, TypeInv, CoordinatorTypes
  <2> QED BY <1>5, <2>2, <2>5 DEF Forget, TypeInv
<1> QED BY <1>3, <1>4, <1>5

LEMMA AttemptType ==
    ASSUME TypeInv, NEW w \in Workers, Attempt(w)
    PROVE  TypeInv'
<1> USE KeepsType, WorkerAtType DEF WorkerSteps
<1>1. WorkerOK(worker[w]) /\ worker[w] \in Worker
  BY DEF TypeInv, WorkersOK
<1>2. worker[w].pc # "idle" /\ worker[w].job \in Jobs
  BY <1>1 DEF Attempt, WorkerOK, Claim, Load, Execute, Store, Record, Succeed, DropFile, DropRow, DropJob,
              Fail, Raise, Retry, Requeue, GiveUp
<1>4. CASE Claim(w) \/ Succeed(w) \/ DropJob(w) \/ Requeue(w) \/ GiveUp(w)
  <2>1. WorkersOK'
    BY <1>2, <1>4 DEF Claim, Succeed, DropJob, Requeue, GiveUp
  <2>2. JobTypes'
    BY <1>4, TransitionType DEF Claim, Succeed, DropJob, Requeue, GiveUp, Statuses, Active, Terminal
  <2> QED BY <1>4, <2>1, <2>2 DEF Claim, Succeed, DropJob, Requeue, GiveUp, TypeInv
<1>5. CASE Load(w)
  <2>1. attempts[worker[w].job] \in Nat
    BY <1>2 DEF TypeInv, JobTypes
  <2> DEFINE n == attempts[worker[w].job]
             pc == IF HasRow(worker[w].job) THEN "execute" ELSE "finish"
             f == [worker[w] EXCEPT !.pc = pc, !.attempt = n]
  <2>2. WorkerOK(f)
    BY <1>1, <1>2, <2>1 DEF WorkerOK, Worker
  <2>3. worker' = [worker EXCEPT ![w] = f]
    BY <1>5 DEF Load, TypeInv, WorkersOK
  <2> HIDE DEF f
  <2>4. WorkersOK'
    BY <2>2, <2>3, WorkerStepType
  <2> QED BY <1>5, <2>4 DEF Load, TypeInv
<1>6. CASE Execute(w)
  <2>1. ASSUME NEW why \in {"failed", "cancelled"}, worker' = [worker EXCEPT ![w].pc = "fail", ![w].why = why]
        PROVE  WorkersOK'
    <3> DEFINE f == [worker[w] EXCEPT !.pc = "fail", !.why = why]
    <3>1. WorkerOK(f)
      BY <1>1, <1>2 DEF WorkerOK, Worker
    <3>2. worker' = [worker EXCEPT ![w] = f]
      BY <2>1 DEF TypeInv, WorkersOK
    <3> HIDE DEF f
    <3> QED BY <3>1, <3>2, WorkerStepType
  <2>2. WorkersOK'
    BY <1>2, <1>6, <2>1 DEF Execute
  <2> QED BY <1>6, <2>2 DEF Execute, TypeInv
<1>7. CASE Store(w)
  <2>1. worker[w].attempt \in Nat
    BY <1>1 DEF Worker
  <2>2. WorkersOK'
    BY <1>2, <1>7 DEF Store
  <2>3. ArtifactTypes'
    BY <1>2, <1>7, <2>1 DEF Store, TypeInv, ArtifactTypes
  <2> QED BY <1>7, <2>2, <2>3 DEF Store, TypeInv
<1>8. CASE Record(w)
  <2>1. <<worker[w].job, worker[w].attempt>> \in Artifact
    BY <1>1, <1>2 DEF Worker, Artifact
  <2>2. WorkersOK'
    BY <1>2, <1>8 DEF Record
  <2>3. ArtifactTypes'
    BY <1>8, <2>1 DEF Record, TypeInv, ArtifactTypes
  <2> QED BY <1>8, <2>2, <2>3 DEF Record, TypeInv
<1>9. CASE DropFile(w)
  <2>1. WorkersOK'
    BY <1>2, <1>9 DEF DropFile
  <2>2. ArtifactTypes'
    BY <1>9, UnlinkType DEF DropFile
  <2> QED BY <1>9, <2>1, <2>2 DEF DropFile, TypeInv
<1>10. CASE DropRow(w)
  <2>1. WorkersOK'
    BY <1>2, <1>10 DEF DropRow
  <2>2. ArtifactTypes'
    BY <1>10, WithdrawType DEF DropRow
  <2> QED BY <1>10, <2>1, <2>2 DEF DropRow, TypeInv
<1>11. CASE Fail(w)
  <2>1. WorkersOK'
    BY <1>2, <1>11 DEF Fail
  <2>2. worker[w].why \in Statuses
    BY <1>1 DEF Worker, Statuses, Terminal
  <2>3. JobTypes'
    BY <1>11, <2>2, TransitionType DEF Fail
  <2> QED BY <1>11, <2>1, <2>3 DEF Fail, TypeInv
<1>12. CASE Raise(w) \/ Retry(w)
  <2>1. WorkersOK'
    BY <1>2, <1>12 DEF Raise, Retry
  <2> QED BY <1>12, <2>1 DEF Raise, Retry, TypeInv
<1> QED BY <1>4, <1>5, <1>6, <1>7, <1>8, <1>9, <1>10, <1>11, <1>12 DEF Attempt

\* The rows a recovering process has listed are snapshots.
LEMMA StartType ==
    ASSUME TypeInv, NEW i \in Instances, Start(i)
    PROVE  TypeInv'
<1> USE KeepsType
<1>1. i \in Callers
  BY DEF Callers
<1>2. caller[i] \in Caller /\ caller \in [Callers -> Caller]
  BY <1>1 DEF TypeInv, CallersOK
<1>3. CASE Launch(i)
  <2>1. CallerOK(Frame("claim", "start"))
    BY FrameType DEF CallerOK, CallerSteps, WithJob
  <2>2. CallersOK'
    BY <1>1, <1>3, <2>1, CallerStepType DEF Launch
  <2> QED BY <1>3, <2>2 DEF Launch, TypeInv
<1>4. CASE ClaimSlot(i)
  <2>1. CallersOK'
    BY <1>1, <1>4, GotoType DEF ClaimSlot, CallerSteps, WithJob
  <2>2. SlotTypes'
    BY <1>4 DEF ClaimSlot, SlotTypes
  <2> QED BY <1>4, <2>1, <2>2 DEF ClaimSlot, TypeInv
<1>5. CASE ListJobs(i)
  <2> DEFINE rows == {[job |-> j, status |-> status[j], attempts |-> attempts[j]] : j \in Incomplete}
             f == [caller[i] EXCEPT !.pc = "recover", !.left = rows]
  <2>1. rows \in SUBSET Snapshot
    BY DEF TypeInv, JobTypes, Incomplete, ActiveJobs, Snapshot
  <2>2. caller' = [caller EXCEPT ![i].pc = "recover", ![i].left = rows]
    BY <1>5 DEF ListJobs
  <2> HIDE DEF rows
  <2>3. CallerOK(f)
    BY <1>2, <2>1 DEF CallerOK, Caller, CallerSteps, WithJob
  <2>4. caller' = [caller EXCEPT ![i] = f]
    BY <1>2, <2>2
  <2> HIDE DEF f
  <2>5. CallersOK'
    BY <1>1, <2>3, <2>4, CallerStepType
  <2> QED BY <1>5, <2>5 DEF ListJobs, TypeInv
<1>6. CASE Recover(i)
  <2>1. ASSUME NEW s \in caller[i].left, NEW pc \in {"submit", "recover"}, Recovered(i, s, pc)
        PROVE  CallersOK'
    <3> DEFINE job == IF pc = "submit" THEN s.job ELSE None
               f == [caller[i] EXCEPT !.pc = pc, !.left = @ \ {s}, !.job = job]
    <3>1. s \in Snapshot /\ caller[i].left \ {s} \in SUBSET Snapshot
      BY <1>2 DEF Caller
    <3>2. s.job \in Jobs
      BY <3>1 DEF Snapshot
    <3>3. CallerOK(f)
      BY <1>2, <3>1, <3>2 DEF CallerOK, Caller, CallerSteps, WithJob
    <3>4. caller' = [caller EXCEPT ![i] = f]
      BY <1>2, <2>1 DEF Recovered
    <3> HIDE DEF f
    <3> QED BY <1>1, <3>3, <3>4, CallerStepType
  <2>2. ASSUME NEW s \in caller[i].left,
               RecoverQueued(i, s) \/ RecoverCancelled(i, s) \/ RecoverStranded(i, s)
        PROVE  JobTypes' /\ CallersOK'
    BY <2>1, <2>2, TransitionType DEF RecoverQueued, RecoverCancelled, RecoverStranded, Statuses, Active, Terminal
  <2>3. ASSUME caller' = [caller EXCEPT ![i] = Maintaining(Frame("recover", "start"))]
        PROVE  CallersOK'
    <3>1. Frame("recover", "start") \in Caller
      BY FrameType DEF CallerSteps
    <3>2. CallerOK(Maintaining(Frame("recover", "start")))
      BY <3>1, MaintainingType DEF CallerOK
    <3> QED BY <1>1, <2>3, <3>2, CallerStepType
  <2>4. JobTypes' /\ CallersOK'
    BY <1>6, <2>2, <2>3 DEF Recover
  <2> QED BY <1>6, <2>4 DEF Recover, TypeInv
<1> QED BY <1>3, <1>4, <1>5, <1>6 DEF Start

LEMMA TimeType ==
    ASSUME TypeInv, Time
    PROVE  TypeInv'
<1> USE KeepsType
<1>1. CASE Lapse
  BY <1>1 DEF Lapse, TypeInv, SlotTypes
<1>2. ASSUME NEW a \in artifacts, ExpireTime(a)
      PROVE  TypeInv'
  <2>1. ArtifactTypes'
    BY <1>2 DEF ExpireTime, TypeInv, ArtifactTypes
  <2> QED BY <1>2, <2>1 DEF ExpireTime, TypeInv
<1>3. ASSUME NEW j \in Jobs, RetainTime(j)
      PROVE  TypeInv'
  <2>1. JobTypes'
    BY <1>3 DEF RetainTime, TypeInv, JobTypes
  <2> QED BY <1>3, <2>1 DEF RetainTime, TypeInv
<1> QED BY <1>1, <1>2, <1>3 DEF Time

LEMMA CrashType ==
    ASSUME TypeInv, NEW i \in Instances, Crash(i)
    PROVE  TypeInv'
<1> USE KeepsType
<1>1. CallersOK'
  <2> DEFINE f(c) == CASE Host[c] # i -> caller[c]
                       [] c = i -> Frame("down", "start")
                       [] OTHER -> Frame("idle", "list")
  <2>1. ASSUME NEW c \in Callers
        PROVE  f(c) \in Caller /\ CallerOK(f(c))
    <3>1. CallerOK(caller[c])
      BY DEF TypeInv, CallersOK
    <3>2. CallerOK(Frame("down", "start")) /\ CallerOK(Frame("idle", "list"))
      BY FrameType DEF CallerOK, CallerSteps, WithJob
    <3> QED BY <3>1, <3>2 DEF CallerOK
  <2>2. caller' = [c \in Callers |-> f(c)]
    BY DEF Crash
  <2> HIDE DEF f
  <2> QED BY <2>1, <2>2 DEF CallersOK
<1>2. WorkersOK'
  BY IdleType DEF Crash, TypeInv, WorkersOK, WorkerOK
<1>3. CoordinatorTypes'
  <2>1. [j \in Jobs |-> "none"] \in [Jobs -> {"none", "pending", "done"}] /\ <<>> \in Seq(Jobs)
    OBVIOUS
  <2> QED BY <2>1 DEF Crash, TypeInv, CoordinatorTypes
<1>4. crashes' \in 0..MaxCrashes
  BY ExportAssumption DEF Crash, TypeInv
<1> QED BY <1>1, <1>2, <1>3, <1>4 DEF Crash, TypeInv

LEMMA InitType == Init => TypeInv
<1> SUFFICES ASSUME Init PROVE TypeInv
  OBVIOUS
<1>1. CallersOK
  <2>1. CallerOK(Frame("down", "start")) /\ CallerOK(Frame("idle", "list"))
    BY FrameType DEF CallerOK, CallerSteps, WithJob
  <2> QED BY <2>1 DEF Init, CallersOK, CallerOK
<1>2. WorkersOK
  BY IdleType DEF Init, WorkersOK, WorkerOK
<1>3. CoordinatorTypes
  <2>1. [j \in Jobs |-> "none"] \in [Jobs -> {"none", "pending", "done"}] /\ <<>> \in Seq(Jobs)
    OBVIOUS
  <2> QED BY <2>1 DEF Init, CoordinatorTypes
<1>4. JobTypes /\ ArtifactTypes
  BY DEF Init, JobTypes, ArtifactTypes, Statuses
<1>5. SlotTypes
  BY Zenon DEF Init, SlotTypes
<1>6. crashes \in 0..MaxCrashes
  BY ExportAssumption, SMT DEF Init
<1> QED BY <1>1, <1>2, <1>3, <1>4, <1>5, <1>6 DEF TypeInv

LEMMA NextType == TypeInv /\ [Next]_vars => TypeInv'
<1> SUFFICES ASSUME TypeInv, [Next]_vars PROVE TypeInv'
  OBVIOUS
<1>1. CASE UNCHANGED vars
  BY <1>1, KeepsType DEF vars, TypeInv
<1>2. ASSUME NEW c \in Callers, CallerStep(c)
      PROVE  TypeInv'
  BY <1>2, MaintainType, CoordinatorType DEF CallerStep
<1>3. ASSUME NEW w \in Workers, WorkerStep(w)
      PROVE  TypeInv'
  BY <1>3, PoolType, AttemptType DEF WorkerStep
<1> QED BY <1>1, <1>2, <1>3, RequestType, CreatingType, StartType, CrashType, TimeType DEF Next

\* Every reachable state has the types of the model: in particular the pool and the futures
\* only ever hold jobs, and a busy worker has one.
THEOREM ExportTypeCorrect == Spec => []TypeOK
<1>1. Init => TypeInv
  BY InitType
<1>2. TypeInv /\ [Next]_vars => TypeInv'
  BY NextType
<1>3. TypeInv => TypeOK
  BY TypeInvImplies
<1> QED BY <1>1, <1>2, <1>3, PTL DEF Spec

-----------------------------------------------------------------------------
(* The promise.  It needs two facts that types do not give: a job is asked to be  *)
(* cancelled exactly when its status says so, as long as it has not ended, and a   *)
(* worker that is about to record a cancellation has seen one; and once seen, a     *)
(* cancellation is never taken back, so the worker's knowledge cannot become stale. *)

Past(j) == status[j] \notin {"none", "queued", "running"}
CancelKnown ==
    \A j \in Jobs : /\ status[j] \in {"cancel_requested", "cancelled"} => j \in asked
                    /\ ~Past(j) => j \notin asked
CauseKnown == \A w \in Workers : worker[w].pc = "fail" /\ worker[w].why = "cancelled" => Past(worker[w].job)
PromiseInv == TypeInv /\ CancelKnown /\ CauseKnown

outcome == [j \in Jobs |-> Outcome(j)]

\* What a step owes: the first fact, that nothing past comes back, and a step of the promise.
Keeps ==
    /\ CancelKnown'
    /\ \A j \in Jobs : Past(j) => Past(j)'
    /\ Promise!PromiseNext \/ UNCHANGED <<outcome, asked>>

\* The moves between statuses that transition_job is ever asked for.
Moves == {<<"queued", "running">>, <<"running", "queued">>, <<"running", "succeeded">>, <<"running", "failed">>,
          <<"cancel_requested", "failed">>, <<"cancel_requested", "cancelled">>, <<"succeeded", "expired">>}

LEMMA UnchangedKeeps ==
    ASSUME CancelKnown, UNCHANGED <<status, asked>>
    PROVE  Keeps
  BY DEF Keeps, CancelKnown, Past, outcome, Outcome

\* One job gets a new outcome.
LEMMA OutcomeStep ==
    ASSUME TypeInv, NEW j \in Jobs, NEW new \in Statuses, status' = [status EXCEPT ![j] = new],
           NEW o, o = CASE new \in Active -> "open" [] new = "pruned" -> "forgotten" [] OTHER -> new
    PROVE  outcome' = [outcome EXCEPT ![j] = o]
<1>1. \A k \in Jobs : status'[k] = IF k = j THEN new ELSE status[k]
  BY DEF TypeInv, JobTypes
<1>2. Outcome(j)' = o
  BY <1>1 DEF Outcome
<1>3. \A k \in Jobs \ {j} : Outcome(k)' = Outcome(k)
  BY <1>1 DEF Outcome
<1> QED BY <1>2, <1>3 DEF outcome

LEMMA TransitionKeeps ==
    ASSUME TypeInv, CancelKnown, NEW j, NEW expected, NEW new \in Statuses, Transition(j, expected, new),
           status[j] \in expected => <<status[j], new>> \in Moves
    PROVE  Keeps
<1>1. CASE j \in Jobs /\ status[j] \in expected
  <2>1. status' = [status EXCEPT ![j] = new] /\ asked' = asked
    BY <1>1 DEF Transition
  <2>2. <<status[j], new>> \in Moves /\ status \in [Jobs -> Statuses]
    BY <1>1 DEF TypeInv, JobTypes
  <2>3. CancelKnown'
    BY <1>1, <2>1, <2>2 DEF CancelKnown, Past, Moves
  <2>4. \A k \in Jobs : Past(k) => Past(k)'
    BY <1>1, <2>1, <2>2 DEF Past, Moves
  <2>5. CASE status[j] \in Active /\ new \in Active
    <3>1. outcome[j] = "open"
      BY <1>1, <2>5 DEF outcome, Outcome, Active
    <3>2. outcome' = [outcome EXCEPT ![j] = "open"]
      BY <1>1, <2>1, <2>5, OutcomeStep DEF Active
    <3>3. outcome' = outcome
      BY <3>1, <3>2 DEF outcome
    <3> QED BY <2>1, <2>3, <2>4, <3>3 DEF Keeps
  <2>6. CASE status[j] \in Active /\ new \in {"succeeded", "failed", "cancelled"}
    <3>1. outcome[j] = "open" /\ outcome' = [outcome EXCEPT ![j] = new]
      BY <1>1, <2>1, <2>6, OutcomeStep DEF outcome, Outcome, Active
    <3>2. (new = "succeeded" => j \notin asked) /\ (new = "cancelled" => j \in asked)
      BY <1>1, <2>2 DEF Moves, CancelKnown, Past
    <3>3. Promise!End(j)
      BY <2>1, <2>6, <3>1, <3>2 DEF Promise!End, Promise!Endings, outcome
    <3> QED BY <1>1, <2>3, <2>4, <3>3 DEF Keeps, Promise!PromiseNext
  <2>7. CASE status[j] = "succeeded" /\ new = "expired"
    <3>1. outcome[j] = "succeeded" /\ outcome' = [outcome EXCEPT ![j] = "expired"]
      BY <1>1, <2>1, <2>7, OutcomeStep DEF outcome, Outcome, Active
    <3>2. Promise!Expire(j)
      BY <2>1, <3>1 DEF Promise!Expire, outcome
    <3> QED BY <1>1, <2>3, <2>4, <3>2 DEF Keeps, Promise!PromiseNext
  <2> QED BY <2>2, <2>5, <2>6, <2>7 DEF Moves, Active
<1>2. CASE ~(j \in Jobs /\ status[j] \in expected)
  <2>1. status' = status /\ asked' = asked
    BY <1>2 DEF Transition, TypeInv, JobTypes
  <2> QED BY <2>1, UnchangedKeeps
<1> QED BY <1>1, <1>2

LEMMA PruneKeeps ==
    ASSUME TypeInv, CancelKnown, NEW c \in Callers, Prune(c)
    PROVE  Keeps
<1> DEFINE gone == {j \in retired : status[j] \in Terminal}
<1>1. /\ status' = [j \in Jobs |-> IF j \in gone THEN "pruned" ELSE status[j]]
      /\ asked' = asked \ gone
  BY DEF Prune
<1>2. \A j \in gone : j \in Jobs /\ Past(j)
  BY DEF TypeInv, JobTypes, Past, Terminal
<1>3. CancelKnown' /\ \A j \in Jobs : Past(j) => Past(j)'
  BY <1>1, <1>2 DEF CancelKnown, Past
<1>4. gone \in SUBSET {j \in Jobs : outcome[j] \in Promise!Endings \cup {"expired"}}
  BY <1>2 DEF outcome, Outcome, Terminal, Active, Promise!Endings
<1>5. outcome' = [j \in Jobs |-> IF j \in gone THEN "forgotten" ELSE outcome[j]]
  <2>1. \A j \in Jobs : Outcome(j)' = IF j \in gone THEN "forgotten" ELSE Outcome(j)
    BY <1>1 DEF Outcome, Active
  <2> QED BY <2>1 DEF outcome
<1>6. Promise!Forget
  BY <1>1, <1>4, <1>5 DEF Promise!Forget, outcome
<1> QED BY <1>3, <1>6 DEF Keeps, Promise!PromiseNext

LEMMA InsertKeeps ==
    ASSUME TypeInv, CancelKnown, NEW t \in Threads, Insert(t)
    PROVE  Keeps
<1>1. CASE UNCHANGED jobVars
  BY <1>1, UnchangedKeeps DEF jobVars
<1>2. CASE \E j \in NewIds : status' = [status EXCEPT ![j] = "queued"] /\ UNCHANGED <<attempts, asked, retired>>
  <2>1. PICK j \in NewIds : status' = [status EXCEPT ![j] = "queued"] /\ asked' = asked
    BY <1>2
  <2>2. j \in Jobs /\ status[j] = "none" /\ status \in [Jobs -> Statuses]
    BY DEF NewIds, TypeInv, JobTypes
  <2>3. CancelKnown' /\ \A k \in Jobs : Past(k) => Past(k)'
    BY <2>1, <2>2 DEF CancelKnown, Past
  <2>4. outcome[j] = "none" /\ outcome' = [outcome EXCEPT ![j] = "open"]
    BY <2>1, <2>2, OutcomeStep DEF outcome, Outcome, Active, Statuses
  <2>5. Promise!Create(j)
    BY <2>1, <2>4 DEF Promise!Create, outcome
  <2> QED BY <2>2, <2>3, <2>5 DEF Keeps, Promise!PromiseNext
<1> QED BY <1>1, <1>2 DEF Insert

LEMMA CancelKeeps ==
    ASSUME TypeInv, CancelKnown, NEW t \in Threads, NEW j \in Jobs, Cancel(t, j)
    PROVE  Keeps
<1> DEFINE new == IF status[j] = "queued" THEN "cancelled" ELSE "cancel_requested"
<1>1. status' = [status EXCEPT ![j] = new] /\ asked' = asked \cup {j} /\ status[j] \in {"queued", "running"}
  BY DEF Cancel
<1>2. status \in [Jobs -> Statuses] /\ new \in Statuses
  BY DEF TypeInv, JobTypes, Statuses, Active, Terminal
<1>3. CancelKnown' /\ \A k \in Jobs : Past(k) => Past(k)'
  BY <1>1, <1>2 DEF CancelKnown, Past
<1> DEFINE o == IF status[j] = "queued" THEN "cancelled" ELSE "open"
<1>4. o = CASE new \in Active -> "open" [] new = "pruned" -> "forgotten" [] OTHER -> new
  BY <1>1 DEF Active
<1>5. outcome' = [outcome EXCEPT ![j] = o]
  <2> HIDE DEF new, o
  <2> QED BY <1>1, <1>2, <1>4, OutcomeStep
<1>6. outcome[j] = "open" /\ j \notin asked
  BY <1>1 DEF outcome, Outcome, Active, CancelKnown, Past
<1>7. o \in {"open", "cancelled"}
  OBVIOUS
<1>8. Promise!Cancel(j)
  <2> HIDE DEF o
  <2> QED BY <1>1, <1>5, <1>6, <1>7 DEF Promise!Cancel, outcome
<1> QED BY <1>3, <1>8 DEF Keeps, Promise!PromiseNext

\* Fail records what the worker has seen, which CauseKnown says is still so.
LEMMA AttemptKeeps ==
    ASSUME PromiseInv, NEW w \in Workers, Attempt(w)
    PROVE  Keeps
<1> USE UnchangedKeeps DEF PromiseInv
<1> DEFINE j == worker[w].job
<1>1. CASE Claim(w)
  <2>1. Transition(j, {"queued"}, "running")
    BY <1>1 DEF Claim
  <2> QED BY <2>1, TransitionKeeps DEF Moves, Statuses, Active
<1>2. CASE Succeed(w)
  <2>1. Transition(j, {"running"}, "succeeded")
    BY <1>2 DEF Succeed
  <2> QED BY <2>1, TransitionKeeps DEF Moves, Statuses, Terminal
<1>3. CASE DropJob(w)
  <2>1. Transition(j, {"cancel_requested"}, "cancelled")
    BY <1>3 DEF DropJob
  <2> QED BY <2>1, TransitionKeeps DEF Moves, Statuses, Terminal
<1>4. CASE Fail(w)
  <2>1. Transition(j, {"running", "cancel_requested"}, worker[w].why) /\ worker[w].pc = "fail"
    BY <1>4 DEF Fail
  <2>2. worker[w].why \in {"failed", "cancelled"}
    BY DEF TypeInv, WorkersOK, Worker
  <2>3. worker[w].why = "cancelled" => status[j] # "running"
    BY <2>1 DEF CauseKnown, Past
  <2> QED BY <2>1, <2>2, <2>3, TransitionKeeps DEF Moves, Statuses, Terminal
<1>5. CASE Requeue(w)
  <2>1. Transition(j, {"running"}, "queued")
    BY <1>5 DEF Requeue
  <2> QED BY <2>1, TransitionKeeps DEF Moves, Statuses, Active
<1>6. CASE GiveUp(w)
  <2>1. Transition(j, {"running", "cancel_requested"}, "failed")
    BY <1>6 DEF GiveUp
  <2> QED BY <2>1, TransitionKeeps DEF Moves, Statuses, Terminal
<1>7. CASE Load(w) \/ Execute(w) \/ Store(w) \/ Record(w) \/ DropFile(w) \/ DropRow(w) \/ Raise(w) \/ Retry(w)
  BY <1>7 DEF Load, Execute, Store, Record, DropFile, DropRow, Raise, Retry, jobVars
<1> QED BY <1>1, <1>2, <1>3, <1>4, <1>5, <1>6, <1>7 DEF Attempt

LEMMA RecoverKeeps ==
    ASSUME TypeInv, CancelKnown, NEW i \in Instances, Recover(i)
    PROVE  Keeps
<1>1. CASE UNCHANGED jobVars
  BY <1>1, UnchangedKeeps DEF jobVars
<1>2. ASSUME NEW s, RecoverCancelled(i, s)
      PROVE  Keeps
  BY <1>2, TransitionKeeps DEF RecoverCancelled, Moves, Statuses, Terminal
<1>3. ASSUME NEW s, RecoverStranded(i, s)
      PROVE  Keeps
  <2>1. Transition(s.job, {"running"}, "queued") \/ Transition(s.job, {"running"}, "failed")
    BY <1>3 DEF RecoverStranded
  <2> QED BY <2>1, TransitionKeeps DEF Moves, Statuses, Active, Terminal
<1> QED BY <1>1, <1>2, <1>3 DEF Recover, RecoverQueued

LEMMA NextKeeps ==
    ASSUME PromiseInv, [Next]_vars
    PROVE  Keeps
<1> USE UnchangedKeeps DEF PromiseInv
<1>1. CASE UNCHANGED vars
  BY <1>1 DEF vars, jobVars
<1>2. ASSUME NEW t \in Threads, Request(t) \/ Creating(t)
      PROVE  Keeps
  <2>1. CASE Request(t)
    BY <2>1, CancelKeeps DEF Request, Begin, jobVars
  <2>2. CASE Creating(t)
    BY <2>2, InsertKeeps DEF Creating, Lookup, EnforceQuotas, Refuse, jobVars
  <2> QED BY <1>2, <2>1, <2>2
<1>3. ASSUME NEW c \in Callers, CallerStep(c)
      PROVE  Keeps
  <2>1. CASE ExpireJob(c)
    BY <2>1, TransitionKeeps DEF ExpireJob, Moves, Statuses, Terminal
  <2>2. CASE Prune(c)
    BY <2>2, PruneKeeps
  <2>3. CASE ExpireFile(c) \/ ExpireRow(c) \/ UnlinkPruned(c) \/ Beat(c) \/ Submit(c) \/ Register(c)
    BY <2>3 DEF ExpireFile, ExpireRow, UnlinkPruned, Beat, Submit, Register, jobVars
  <2> QED BY <1>3, <2>1, <2>2, <2>3 DEF CallerStep, Maintain
<1>4. ASSUME NEW w \in Workers, WorkerStep(w)
      PROVE  Keeps
  <2>1. CASE Attempt(w)
    BY <2>1, AttemptKeeps
  <2>2. CASE Take(w) \/ Finish(w) \/ Forget(w)
    BY <2>2 DEF Take, Finish, Forget, jobVars
  <2> QED BY <1>4, <2>1, <2>2 DEF WorkerStep
<1>5. ASSUME NEW i \in Instances, Start(i) \/ Crash(i)
      PROVE  Keeps
  <2>1. CASE Recover(i)
    BY <2>1, RecoverKeeps
  <2>2. CASE Launch(i) \/ ClaimSlot(i) \/ ListJobs(i) \/ Crash(i)
    BY <2>2 DEF Launch, ClaimSlot, ListJobs, Crash, jobVars
  <2> QED BY <1>5, <2>1, <2>2 DEF Start
<1>6. CASE Time
  BY <1>6 DEF Time, Lapse, ExpireTime, RetainTime, jobVars
<1> QED BY <1>1, <1>2, <1>3, <1>4, <1>5, <1>6 DEF Next

\* Only Execute sends a worker to record a cancellation, and then it has just read one.
LEMMA CauseStays ==
    ASSUME PromiseInv, [Next]_vars, \A j \in Jobs : Past(j) => Past(j)'
    PROVE  CauseKnown'
<1> USE DEF PromiseInv
<1>1. \A v \in Workers : WorkerOK(worker[v])
  BY DEF TypeInv, WorkersOK
<1>2. ASSUME NEW v \in Workers, worker'[v] = worker[v], worker[v].pc = "fail", worker[v].why = "cancelled"
      PROVE  Past(worker[v].job)'
  <2>1. worker[v].job \in Jobs /\ Past(worker[v].job)
    BY <1>1, <1>2 DEF WorkerOK, CauseKnown
  <2>2. \A j \in Jobs : worker'[v].job = j => (Past(worker[v].job)' <=> Past(j)')
    BY DEF Past
  <2> QED BY <1>2, <2>1, <2>2
<1>3. CASE UNCHANGED worker
  BY <1>2, <1>3 DEF CauseKnown
<1>4. ASSUME NEW w \in Workers, WorkerStep(w)
      PROVE  CauseKnown'
  <2>1. worker \in [Workers -> Worker]
    BY DEF TypeInv, WorkersOK
  <2>2. \A v \in Workers \ {w} : worker'[v] = worker[v]
    BY <1>4, <2>1 DEF WorkerStep, Attempt, Take, Finish, Forget, Claim, Load, Execute, Store, Record,
                Succeed, DropFile, DropRow, DropJob, Fail, Raise, Retry, Requeue, GiveUp, WorkerAt
  <2>3. ASSUME worker'[w].pc = "fail", worker'[w].why = "cancelled"
        PROVE  Past(worker[w].job)'
    <3>1. CASE Execute(w)
      <4>1. UNCHANGED status /\ worker'[w].job = worker[w].job
        BY <2>1, <3>1 DEF Execute, WorkerAt, jobVars, Worker
      <4>2. CancelRequested(worker[w].job)
        BY <2>1, <2>3, <3>1 DEF Execute, WorkerAt, Worker
      <4>3. status'[worker'[w].job] = status[worker[w].job]
        BY <4>1
      <4> QED BY <4>2, <4>3 DEF CancelRequested, Past
    <3>2. CASE Take(w) \/ Finish(w) \/ Forget(w)
      <4>1. worker'[w].pc \in {"claim", "forget", "idle"}
        <5>1. CASE Take(w)
          <6>1. worker'[w] = [Idle EXCEPT !.pc = "claim", !.job = Head(pool[Host[w]])]
            BY <2>1, <5>1 DEF Take
          <6> QED BY <6>1 DEF Idle
        <5>2. CASE Finish(w)
          <6>1. worker'[w] = [worker[w] EXCEPT !.pc = "forget"] \/ worker'[w] = Idle
            BY <2>1, <5>2 DEF Finish
          <6>2. worker[w] \in Worker
            BY <2>1
          <6> QED BY <6>1, <6>2 DEF Idle, Worker
        <5>3. CASE Forget(w)
          BY <2>1, <5>3 DEF Forget, Idle
        <5> QED BY <3>2, <5>1, <5>2, <5>3
      <4> QED BY <2>3, <4>1
    <3>3. CASE Claim(w) \/ Load(w) \/ Store(w) \/ Record(w) \/ Succeed(w) \/ DropFile(w) \/ DropRow(w) \/ DropJob(w)
               \/ Fail(w) \/ Raise(w) \/ Retry(w) \/ Requeue(w) \/ GiveUp(w)
      <4>1. worker'[w].pc # "fail"
        BY <2>1, <3>3 DEF Claim, Load, Store, Record, Succeed, DropFile, DropRow, DropJob, Fail, Raise, Retry, Requeue,
                          GiveUp, WorkerAt, Worker
      <4> QED BY <2>3, <4>1
    <3> QED BY <1>4, <3>1, <3>2, <3>3 DEF WorkerStep, Attempt
  <2> QED BY <1>2, <2>2, <2>3 DEF CauseKnown
<1>5. ASSUME NEW i \in Instances, Crash(i)
      PROVE  CauseKnown'
  <2>1. \A v \in Workers : worker'[v] = worker[v] \/ worker'[v] = Idle
    BY <1>5 DEF Crash
  <2> QED BY <1>2, <2>1 DEF CauseKnown, Idle
<1>6. CASE (\E t \in Threads : Request(t) \/ Creating(t)) \/ (\E c \in Callers : CallerStep(c))
           \/ (\E i \in Instances : Start(i)) \/ Time
  <2>1. UNCHANGED worker
    BY <1>6 DEF Request, Begin, Cancel, Creating, Lookup, EnforceQuotas, Insert, Refuse, CallerStep, Maintain,
                ExpireFile, ExpireRow, ExpireJob, Prune, UnlinkPruned, Beat, Submit, Register, Start, Launch,
                ClaimSlot, ListJobs, Recover, Time, Lapse, ExpireTime, RetainTime
  <2> QED BY <1>3, <2>1
<1>7. CASE UNCHANGED vars
  BY <1>3, <1>7 DEF vars
<1> QED BY <1>4, <1>5, <1>6, <1>7 DEF Next

LEMMA PromiseInvStays == PromiseInv /\ [Next]_vars => PromiseInv' /\ [Promise!PromiseNext]_<<outcome, asked>>
<1> SUFFICES ASSUME PromiseInv, [Next]_vars
             PROVE  PromiseInv' /\ [Promise!PromiseNext]_<<outcome, asked>>
  OBVIOUS
<1>1. TypeInv'
  BY NextType DEF PromiseInv
<1>2. Keeps
  BY NextKeeps
<1>3. CauseKnown'
  BY <1>2, CauseStays DEF Keeps
<1> QED BY <1>1, <1>2, <1>3 DEF Keeps, PromiseInv

LEMMA PromiseInit == Init => PromiseInv /\ Promise!PromiseInit
<1> SUFFICES ASSUME Init PROVE PromiseInv /\ Promise!PromiseInit
  OBVIOUS
<1>1. CancelKnown /\ CauseKnown
  BY DEF Init, CancelKnown, CauseKnown, Past, Idle
<1>2. Promise!PromiseInit
  BY DEF Init, Promise!PromiseInit, Outcome, Active
<1> QED BY <1>1, <1>2, InitType DEF PromiseInv

\* The export jobs implement ExportPromise, whatever the number of jobs, threads, workers and
\* processes: an ended job stays ended, an accepted cancellation excludes success, and no job
\* is cancelled unasked (transition_job, request_cancel, recover_incomplete_jobs).
THEOREM ExportKeepsPromise == Spec => KeepsPromise
<1>1. Init => PromiseInv /\ Promise!PromiseInit
  BY PromiseInit
<1>2. PromiseInv /\ [Next]_vars => PromiseInv' /\ [Promise!PromiseNext]_<<outcome, asked>>
  BY PromiseInvStays
<1> QED BY <1>1, <1>2, PTL DEF Spec, KeepsPromise, Promise!PromiseSpec, outcome

-----------------------------------------------------------------------------
(* Rows of jobs.  Only the insert makes one, and only the insert makes a job active; *)
(* everything else moves, ends or removes what is there and leaves the keys alone.    *)

LEMMA MovesOnly == \A p \in Moves : p[1] \in Active \cup {"succeeded"} /\ p[2] \in Active \cup Terminal
                                    /\ (p[2] \in Active => p[1] \in Active)
  BY DEF Moves, Active, Terminal

\* Nothing becomes a row, nothing becomes active, no row changes its key, and no id that
\* was drawn becomes new again.
RowsShrink ==
    \A j \in Jobs : /\ HasRow(j)' => HasRow(j) /\ keyOf'[j] = keyOf[j]
                    /\ status'[j] \in Active => status[j] \in Active
                    /\ status'[j] = "none" => status[j] = "none"

\* create_job of a job that was not there, under a key that nobody holds.
Creates(t, j) ==
    /\ caller[t].pc = "insert" /\ ~KeyTaken(caller[t].key) /\ j \in NewIds
    /\ status' = [status EXCEPT ![j] = "queued"]
    /\ keyOf' = [keyOf EXCEPT ![j] = caller[t].key]
    /\ caller' = [caller EXCEPT ![t].pc = "submit", ![t].job = j]

LEMMA TransitionShrinks ==
    ASSUME TypeInv, NEW j, NEW expected, NEW new, Transition(j, expected, new),
           status[j] \in expected => <<status[j], new>> \in Moves
    PROVE  RowsShrink
<1>1. CASE j \in Jobs /\ status[j] \in expected
  <2>1. \A k \in Jobs : status'[k] = (IF k = j THEN new ELSE status[k]) /\ keyOf'[k] = keyOf[k]
    BY <1>1 DEF Transition, TypeInv, JobTypes
  <2>2. /\ status[j] \notin {"none", "pruned"} /\ new # "none"
        /\ new \in Active => status[j] \in Active
    BY <1>1, MovesOnly DEF Active, Terminal
  <2> QED BY <2>1, <2>2 DEF RowsShrink, HasRow
<1>2. CASE ~(j \in Jobs /\ status[j] \in expected)
  <2>1. status' = status /\ keyOf' = keyOf
    BY <1>2 DEF Transition, TypeInv, JobTypes
  <2> QED BY <2>1 DEF RowsShrink, HasRow
<1> QED BY <1>1, <1>2

LEMMA AttemptShrinks ==
    ASSUME PromiseInv, NEW w \in Workers, Attempt(w)
    PROVE  RowsShrink
<1> USE DEF PromiseInv
<1> DEFINE j == worker[w].job
<1>1. CASE Claim(w)
  BY <1>1, TransitionShrinks DEF Claim, Moves
<1>2. CASE Succeed(w)
  BY <1>2, TransitionShrinks DEF Succeed, Moves
<1>3. CASE DropJob(w)
  BY <1>3, TransitionShrinks DEF DropJob, Moves
<1>4. CASE Fail(w)
  <2>1. Transition(j, {"running", "cancel_requested"}, worker[w].why) /\ worker[w].pc = "fail"
    BY <1>4 DEF Fail
  <2>2. worker[w].why \in {"failed", "cancelled"}
    BY DEF TypeInv, WorkersOK, Worker
  <2>3. worker[w].why = "cancelled" => status[j] # "running"
    BY <2>1 DEF CauseKnown, Past
  <2> QED BY <2>1, <2>2, <2>3, TransitionShrinks DEF Moves
<1>5. CASE Requeue(w)
  BY <1>5, TransitionShrinks DEF Requeue, Moves
<1>6. CASE GiveUp(w)
  BY <1>6, TransitionShrinks DEF GiveUp, Moves
<1>7. CASE Load(w) \/ Execute(w) \/ Store(w) \/ Record(w) \/ DropFile(w) \/ DropRow(w) \/ Raise(w) \/ Retry(w)
  BY <1>7 DEF Load, Execute, Store, Record, DropFile, DropRow, Raise, Retry, jobVars, RowsShrink, HasRow
<1> QED BY <1>1, <1>2, <1>3, <1>4, <1>5, <1>6, <1>7 DEF Attempt

LEMMA RecoverShrinks ==
    ASSUME TypeInv, NEW i \in Instances, Recover(i)
    PROVE  RowsShrink
<1>1. CASE UNCHANGED jobVars
  BY <1>1 DEF jobVars, RowsShrink, HasRow
<1>2. ASSUME NEW s, RecoverCancelled(i, s)
      PROVE  RowsShrink
  BY <1>2, TransitionShrinks DEF RecoverCancelled, Moves
<1>3. ASSUME NEW s, RecoverStranded(i, s)
      PROVE  RowsShrink
  <2>1. Transition(s.job, {"running"}, "queued") \/ Transition(s.job, {"running"}, "failed")
    BY <1>3 DEF RecoverStranded
  <2> QED BY <2>1, TransitionShrinks DEF Moves
<1> QED BY <1>1, <1>2, <1>3 DEF Recover, RecoverQueued

LEMMA InsertEffect ==
    ASSUME TypeInv, NEW t \in Threads, Insert(t)
    PROVE  RowsShrink \/ \E j \in Jobs : Creates(t, j)
<1>1. CASE KeyTaken(caller[t].key)
  BY <1>1 DEF Insert, jobVars, RowsShrink, HasRow
<1>2. CASE ~KeyTaken(caller[t].key)
  <2>1. PICK j \in NewIds :
            /\ status' = [status EXCEPT ![j] = "queued"]
            /\ keyOf' = [keyOf EXCEPT ![j] = caller[t].key]
            /\ caller' = [caller EXCEPT ![t].pc = "submit", ![t].job = j]
    BY <1>2 DEF Insert
  <2>2. j \in Jobs
    BY DEF NewIds
  <2> QED BY <1>2, <2>1, <2>2 DEF Insert, Creates
<1> QED BY <1>1, <1>2

LEMMA RowsEffect ==
    ASSUME PromiseInv, [Next]_vars
    PROVE  RowsShrink \/ \E t \in Threads, j \in Jobs : Creates(t, j)
<1> USE DEF PromiseInv
<1>0. ASSUME UNCHANGED <<status, keyOf>>
      PROVE  RowsShrink
  BY <1>0 DEF RowsShrink, HasRow
<1>1. CASE UNCHANGED vars
  BY <1>0, <1>1 DEF vars, jobVars
<1>2. ASSUME NEW t \in Threads, Request(t) \/ Creating(t)
      PROVE  RowsShrink \/ \E j \in Jobs : Creates(t, j)
  <2>1. ASSUME NEW j \in Jobs, Cancel(t, j)
        PROVE  RowsShrink
    BY <2>1 DEF Cancel, RowsShrink, HasRow, Active, TypeInv, JobTypes
  <2>2. CASE Insert(t)
    BY <2>2, InsertEffect
  <2>3. CASE Lookup(t) \/ EnforceQuotas(t) \/ Refuse(t)
    BY <1>0, <2>3 DEF Lookup, EnforceQuotas, Refuse, jobVars
  <2>4. ASSUME NEW op, NEW k, Begin(t, op, k)
        PROVE  RowsShrink
    BY <1>0, <2>4 DEF Begin, jobVars
  <2> QED BY <1>2, <2>1, <2>2, <2>3, <2>4 DEF Request, Creating
<1>3. ASSUME NEW c \in Callers, CallerStep(c)
      PROVE  RowsShrink
  <2>1. CASE ExpireJob(c)
    BY <2>1, TransitionShrinks DEF ExpireJob, Moves
  <2>2. CASE Prune(c)
    BY <2>2 DEF Prune, RowsShrink, HasRow, Active
  <2>3. CASE ExpireFile(c) \/ ExpireRow(c) \/ UnlinkPruned(c) \/ Beat(c) \/ Submit(c) \/ Register(c)
    BY <1>0, <2>3 DEF ExpireFile, ExpireRow, UnlinkPruned, Beat, Submit, Register, jobVars
  <2> QED BY <1>3, <2>1, <2>2, <2>3 DEF CallerStep, Maintain
<1>4. ASSUME NEW w \in Workers, WorkerStep(w)
      PROVE  RowsShrink
  <2>1. CASE Take(w) \/ Finish(w) \/ Forget(w)
    BY <1>0, <2>1 DEF Take, Finish, Forget, jobVars
  <2> QED BY <1>4, <2>1, AttemptShrinks DEF WorkerStep
<1>5. ASSUME NEW i \in Instances, Start(i) \/ Crash(i)
      PROVE  RowsShrink
  <2>1. CASE Launch(i) \/ ClaimSlot(i) \/ ListJobs(i) \/ Crash(i)
    BY <1>0, <2>1 DEF Launch, ClaimSlot, ListJobs, Crash, jobVars
  <2> QED BY <1>5, <2>1, RecoverShrinks DEF Start
<1>6. CASE Time
  BY <1>0, <1>6 DEF Time, Lapse, ExpireTime, RetainTime, jobVars
<1> QED BY <1>1, <1>2, <1>3, <1>4, <1>5, <1>6 DEF Next

-----------------------------------------------------------------------------
(* Idempotency keys *)

\* A key has one row at most.  OneJobPerKey counts them.
KeysHaveOneRow ==
    \A j, l \in Jobs : HasRow(j) /\ HasRow(l) /\ keyOf[j] = keyOf[l] /\ keyOf[j] \in Keys => j = l
KeyInv == PromiseInv /\ KeysHaveOneRow

LEMMA CreatesKeepsKeys ==
    ASSUME KeyInv, NEW t \in Threads, NEW j \in Jobs, Creates(t, j)
    PROVE  KeysHaveOneRow'
<1> DEFINE k == caller[t].key
<1>1. \A l \in Jobs : /\ status'[l] = IF l = j THEN "queued" ELSE status[l]
                      /\ keyOf'[l] = IF l = j THEN k ELSE keyOf[l]
  BY DEF Creates, KeyInv, PromiseInv, TypeInv, JobTypes
<1>2. k \in Keys => \A l \in Jobs : HasRow(l) => keyOf[l] # k
  BY ExportAssumption DEF Creates, KeyTaken, HoldsKey
<1>3. \A l \in Jobs \ {j} : HasRow(l)' => HasRow(l)
  BY <1>1 DEF HasRow
<1> HIDE DEF k
<1> QED BY <1>1, <1>2, <1>3 DEF KeyInv, KeysHaveOneRow

LEMMA KeyInvStays == KeyInv /\ [Next]_vars => KeyInv'
<1> SUFFICES ASSUME KeyInv, [Next]_vars PROVE KeyInv'
  OBVIOUS
<1>1. PromiseInv'
  BY PromiseInvStays DEF KeyInv
<1>2. RowsShrink \/ \E t \in Threads, j \in Jobs : Creates(t, j)
  BY RowsEffect DEF KeyInv
<1>3. CASE RowsShrink
  <2>1. \A j \in Jobs : HasRow(j)' => HasRow(j) /\ keyOf'[j] = keyOf[j]
    BY <1>3 DEF RowsShrink
  <2> QED BY <1>1, <2>1 DEF KeyInv, KeysHaveOneRow
<1> QED BY <1>1, <1>2, <1>3, CreatesKeepsKeys DEF KeyInv

LEMMA KeyInvImplies == KeyInv => OneJobPerKey
<1> SUFFICES ASSUME KeyInv, NEW k \in Keys PROVE Cardinality(HoldsKey(k)) <= 1
  BY DEF OneJobPerKey
<1>1. \A j, l \in HoldsKey(k) : j = l
  BY DEF KeyInv, KeysHaveOneRow, HoldsKey
<1>2. HoldsKey(k) = {} \/ \E j : HoldsKey(k) = {j}
  BY <1>1
<1>3. Cardinality(HoldsKey(k)) \in {0, 1}
  BY <1>2, FS_EmptySet, FS_Singleton, Zenon
<1> QED BY <1>3

\* However many requests arrive with one idempotency key, and however they overlap with each
\* other, with clean-ups, recoveries and other processes: at most one job has the key
\* (create_export, create_job and its unique index; prune_expired_jobs gives the key back).
THEOREM KeyHasOneJob == Spec => []OneJobPerKey
<1>1. Init => KeyInv
  <2>1. Init => KeysHaveOneRow
    BY DEF Init, KeysHaveOneRow, HasRow
  <2> QED BY <2>1, PromiseInit DEF KeyInv
<1> QED BY <1>1, KeyInvStays, KeyInvImplies, PTL DEF Spec

-----------------------------------------------------------------------------
(* The quota.  Threads between the check and the insert count with the active jobs: each *)
(* of them may add one, and none of them is let through once the quota is reached.        *)

Inserting == {t \in Threads : caller[t].pc = "insert"}
QuotaInv ==
    /\ PromiseInv
    /\ IsFiniteSet(ActiveJobs)
    /\ Cardinality(ActiveJobs) + Cardinality(Inserting) <= (Quota - 1) + Cardinality(Threads)

\* Only the check lets a thread on to the insert.
LEMMA InsertingEffect ==
    ASSUME TypeInv, [Next]_vars
    PROVE  Inserting' \subseteq Inserting \/ (UNCHANGED status /\ QuotaLeft)
<1>0. caller \in [Callers -> Caller] /\ Threads \subseteq Callers /\ Instances \subseteq Callers
  BY DEF TypeInv, CallersOK, Callers
<1>a. ASSUME UNCHANGED caller
      PROVE  Inserting' \subseteq Inserting
  BY <1>a DEF Inserting
<1>b. ASSUME NEW c \in Callers, NEW f, caller' = [caller EXCEPT ![c] = f], f.pc # "insert"
      PROVE  Inserting' \subseteq Inserting
  BY <1>0, <1>b DEF Inserting
<1>c. ASSUME NEW c \in Callers, NEW pc, Goto(c, pc), pc # "insert"
      PROVE  Inserting' \subseteq Inserting
  <2>1. [caller[c] EXCEPT !.pc = pc].pc = pc
    BY <1>0 DEF Caller
  <2> QED BY <1>b, <1>c, <2>1 DEF Goto
<1>d. ASSUME NEW c \in Callers, Return(c)
      PROVE  Inserting' \subseteq Inserting
  <2>1. Frame("idle", "list").pc # "insert" /\ [caller[c] EXCEPT !.pc = "recover", !.job = None].pc # "insert"
    BY <1>0 DEF Caller, Frame
  <2> QED BY <1>b, <1>d, <2>1 DEF Return
<1>e. \A f \in Caller : Maintaining(f).pc # "insert"
  <2> TAKE f \in Caller
  <2> DEFINE found == {a \in artifacts \ withdrawn : Overdue(a)}
  <2>1. Maintaining(f) = [f EXCEPT !.seen = found, !.pc = IF found = {} THEN "prune" ELSE "dropFile"]
    BY DEF Maintaining
  <2> HIDE DEF found
  <2> QED BY <2>1 DEF Caller
<1>1. CASE UNCHANGED vars
  BY <1>a, <1>1 DEF vars
<1>2. ASSUME NEW t \in Threads, Request(t)
      PROVE  Inserting' \subseteq Inserting
  <2>1. ASSUME NEW op \in {"create", "list"}, NEW k \in Keys \cup {None}, Begin(t, op, k)
        PROVE  Inserting' \subseteq Inserting
    <3>1. [Frame("idle", op) EXCEPT !.key = k] \in Caller
      BY DEF Frame, Caller, CallerSteps, Artifact, Snapshot
    <3> QED BY <1>0, <1>b, <1>e, <2>1, <3>1 DEF Begin
  <2>2. ASSUME NEW j \in Jobs, Cancel(t, j)
        PROVE  Inserting' \subseteq Inserting
    BY <1>a, <2>2 DEF Cancel
  <2> QED BY <1>2, <2>1, <2>2 DEF Request
<1>3. ASSUME NEW t \in Threads, Creating(t)
      PROVE  Inserting' \subseteq Inserting \/ (UNCHANGED status /\ QuotaLeft)
  <2>1. CASE Lookup(t)
    BY <1>0, <1>c, <1>d, <2>1 DEF Lookup
  <2>2. CASE EnforceQuotas(t)
    BY <1>0, <1>d, <2>2 DEF EnforceQuotas, jobVars
  <2>3. CASE Refuse(t)
    BY <1>0, <1>d, <2>3 DEF Refuse
  <2>4. CASE Insert(t)
    <3>1. CASE KeyTaken(caller[t].key)
      BY <1>0, <1>d, <2>4, <3>1 DEF Insert
    <3>2. ASSUME NEW j, caller' = [caller EXCEPT ![t].pc = "submit", ![t].job = j]
          PROVE  Inserting' \subseteq Inserting
      <4> DEFINE f == [caller[t] EXCEPT !.pc = "submit", !.job = j]
      <4>1. f.pc # "insert" /\ caller' = [caller EXCEPT ![t] = f]
        BY <1>0, <3>2 DEF Caller
      <4> HIDE DEF f
      <4> QED BY <1>0, <1>b, <4>1
    <3> QED BY <2>4, <3>1, <3>2 DEF Insert
  <2> QED BY <1>3, <2>1, <2>2, <2>3, <2>4 DEF Creating
<1>4. ASSUME NEW c \in Callers, CallerStep(c)
      PROVE  Inserting' \subseteq Inserting
  <2>1. ASSUME NEW rest, NEW pc, pc # "insert", caller' = [caller EXCEPT ![c].seen = rest, ![c].pc = pc]
        PROVE  Inserting' \subseteq Inserting
    <3> DEFINE f == [caller[c] EXCEPT !.seen = rest, !.pc = pc]
    <3>1. f.pc # "insert" /\ caller' = [caller EXCEPT ![c] = f]
      BY <1>0, <2>1 DEF Caller
    <3> HIDE DEF f
    <3> QED BY <1>b, <3>1
  <2>2. CASE ExpireFile(c) \/ ExpireRow(c)
    BY <1>c, <2>2 DEF ExpireFile, ExpireRow
  <2>3. CASE ExpireJob(c) \/ UnlinkPruned(c)
    BY <2>1, <2>3 DEF ExpireJob, UnlinkPruned
  <2>4. CASE Prune(c)
    <3> DEFINE rows == {a \in artifacts : a[1] \in {j \in retired : status[j] \in Terminal}}
    <3>1. caller' = [caller EXCEPT ![c].seen = rows, ![c].pc = IF rows = {} THEN "beat" ELSE "unlink"]
      BY <2>4 DEF Prune
    <3> HIDE DEF rows
    <3> QED BY <2>1, <3>1
  <2>5. CASE Beat(c)
    <3>1. AfterMaintenance(caller[c]) # "insert"
      BY <1>0 DEF AfterMaintenance, Caller
    <3> QED BY <1>c, <2>5, <3>1 DEF Beat
  <2>6. CASE Submit(c) \/ Register(c)
    BY <1>c, <1>d, <2>6 DEF Submit, Register
  <2> QED BY <1>4, <2>2, <2>3, <2>4, <2>5, <2>6 DEF CallerStep, Maintain
<1>5. ASSUME NEW w \in Workers, WorkerStep(w)
      PROVE  Inserting' \subseteq Inserting
  BY <1>5, <1>a DEF WorkerStep, Attempt, Take, Finish, Forget, Claim, Load, Execute, Store, Record, Succeed,
       DropFile, DropRow, DropJob, Fail, Raise, Retry, Requeue, GiveUp
<1>6. ASSUME NEW i \in Instances, Start(i)
      PROVE  Inserting' \subseteq Inserting
  <2>1. CASE Launch(i)
    <3>1. Frame("claim", "start").pc # "insert"
      BY DEF Frame
    <3> QED BY <1>0, <1>b, <2>1, <3>1 DEF Launch
  <2>2. CASE ClaimSlot(i)
    BY <1>0, <1>c, <2>2 DEF ClaimSlot
  <2>3. ASSUME NEW rows, caller' = [caller EXCEPT ![i].pc = "recover", ![i].left = rows]
        PROVE  Inserting' \subseteq Inserting
    <3> DEFINE f == [caller[i] EXCEPT !.pc = "recover", !.left = rows]
    <3>1. f.pc # "insert" /\ caller' = [caller EXCEPT ![i] = f]
      BY <1>0, <2>3 DEF Caller
    <3> HIDE DEF f
    <3> QED BY <1>0, <1>b, <3>1
  <2>4. ASSUME NEW s, NEW pc, pc # "insert", Recovered(i, s, pc)
        PROVE  Inserting' \subseteq Inserting
    <3> DEFINE f == [caller[i] EXCEPT !.pc = pc, !.left = @ \ {s}, !.job = IF pc = "submit" THEN s.job ELSE None]
    <3>1. f.pc # "insert" /\ caller' = [caller EXCEPT ![i] = f]
      BY <1>0, <2>4 DEF Caller, Recovered
    <3> HIDE DEF f
    <3> QED BY <1>0, <1>b, <3>1
  <2>5. CASE Recover(i)
    <3>1. Frame("recover", "start") \in Caller
      BY DEF Frame, Caller, CallerSteps, Artifact, Snapshot
    <3>2. CASE caller' = [caller EXCEPT ![i] = Maintaining(Frame("recover", "start"))]
      BY <1>0, <1>b, <1>e, <3>1, <3>2
    <3> QED BY <2>4, <2>5, <3>2 DEF Recover, RecoverQueued, RecoverCancelled, RecoverStranded
  <2> QED BY <1>6, <2>1, <2>2, <2>3, <2>5 DEF Start, ListJobs
<1>7. ASSUME NEW i \in Instances, Crash(i)
      PROVE  Inserting' \subseteq Inserting
  <2>1. \A t \in Threads : caller'[t] = caller[t] \/ caller'[t].pc \in {"down", "idle"}
    BY <1>0, <1>7 DEF Crash, Frame
  <2> QED BY <2>1 DEF Inserting
<1>8. CASE Time
  BY <1>a, <1>8 DEF Time, Lapse, ExpireTime, RetainTime
<1> QED BY <1>1, <1>2, <1>3, <1>4, <1>5, <1>6, <1>7, <1>8 DEF Next

LEMMA QuotaInvStays ==
    ASSUME IsFiniteSet(Threads), QuotaInv, [Next]_vars
    PROVE  QuotaInv'
<1>0. PromiseInv' /\ Quota \in Nat \ {0} /\ Cardinality(Threads) \in Nat
  BY PromiseInvStays, ExportAssumption, FS_CardinalityType DEF QuotaInv
<1>1. Cardinality(ActiveJobs) \in Nat
  BY FS_CardinalityType DEF QuotaInv
<1>2. /\ IsFiniteSet(Inserting) /\ IsFiniteSet(Inserting')
      /\ Cardinality(Inserting) <= Cardinality(Threads) /\ Cardinality(Inserting') <= Cardinality(Threads)
      /\ Cardinality(Inserting) \in Nat /\ Cardinality(Inserting') \in Nat
  <2>1. Inserting \in SUBSET Threads /\ Inserting' \in SUBSET Threads
    BY DEF Inserting
  <2> QED BY <2>1, FS_Subset, FS_CardinalityType
<1>3. ASSUME NEW t \in Threads, NEW j \in Jobs, Creates(t, j)
      PROVE  QuotaInv'
  <2>1. j \notin ActiveJobs /\ ActiveJobs' = ActiveJobs \cup {j}
    BY <1>3 DEF Creates, NewIds, ActiveJobs, Active, QuotaInv, PromiseInv, TypeInv, JobTypes
  <2>2. IsFiniteSet(ActiveJobs') /\ Cardinality(ActiveJobs') = Cardinality(ActiveJobs) + 1
    BY <2>1, FS_AddElement DEF QuotaInv
  <2>3. t \in Inserting /\ Inserting' = Inserting \ {t}
    <3>1. caller \in [Callers -> Caller] /\ t \in Callers
      BY DEF QuotaInv, PromiseInv, TypeInv, CallersOK, Callers
    <3>2. \A u \in Threads : caller'[u].pc = IF u = t THEN "submit" ELSE caller[u].pc
      BY <1>3, <3>1 DEF Creates, Callers, Caller
    <3>3. \A u \in Threads : caller'[u].pc = "insert" <=> u # t /\ caller[u].pc = "insert"
      BY <3>2
    <3>4. t \in Inserting
      BY <1>3 DEF Inserting, Creates
    <3>5. Inserting' = {u \in Threads : u # t /\ caller[u].pc = "insert"}
      BY <3>3 DEF Inserting
    <3> QED BY <3>4, <3>5 DEF Inserting
  <2>4. Cardinality(Inserting') = Cardinality(Inserting) - 1
    BY <1>2, <2>3, FS_RemoveElement
  <2> QED BY <1>0, <1>1, <1>2, <2>2, <2>4 DEF QuotaInv
<1>4. CASE RowsShrink
  <2>1. ActiveJobs' \in SUBSET ActiveJobs
    BY <1>4 DEF RowsShrink, ActiveJobs
  <2>2. IsFiniteSet(ActiveJobs') /\ Cardinality(ActiveJobs') <= Cardinality(ActiveJobs) /\ Cardinality(ActiveJobs') \in Nat
    BY <2>1, FS_Subset, FS_CardinalityType DEF QuotaInv
  <2>3. CASE Inserting' \subseteq Inserting
    <3>1. Cardinality(Inserting') <= Cardinality(Inserting)
      BY <1>2, <2>3, FS_Subset
    <3> QED BY <1>0, <1>1, <1>2, <2>2, <3>1 DEF QuotaInv
  <2>4. CASE QuotaLeft
    BY <1>0, <1>1, <1>2, <2>2, <2>4 DEF QuotaInv, QuotaLeft
  <2> QED BY <2>3, <2>4, InsertingEffect DEF QuotaInv, PromiseInv
<1> QED BY <1>3, <1>4, RowsEffect DEF QuotaInv

\* With any finite number of request threads, all of which may pass the check before the
\* first of them inserts, the quota is exceeded by fewer jobs than there are threads,
\* also after restarts and beside other processes (_enforce_quotas, create_job).
THEOREM OvershootIsBounded == IsFiniteSet(Threads) /\ Spec => []QuotaOvershootIsBounded
<1> SUFFICES ASSUME IsFiniteSet(Threads) PROVE Spec => []QuotaOvershootIsBounded
  OBVIOUS
<1>0. Quota \in Nat \ {0} /\ Cardinality(Threads) \in Nat
  BY ExportAssumption, FS_CardinalityType
<1>1. Init => QuotaInv
  <2> SUFFICES ASSUME Init PROVE QuotaInv
    OBVIOUS
  <2>1. ActiveJobs = {}
    BY DEF Init, ActiveJobs, Active
  <2>2. Inserting = {}
    BY DEF Init, Inserting, Callers, Frame
  <2> QED BY <1>0, <2>1, <2>2, FS_EmptySet, PromiseInit DEF QuotaInv
<1>2. QuotaInv /\ [Next]_vars => QuotaInv'
  BY QuotaInvStays
<1>3. QuotaInv => QuotaOvershootIsBounded
  <2> SUFFICES ASSUME QuotaInv PROVE QuotaOvershootIsBounded
    OBVIOUS
  <2>1. Inserting \in SUBSET Threads
    BY DEF Inserting
  <2>2. Cardinality(Inserting) \in Nat /\ Cardinality(ActiveJobs) \in Nat
    BY <2>1, FS_Subset, FS_CardinalityType DEF QuotaInv
  <2> QED BY <1>0, <2>2 DEF QuotaInv, QuotaOvershootIsBounded
<1> QED BY <1>1, <1>2, <1>3, PTL DEF Spec

-----------------------------------------------------------------------------
(* One process.  While no other process works on the same database, a job that may still *)
(* be attempted is in one place only: with the caller that is about to submit it, in the   *)
(* list of the recovery, in the pool, or with a worker.  That the main thread lists the    *)
(* incomplete jobs before it lets requests in, and before it submits any, is what makes     *)
(* it so.                                                                                   *)

OneProcess == \A h, i \in Instances : h = i

Working == WorkerSteps \ {"idle", "finish", "forget"}
Submits(c, j) == caller[c].pc = "submit" /\ caller[c].job = j
Listed(i, j) == \E s \in caller[i].left : s.job = j
Pooled(i, j) == \E n \in DOMAIN pool[i] : pool[i][n] = j
Works(w, j) == worker[w].pc \in Working /\ worker[w].job = j

SubmitsAlone(c) ==
    \A j \in Jobs : Submits(c, j) =>
        /\ \A d \in Callers : Submits(d, j) => d = c
        /\ \A i \in Instances : ~Listed(i, j) /\ ~Pooled(i, j)
        /\ \A w \in Workers : ~Works(w, j)
ListedAlone(i) ==
    \A s \in caller[i].left :
        /\ \A r \in caller[i].left : r.job = s.job => r = s
        /\ \A h \in Instances : ~Pooled(h, s.job)
        /\ \A w \in Workers : ~Works(w, s.job)
PooledAlone(i) ==
    \A n \in DOMAIN pool[i] :
        /\ \A m \in DOMAIN pool[i] : pool[i][m] = pool[i][n] => m = n
        /\ \A w \in Workers : ~Works(w, pool[i][n])
WorksAlone(w) == \A v \in Workers, j \in Jobs : Works(w, j) /\ Works(v, j) => v = w

Alone ==
    /\ \A c \in Callers : SubmitsAlone(c)
    /\ \A i \in Instances : ListedAlone(i) /\ PooledAlone(i)
    /\ \A w \in Workers : WorksAlone(w)

\* What is held has been drawn.
HeldExist ==
    /\ \A c \in Callers, j \in Jobs : Submits(c, j) => status[j] # "none"
    /\ \A i \in Instances, j \in Jobs : Listed(i, j) \/ Pooled(i, j) => status[j] # "none"
    /\ \A w \in Workers, j \in Jobs : Works(w, j) => status[j] # "none"

\* Requests come in last, and the pool is used only after the incomplete jobs are listed.
Starting == {"down", "claim", "listJobs"}
Recovering == {"recover", "submit", "register", "wedged"}
Phases ==
    \A i \in Instances :
        /\ caller[i].pc # "serving" => \A t \in Threads : Host[t] = i => caller[t].pc = "idle"
        /\ caller[i].pc \in Starting => pool[i] = <<>> /\ \A w \in Workers : Host[w] = i => worker[w].pc = "idle"
        /\ caller[i].left # {} => caller[i].pc \in Recovering

PlacesInv == PromiseInv /\ Alone /\ HeldExist /\ Phases

\* Ids that were drawn stay drawn.
DrawnStay == \A j \in Jobs : status'[j] = "none" => status[j] = "none"

LEMMA NextDrawn ==
    ASSUME PromiseInv, [Next]_vars
    PROVE  DrawnStay
<1>1. ASSUME NEW t \in Threads, NEW j \in Jobs, Creates(t, j)
      PROVE  DrawnStay
  BY <1>1 DEF Creates, DrawnStay, PromiseInv, TypeInv, JobTypes
<1> QED BY <1>1, RowsEffect DEF RowsShrink, DrawnStay

LEMMA PlaceTypes ==
    ASSUME TypeInv
    PROVE  /\ caller \in [Callers -> Caller] /\ worker \in [Workers -> Worker] /\ pool \in [Instances -> Seq(Jobs)]
           /\ status \in [Jobs -> Statuses]
           /\ \A c \in Callers : caller[c].pc = "submit" => caller[c].job \in Jobs
           /\ \A w \in Workers : worker[w].pc # "idle" => worker[w].job \in Jobs
           /\ \A i \in Instances : \A s \in caller[i].left : s \in Snapshot /\ s.job \in Jobs /\ s.status \in Active
           /\ \A i \in Instances : \A n \in DOMAIN pool[i] : pool[i][n] \in Jobs
           /\ Threads \subseteq Callers /\ Instances \subseteq Callers
           /\ \A x \in Instances \cup Threads \cup Workers : Host[x] \in Instances
           /\ \A i \in Instances : Host[i] = i /\ i \notin Threads
<1>1. caller \in [Callers -> Caller] /\ worker \in [Workers -> Worker] /\ pool \in [Instances -> Seq(Jobs)]
      /\ status \in [Jobs -> Statuses]
  BY DEF TypeInv, CallersOK, WorkersOK, CoordinatorTypes, JobTypes
<1>2. \A c \in Callers : caller[c].pc = "submit" => caller[c].job \in Jobs
  BY DEF TypeInv, CallersOK, CallerOK, WithJob
<1>3. \A w \in Workers : worker[w].pc # "idle" => worker[w].job \in Jobs
  BY DEF TypeInv, WorkersOK, WorkerOK
<1>4. Threads \subseteq Callers /\ Instances \subseteq Callers
  BY DEF Callers
<1>5. \A i \in Instances : \A s \in caller[i].left : s \in Snapshot /\ s.job \in Jobs /\ s.status \in Active
  BY <1>1, <1>4 DEF Caller, Snapshot
<1>6. \A i \in Instances : \A n \in DOMAIN pool[i] : pool[i][n] \in Jobs
  BY <1>1
<1>7. \A i \in Instances : Host[i] = i /\ i \notin Threads
  BY ExportAssumption
<1> QED BY <1>1, <1>2, <1>3, <1>4, <1>5, <1>6, <1>7, HostType

\* A step in which a caller takes nothing up.
CallerMove(c) ==
    /\ \A d \in Callers \ {c} : caller'[d] = caller[d]
    /\ caller'[c].left \subseteq caller[c].left /\ caller'[c].pc # "submit"
    /\ c \in Threads => caller[c].pc # "idle" \/ Serving(Host[c])
    /\ c \in Instances => /\ caller[c].pc # "serving"
                          /\ caller'[c].pc \in Starting => caller[c].pc \in Starting
                          /\ caller'[c].left # {} => caller'[c].pc \in Recovering

LEMMA CallerMovePlaces ==
    ASSUME PlacesInv, NEW c \in Callers, CallerMove(c), UNCHANGED <<worker, pool>>, DrawnStay
    PROVE  Alone' /\ HeldExist' /\ Phases'
<1> USE DEF PlacesInv
<1>1. \A d \in Callers, j \in Jobs : Submits(d, j)' => Submits(d, j)
  BY DEF CallerMove, Submits
<1>2. \A i \in Instances : caller'[i].left \subseteq caller[i].left
  BY DEF CallerMove, Callers
<1>3. \A i \in Instances, j \in Jobs : (Listed(i, j)' => Listed(i, j)) /\ (Pooled(i, j)' <=> Pooled(i, j))
  BY <1>2 DEF Listed, Pooled
<1>4. \A w \in Workers, j \in Jobs : Works(w, j)' <=> Works(w, j)
  BY DEF Works
<1>5. Alone'
  <2>1. \A d \in Callers : SubmitsAlone(d)'
    BY <1>1, <1>3, <1>4 DEF Alone, SubmitsAlone
  <2>2. \A i \in Instances : ListedAlone(i)'
    <3>1. \A i \in Instances : \A s \in caller[i].left : s.job \in Jobs
      BY PlaceTypes DEF PromiseInv
    <3> QED BY <1>2, <1>3, <1>4, <3>1 DEF Alone, ListedAlone
  <2>3. \A i \in Instances : PooledAlone(i)'
    BY DEF Alone, PooledAlone, Works
  <2>4. \A w \in Workers : WorksAlone(w)'
    BY <1>4 DEF Alone, WorksAlone
  <2> QED BY <2>1, <2>2, <2>3, <2>4 DEF Alone
<1>6. HeldExist'
  BY <1>1, <1>3, <1>4 DEF HeldExist, DrawnStay
<1>7. Phases'
  <2> SUFFICES ASSUME NEW i \in Instances
               PROVE  /\ caller'[i].pc # "serving" => \A t \in Threads : Host[t] = i => caller'[t].pc = "idle"
                      /\ caller'[i].pc \in Starting => pool[i] = <<>> /\ \A w \in Workers : Host[w] = i => worker[w].pc = "idle"
                      /\ caller'[i].left # {} => caller'[i].pc \in Recovering
    BY DEF Phases
  <2>1. i \in Callers /\ i \notin Threads /\ Threads \subseteq Callers
    BY PlaceTypes DEF PromiseInv
  <2>2. CASE c = i
    BY <2>1, <2>2 DEF CallerMove, Phases
  <2>3. CASE c # i
    <3>1. caller'[i] = caller[i]
      BY <2>1, <2>3 DEF CallerMove
    <3>2. c \in Threads /\ Host[c] = i => caller[i].pc = "serving"
      BY DEF CallerMove, Phases, Serving
    <3> QED BY <2>1, <3>1, <3>2 DEF CallerMove, Phases
  <2> QED BY <2>2, <2>3
<1> QED BY <1>5, <1>6, <1>7

\* A step in which a worker takes nothing up.
WorkerMove(w) ==
    /\ \A v \in Workers \ {w} : worker'[v] = worker[v]
    /\ worker[w].pc # "idle"
    /\ worker'[w].pc \in Working => worker[w].pc \in Working /\ worker'[w].job = worker[w].job

LEMMA WorkerMovePlaces ==
    ASSUME PlacesInv, NEW w \in Workers, WorkerMove(w), UNCHANGED <<caller, pool>>, DrawnStay
    PROVE  Alone' /\ HeldExist' /\ Phases'
<1> USE DEF PlacesInv
<1>1. \A v \in Workers : \A j : Works(v, j)' => Works(v, j)
  BY DEF WorkerMove, Works
<1>2. \A d \in Callers, j \in Jobs : Submits(d, j)' <=> Submits(d, j)
  BY DEF Submits
<1>3. \A i \in Instances : \A j : (Listed(i, j)' <=> Listed(i, j)) /\ (Pooled(i, j)' <=> Pooled(i, j))
  BY DEF Listed, Pooled
<1>4. Alone'
  BY <1>1, <1>2, <1>3 DEF Alone, SubmitsAlone, ListedAlone, PooledAlone, WorksAlone
<1>5. HeldExist'
  BY <1>1, <1>2, <1>3 DEF HeldExist, DrawnStay
<1>6. Phases'
  BY DEF WorkerMove, Phases
<1> QED BY <1>4, <1>5, <1>6

LEMMA InsertPlaces ==
    ASSUME PlacesInv, NEW t \in Threads, NEW j \in Jobs, Creates(t, j), UNCHANGED <<worker, pool>>
    PROVE  Alone' /\ HeldExist' /\ Phases'
<1> USE DEF PlacesInv
<1>1. /\ caller \in [Callers -> Caller] /\ t \in Callers /\ Threads \subseteq Callers /\ Instances \subseteq Callers
      /\ \A i \in Instances : i \notin Threads /\ \A s \in caller[i].left : s.job \in Jobs
      /\ \A i \in Instances : \A n \in DOMAIN pool[i] : pool[i][n] \in Jobs
  BY PlaceTypes DEF PromiseInv
<1>2. /\ \A d \in Callers \ {t} : caller'[d] = caller[d]
      /\ caller'[t].pc = "submit" /\ caller'[t].job = j /\ caller'[t].left = caller[t].left
      /\ caller[t].pc = "insert"
  BY <1>1 DEF Creates, Caller
<1>3. status[j] = "none" /\ \A k \in Jobs : status'[k] = IF k = j THEN "queued" ELSE status[k]
  BY DEF Creates, NewIds, PromiseInv, TypeInv, JobTypes
<1>4. /\ \A d \in Callers : ~Submits(d, j)
      /\ \A i \in Instances : ~Listed(i, j) /\ ~Pooled(i, j)
      /\ \A w \in Workers : ~Works(w, j)
  BY <1>3 DEF HeldExist
<1>5. \A d \in Callers, k \in Jobs : Submits(d, k)' <=> (d = t /\ k = j) \/ (d # t /\ Submits(d, k))
  BY <1>2 DEF Submits
<1>6. \A i \in Instances : caller'[i].left = caller[i].left
  BY <1>1, <1>2
<1>7. \A i \in Instances, k \in Jobs : (Listed(i, k)' <=> Listed(i, k)) /\ (Pooled(i, k)' <=> Pooled(i, k))
  BY <1>6 DEF Listed, Pooled
<1>8. \A w \in Workers, k \in Jobs : Works(w, k)' <=> Works(w, k)
  BY DEF Works
<1>9. Alone'
  <2>1. \A d \in Callers : SubmitsAlone(d)'
    BY <1>4, <1>5, <1>7, <1>8 DEF Alone, SubmitsAlone
  <2>2. \A i \in Instances : ListedAlone(i)'
    BY <1>1, <1>6, <1>7, <1>8 DEF Alone, ListedAlone
  <2>3. \A i \in Instances : PooledAlone(i)'
    BY <1>1, <1>8 DEF Alone, PooledAlone
  <2>4. \A w \in Workers : WorksAlone(w)'
    BY <1>8 DEF Alone, WorksAlone
  <2> QED BY <2>1, <2>2, <2>3, <2>4 DEF Alone
<1>10. HeldExist'
  BY <1>3, <1>4, <1>5, <1>7, <1>8 DEF HeldExist
<1>11. Phases'
  <2>1. \A i \in Instances : caller'[i] = caller[i]
    BY <1>1, <1>2
  <2>2. \A u \in Threads : caller'[u].pc = "idle" <=> caller[u].pc = "idle"
    BY <1>1, <1>2
  <2> QED BY <2>1, <2>2 DEF Phases
<1> QED BY <1>9, <1>10, <1>11

\* executor.submit: the job goes from the caller to the end of the pool.
LEMMA SubmitPlaces ==
    ASSUME PlacesInv, NEW c \in Callers, Submit(c), future[Host[c]][caller[c].job] # "pending"
    PROVE  Alone' /\ HeldExist' /\ Phases'
<1> USE DEF PlacesInv
<1>1. /\ caller \in [Callers -> Caller] /\ Threads \subseteq Callers /\ Instances \subseteq Callers
      /\ pool \in [Instances -> Seq(Jobs)]
      /\ \A h \in Instances : Host[h] = h /\ h \notin Threads /\ \A s \in caller[h].left : s.job \in Jobs
      /\ \A h \in Instances : \A n \in DOMAIN pool[h] : pool[h][n] \in Jobs
      /\ caller[c].pc = "submit" => caller[c].job \in Jobs
  BY PlaceTypes DEF PromiseInv
<1>i. PICK i \in Instances : i = Host[c]
  BY PlaceTypes DEF PromiseInv, Callers
<1>j. PICK j \in Jobs : j = caller[c].job
  BY <1>1 DEF Submit
<1>2. /\ caller[c].pc = "submit" /\ Submits(c, j)
      /\ pool' = [pool EXCEPT ![i] = Append(@, j)] /\ UNCHANGED <<status, worker>>
      /\ caller' = [caller EXCEPT ![c].pc = "register"]
  BY <1>i, <1>j DEF Submit, Goto, Submits, jobVars
<1>3. /\ \A d \in Callers \ {c} : caller'[d] = caller[d]
      /\ caller'[c].pc = "register" /\ caller'[c].left = caller[c].left
  BY <1>1, <1>2 DEF Caller
<1>4. /\ \A d \in Callers : Submits(d, j) => d = c
      /\ \A h \in Instances : ~Listed(h, j) /\ ~Pooled(h, j)
      /\ \A w \in Workers : ~Works(w, j)
  BY <1>2 DEF Alone, SubmitsAlone
<1>5. /\ DOMAIN pool'[i] = DOMAIN pool[i] \cup {Len(pool[i]) + 1} /\ Len(pool[i]) + 1 \notin DOMAIN pool[i]
      /\ pool'[i][Len(pool[i]) + 1] = j
      /\ \A n \in DOMAIN pool[i] : pool'[i][n] = pool[i][n]
      /\ \A h \in Instances \ {i} : pool'[h] = pool[h]
  <2> DEFINE p == pool[i]
  <2>1. p \in Seq(Jobs)
    BY <1>1
  <2>2. pool'[i] = Append(p, j)
    BY <1>1, <1>2
  <2>3. \A h \in Instances \ {i} : pool'[h] = pool[h]
    BY <1>1, <1>2
  <2> HIDE DEF p
  <2>4. /\ DOMAIN Append(p, j) = DOMAIN p \cup {Len(p) + 1} /\ Len(p) + 1 \notin DOMAIN p
        /\ Append(p, j)[Len(p) + 1] = j
        /\ \A n \in DOMAIN p : Append(p, j)[n] = p[n]
    BY <1>2, <2>1
  <2> QED BY <2>2, <2>3, <2>4 DEF p
<1>6. \A d \in Callers, k \in Jobs : Submits(d, k)' => Submits(d, k) /\ k # j
  <2>1. \A d \in Callers, k \in Jobs : Submits(d, k)' => d # c /\ Submits(d, k)
    BY <1>3 DEF Submits
  <2> QED BY <1>4, <2>1
<1>7. \A h \in Instances : caller'[h].left = caller[h].left
  BY <1>1, <1>3
<1>8. \A h \in Instances, k \in Jobs : /\ Listed(h, k)' <=> Listed(h, k)
                                       /\ Pooled(h, k)' => Pooled(h, k) \/ k = j
  <2>1. \A h \in Instances, k \in Jobs : Listed(h, k)' <=> Listed(h, k)
    BY <1>7 DEF Listed
  <2>2. \A h \in Instances, k \in Jobs : Pooled(h, k)' => Pooled(h, k) \/ k = j
    BY <1>5 DEF Pooled
  <2> QED BY <2>1, <2>2
<1>9. \A w \in Workers, k \in Jobs : Works(w, k)' <=> Works(w, k)
  BY <1>2 DEF Works
<1>10. Alone'
  <2>1. \A d \in Callers : SubmitsAlone(d)'
    BY <1>6, <1>8, <1>9 DEF Alone, SubmitsAlone
  <2>2. \A h \in Instances : ListedAlone(h)'
    <3>1. \A h \in Instances : \A s \in caller[h].left : s.job # j
      BY <1>4 DEF Listed
    <3> QED BY <1>1, <1>7, <1>8, <1>9, <3>1 DEF Alone, ListedAlone
  <2>3. \A h \in Instances : PooledAlone(h)'
    <3>1. \A h \in Instances \ {i} : PooledAlone(h)'
      BY <1>1, <1>5, <1>9 DEF Alone, PooledAlone
    <3>2. \A n \in DOMAIN pool[i] : pool[i][n] # j /\ pool[i][n] \in Jobs
      BY <1>1, <1>4 DEF Pooled
    <3>3. \A n \in DOMAIN pool'[i], m \in DOMAIN pool'[i] : pool'[i][m] = pool'[i][n] => m = n
      BY <1>5, <3>2 DEF Alone, PooledAlone
    <3>4. \A n \in DOMAIN pool'[i], w \in Workers : ~Works(w, pool[i][n])'
      <4> TAKE n \in DOMAIN pool'[i], w \in Workers
      <4>1. CASE n \in DOMAIN pool[i]
        <5>1. ~Works(w, pool[i][n]) /\ pool'[i][n] = pool[i][n]
          BY <1>5, <4>1 DEF Alone, PooledAlone
        <5> QED BY <1>2, <5>1 DEF Works
      <4>2. CASE n \notin DOMAIN pool[i]
        <5>1. ~Works(w, j) /\ pool'[i][n] = j
          BY <1>4, <1>5, <4>2
        <5> QED BY <1>2, <5>1 DEF Works
      <4> QED BY <4>1, <4>2
    <3>5. PooledAlone(i)'
      BY <3>3, <3>4 DEF PooledAlone
    <3> QED BY <3>1, <3>5
  <2>4. \A w \in Workers : WorksAlone(w)'
    BY <1>9 DEF Alone, WorksAlone
  <2> QED BY <2>1, <2>2, <2>3, <2>4 DEF Alone
<1>11. HeldExist'
  BY <1>2, <1>6, <1>8, <1>9 DEF HeldExist, Submits
<1>12. Phases'
  <2> SUFFICES ASSUME NEW h \in Instances
               PROVE  /\ caller'[h].pc # "serving" => \A t \in Threads : Host[t] = h => caller'[t].pc = "idle"
                      /\ caller'[h].pc \in Starting => pool'[h] = <<>> /\ \A w \in Workers : Host[w] = h => worker[w].pc = "idle"
                      /\ caller'[h].left # {} => caller'[h].pc \in Recovering
    BY <1>2 DEF Phases
  <2>1. CASE c = h
    BY <1>1, <1>2, <1>3, <2>1 DEF Phases, Starting, Recovering
  <2>2. CASE c # h
    <3>1. caller'[h] = caller[h]
      BY <1>1, <1>3, <2>2
    <3>2. i = h => caller[h].pc = "serving"
      <4>1. i = h => c \in Threads
        BY <1>1, <1>i, <2>2 DEF Callers
      <4> QED BY <1>2, <1>i, <4>1 DEF Phases
    <3>3. c \in Threads /\ Host[c] = h => caller[h].pc = "serving"
      BY <1>i, <3>2
    <3>4. caller[h].pc \in Starting => pool'[h] = pool[h]
      BY <1>5, <3>2 DEF Starting
    <3> QED BY <1>1, <1>3, <3>1, <3>3, <3>4 DEF Phases
  <2> QED BY <2>1, <2>2
<1> QED BY <1>10, <1>11, <1>12

\* A pool thread takes the first job of the pool.
LEMMA TakePlaces ==
    ASSUME OneProcess, PlacesInv, NEW w \in Workers, Take(w)
    PROVE  Alone' /\ HeldExist' /\ Phases'
<1> USE DEF PlacesInv
<1>1. /\ worker \in [Workers -> Worker] /\ pool \in [Instances -> Seq(Jobs)]
      /\ \A h \in Instances : \A s \in caller[h].left : s.job \in Jobs
  BY PlaceTypes DEF PromiseInv
<1>i. PICK i \in Instances : i = Host[w]
  BY HostType
<1>p. PICK p \in Seq(Jobs) : p = pool[i]
  BY <1>1
<1>j. PICK j \in Jobs : j = Head(p)
  BY <1>i, <1>p DEF Take
<1>2. /\ p \in Seq(Jobs) /\ p # <<>> /\ UNCHANGED <<status, caller>>
      /\ worker[w].pc = "idle"
      /\ worker' = [worker EXCEPT ![w] = [Idle EXCEPT !.pc = "claim", !.job = j]]
      /\ pool' = [pool EXCEPT ![i] = Tail(p)]
  BY <1>i, <1>p, <1>j DEF Take, jobVars
<1>3. /\ \A v \in Workers \ {w} : worker'[v] = worker[v]
      /\ worker'[w].pc = "claim" /\ worker'[w].job = j
  <2>1. worker'[w] = [Idle EXCEPT !.pc = "claim", !.job = j]
    BY <1>1, <1>2
  <2>2. worker'[w].pc = "claim" /\ worker'[w].job = j
    BY <2>1 DEF Idle
  <2> QED BY <1>1, <1>2, <2>2
<1>4. /\ pool'[i] = Tail(p) /\ \A h \in Instances : h = i
      /\ \A n \in DOMAIN Tail(p) : n + 1 \in DOMAIN p /\ n + 1 # 1 /\ Tail(p)[n] = p[n + 1]
      /\ 1 \in DOMAIN p /\ p[1] = j /\ j \in Jobs
      /\ \A n \in DOMAIN Tail(p) : n \in Nat
  <2>1. pool'[i] = Tail(p) /\ \A h \in Instances : h = i
    BY <1>1, <1>2 DEF OneProcess
  <2>2. /\ \A n \in DOMAIN Tail(p) : n + 1 \in DOMAIN p /\ n + 1 # 1 /\ Tail(p)[n] = p[n + 1] /\ n \in Nat
        /\ 1 \in DOMAIN p /\ p[1] = Head(p)
    BY <1>2
  <2> QED BY <1>j, <2>1, <2>2
<1>5. /\ \A n \in DOMAIN p : p[n] = j => n = 1
      /\ \A n \in DOMAIN p, m \in DOMAIN p : p[m] = p[n] => m = n
      /\ \A n \in DOMAIN p, v \in Workers : ~Works(v, p[n])
  BY <1>4, <1>p DEF Alone, PooledAlone
<1>6. /\ \A c \in Callers, k \in Jobs : Submits(c, k)' <=> Submits(c, k)
      /\ \A h \in Instances, k \in Jobs : Listed(h, k)' <=> Listed(h, k)
  BY <1>2 DEF Submits, Listed
<1>7. \A h \in Instances, k \in Jobs : Pooled(h, k)' => Pooled(h, k) /\ k # j
  <2> SUFFICES ASSUME NEW h \in Instances, NEW k \in Jobs, Pooled(h, k)'
               PROVE  Pooled(h, k) /\ k # j
    OBVIOUS
  <2>1. h = i /\ pool'[h] = Tail(p) /\ pool[h] = p
    BY <1>4, <1>p
  <2>2. PICK n \in DOMAIN Tail(p) : Tail(p)[n] = k
    BY <2>1 DEF Pooled
  <2>3. n + 1 \in DOMAIN p /\ n + 1 # 1 /\ p[n + 1] = k
    BY <1>4, <2>2
  <2> QED BY <1>5, <2>1, <2>3 DEF Pooled
<1>8. \A h \in Instances : Pooled(h, j)
  BY <1>4, <1>p DEF Pooled
<1>9. \A v \in Workers, k \in Jobs : Works(v, k)' => Works(v, k) \/ (v = w /\ k = j)
  BY <1>3 DEF Works
<1>10. \A v \in Workers : ~Works(v, j)
  BY <1>4, <1>5
<1>11. Alone'
  <2>1. \A c \in Callers : SubmitsAlone(c)'
    BY <1>1, <1>6, <1>7, <1>8, <1>9 DEF Alone, SubmitsAlone
  <2>2. \A h \in Instances : ListedAlone(h)'
    BY <1>1, <1>2, <1>7, <1>8, <1>9 DEF Alone, ListedAlone
  <2>3. \A h \in Instances : PooledAlone(h)'
    <3>1. \A n \in DOMAIN pool'[i] : pool'[i][n] = p[n + 1] /\ n + 1 \in DOMAIN p /\ n \in Nat /\ p[n + 1] # j
      BY <1>4, <1>5
    <3>2. \A n \in DOMAIN pool'[i], m \in DOMAIN pool'[i] : pool'[i][m] = pool'[i][n] => m = n
      <4> TAKE n \in DOMAIN pool'[i], m \in DOMAIN pool'[i]
      <4> HAVE pool'[i][m] = pool'[i][n]
      <4>1. m + 1 = n + 1
        BY <1>5, <3>1
      <4> QED BY <3>1, <4>1
    <3>3. \A n \in DOMAIN pool'[i], v \in Workers : ~Works(v, pool[i][n])'
      <4> TAKE n \in DOMAIN pool'[i], v \in Workers
      <4>1. ~Works(v, p[n + 1]) /\ p[n + 1] # j
        BY <1>5, <3>1
      <4>2. ~(worker'[v].pc \in Working /\ worker'[v].job = p[n + 1])
        BY <1>3, <4>1 DEF Works
      <4> QED BY <3>1, <4>2 DEF Works
    <3>4. PooledAlone(i)'
      BY <3>2, <3>3 DEF PooledAlone
    <3> QED BY <1>4, <3>4
  <2>4. \A v \in Workers : WorksAlone(v)'
    BY <1>9, <1>10 DEF Alone, WorksAlone
  <2> QED BY <2>1, <2>2, <2>3, <2>4 DEF Alone
<1>12. HeldExist'
  BY <1>1, <1>2, <1>6, <1>7, <1>8, <1>9 DEF HeldExist
<1>13. Phases'
  <2>1. \A h \in Instances : caller[h].pc \notin Starting
    BY <1>2, <1>4, <1>p DEF Phases
  <2> QED BY <1>2, <2>1 DEF Phases
<1> QED BY <1>11, <1>12, <1>13

\* list_incomplete_jobs: nothing is held yet, and then exactly what is listed.
LEMMA ListPlaces ==
    ASSUME OneProcess, PlacesInv, NEW i \in Instances, ListJobs(i)
    PROVE  Alone' /\ HeldExist' /\ Phases'
<1> USE DEF PlacesInv
<1> DEFINE rows == {[job |-> j, status |-> status[j], attempts |-> attempts[j]] : j \in Incomplete}
<1>1. /\ caller \in [Callers -> Caller] /\ Threads \subseteq Callers /\ i \in Callers /\ i \notin Threads
      /\ \A h \in Instances : h = i
      /\ \A x \in Threads \cup Workers : Host[x] = i
  BY PlaceTypes DEF PromiseInv, OneProcess
<1>2. /\ caller[i].pc = "listJobs" /\ UNCHANGED <<status, worker, pool>>
      /\ caller' = [caller EXCEPT ![i].pc = "recover", ![i].left = rows]
  BY DEF ListJobs, jobVars, coordinatorVars
<1>3. /\ \A s \in rows : s.job \in Incomplete
      /\ \A s, r \in rows : s.job = r.job => s = r
  OBVIOUS
<1> HIDE DEF rows
<1>4. /\ \A d \in Callers \ {i} : caller'[d] = caller[d]
      /\ caller'[i].pc = "recover" /\ caller'[i].left = rows
  BY <1>1, <1>2 DEF Caller
<1>5. /\ \A t \in Threads : caller[t].pc = "idle"
      /\ pool[i] = <<>> /\ \A w \in Workers : worker[w].pc = "idle"
  BY <1>1, <1>2 DEF Phases, Starting
<1>6. \A c \in Callers : caller'[c].pc # "submit"
  <2>1. \A t \in Threads : caller'[t].pc = "idle"
    BY <1>1, <1>4, <1>5
  <2> QED BY <1>1, <1>4, <2>1 DEF Callers
<1>7. \A h \in Instances : pool'[h] = <<>> /\ \A w \in Workers : worker'[w].pc = "idle"
  BY <1>1, <1>2, <1>5
<1>8. \A h \in Instances : DOMAIN pool'[h] = {}
  BY <1>7
<1>9. /\ \A c \in Callers : \A j : ~Submits(c, j)'
      /\ \A h \in Instances : \A j : ~Pooled(h, j)'
      /\ \A w \in Workers : \A j : ~Works(w, j)'
  BY <1>1, <1>6, <1>7, <1>8 DEF Submits, Pooled, Works, Working
<1>10. Alone'
  <2>1. \A c \in Callers : SubmitsAlone(c)'
    BY <1>9 DEF SubmitsAlone
  <2>2. \A h \in Instances : ListedAlone(h)'
    <3>1. \A r, s \in caller'[i].left : r.job = s.job => r = s
      BY <1>3, <1>4
    <3>2. \A h \in Instances, s \in caller'[i].left : ~Pooled(h, s.job)' /\ \A w \in Workers : ~Works(w, s.job)'
      BY <1>2, <1>7, <1>8 DEF Pooled, Works, Working
    <3>3. ListedAlone(i)'
      BY <3>1, <3>2 DEF ListedAlone
    <3> QED BY <1>1, <3>3
  <2>3. \A h \in Instances : PooledAlone(h)'
    BY <1>8 DEF PooledAlone
  <2>4. \A w \in Workers : WorksAlone(w)'
    BY <1>9 DEF WorksAlone
  <2> QED BY <2>1, <2>2, <2>3, <2>4 DEF Alone
<1>11. HeldExist'
  <2>1. \A h \in Instances, j \in Jobs : Listed(h, j)' => status'[j] # "none"
    <3> SUFFICES ASSUME NEW j \in Jobs, Listed(i, j)' PROVE status'[j] # "none"
      BY <1>1
    <3>1. PICK s \in rows : s.job = j
      BY <1>4 DEF Listed
    <3> QED BY <1>2, <1>3, <3>1 DEF Incomplete, ActiveJobs, Active
  <2> QED BY <1>9, <2>1 DEF HeldExist
<1>12. Phases'
  <2>1. caller'[i].pc = "recover" /\ \A t \in Threads : caller'[t].pc = "idle"
    BY <1>1, <1>4, <1>5
  <2> QED BY <1>1, <2>1 DEF Phases, Starting, Recovering
<1> QED BY <1>10, <1>11, <1>12

\* The recovery works off one row: it drops it, or it is about to submit the job.
LEMMA RecoveredPlaces ==
    ASSUME OneProcess, PlacesInv, NEW i \in Instances, NEW s \in caller[i].left, NEW pc \in {"submit", "recover"},
           caller[i].pc = "recover", Recovered(i, s, pc), UNCHANGED <<worker, pool>>, DrawnStay
    PROVE  Alone' /\ HeldExist' /\ Phases'
<1> USE DEF PlacesInv
<1>1. /\ caller \in [Callers -> Caller] /\ Threads \subseteq Callers /\ Instances \subseteq Callers /\ i \notin Threads
      /\ \A h \in Instances : \A r \in caller[h].left : r.job \in Jobs
      /\ \A h \in Instances : \A n \in DOMAIN pool[h] : pool[h][n] \in Jobs
  BY PlaceTypes DEF PromiseInv
<1>2. /\ \A d \in Callers \ {i} : caller'[d] = caller[d]
      /\ caller'[i].pc = pc /\ caller'[i].left = caller[i].left \ {s}
      /\ pc = "submit" => caller'[i].job = s.job
  BY <1>1 DEF Recovered, Caller
<1>3. s.job \in Jobs /\ Listed(i, s.job)
  BY <1>1 DEF Listed
<1>4. /\ \A r \in caller[i].left : r.job = s.job => r = s
      /\ \A h \in Instances : ~Pooled(h, s.job)
      /\ \A w \in Workers : ~Works(w, s.job)
      /\ \A d \in Callers : ~Submits(d, s.job)
  <2>1. \A d \in Callers : ~Submits(d, s.job)
    BY <1>3 DEF Alone, SubmitsAlone
  <2> QED BY <2>1 DEF Alone, ListedAlone
<1>5. \A h \in Instances, k \in Jobs : /\ Listed(h, k)' => Listed(h, k)
                                       /\ Pooled(h, k)' <=> Pooled(h, k)
  BY <1>1, <1>2 DEF Listed, Pooled
<1>6. ~Listed(i, s.job)'
  BY <1>2, <1>4 DEF Listed
<1>7. \A w \in Workers : \A k : Works(w, k)' <=> Works(w, k)
  BY DEF Works
<1>8. \A d \in Callers, k \in Jobs : Submits(d, k)' => Submits(d, k) \/ (d = i /\ k = s.job)
  BY <1>2 DEF Submits
<1>10. Alone'
  <2>1. \A c \in Callers : SubmitsAlone(c)'
    <3> SUFFICES ASSUME NEW c \in Callers, NEW j \in Jobs, Submits(c, j)'
                 PROVE  /\ \A d \in Callers : Submits(d, j)' => d = c
                        /\ \A h \in Instances : ~Listed(h, j)' /\ ~Pooled(h, j)'
                        /\ \A w \in Workers : ~Works(w, j)'
      BY DEF SubmitsAlone
    <3>1. CASE c = i /\ j = s.job
      <4>1. \A d \in Callers : Submits(d, j)' => d = i
        BY <1>4, <1>8, <3>1
      <4>2. \A h \in Instances : ~Listed(h, j)'
        BY <1>6, <3>1 DEF OneProcess
      <4> QED BY <1>4, <1>5, <1>7, <3>1, <4>1, <4>2
    <3>2. CASE ~(c = i /\ j = s.job)
      <4>1. Submits(c, j)
        BY <1>8, <3>2
      <4>2. j # s.job
        BY <1>4, <4>1
      <4> QED BY <1>5, <1>7, <1>8, <4>1, <4>2 DEF Alone, SubmitsAlone
    <3> QED BY <3>1, <3>2
  <2>2. \A h \in Instances : ListedAlone(h)'
    <3>1. \A h \in Instances : caller'[h].left \subseteq caller[h].left
      BY <1>1, <1>2
    <3> QED BY <1>1, <1>5, <1>7, <3>1 DEF Alone, ListedAlone
  <2>3. \A h \in Instances : PooledAlone(h)'
    BY <1>7 DEF Alone, PooledAlone
  <2>4. \A w \in Workers : WorksAlone(w)'
    BY <1>7 DEF Alone, WorksAlone
  <2> QED BY <2>1, <2>2, <2>3, <2>4 DEF Alone
<1>11. HeldExist'
  BY <1>3, <1>5, <1>7, <1>8 DEF HeldExist, DrawnStay
<1>12. Phases'
  <2>1. \A h \in Instances \ {i} : caller'[h] = caller[h]
    BY <1>1, <1>2
  <2>2. \A t \in Threads : caller'[t] = caller[t]
    BY <1>1, <1>2
  <2> QED BY <1>2, <2>1, <2>2 DEF Phases, Starting, Recovering
<1> QED BY <1>10, <1>11, <1>12

LEMMA MoveTo ==
    ASSUME PlacesInv, NEW c \in Callers, NEW f, caller' = [caller EXCEPT ![c] = f],
           f.left \subseteq caller[c].left, f.pc # "submit",
           c \in Threads => caller[c].pc # "idle" \/ Serving(Host[c]),
           c \in Instances => /\ caller[c].pc # "serving"
                              /\ f.pc \in Starting => caller[c].pc \in Starting
                              /\ f.left # {} => f.pc \in Recovering
    PROVE  CallerMove(c)
<1>1. caller'[c] = f /\ \A d \in Callers \ {c} : caller'[d] = caller[d]
  BY DEF PlacesInv, PromiseInv, TypeInv, CallersOK
<1> QED BY <1>1 DEF CallerMove

LEMMA GotoMove ==
    ASSUME PlacesInv, NEW c \in Callers, NEW pc, Goto(c, pc), pc # "submit", pc \notin Starting,
           caller[c].pc \notin {"idle", "serving"},
           caller[c].pc \in Recovering => pc \in Recovering
    PROVE  CallerMove(c)
<1> DEFINE f == [caller[c] EXCEPT !.pc = pc]
<1>1. caller[c] \in Caller
  BY DEF PlacesInv, PromiseInv, TypeInv, CallersOK
<1>2. f.left = caller[c].left /\ f.pc = pc /\ caller' = [caller EXCEPT ![c] = f]
  BY <1>1 DEF Caller, Goto
<1>3. c \in Instances => (caller[c].left # {} => caller[c].pc \in Recovering)
  BY DEF PlacesInv, Phases
<1> HIDE DEF f
<1> QED BY <1>2, <1>3, MoveTo

LEMMA ReturnMove ==
    ASSUME PlacesInv, NEW c \in Callers, Return(c), caller[c].pc \notin {"idle", "serving"}
    PROVE  CallerMove(c)
<1> DEFINE f == IF c \in Threads THEN Frame("idle", "list") ELSE [caller[c] EXCEPT !.pc = "recover", !.job = None]
<1>1. caller[c] \in Caller
  BY DEF PlacesInv, PromiseInv, TypeInv, CallersOK
<1>2. c \in Threads => c \notin Instances /\ f.left = {} /\ f.pc = "idle"
  BY ExportAssumption DEF Frame
<1>3. c \notin Threads => f.left = caller[c].left /\ f.pc = "recover"
  BY <1>1 DEF Caller
<1>4. caller' = [caller EXCEPT ![c] = f]
  BY DEF Return
<1> HIDE DEF f
<1> QED BY <1>2, <1>3, <1>4, MoveTo DEF Starting, Recovering, Callers

LEMMA SeenMove ==
    ASSUME PlacesInv, NEW c \in Callers, NEW rest, NEW pc \in {"prune", "dropFile", "beat", "unlink"},
           caller' = [caller EXCEPT ![c].seen = rest, ![c].pc = pc],
           caller[c].pc \in {"dropJob", "prune", "unlink"}
    PROVE  CallerMove(c)
<1> DEFINE f == [caller[c] EXCEPT !.seen = rest, !.pc = pc]
<1>1. caller[c] \in Caller /\ caller \in [Callers -> Caller]
  BY DEF PlacesInv, PromiseInv, TypeInv, CallersOK
<1>2. f.left = caller[c].left /\ f.pc = pc /\ caller' = [caller EXCEPT ![c] = f]
  BY <1>1 DEF Caller
<1>3. c \in Instances => caller[c].left = {}
  BY DEF PlacesInv, Phases, Recovering
<1> HIDE DEF f
<1> QED BY <1>2, <1>3, MoveTo DEF Starting

LEMMA MaintainMove ==
    ASSUME PlacesInv, NEW c \in Callers, Maintain(c)
    PROVE  CallerMove(c)
<1>1. CASE ExpireFile(c) \/ ExpireRow(c)
  BY <1>1, GotoMove DEF ExpireFile, ExpireRow, Starting, Recovering
<1>2. CASE ExpireJob(c)
  BY <1>2, SeenMove DEF ExpireJob
<1>3. CASE Prune(c)
  <2> DEFINE rows == {a \in artifacts : a[1] \in {j \in retired : status[j] \in Terminal}}
  <2>1. caller' = [caller EXCEPT ![c].seen = rows, ![c].pc = IF rows = {} THEN "beat" ELSE "unlink"]
    BY <1>3 DEF Prune
  <2>2. caller[c].pc = "prune"
    BY <1>3 DEF Prune
  <2> HIDE DEF rows
  <2> QED BY <2>1, <2>2, SeenMove
<1>4. CASE UnlinkPruned(c)
  BY <1>4, SeenMove DEF UnlinkPruned
<1>5. CASE Beat(c)
  <2>1. caller[c] \in Caller
    BY DEF PlacesInv, PromiseInv, TypeInv, CallersOK
  <2>2. AfterMaintenance(caller[c]) \in {"serving", "idle", "quota", "lookup"}
    BY <2>1 DEF AfterMaintenance, Caller
  <2> QED BY <1>5, <2>2, GotoMove DEF Beat, Starting, Recovering
<1> QED BY <1>1, <1>2, <1>3, <1>4, <1>5 DEF Maintain

LEMMA BeginMove ==
    ASSUME PlacesInv, NEW t \in Threads, NEW op \in {"create", "list"}, NEW k \in Keys \cup {None}, Begin(t, op, k)
    PROVE  t \in Callers /\ CallerMove(t)
<1> DEFINE g == [Frame("idle", op) EXCEPT !.key = k]
           found == {a \in artifacts \ withdrawn : Overdue(a)}
           f == [g EXCEPT !.seen = found, !.pc = IF found = {} THEN "prune" ELSE "dropFile"]
<1>1. t \in Callers /\ t \notin Instances
  BY ExportAssumption DEF Callers
<1>2. caller' = [caller EXCEPT ![t] = f] /\ Serving(Host[t])
  BY DEF Begin, Maintaining
<1>3. g.left = {} /\ f.left = g.left /\ f.pc # "submit"
  BY DEF Frame
<1> HIDE DEF f, g
<1> QED BY <1>1, <1>2, <1>3, MoveTo

LEMMA CreatingMove ==
    ASSUME PlacesInv, NEW t \in Threads, Lookup(t) \/ EnforceQuotas(t) \/ Refuse(t) \/ (Insert(t) /\ KeyTaken(caller[t].key))
    PROVE  t \in Callers /\ CallerMove(t)
<1>1. t \in Callers
  BY DEF Callers
<1> QED BY <1>1, GotoMove, ReturnMove DEF Lookup, EnforceQuotas, Refuse, Insert, Starting, Recovering

LEMMA CoordinatorMove ==
    ASSUME PlacesInv, NEW c \in Callers,
           Register(c) \/ (Submit(c) /\ future[Host[c]][caller[c].job] = "pending")
    PROVE  CallerMove(c)
  BY GotoMove, ReturnMove DEF Register, Submit, Starting, Recovering

LEMMA StartMove ==
    ASSUME PlacesInv, NEW i \in Instances, Launch(i) \/ ClaimSlot(i)
    PROVE  i \in Callers /\ CallerMove(i)
<1>1. i \in Callers /\ i \notin Threads /\ caller[i] \in Caller
  BY ExportAssumption DEF Callers, PlacesInv, PromiseInv, TypeInv, CallersOK
<1>2. CASE Launch(i)
  <2>1. Frame("claim", "start").left = {} /\ Frame("claim", "start").pc = "claim"
    BY DEF Frame
  <2> QED BY <1>1, <1>2, <2>1, MoveTo DEF Launch, Dead, Starting
<1>3. CASE ClaimSlot(i)
  <2> DEFINE f == [caller[i] EXCEPT !.pc = "listJobs"]
  <2>1. f.left = caller[i].left /\ f.pc = "listJobs" /\ caller' = [caller EXCEPT ![i] = f]
    BY <1>1, <1>3 DEF ClaimSlot, Goto, Caller
  <2>2. caller[i].pc = "claim" /\ caller[i].left = {}
    BY <1>3 DEF ClaimSlot, PlacesInv, Phases, Recovering
  <2> HIDE DEF f
  <2> QED BY <1>1, <2>1, <2>2, MoveTo DEF Starting
<1> QED BY <1>1, <1>2, <1>3

LEMMA RecoveryEndMove ==
    ASSUME PlacesInv, NEW i \in Instances, caller[i].pc = "recover",
           caller' = [caller EXCEPT ![i] = Maintaining(Frame("recover", "start"))]
    PROVE  i \in Callers /\ CallerMove(i)
<1> DEFINE g == Frame("recover", "start")
           found == {a \in artifacts \ withdrawn : Overdue(a)}
           f == [g EXCEPT !.seen = found, !.pc = IF found = {} THEN "prune" ELSE "dropFile"]
<1>1. i \in Callers /\ i \notin Threads
  BY ExportAssumption DEF Callers
<1>2. caller' = [caller EXCEPT ![i] = f]
  BY DEF Maintaining
<1>3. g.left = {} /\ f.left = g.left /\ f.pc \in {"prune", "dropFile"}
  BY DEF Frame
<1> HIDE DEF f, g
<1> QED BY <1>1, <1>2, <1>3, MoveTo DEF Starting

LEMMA AttemptMove ==
    ASSUME PlacesInv, NEW w \in Workers, Attempt(w) \/ Finish(w) \/ Forget(w)
    PROVE  WorkerMove(w) /\ UNCHANGED <<caller, pool>>
<1>1. worker \in [Workers -> Worker] /\ worker[w] \in Worker
  BY DEF PlacesInv, PromiseInv, TypeInv, WorkersOK
<1>2. ASSUME NEW pc, WorkerAt(w, pc), worker[w].pc \in Working
      PROVE  WorkerMove(w)
  BY <1>1, <1>2 DEF WorkerAt, WorkerMove, Worker, Working
<1>3. CASE Claim(w) \/ Store(w) \/ Record(w) \/ Succeed(w) \/ DropFile(w) \/ DropRow(w) \/ DropJob(w)
           \/ Fail(w) \/ Raise(w) \/ Retry(w) \/ Requeue(w) \/ GiveUp(w)
  <2>1. worker[w].pc \in Working /\ (\E pc : WorkerAt(w, pc)) /\ UNCHANGED <<caller, pool>>
    BY <1>3 DEF Claim, Store, Record, Succeed, DropFile, DropRow, DropJob, Fail, Raise, Retry, Requeue, GiveUp,
                Working, WorkerSteps, coordinatorVars
  <2> QED BY <1>2, <2>1
<1>4. CASE Load(w)
  BY <1>1, <1>4 DEF Load, WorkerMove, Worker, Working, WorkerSteps, coordinatorVars
<1>5. CASE Execute(w)
  BY <1>1, <1>5 DEF Execute, WorkerAt, WorkerMove, Worker, Working, WorkerSteps, coordinatorVars
<1>6. CASE Finish(w) \/ Forget(w)
  <2>1. worker' = [worker EXCEPT ![w] = [worker[w] EXCEPT !.pc = "forget"]] \/ worker' = [worker EXCEPT ![w] = Idle]
    BY <1>6 DEF Finish, Forget
  <2>2. [worker[w] EXCEPT !.pc = "forget"].pc \notin Working /\ Idle.pc \notin Working
    BY <1>1 DEF Worker, Working, Idle
  <2>3. worker'[w].pc \notin Working /\ \A v \in Workers \ {w} : worker'[v] = worker[v]
    BY <1>1, <2>1, <2>2
  <2> QED BY <1>6, <2>3 DEF Finish, Forget, WorkerMove
<1> QED BY <1>3, <1>4, <1>5, <1>6 DEF Attempt

LEMMA CrashPlaces ==
    ASSUME OneProcess, PlacesInv, NEW i \in Instances, Crash(i)
    PROVE  Alone' /\ HeldExist' /\ Phases'
<1>1. /\ \A h \in Instances : h = i
      /\ \A x \in Instances \cup Threads \cup Workers : Host[x] = i
      /\ i \notin Threads
  BY ExportAssumption, HostType DEF OneProcess
<1>2. /\ caller' = [c \in Callers |-> IF c = i THEN Frame("down", "start") ELSE Frame("idle", "list")]
      /\ worker' = [w \in Workers |-> Idle]
      /\ pool'[i] = <<>>
  BY <1>1 DEF Crash, Callers, PlacesInv, PromiseInv, TypeInv, CoordinatorTypes
<1>3. /\ \A c \in Callers : caller'[c].pc = (IF c = i THEN "down" ELSE "idle") /\ caller'[c].left = {}
      /\ \A w \in Workers : worker'[w].pc = "idle"
      /\ DOMAIN pool'[i] = {}
  BY <1>2 DEF Frame, Idle
<1>4. /\ \A c \in Callers : \A j : ~Submits(c, j)'
      /\ \A h \in Instances : \A j : ~Pooled(h, j)' /\ ~Listed(h, j)'
      /\ \A w \in Workers : \A j : ~Works(w, j)'
  BY <1>1, <1>3 DEF Submits, Pooled, Listed, Works, Working, Callers
<1>5. Alone'
  BY <1>1, <1>3, <1>4 DEF Alone, SubmitsAlone, ListedAlone, PooledAlone, WorksAlone, Callers
<1>6. HeldExist'
  BY <1>4 DEF HeldExist
<1>7. Phases'
  BY <1>1, <1>2, <1>3 DEF Phases, Callers
<1> QED BY <1>5, <1>6, <1>7

LEMMA RecoverPlaces ==
    ASSUME OneProcess, PlacesInv, NEW i \in Instances, Recover(i), DrawnStay
    PROVE  Alone' /\ HeldExist' /\ Phases'
<1>1. caller[i].pc = "recover" /\ UNCHANGED <<worker, pool>>
  BY DEF Recover, coordinatorVars
<1>2. CASE caller' = [caller EXCEPT ![i] = Maintaining(Frame("recover", "start"))]
  BY <1>1, <1>2, RecoveryEndMove, CallerMovePlaces
<1>3. CASE \E s \in caller[i].left, pc \in {"submit", "recover"} : Recovered(i, s, pc)
  BY <1>1, <1>3, RecoveredPlaces
<1> QED BY <1>2, <1>3 DEF Recover, RecoverQueued, RecoverCancelled, RecoverStranded

LEMMA PlacesInvStays ==
    ASSUME OneProcess, PlacesInv, [Next]_vars
    PROVE  PlacesInv'
<1>0. PromiseInv' /\ DrawnStay
  BY PromiseInvStays, NextDrawn DEF PlacesInv
<1> SUFFICES Alone' /\ HeldExist' /\ Phases'
  BY <1>0 DEF PlacesInv
<1>a. ASSUME UNCHANGED <<caller, worker, pool>>
      PROVE  Alone' /\ HeldExist' /\ Phases'
  BY <1>0, <1>a DEF PlacesInv, Alone, SubmitsAlone, ListedAlone, PooledAlone, WorksAlone, HeldExist, Phases, DrawnStay,
                   Submits, Listed, Pooled, Works
<1>1. CASE UNCHANGED vars
  BY <1>a, <1>1 DEF vars, coordinatorVars
<1>2. ASSUME NEW t \in Threads, Request(t) \/ Creating(t)
      PROVE  Alone' /\ HeldExist' /\ Phases'
  <2>1. ASSUME NEW op \in {"create", "list"}, NEW k \in Keys \cup {None}, Begin(t, op, k)
        PROVE  Alone' /\ HeldExist' /\ Phases'
    BY <1>0, <2>1, BeginMove, CallerMovePlaces DEF Begin, coordinatorVars
  <2>2. ASSUME NEW j \in Jobs, Cancel(t, j)
        PROVE  Alone' /\ HeldExist' /\ Phases'
    BY <1>a, <2>2 DEF Cancel, coordinatorVars
  <2>3. CASE Insert(t) /\ ~KeyTaken(caller[t].key)
    <3>1. \E j \in Jobs : Creates(t, j)
      <4>1. PICK j \in NewIds :
                /\ status' = [status EXCEPT ![j] = "queued"]
                /\ keyOf' = [keyOf EXCEPT ![j] = caller[t].key]
                /\ caller' = [caller EXCEPT ![t].pc = "submit", ![t].job = j]
        BY <2>3 DEF Insert
      <4>2. j \in Jobs
        BY DEF NewIds
      <4> QED BY <2>3, <4>1, <4>2 DEF Insert, Creates
    <3> QED BY <2>3, <3>1, InsertPlaces DEF Insert, coordinatorVars
  <2>4. CASE Lookup(t) \/ EnforceQuotas(t) \/ Refuse(t) \/ (Insert(t) /\ KeyTaken(caller[t].key))
    BY <1>0, <2>4, CreatingMove, CallerMovePlaces DEF Lookup, EnforceQuotas, Refuse, Insert, coordinatorVars
  <2> QED BY <1>2, <2>1, <2>2, <2>3, <2>4 DEF Request, Creating
<1>3. ASSUME NEW c \in Callers, CallerStep(c)
      PROVE  Alone' /\ HeldExist' /\ Phases'
  <2>1. CASE Maintain(c)
    <3>1. UNCHANGED <<worker, pool>>
      BY <2>1 DEF Maintain, ExpireFile, ExpireRow, ExpireJob, Prune, UnlinkPruned, Beat, coordinatorVars
    <3> QED BY <1>0, <2>1, <3>1, MaintainMove, CallerMovePlaces
  <2>2. CASE Register(c) \/ (Submit(c) /\ future[Host[c]][caller[c].job] = "pending")
    BY <1>0, <2>2, CoordinatorMove, CallerMovePlaces DEF Register, Submit, coordinatorVars
  <2>3. CASE Submit(c) /\ future[Host[c]][caller[c].job] # "pending"
    BY <2>3, SubmitPlaces
  <2> QED BY <1>3, <2>1, <2>2, <2>3 DEF CallerStep
<1>4. ASSUME NEW w \in Workers, WorkerStep(w)
      PROVE  Alone' /\ HeldExist' /\ Phases'
  BY <1>0, <1>4, TakePlaces, AttemptMove, WorkerMovePlaces DEF WorkerStep
<1>5. ASSUME NEW i \in Instances, Start(i) \/ Crash(i)
      PROVE  Alone' /\ HeldExist' /\ Phases'
  <2>1. CASE Launch(i) \/ ClaimSlot(i)
    BY <1>0, <2>1, StartMove, CallerMovePlaces DEF Launch, ClaimSlot, coordinatorVars
  <2> QED BY <1>0, <1>5, <2>1, ListPlaces, RecoverPlaces, CrashPlaces DEF Start
<1>6. CASE Time
  BY <1>a, <1>6 DEF Time, Lapse, ExpireTime, RetainTime, coordinatorVars
<1> QED BY <1>1, <1>2, <1>3, <1>4, <1>5, <1>6 DEF Next

LEMMA PlacesInit == Init => PlacesInv
<1> SUFFICES ASSUME Init PROVE PlacesInv
  OBVIOUS
<1>1. /\ \A c \in Callers : caller[c].pc \in {"idle", "down"} /\ caller[c].left = {}
      /\ \A t \in Threads : caller[t].pc = "idle"
      /\ \A w \in Workers : worker[w].pc = "idle"
      /\ \A i \in Instances : pool[i] = <<>> /\ DOMAIN pool[i] = {}
  BY DEF Init, Frame, Idle, Callers
<1>2. /\ \A c \in Callers : \A j : ~Submits(c, j)
      /\ \A h \in Instances : \A j : ~Pooled(h, j) /\ ~Listed(h, j)
      /\ \A w \in Workers : \A j : ~Works(w, j)
  BY <1>1 DEF Submits, Pooled, Listed, Works, Working, Callers
<1>3. Alone
  BY <1>1, <1>2 DEF Alone, SubmitsAlone, ListedAlone, PooledAlone, WorksAlone, Callers
<1>4. HeldExist /\ Phases
  BY <1>1, <1>2 DEF HeldExist, Phases, Callers
<1> QED BY <1>3, <1>4, PromiseInit DEF PlacesInv

-----------------------------------------------------------------------------
(* What one process knows of its jobs.  A worker that has claimed a job has it for itself: *)
(* unless somebody cancels, nothing changes under its hands, and the attempt it counts is   *)
(* the one in the row.  The rows a recovery has listed are still as listed.                 *)

Loaded == Working \ {"claim", "load"}
Fresh(j) == \A a \in expired : a[1] # j

\* What a worker at pc, in attempt n, knows of its job.
HoldFits(pc, n, j) ==
    /\ pc # "claim" => status[j] \notin {"queued", "succeeded"}
    /\ pc \in {"dropFile", "dropRow", "dropJob"} => status[j] # "running"
    /\ pc \in Loaded /\ HasRow(j) => attempts[j] = n
    /\ pc = "requeue" => n < MaxAttempts
    /\ pc \in {"record", "succeed"} /\ status[j] = "running" /\ Fresh(j) => file[j] = n
    /\ pc = "succeed" /\ status[j] = "running" => <<j, n>> \in artifacts
WorkerFits(w) == \A j \in Jobs : Works(w, j) => HoldFits(worker[w].pc, worker[w].attempt, j)
JobFits(j) ==
    /\ status[j] = "none" => attempts[j] = 0
    /\ attempts[j] <= MaxAttempts
    /\ status[j] = "queued" => attempts[j] < MaxAttempts
    /\ status[j] = "succeeded" => <<j, attempts[j]>> \in artifacts
    /\ status[j] = "succeeded" /\ Fresh(j) => file[j] = attempts[j]
ListFits == \A i \in Instances : \A s \in caller[i].left : status[s.job] = s.status /\ attempts[s.job] = s.attempts

\* Rows of artifacts: none is of an attempt to come, only ended or cancelled jobs lose one
\* that is not expired, and maintenance works on expired artifacts or those of pruned jobs.
Tidying == {"dropFile", "dropRow", "dropJob", "unlink"}
Clean == {"none", "queued", "running", "succeeded"}
RowsFit ==
    /\ \A a \in artifacts : a[2] <= attempts[a[1]]
    /\ \A a \in withdrawn : status[a[1]] \in Clean => a \in expired
    /\ \A c \in Callers : \A a \in caller[c].seen : a \in expired \/ status[a[1]] = "pruned"
    /\ \A c \in Callers : caller[c].pc \in Tidying => caller[c].seen # {}

Fitting == /\ \A w \in Workers : WorkerFits(w)
           /\ \A j \in Jobs : JobFits(j)
           /\ ListFits /\ RowsFit
SoloInv == PlacesInv /\ Fitting

\* For the threads that do not hold it, a job is as it was, or it has been stopped.
Kept(k) ==
    /\ status'[k] = status[k] /\ attempts'[k] = attempts[k]
    /\ \A n \in Nat : <<k, n>> \in artifacts => <<k, n>> \in artifacts'
    /\ Fresh(k)' /\ HasRow(k) => Fresh(k) /\ file'[k] = file[k]
Stopped(k) ==
    /\ status'[k] \in {"cancel_requested", "cancelled", "failed", "expired", "pruned"} /\ HasRow(k)
    /\ attempts'[k] = attempts[k] \/ (status'[k] = "pruned" /\ attempts'[k] = 0)

LEMMA SoloTypes ==
    ASSUME SoloInv
    PROVE  /\ status \in [Jobs -> Statuses] /\ attempts \in [Jobs -> Nat] /\ file \in [Jobs -> Nat]
           /\ artifacts \subseteq Artifact /\ withdrawn \subseteq Artifact /\ expired \subseteq Artifact
           /\ \A w \in Workers : worker[w].attempt \in Nat
           /\ MaxAttempts \in Nat \ {0}
  BY ExportAssumption DEF SoloInv, PlacesInv, PromiseInv, TypeInv, JobTypes, ArtifactTypes, WorkersOK, Worker

LEMMA OneJobFits ==
    ASSUME SoloInv, NEW j \in Jobs, Kept(j) \/ Stopped(j)
    PROVE  JobFits(j)'
<1>1. JobFits(j) /\ attempts[j] \in Nat /\ MaxAttempts \in Nat
  BY SoloTypes DEF SoloInv, Fitting
<1>2. CASE Kept(j)
  BY <1>1, <1>2 DEF Kept, JobFits, HasRow
<1>3. CASE Stopped(j)
  BY <1>1, <1>3 DEF Stopped, JobFits
<1> QED BY <1>2, <1>3

LEMMA OneWorkerFits ==
    ASSUME SoloInv, NEW w \in Workers, worker'[w] = worker[w],
           \A j \in Jobs : Works(w, j) => Kept(j) \/ Stopped(j)
    PROVE  WorkerFits(w)'
<1> SUFFICES ASSUME NEW j \in Jobs, Works(w, j)
             PROVE  HoldFits(worker[w].pc, worker[w].attempt, j)'
  BY DEF WorkerFits, Works
<1>1. PICK pc, n : pc = worker[w].pc /\ n = worker[w].attempt
  OBVIOUS
<1>2. HoldFits(pc, n, j) /\ n \in Nat
  BY <1>1, SoloTypes DEF SoloInv, Fitting, WorkerFits
<1>3. HoldFits(pc, n, j)'
  <2>1. CASE Kept(j)
    BY <1>2, <2>1 DEF Kept, HoldFits, HasRow
  <2>2. CASE Stopped(j)
    BY <1>2, <2>2 DEF Stopped, HoldFits, HasRow
  <2> QED BY <2>1, <2>2
<1> QED BY <1>1, <1>3

\* RowsFit, put as what a step owes.
LEMMA RowsStep ==
    ASSUME SoloInv,
           \A a \in artifacts' : (a \in artifacts /\ attempts[a[1]] <= attempts'[a[1]]) \/ a[2] <= attempts'[a[1]],
           \A a \in withdrawn' : status'[a[1]] \in Clean => a \in expired' \/ (a \in withdrawn /\ status[a[1]] \in Clean),
           \A a \in expired : a \in expired' \/ status'[a[1]] = "pruned",
           \A j \in Jobs : status[j] = "pruned" => status'[j] = "pruned",
           \A c \in Callers : \A a \in caller'[c].seen :
               a \in caller[c].seen \/ a \in expired' \/ status'[a[1]] = "pruned",
           \A c \in Callers : caller'[c].pc \in Tidying => caller'[c].seen # {},
           attempts' \in [Jobs -> Nat]
    PROVE  RowsFit'
<1>1. /\ attempts \in [Jobs -> Nat] /\ \A a \in Artifact : a[1] \in Jobs /\ a[2] \in Nat
      /\ artifacts \subseteq Artifact /\ withdrawn \subseteq Artifact /\ expired \subseteq Artifact
      /\ RowsFit
  BY SoloTypes DEF Artifact, SoloInv, Fitting
<1>2. \A c \in Callers : caller[c].seen \subseteq Artifact
  BY DEF SoloInv, PlacesInv, PromiseInv, TypeInv, CallersOK, Caller
<1>3. \A a \in artifacts' : a[2] <= attempts'[a[1]]
  <2> SUFFICES ASSUME NEW a \in artifacts', a \in artifacts, attempts[a[1]] <= attempts'[a[1]]
               PROVE  a[2] <= attempts'[a[1]]
    OBVIOUS
  <2>1. a[1] \in Jobs /\ a[2] \in Nat /\ a[2] <= attempts[a[1]]
    BY <1>1 DEF RowsFit
  <2>2. attempts[a[1]] \in Nat /\ attempts'[a[1]] \in Nat
    BY <1>1, <2>1
  <2> QED BY <2>1, <2>2
<1>4. \A a \in withdrawn' : status'[a[1]] \in Clean => a \in expired'
  <2> SUFFICES ASSUME NEW a \in withdrawn, status'[a[1]] \in Clean, status[a[1]] \in Clean
               PROVE  a \in expired'
    OBVIOUS
  <2>1. a \in expired
    BY <1>1 DEF RowsFit
  <2> QED BY <2>1 DEF Clean
<1>5. \A c \in Callers : \A a \in caller'[c].seen : a \in expired' \/ status'[a[1]] = "pruned"
  <2> SUFFICES ASSUME NEW c \in Callers, NEW a \in caller[c].seen
               PROVE  a \in expired' \/ status'[a[1]] = "pruned"
    OBVIOUS
  <2>1. a \in expired \/ status[a[1]] = "pruned"
    BY <1>1 DEF RowsFit
  <2>2. a[1] \in Jobs
    BY <1>1, <1>2
  <2> QED BY <2>1, <2>2
<1> QED BY <1>3, <1>4, <1>5 DEF RowsFit

\* No worker moves.
LEMMA CallerFitting ==
    ASSUME SoloInv, UNCHANGED worker, \A j \in Jobs : Kept(j) \/ Stopped(j), RowsFit',
           \A i \in Instances : \A s \in caller'[i].left : s \in caller[i].left /\ Kept(s.job)
    PROVE  Fitting'
<1>1. \A w \in Workers : WorkerFits(w)'
  BY OneWorkerFits
<1>2. \A j \in Jobs : JobFits(j)'
  BY OneJobFits
<1>3. ListFits'
  BY DEF SoloInv, Fitting, ListFits, Kept
<1> QED BY <1>1, <1>2, <1>3 DEF Fitting

\* Worker w moves: the jobs of the others are as they were, and nothing that is listed is its.
LEMMA WorkerFitting ==
    ASSUME SoloInv, NEW w \in Workers, NEW j \in Jobs, Works(w, j), UNCHANGED caller,
           \A v \in Workers \ {w} : worker'[v] = worker[v],
           \A k \in Jobs \ {j} : Kept(k),
           WorkerFits(w)', JobFits(j)', RowsFit'
    PROVE  Fitting'
<1>1. \A v \in Workers : WorkerFits(v)'
  <2>1. \A v \in Workers \ {w}, k \in Jobs : Works(v, k) => k # j
    BY DEF SoloInv, PlacesInv, Alone, WorksAlone
  <2> QED BY <2>1, OneWorkerFits
<1>2. \A k \in Jobs : JobFits(k)'
  BY OneJobFits
<1>3. ListFits'
  <2>1. \A i \in Instances : \A s \in caller[i].left : s.job \in Jobs \ {j}
    BY PlaceTypes DEF SoloInv, PlacesInv, PromiseInv, Alone, ListedAlone
  <2> QED BY <2>1 DEF SoloInv, Fitting, ListFits, Kept
<1> QED BY <1>1, <1>2, <1>3 DEF Fitting

LEMMA TransitionEffect ==
    ASSUME SoloInv, NEW j \in Jobs, NEW expected, NEW new, Transition(j, expected, new)
    PROVE  /\ \A k \in Jobs : status'[k] = IF k = j /\ status[j] \in expected THEN new ELSE status[k]
           /\ \A k \in Jobs : attempts'[k] = IF k = j /\ status[j] \in expected /\ new = "running" THEN attempts[k] + 1
                                             ELSE attempts[k]
  BY SoloTypes DEF Transition

\* What maintenance works on is one of the rows it has read.
LEMMA CurrentSeen ==
    ASSUME SoloInv, NEW c \in Callers, caller[c].pc \in Tidying
    PROVE  /\ Current(c) \in caller[c].seen /\ Current(c) \in Artifact
           /\ Current(c) \in expired \/ status[Current(c)[1]] = "pruned"
<1>1. caller[c].seen \in SUBSET Artifact /\ caller[c].seen # {}
  BY DEF SoloInv, PlacesInv, PromiseInv, TypeInv, CallersOK, Caller, Fitting, RowsFit
<1>2. PICK s \in caller[c].seen : TRUE
  BY <1>1
<1> DEFINE T == {n \in Nat : <<s[1], n>> \in caller[c].seen}
<1>3. T \subseteq Nat /\ T # {}
  BY <1>1, <1>2 DEF Artifact
<1>4. PICK k \in T : \A y \in T : <<y, k>> \notin OpToRel(<, Nat)
  <2>1. IsWellFoundedOn(OpToRel(<, Nat), Nat)
    BY NatLessThanWellFounded
  <2> QED BY <1>3, <2>1, WFMin, Zenon
<1>5. \A y \in T : y \in Nat /\ k \in Nat /\ ~(y < k)
  BY <1>3, <1>4 DEF OpToRel
<1>6. \A b \in caller[c].seen : b[1] = s[1] => k <= b[2]
  <2> SUFFICES ASSUME NEW b \in caller[c].seen, b[1] = s[1]
               PROVE  k <= b[2]
    OBVIOUS
  <2>1. b = <<s[1], b[2]>> /\ b[2] \in Nat
    BY <1>1 DEF Artifact
  <2>2. b[2] \in T
    BY <2>1
  <2> QED BY <1>5, <2>2
<1>7. <<s[1], k>> \in caller[c].seen
  BY <1>4
<1>8. \E a \in caller[c].seen : \A b \in caller[c].seen : b[1] = a[1] => a[2] <= b[2]
  BY <1>6, <1>7
<1>9. Current(c) \in caller[c].seen
  BY <1>8 DEF Current
<1> QED BY <1>1, <1>9 DEF SoloInv, Fitting, RowsFit

\* A job whose columns and files do not change, while no artifact of it is lost, is kept.
LEMMA KeptWhen ==
    ASSUME NEW k \in Jobs, status'[k] = status[k], attempts'[k] = attempts[k], file'[k] = file[k],
           \A a \in Artifact : a[1] = k => (a \in artifacts => a \in artifacts') /\ (a \in expired => a \in expired'),
           expired \subseteq Artifact
    PROVE  Kept(k)
<1>1. \A n \in Nat : <<k, n>> \in artifacts => <<k, n>> \in artifacts'
  BY DEF Artifact
<1>2. Fresh(k)' => Fresh(k)
  BY DEF Fresh
<1> QED BY <1>1, <1>2 DEF Kept

\* A caller gets a new frame and nothing else that matters changes.
LEMMA QuietFitting ==
    ASSUME SoloInv, UNCHANGED <<status, attempts, artifactVars, worker>>,
           NEW c \in Callers, NEW f, caller' = [caller EXCEPT ![c] = f],
           f.left \subseteq caller[c].left,
           \A a \in f.seen : a \in caller[c].seen \/ a \in expired,
           f.pc \in Tidying => f.seen # {}
    PROVE  Fitting'
<1>1. caller'[c] = f /\ \A d \in Callers \ {c} : caller'[d] = caller[d]
  BY DEF SoloInv, PlacesInv, PromiseInv, TypeInv, CallersOK
<1>2. \A j \in Jobs : Kept(j)
  BY SoloTypes, KeptWhen DEF artifactVars
<1>3. RowsFit'
  <2>1. \A d \in Callers : \A a \in caller'[d].seen : a \in caller[d].seen \/ a \in expired
    BY <1>1
  <2>2. \A d \in Callers : caller'[d].pc \in Tidying => caller'[d].seen # {}
    BY <1>1 DEF SoloInv, Fitting, RowsFit
  <2> QED BY <2>1, <2>2 DEF SoloInv, Fitting, RowsFit, artifactVars
<1>4. \A i \in Instances : \A s \in caller'[i].left : s \in caller[i].left /\ Kept(s.job)
  <2>1. \A i \in Instances : caller'[i].left \subseteq caller[i].left
    BY <1>1 DEF Callers
  <2> QED BY <1>2, <2>1, PlaceTypes DEF SoloInv, PlacesInv, PromiseInv
<1> QED BY <1>2, <1>3, <1>4, CallerFitting

LEMMA GotoFitting ==
    ASSUME SoloInv, UNCHANGED <<status, attempts, artifactVars, worker>>,
           NEW c \in Callers, NEW pc, Goto(c, pc), pc \in Tidying => caller[c].pc \in Tidying
    PROVE  Fitting'
<1> DEFINE f == [caller[c] EXCEPT !.pc = pc]
<1>1. f.left = caller[c].left /\ f.seen = caller[c].seen /\ f.pc = pc
  BY DEF SoloInv, PlacesInv, PromiseInv, TypeInv, CallersOK, Caller
<1>2. f.pc \in Tidying => f.seen # {}
  BY <1>1 DEF SoloInv, Fitting, RowsFit
<1>3. caller' = [caller EXCEPT ![c] = f]
  BY DEF Goto
<1> HIDE DEF f
<1> QED BY <1>1, <1>2, <1>3, QuietFitting

LEMMA ReturnFitting ==
    ASSUME SoloInv, UNCHANGED <<status, attempts, artifactVars, worker>>, NEW c \in Callers, Return(c)
    PROVE  Fitting'
<1>1. caller[c] \in Caller
  BY DEF SoloInv, PlacesInv, PromiseInv, TypeInv, CallersOK
<1>2. PICK f : f = (IF c \in Threads THEN Frame("idle", "list") ELSE [caller[c] EXCEPT !.pc = "recover", !.job = None])
  OBVIOUS
<1>3. f.left \subseteq caller[c].left /\ f.seen \subseteq caller[c].seen /\ f.pc \notin Tidying
  BY <1>1, <1>2 DEF Frame, Caller, Tidying
<1>4. caller' = [caller EXCEPT ![c] = f]
  BY <1>2 DEF Return
<1> QED BY <1>3, <1>4, QuietFitting

LEMMA MaintainingFitting ==
    ASSUME SoloInv, UNCHANGED <<status, attempts, artifactVars, worker>>, NEW c \in Callers,
           NEW f \in Caller, f.left = {}, caller' = [caller EXCEPT ![c] = Maintaining(f)]
    PROVE  Fitting'
<1>1. PICK found : found = {a \in artifacts \ withdrawn : Overdue(a)}
  OBVIOUS
<1>2. PICK g : g = Maintaining(f)
  OBVIOUS
<1>3. g.left = {} /\ g.seen = found /\ g.pc = (IF found = {} THEN "prune" ELSE "dropFile")
  BY <1>1, <1>2 DEF Maintaining, Caller
<1>4. \A a \in found : a \in expired
  BY <1>1 DEF Overdue
<1> QED BY <1>2, <1>3, <1>4, QuietFitting DEF Tidying

\* Maintenance takes the file of an expired artifact or of a pruned job.
LEMMA UnlinkKeeps ==
    ASSUME SoloInv, NEW a \in Artifact, a \in expired \/ status[a[1]] = "pruned", Unlink(a[1]), UNCHANGED <<status, attempts>>
    PROVE  \A j \in Jobs : Kept(j)
<1> SUFFICES ASSUME NEW j \in Jobs PROVE Kept(j)
  OBVIOUS
<1>1. CASE j = a[1]
  <2>1. \A n \in Nat : <<j, n>> \in artifacts => <<j, n>> \in artifacts'
    BY DEF Unlink
  <2>2. ~(Fresh(j)' /\ HasRow(j))
    BY <1>1 DEF Unlink, Fresh, HasRow
  <2> QED BY <2>1, <2>2 DEF Kept
<1>2. CASE j # a[1]
  <2>1. file'[j] = file[j]
    BY <1>2, SoloTypes DEF Unlink
  <2> QED BY <2>1, SoloTypes, KeptWhen DEF Unlink
<1> QED BY <1>1, <1>2

\* The frame of a caller in maintenance.
FrameIs(c, pc, rest) ==
    /\ caller'[c].pc = pc /\ caller'[c].seen = rest
    /\ \A d \in Callers \ {c} : caller'[d] = caller[d]
    /\ \A i \in Instances : caller'[i].left = caller[i].left
    /\ \A i \in Instances : \A s \in caller[i].left : s.job \in Jobs /\ status[s.job] \in Active

LEMMA NewFrame ==
    ASSUME SoloInv, NEW c \in Callers, NEW f, caller' = [caller EXCEPT ![c] = f], f.left = caller[c].left
    PROVE  FrameIs(c, f.pc, f.seen)
<1>1. caller'[c] = f /\ \A d \in Callers \ {c} : caller'[d] = caller[d]
  BY DEF SoloInv, PlacesInv, PromiseInv, TypeInv, CallersOK
<1>2. \A i \in Instances : caller'[i].left = caller[i].left
  BY <1>1 DEF Callers
<1>3. \A i \in Instances : \A s \in caller[i].left : s.job \in Jobs /\ status[s.job] \in Active
  BY PlaceTypes DEF SoloInv, PlacesInv, PromiseInv, Fitting, ListFits
<1> QED BY <1>1, <1>2, <1>3 DEF FrameIs

LEMMA GotoFrame ==
    ASSUME SoloInv, NEW c \in Callers, NEW pc, Goto(c, pc)
    PROVE  FrameIs(c, pc, caller[c].seen)
<1>1. PICK f : f = [caller[c] EXCEPT !.pc = pc]
  OBVIOUS
<1>2. f.left = caller[c].left /\ f.seen = caller[c].seen /\ f.pc = pc
  BY <1>1 DEF SoloInv, PlacesInv, PromiseInv, TypeInv, CallersOK, Caller
<1>3. FrameIs(c, f.pc, f.seen)
  BY <1>1, <1>2, NewFrame DEF Goto
<1> QED BY <1>2, <1>3

LEMMA SeenFrame ==
    ASSUME SoloInv, NEW c \in Callers, NEW pc, NEW rest, caller' = [caller EXCEPT ![c].seen = rest, ![c].pc = pc]
    PROVE  FrameIs(c, pc, rest)
<1>1. PICK f : f = [caller[c] EXCEPT !.seen = rest, !.pc = pc]
  OBVIOUS
<1>2. f.left = caller[c].left /\ f.seen = rest /\ f.pc = pc
  BY <1>1 DEF SoloInv, PlacesInv, PromiseInv, TypeInv, CallersOK, Caller
<1>3. caller' = [caller EXCEPT ![c] = f]
  BY <1>1 DEF SoloInv, PlacesInv, PromiseInv, TypeInv, CallersOK
<1>4. FrameIs(c, f.pc, f.seen)
  BY <1>2, <1>3, NewFrame
<1> QED BY <1>2, <1>4

LEMMA ExpireFileFitting ==
    ASSUME SoloInv, NEW c \in Callers, ExpireFile(c) \/ UnlinkPruned(c)
    PROVE  Fitting'
<1>1. /\ Current(c) \in Artifact /\ caller[c].pc \in Tidying
      /\ Current(c) \in expired \/ status[Current(c)[1]] = "pruned"
  BY CurrentSeen DEF ExpireFile, UnlinkPruned, Tidying
<1>2. PICK a \in Artifact : a = Current(c)
  BY <1>1
<1>3. Unlink(a[1]) /\ UNCHANGED <<status, attempts, artifacts, withdrawn, expired, worker>>
  BY <1>2 DEF ExpireFile, UnlinkPruned, jobVars, Unlink
<1>4. \A j \in Jobs : Kept(j)
  BY <1>1, <1>2, <1>3, UnlinkKeeps
<1>5. PICK pc, rest : /\ FrameIs(c, pc, rest)
                      /\ rest \subseteq caller[c].seen /\ (pc \in Tidying => rest # {})
  <2>1. CASE ExpireFile(c)
    <3>1. Goto(c, "dropRow") /\ caller[c].seen # {}
      BY <1>1, <2>1 DEF ExpireFile, SoloInv, Fitting, RowsFit
    <3> QED BY <3>1, GotoFrame
  <2>2. CASE UnlinkPruned(c)
    <3>1. PICK rest : rest = caller[c].seen \ {Current(c)}
      OBVIOUS
    <3>2. PICK pc : pc = IF rest = {} THEN "beat" ELSE "unlink"
      OBVIOUS
    <3>3. caller' = [caller EXCEPT ![c].seen = rest, ![c].pc = pc]
      BY <2>2, <3>1, <3>2 DEF UnlinkPruned
    <3>4. rest \subseteq caller[c].seen /\ (pc \in Tidying => rest # {})
      BY <3>1, <3>2 DEF Tidying
    <3> QED BY <3>3, <3>4, SeenFrame
  <2> QED BY <2>1, <2>2
<1>6. /\ caller'[c].pc = pc /\ caller'[c].seen = rest
      /\ \A d \in Callers \ {c} : caller'[d] = caller[d]
      /\ \A i \in Instances : caller'[i].left = caller[i].left
      /\ \A i \in Instances : \A s \in caller[i].left : s.job \in Jobs
  BY <1>5 DEF FrameIs
<1>7. RowsFit'
  <2>1. \A d \in Callers : caller'[d].seen \subseteq caller[d].seen /\ (caller'[d].pc \in Tidying => caller'[d].seen # {})
    BY <1>5, <1>6 DEF SoloInv, Fitting, RowsFit
  <2> QED BY <1>3, <2>1 DEF SoloInv, Fitting, RowsFit
<1> QED BY <1>3, <1>4, <1>6, <1>7, CallerFitting

LEMMA ExpireRowFitting ==
    ASSUME SoloInv, NEW c \in Callers, ExpireRow(c)
    PROVE  Fitting'
<1>1. /\ Current(c) \in Artifact /\ caller[c].pc \in Tidying
      /\ Current(c) \in expired \/ status[Current(c)[1]] = "pruned"
  BY CurrentSeen DEF ExpireRow, Tidying
<1>2. PICK a \in Artifact : a = Current(c)
  BY <1>1
<1>3. Withdraw(a) /\ Goto(c, "dropJob") /\ UNCHANGED <<status, attempts, artifacts, expired, file, worker>>
  BY <1>2 DEF ExpireRow, jobVars, Withdraw
<1>4. \A j \in Jobs : Kept(j)
  BY <1>3, SoloTypes, KeptWhen
<1>5. /\ caller'[c].pc = "dropJob" /\ caller'[c].seen = caller[c].seen
      /\ \A d \in Callers \ {c} : caller'[d] = caller[d]
      /\ \A i \in Instances : caller'[i].left = caller[i].left
      /\ \A i \in Instances : \A s \in caller[i].left : s.job \in Jobs
  BY <1>3, GotoFrame DEF FrameIs
<1>6. RowsFit'
  <2>1. \A d \in Callers : caller'[d].seen = caller[d].seen /\ (caller'[d].pc \in Tidying => caller'[d].seen # {})
    BY <1>1, <1>5 DEF SoloInv, Fitting, RowsFit
  <2>2. \A b \in withdrawn' : status[b[1]] \in Clean => b \in expired
    BY <1>1, <1>2, <1>3 DEF Withdraw, SoloInv, Fitting, RowsFit, Clean
  <2> QED BY <1>3, <2>1, <2>2 DEF SoloInv, Fitting, RowsFit
<1> QED BY <1>3, <1>4, <1>5, <1>6, CallerFitting

LEMMA ExpireJobFitting ==
    ASSUME SoloInv, NEW c \in Callers, ExpireJob(c)
    PROVE  Fitting'
<1>1. Current(c) \in Artifact /\ caller[c].pc \in Tidying
  BY CurrentSeen DEF ExpireJob, Tidying
<1>2. PICK j \in Jobs : j = Current(c)[1]
  BY <1>1 DEF Artifact
<1>3. Transition(j, {"succeeded"}, "expired") /\ UNCHANGED <<artifacts, withdrawn, expired, file, worker>>
  BY <1>2 DEF ExpireJob, artifactVars
<1>4. /\ \A k \in Jobs : status'[k] = IF k = j /\ status[j] = "succeeded" THEN "expired" ELSE status[k]
      /\ \A k \in Jobs : attempts'[k] = attempts[k]
      /\ attempts' \in [Jobs -> Nat]
  BY <1>3, TransitionEffect, SoloTypes DEF Transition
<1>5. \A k \in Jobs : Kept(k) \/ (Stopped(k) /\ status[k] = "succeeded")
  <2> SUFFICES ASSUME NEW k \in Jobs PROVE Kept(k) \/ (Stopped(k) /\ status[k] = "succeeded")
    OBVIOUS
  <2>1. CASE k = j /\ status[j] = "succeeded"
    BY <1>4, <2>1 DEF Stopped, HasRow
  <2>2. CASE ~(k = j /\ status[j] = "succeeded")
    <3>1. status'[k] = status[k] /\ attempts'[k] = attempts[k]
      BY <1>4, <2>2
    <3> QED BY <1>3, <3>1, SoloTypes, KeptWhen
  <2> QED BY <2>1, <2>2
<1>6. PICK rest : rest = caller[c].seen \ {Current(c)}
  OBVIOUS
<1>7. /\ caller'[c].pc = (IF rest = {} THEN "prune" ELSE "dropFile") /\ caller'[c].seen = rest
      /\ \A d \in Callers \ {c} : caller'[d] = caller[d]
      /\ \A i \in Instances : caller'[i].left = caller[i].left
      /\ \A i \in Instances : \A s \in caller[i].left : s.job \in Jobs /\ status[s.job] \in Active
  <2>1. PICK pc : pc = IF rest = {} THEN "prune" ELSE "dropFile"
    OBVIOUS
  <2>2. caller' = [caller EXCEPT ![c].seen = rest, ![c].pc = pc]
    BY <1>6, <2>1 DEF ExpireJob
  <2>3. FrameIs(c, pc, rest)
    BY <2>2, SeenFrame
  <2> QED BY <2>1, <2>3 DEF FrameIs
<1>8. RowsFit'
  <2>1. \A d \in Callers : caller'[d].seen \subseteq caller[d].seen /\ (caller'[d].pc \in Tidying => caller'[d].seen # {})
    BY <1>6, <1>7 DEF SoloInv, Fitting, RowsFit, Tidying
  <2>2. \A b \in Artifact : b[1] \in Jobs /\ b[2] \in Nat
    BY DEF Artifact
  <2>3. \A b \in withdrawn : status'[b[1]] \in Clean => b \in withdrawn /\ status[b[1]] \in Clean
    BY <1>4, <2>2, SoloTypes DEF Clean
  <2>4. \A b \in artifacts : attempts[b[1]] <= attempts'[b[1]]
    BY <1>4, <2>2, SoloTypes
  <2>5. \A k \in Jobs : status[k] = "pruned" => status'[k] = "pruned"
    BY <1>4
  <2> QED BY <1>3, <1>4, <2>1, <2>3, <2>4, <2>5, RowsStep
<1>9. \A i \in Instances : \A s \in caller'[i].left : s \in caller[i].left /\ Kept(s.job)
  BY <1>5, <1>7 DEF Active
<1> QED BY <1>3, <1>5, <1>8, <1>9, CallerFitting

LEMMA PruneFitting ==
    ASSUME SoloInv, NEW c \in Callers, Prune(c)
    PROVE  Fitting'
<1>1. PICK gone \in SUBSET Jobs : gone = {j \in retired : status[j] \in Terminal}
  BY DEF SoloInv, PlacesInv, PromiseInv, TypeInv, JobTypes
<1>2. PICK rows : rows = {a \in artifacts : a[1] \in gone}
  OBVIOUS
<1>3. PICK pc : pc = IF rows = {} THEN "beat" ELSE "unlink"
  OBVIOUS
<1>4. /\ status' = [j \in Jobs |-> IF j \in gone THEN "pruned" ELSE status[j]]
      /\ attempts' = [j \in Jobs |-> IF j \in gone THEN 0 ELSE attempts[j]]
      /\ artifacts' = artifacts \ rows /\ withdrawn' = withdrawn \ rows /\ expired' = expired \ rows
      /\ caller' = [caller EXCEPT ![c].seen = rows, ![c].pc = pc]
      /\ UNCHANGED <<file, worker>>
  BY <1>1, <1>2, <1>3 DEF Prune
<1>5. /\ \A j \in Jobs : status'[j] = (IF j \in gone THEN "pruned" ELSE status[j])
                         /\ attempts'[j] = (IF j \in gone THEN 0 ELSE attempts[j])
      /\ attempts' \in [Jobs -> Nat]
  BY <1>4, SoloTypes
<1>6. \A j \in gone : status[j] \in Terminal
  BY <1>1
<1>7. \A j \in Jobs : Kept(j) \/ (Stopped(j) /\ j \in gone)
  <2> SUFFICES ASSUME NEW j \in Jobs PROVE Kept(j) \/ (Stopped(j) /\ j \in gone)
    OBVIOUS
  <2>1. CASE j \in gone
    BY <1>5, <1>6, <2>1 DEF Stopped, HasRow, Terminal
  <2>2. CASE j \notin gone
    BY <1>2, <1>4, <1>5, <2>2, SoloTypes, KeptWhen
  <2> QED BY <2>1, <2>2
<1>8. FrameIs(c, pc, rows)
  BY <1>4, SeenFrame
<1>9. RowsFit'
  <2>1. \A a \in Artifact : a[1] \in Jobs /\ a[2] \in Nat
    BY DEF Artifact
  <2>2. \A a \in artifacts' : a \in artifacts /\ attempts[a[1]] <= attempts'[a[1]]
    <3> SUFFICES ASSUME NEW a \in artifacts' PROVE a \in artifacts /\ attempts[a[1]] <= attempts'[a[1]]
      OBVIOUS
    <3>1. a \in artifacts /\ a[1] \notin gone /\ a[1] \in Jobs
      BY <1>2, <1>4, <2>1, SoloTypes
    <3> QED BY <1>5, <3>1, SoloTypes
  <2>3. \A a \in withdrawn' : status'[a[1]] \in Clean => a \in withdrawn /\ status[a[1]] \in Clean
    <3> SUFFICES ASSUME NEW a \in withdrawn', status'[a[1]] \in Clean PROVE a \in withdrawn /\ status[a[1]] \in Clean
      OBVIOUS
    <3>1. a \in withdrawn /\ a[1] \in Jobs
      BY <1>4, <2>1, SoloTypes
    <3> QED BY <1>5, <3>1 DEF Clean
  <2>4. \A a \in expired : a \in expired' \/ status'[a[1]] = "pruned"
    <3> SUFFICES ASSUME NEW a \in expired, a \in rows PROVE status'[a[1]] = "pruned"
      BY <1>4
    <3>1. a[1] \in gone /\ a[1] \in Jobs
      BY <1>2
    <3> QED BY <1>5, <3>1
  <2>5. \A j \in Jobs : status[j] = "pruned" => status'[j] = "pruned"
    BY <1>5
  <2>6. \A d \in Callers : \A a \in caller'[d].seen : a \in caller[d].seen \/ status'[a[1]] = "pruned"
    <3>1. \A a \in rows : status'[a[1]] = "pruned"
      BY <1>2, <1>5
    <3> QED BY <1>8, <3>1 DEF FrameIs
  <2>7. \A d \in Callers : caller'[d].pc \in Tidying => caller'[d].seen # {}
    <3>1. pc \in Tidying => rows # {}
      BY <1>3 DEF Tidying
    <3> QED BY <1>8, <3>1 DEF FrameIs, SoloInv, Fitting, RowsFit
  <2> QED BY <1>5, <2>2, <2>3, <2>4, <2>5, <2>6, <2>7, RowsStep
<1>10. \A i \in Instances : \A s \in caller'[i].left : s \in caller[i].left /\ Kept(s.job)
  BY <1>6, <1>7, <1>8 DEF FrameIs, Active, Terminal
<1> QED BY <1>4, <1>7, <1>9, <1>10, CallerFitting

LEMMA MaintainFitting ==
    ASSUME SoloInv, NEW c \in Callers, Maintain(c)
    PROVE  Fitting'
<1>1. CASE Beat(c)
  <2>1. AfterMaintenance(caller[c]) \notin Tidying
    BY DEF AfterMaintenance, Tidying, Caller, SoloInv, PlacesInv, PromiseInv, TypeInv, CallersOK
  <2> QED BY <1>1, <2>1, GotoFitting DEF Beat, jobVars
<1> QED BY <1>1, ExpireFileFitting, ExpireRowFitting, ExpireJobFitting, PruneFitting DEF Maintain

LEMMA CoordinatorFitting ==
    ASSUME SoloInv, NEW c \in Callers, Submit(c) \/ Register(c)
    PROVE  Fitting'
<1>1. UNCHANGED <<status, attempts, artifactVars, worker>>
  BY DEF Submit, Register, jobVars
<1>2. Return(c) \/ Goto(c, "register") \/ Goto(c, "wedged")
  BY DEF Submit, Register
<1> QED BY <1>1, <1>2, GotoFitting, ReturnFitting DEF Tidying

\* Requests are answered by a process that serves, which has no job listed any more.
LEMMA ServingListsNothing ==
    ASSUME OneProcess, SoloInv, NEW i \in Instances, Serving(i)
    PROVE  \A h \in Instances : caller[h].left = {}
  BY DEF OneProcess, SoloInv, PlacesInv, Phases, Serving, Recovering

LEMMA CancelFitting ==
    ASSUME OneProcess, SoloInv, NEW t \in Threads, NEW j \in Jobs, Cancel(t, j)
    PROVE  Fitting'
<1>1. PICK new : new = IF status[j] = "queued" THEN "cancelled" ELSE "cancel_requested"
  OBVIOUS
<1>2. /\ \A k \in Jobs : status'[k] = IF k = j THEN new ELSE status[k]
      /\ UNCHANGED <<attempts, artifacts, withdrawn, expired, file, worker, caller>>
      /\ status[j] \in {"queued", "running"}
  BY <1>1, SoloTypes DEF Cancel, artifactVars
<1>3. \A k \in Jobs : Kept(k) \/ Stopped(k)
  <2> SUFFICES ASSUME NEW k \in Jobs PROVE Kept(k) \/ Stopped(k)
    OBVIOUS
  <2>1. CASE k = j
    BY <1>1, <1>2, <2>1 DEF Stopped, HasRow
  <2>2. CASE k # j
    BY <1>2, <2>2, SoloTypes, KeptWhen
  <2> QED BY <2>1, <2>2
<1>4. RowsFit'
  <2>1. \A a \in Artifact : a[1] \in Jobs /\ a[2] \in Nat
    BY DEF Artifact
  <2>2. \A a \in withdrawn : status'[a[1]] \in Clean => status[a[1]] \in Clean
    BY <1>2, <2>1, SoloTypes DEF Clean
  <2>3. \A a \in artifacts : attempts[a[1]] <= attempts'[a[1]]
    BY <1>2, <2>1, SoloTypes
  <2>4. \A k \in Jobs : status[k] = "pruned" => status'[k] = "pruned"
    BY <1>2
  <2>5. \A c \in Callers : caller[c].pc \in Tidying => caller[c].seen # {}
    BY DEF SoloInv, Fitting, RowsFit
  <2> QED BY <1>2, <2>2, <2>3, <2>4, <2>5, SoloTypes, RowsStep
<1>5. \A i \in Instances : caller'[i].left = {}
  <2>1. Host[t] \in Instances /\ Serving(Host[t])
    BY HostType DEF Cancel
  <2> QED BY <1>2, <2>1, ServingListsNothing
<1> QED BY <1>2, <1>3, <1>4, <1>5, CallerFitting

LEMMA InsertFitting ==
    ASSUME SoloInv, NEW t \in Threads, NEW j \in Jobs, Creates(t, j), UNCHANGED <<attempts, artifactVars, worker>>
    PROVE  Fitting'
<1>1. t \in Callers /\ caller[t].pc = "insert" /\ status[j] = "none"
  BY DEF Creates, NewIds, Callers
<1>2. \A k \in Jobs : status'[k] = IF k = j THEN "queued" ELSE status[k]
  BY SoloTypes DEF Creates
<1>3. \A k \in Jobs \ {j} : Kept(k)
  BY <1>2, SoloTypes, KeptWhen DEF artifactVars
<1>4. FrameIs(t, "submit", caller[t].seen)
  <2>1. PICK f : f = [caller[t] EXCEPT !.pc = "submit", !.job = j]
    OBVIOUS
  <2>2. f.left = caller[t].left /\ f.seen = caller[t].seen /\ f.pc = "submit"
    BY <1>1, <2>1 DEF SoloInv, PlacesInv, PromiseInv, TypeInv, CallersOK, Caller
  <2>3. caller' = [caller EXCEPT ![t] = f]
    BY <1>1, <2>1 DEF Creates, SoloInv, PlacesInv, PromiseInv, TypeInv, CallersOK
  <2>4. FrameIs(t, f.pc, f.seen)
    BY <1>1, <2>2, <2>3, NewFrame
  <2> QED BY <2>2, <2>4
<1>5. \A w \in Workers : WorkerFits(w)'
  <2>1. \A w \in Workers, k \in Jobs : Works(w, k) => k # j
    BY <1>1 DEF SoloInv, PlacesInv, HeldExist
  <2> QED BY <1>3, <2>1, OneWorkerFits
<1>6. \A k \in Jobs : JobFits(k)'
  <2>1. \A k \in Jobs \ {j} : JobFits(k)'
    BY <1>3, OneJobFits
  <2>2. JobFits(j)'
    <3>1. attempts'[j] = 0 /\ status'[j] = "queued"
      BY <1>1, <1>2 DEF SoloInv, Fitting, JobFits
    <3> QED BY <3>1, SoloTypes DEF JobFits
  <2> QED BY <2>1, <2>2
<1>7. ListFits'
  <2>1. \A i \in Instances : \A s \in caller[i].left : s.job \in Jobs \ {j}
    BY <1>1, <1>4 DEF FrameIs, Active
  <2> QED BY <1>3, <1>4, <2>1 DEF FrameIs, SoloInv, Fitting, ListFits, Kept
<1>8. RowsFit'
  <2>1. \A a \in Artifact : a[1] \in Jobs /\ a[2] \in Nat
    BY DEF Artifact
  <2>2. \A a \in withdrawn : status'[a[1]] \in Clean => status[a[1]] \in Clean
    BY <1>1, <1>2, <2>1, SoloTypes DEF Clean
  <2>3. \A a \in artifacts : attempts[a[1]] <= attempts'[a[1]]
    BY <2>1, SoloTypes
  <2>4. \A k \in Jobs : status[k] = "pruned" => status'[k] = "pruned"
    BY <1>1, <1>2
  <2>5. \A c \in Callers : caller'[c].seen = caller[c].seen /\ (caller'[c].pc \in Tidying => caller'[c].seen # {})
    BY <1>4 DEF FrameIs, Tidying, SoloInv, Fitting, RowsFit
  <2> QED BY <2>2, <2>3, <2>4, <2>5, SoloTypes, RowsStep DEF artifactVars
<1> QED BY <1>5, <1>6, <1>7, <1>8 DEF Fitting

LEMMA RequestFitting ==
    ASSUME OneProcess, SoloInv, NEW t \in Threads, Request(t) \/ Creating(t)
    PROVE  Fitting'
<1>0. t \in Callers
  BY DEF Callers
<1>1. ASSUME NEW op \in {"create", "list"}, NEW k \in Keys \cup {None}, Begin(t, op, k)
      PROVE  Fitting'
  <2>1. PICK f : f = [Frame("idle", op) EXCEPT !.key = k]
    OBVIOUS
  <2>2. f \in Caller /\ f.left = {}
    BY <2>1 DEF Frame, Caller, CallerSteps
  <2> QED BY <1>0, <1>1, <2>1, <2>2, MaintainingFitting DEF Begin, jobVars
<1>2. ASSUME NEW j \in Jobs, Cancel(t, j)
      PROVE  Fitting'
  BY <1>2, CancelFitting
<1>3. CASE Insert(t) /\ ~KeyTaken(caller[t].key)
  <2>1. PICK j \in NewIds :
            /\ status' = [status EXCEPT ![j] = "queued"]
            /\ keyOf' = [keyOf EXCEPT ![j] = caller[t].key]
            /\ caller' = [caller EXCEPT ![t].pc = "submit", ![t].job = j]
            /\ UNCHANGED <<attempts, asked, retired>>
    BY <1>3 DEF Insert
  <2>2. j \in Jobs /\ Creates(t, j)
    BY <1>3, <2>1 DEF NewIds, Insert, Creates
  <2> QED BY <1>3, <2>1, <2>2, InsertFitting DEF Insert
<1>4. CASE Lookup(t) \/ EnforceQuotas(t) \/ Refuse(t) \/ (Insert(t) /\ KeyTaken(caller[t].key))
  <2>1. Return(t) \/ Goto(t, "quota") \/ Goto(t, "insert")
    BY <1>4 DEF Lookup, EnforceQuotas, Refuse, Insert
  <2>2. UNCHANGED <<status, attempts, artifactVars, worker>>
    BY <1>4 DEF Lookup, EnforceQuotas, Refuse, Insert, jobVars
  <2> QED BY <1>0, <2>1, <2>2, GotoFitting, ReturnFitting DEF Tidying
<1> QED BY <1>1, <1>2, <1>3, <1>4 DEF Request, Creating

\* A worker that keeps its job needs to know what its new step needs.
LEMMA HeldFitting ==
    ASSUME SoloInv, NEW w \in Workers, NEW j \in Jobs, Works(w, j), UNCHANGED caller,
           NEW f, worker' = [worker EXCEPT ![w] = f],
           f.pc \in Working => f.job = j /\ HoldFits(f.pc, f.attempt, j)',
           \A k \in Jobs \ {j} : Kept(k),
           JobFits(j)', RowsFit'
    PROVE  Fitting'
<1>1. worker'[w] = f /\ \A v \in Workers \ {w} : worker'[v] = worker[v]
  BY PlaceTypes DEF SoloInv, PlacesInv, PromiseInv
<1>2. WorkerFits(w)'
  <2> SUFFICES ASSUME NEW k \in Jobs, Works(w, k)'
               PROVE  HoldFits(worker[w].pc, worker[w].attempt, k)'
    BY DEF WorkerFits, Works
  <2>1. f.pc \in Working /\ k = f.job
    BY <1>1 DEF Works
  <2>2. HoldFits(f.pc, f.attempt, k)'
    BY <2>1
  <2> QED BY <1>1, <2>2
<1> QED BY <1>1, <1>2, WorkerFitting

\* Nothing about jobs and artifacts changes: RowsFit and JobFits stay.
LEMMA NothingFitting ==
    ASSUME SoloInv, UNCHANGED <<status, attempts, artifactVars, caller>>
    PROVE  RowsFit' /\ \A j \in Jobs : Kept(j) /\ JobFits(j)'
<1>1. RowsFit'
  BY DEF SoloInv, Fitting, RowsFit, artifactVars
<1>2. \A j \in Jobs : Kept(j)
  BY SoloTypes, KeptWhen DEF artifactVars
<1> QED BY <1>1, <1>2, OneJobFits

\* The rows when a worker moves its job and leaves the artifacts alone.
LEMMA TransitionRows ==
    ASSUME SoloInv, NEW j \in Jobs, NEW expected, NEW new, Transition(j, expected, new), UNCHANGED <<artifactVars, caller>>,
           status[j] \in expected => new # "none" /\ status[j] # "pruned" /\ (new \in Clean => status[j] \in Clean)
    PROVE  RowsFit' /\ \A k \in Jobs \ {j} : Kept(k)
<1>1. /\ \A k \in Jobs : status'[k] = IF k = j /\ status[j] \in expected THEN new ELSE status[k]
      /\ \A k \in Jobs : attempts'[k] = IF k = j /\ status[j] \in expected /\ new = "running" THEN attempts[k] + 1
                                        ELSE attempts[k]
      /\ attempts' \in [Jobs -> Nat]
  <2>1. attempts' \in [Jobs -> Nat]
    BY SoloTypes DEF Transition
  <2> QED BY <2>1, TransitionEffect
<1>2. \A k \in Jobs \ {j} : Kept(k)
  BY <1>1, SoloTypes, KeptWhen DEF artifactVars
<1>3. RowsFit'
  <2>1. \A a \in Artifact : a[1] \in Jobs /\ a[2] \in Nat
    BY DEF Artifact
  <2>2. \A a \in withdrawn : status'[a[1]] \in Clean => status[a[1]] \in Clean
    BY <1>1, <2>1, SoloTypes
  <2>3. \A a \in artifacts : attempts[a[1]] <= attempts'[a[1]]
    BY <1>1, <2>1, SoloTypes
  <2>4. \A k \in Jobs : status[k] = "pruned" => status'[k] = "pruned"
    BY <1>1
  <2>5. \A c \in Callers : caller[c].pc \in Tidying => caller[c].seen # {}
    BY DEF SoloInv, Fitting, RowsFit
  <2> QED BY <1>1, <2>2, <2>3, <2>4, <2>5, RowsStep DEF artifactVars
<1> QED BY <1>2, <1>3

\* What a working thread knows, by name.
LEMMA HeldFacts ==
    ASSUME SoloInv, NEW w \in Workers, worker[w].pc \in Working
    PROVE  /\ worker[w].job \in Jobs /\ Works(w, worker[w].job)
           /\ worker[w].attempt \in Nat /\ worker[w] \in Worker
           /\ HoldFits(worker[w].pc, worker[w].attempt, worker[w].job)
           /\ JobFits(worker[w].job)
           /\ status[worker[w].job] \in Statuses \ {"none"}
<1>1. worker[w].job \in Jobs /\ worker[w] \in Worker /\ worker[w].attempt \in Nat
  BY SoloTypes, PlaceTypes DEF Working, SoloInv, PlacesInv, PromiseInv, TypeInv, WorkersOK
<1>2. Works(w, worker[w].job)
  BY DEF Works
<1>3. status[worker[w].job] \in Statuses \ {"none"}
  BY <1>1, <1>2, SoloTypes DEF SoloInv, PlacesInv, HeldExist
<1> QED BY <1>1, <1>2, <1>3 DEF SoloInv, Fitting, WorkerFits

\* A step of an attempt that changes neither rows nor files.
LEMMA QuietAttemptFitting ==
    ASSUME SoloInv, NEW w \in Workers, Load(w) \/ Execute(w) \/ Raise(w) \/ Retry(w)
    PROVE  Fitting'
<1>1. worker[w].pc \in Working /\ UNCHANGED <<status, attempts, artifactVars, caller>>
  BY DEF Load, Execute, Raise, Retry, Working, WorkerSteps, jobVars
<1>2. PICK j \in Jobs, n \in Nat : j = worker[w].job /\ n = worker[w].attempt
  BY <1>1, HeldFacts
<1>3. /\ Works(w, j) /\ worker[w] \in Worker /\ JobFits(j)
      /\ HoldFits(worker[w].pc, n, j)
  BY <1>1, <1>2, HeldFacts
<1>4. PICK f : /\ worker' = [worker EXCEPT ![w] = f] /\ f.job = j
               /\ f.pc \in Working => HoldFits(f.pc, f.attempt, j)
  <2>1. CASE Load(w)
    <3>1. PICK f : f = [worker[w] EXCEPT !.pc = IF HasRow(j) THEN "execute" ELSE "finish", !.attempt = attempts[j]]
      OBVIOUS
    <3>2. f.pc = (IF HasRow(j) THEN "execute" ELSE "finish") /\ f.attempt = attempts[j] /\ f.job = j
      BY <1>2, <1>3, <3>1 DEF Worker
    <3>3. worker' = [worker EXCEPT ![w] = f]
      BY <1>2, <2>1, <3>1, PlaceTypes DEF Load, SoloInv, PlacesInv, PromiseInv
    <3>4. HasRow(j) => HoldFits("execute", attempts[j], j)
      BY <1>3, <2>1 DEF HoldFits, Load
    <3> QED BY <3>2, <3>3, <3>4 DEF Working
  <2>2. CASE ~Load(w)
    <3>1. PICK pc, why : /\ worker' = [worker EXCEPT ![w].pc = pc] \/ worker' = [worker EXCEPT ![w].pc = pc, ![w].why = why]
                         /\ HoldFits(pc, n, j)
      <4>1. CASE Execute(w)
        <5>1. HoldFits("fail", n, j) /\ HoldFits("store", n, j)
          BY <1>3, <4>1 DEF HoldFits, Execute, Loaded, Working, WorkerSteps
        <5> QED BY <4>1, <5>1 DEF Execute, WorkerAt
      <4>2. CASE Raise(w)
        <5>1. HoldFits("retry", n, j)
          BY <1>3, <4>2 DEF HoldFits, Raise, Loaded, Working, WorkerSteps
        <5> QED BY <4>2, <5>1 DEF Raise, WorkerAt
      <4>3. CASE Retry(w)
        <5>1. (MayRetry(n) => HoldFits("requeue", n, j)) /\ HoldFits("giveUp", n, j)
          BY <1>3, <4>3 DEF HoldFits, Retry, Loaded, Working, WorkerSteps, MayRetry
        <5>2. PICK pc : pc = IF MayRetry(n) /\ ~CancelRequested(j) THEN "requeue" ELSE "giveUp"
          OBVIOUS
        <5> QED BY <1>2, <4>3, <5>1, <5>2 DEF Retry, WorkerAt
      <4> QED BY <2>2, <4>1, <4>2, <4>3
    <3>2. CASE worker' = [worker EXCEPT ![w].pc = pc]
      <4>1. PICK f : f = [worker[w] EXCEPT !.pc = pc]
        OBVIOUS
      <4>2. f.pc = pc /\ f.attempt = n /\ f.job = j
        BY <1>2, <1>3, <4>1 DEF Worker
      <4> QED BY <3>1, <3>2, <4>1, <4>2
    <3>3. CASE worker' = [worker EXCEPT ![w].pc = pc, ![w].why = why]
      <4>1. PICK f : f = [worker[w] EXCEPT !.pc = pc, !.why = why]
        OBVIOUS
      <4>2. f.pc = pc /\ f.attempt = n /\ f.job = j
        BY <1>2, <1>3, <4>1 DEF Worker
      <4>3. worker' = [worker EXCEPT ![w] = f]
        BY <3>3, <4>1, PlaceTypes DEF SoloInv, PlacesInv, PromiseInv
      <4> QED BY <3>1, <4>2, <4>3
    <3> QED BY <3>1, <3>2, <3>3
  <2> QED BY <2>1, <2>2
<1>5. f.pc \in Working => f.job = j /\ HoldFits(f.pc, f.attempt, j)'
  BY <1>1, <1>4 DEF HoldFits, HasRow, Fresh, artifactVars
<1>6. RowsFit' /\ \A k \in Jobs : Kept(k) /\ JobFits(k)'
  BY <1>1, NothingFitting
<1> QED BY <1>1, <1>3, <1>4, <1>5, <1>6, HeldFitting

LEMMA AtFitting ==
    ASSUME SoloInv, NEW w \in Workers, worker[w].pc \in Working, UNCHANGED caller,
           NEW j \in Jobs, j = worker[w].job, NEW n \in Nat, n = worker[w].attempt,
           NEW pc, WorkerAt(w, pc), pc \in Working => HoldFits(pc, n, j)',
           \A k \in Jobs \ {j} : Kept(k),
           JobFits(j)', RowsFit'
    PROVE  Fitting'
<1>1. PICK f : f = [worker[w] EXCEPT !.pc = pc]
  OBVIOUS
<1>2. f.pc = pc /\ f.attempt = n /\ f.job = j /\ Works(w, j)
  BY <1>1, HeldFacts DEF Worker
<1>3. worker' = [worker EXCEPT ![w] = f]
  BY <1>1 DEF WorkerAt
<1> QED BY <1>2, <1>3, HeldFitting

LEMMA ClaimFitting ==
    ASSUME SoloInv, NEW w \in Workers, Claim(w)
    PROVE  Fitting'
<1>1. worker[w].pc \in Working
  BY DEF Claim, Working, WorkerSteps
<1>2. PICK j \in Jobs, n \in Nat : j = worker[w].job /\ n = worker[w].attempt
  BY <1>1, HeldFacts
<1>3. JobFits(j) /\ attempts[j] \in Nat /\ MaxAttempts \in Nat
  BY <1>1, <1>2, HeldFacts, SoloTypes
<1>4. PICK pc : pc = IF status[j] = "queued" THEN "load" ELSE "finish"
  OBVIOUS
<1>5. WorkerAt(w, pc) /\ Transition(j, {"queued"}, "running") /\ UNCHANGED <<artifactVars, caller>>
  BY <1>2, <1>4 DEF Claim
<1>6. /\ status'[j] = IF status[j] = "queued" THEN "running" ELSE status[j]
      /\ attempts'[j] = IF status[j] = "queued" THEN attempts[j] + 1 ELSE attempts[j]
  BY <1>5, TransitionEffect
<1>7. RowsFit' /\ \A k \in Jobs \ {j} : Kept(k)
  BY <1>5, TransitionRows DEF Clean
<1>8. JobFits(j)'
  BY <1>3, <1>5, <1>6 DEF JobFits, artifactVars, Fresh
<1>9. pc \in Working => HoldFits(pc, n, j)'
  BY <1>4, <1>6 DEF HoldFits, Working, Loaded
<1> QED BY <1>1, <1>2, <1>5, <1>7, <1>8, <1>9, AtFitting

LEMMA StoreFitting ==
    ASSUME SoloInv, NEW w \in Workers, Store(w) \/ DropFile(w)
    PROVE  Fitting'
<1>1. worker[w].pc \in Working
  BY DEF Store, DropFile, Working, WorkerSteps
<1>2. PICK j \in Jobs, n \in Nat : j = worker[w].job /\ n = worker[w].attempt
  BY <1>1, HeldFacts
<1>3. JobFits(j) /\ HoldFits(worker[w].pc, n, j)
  BY <1>1, <1>2, HeldFacts
<1>4. PICK pc \in WorkerSteps, m \in Nat :
         /\ file' = [file EXCEPT ![j] = m] /\ WorkerAt(w, pc)
         /\ \/ worker[w].pc = "store" /\ pc = "record" /\ m = n
            \/ worker[w].pc = "dropFile" /\ pc = "dropRow"
  <2>1. CASE Store(w)
    BY <1>2, <2>1 DEF Store, WorkerSteps
  <2>2. CASE DropFile(w)
    <3>1. file' = [file EXCEPT ![j] = 0] /\ WorkerAt(w, "dropRow") /\ worker[w].pc = "dropFile"
      BY <1>2, <2>2 DEF DropFile, Unlink
    <3> QED BY <3>1 DEF WorkerSteps
  <2> QED BY <2>1, <2>2
<1>5. UNCHANGED <<status, attempts, artifacts, withdrawn, expired, caller>>
  BY DEF Store, DropFile, Unlink, jobVars
<1>6. file'[j] = m /\ \A k \in Jobs \ {j} : file'[k] = file[k]
  BY <1>4, SoloTypes
<1>7. \A k \in Jobs \ {j} : Kept(k)
  BY <1>5, <1>6, SoloTypes, KeptWhen
<1>8. RowsFit'
  BY <1>5 DEF SoloInv, Fitting, RowsFit
<1>9. JobFits(j)'
  BY <1>3, <1>4, <1>5 DEF JobFits, HoldFits
<1>10. HoldFits(pc, n, j)'
  BY <1>3, <1>4, <1>5, <1>6 DEF HoldFits, Loaded, Working, WorkerSteps, HasRow, Fresh
<1> QED BY <1>1, <1>2, <1>4, <1>5, <1>7, <1>8, <1>9, <1>10, AtFitting

LEMMA RecordFitting ==
    ASSUME SoloInv, NEW w \in Workers, Record(w)
    PROVE  Fitting'
<1>1. worker[w].pc \in Working /\ worker[w].pc = "record"
  BY DEF Record, Working, WorkerSteps
<1>2. PICK j \in Jobs, n \in Nat : j = worker[w].job /\ n = worker[w].attempt
  BY <1>1, HeldFacts
<1>3. JobFits(j) /\ HoldFits("record", n, j)
  BY <1>1, <1>2, HeldFacts
<1>4. /\ artifacts' = artifacts \cup {a \in {<<j, n>>} : HasRow(a[1])}
      /\ WorkerAt(w, "succeed")
      /\ UNCHANGED <<status, attempts, withdrawn, expired, file, caller>>
  BY <1>2 DEF Record, jobVars
<1>5. \A k \in Jobs \ {j} : Kept(k)
  BY <1>4, SoloTypes, KeptWhen
<1>6. HasRow(j) => attempts[j] = n
  BY <1>3 DEF HoldFits, Loaded, Working, WorkerSteps
<1>7. RowsFit'
  <2>1. \A a \in artifacts' : a[2] <= attempts[a[1]]
    <3> SUFFICES ASSUME NEW a \in artifacts' PROVE a[2] <= attempts[a[1]]
      OBVIOUS
    <3>1. CASE a \in artifacts
      BY <3>1 DEF SoloInv, Fitting, RowsFit
    <3>2. CASE a \notin artifacts
      <4>1. a = <<j, n>> /\ HasRow(j)
        BY <1>4, <3>2
      <4> QED BY <1>6, <4>1
    <3> QED BY <3>1, <3>2
  <2> QED BY <1>4, <2>1 DEF SoloInv, Fitting, RowsFit
<1>8. JobFits(j)'
  BY <1>3, <1>4 DEF JobFits, HoldFits
<1>9. HoldFits("succeed", n, j)'
  <2>1. status[j] = "running" => HasRow(j) /\ <<j, n>> \in artifacts'
    BY <1>4 DEF HasRow
  <2> QED BY <1>3, <1>4, <2>1 DEF HoldFits, Loaded, Working, WorkerSteps, HasRow, Fresh
<1> QED BY <1>1, <1>2, <1>4, <1>5, <1>7, <1>8, <1>9, AtFitting

LEMMA SucceedFitting ==
    ASSUME SoloInv, NEW w \in Workers, Succeed(w)
    PROVE  Fitting'
<1>1. worker[w].pc \in Working /\ worker[w].pc = "succeed"
  BY DEF Succeed, Working, WorkerSteps
<1>2. PICK j \in Jobs, n \in Nat : j = worker[w].job /\ n = worker[w].attempt
  BY <1>1, HeldFacts
<1>3. JobFits(j) /\ HoldFits("succeed", n, j)
  BY <1>1, <1>2, HeldFacts
<1>4. PICK pc : pc = IF status[j] = "running" THEN "finish" ELSE "dropFile"
  OBVIOUS
<1>5. WorkerAt(w, pc) /\ Transition(j, {"running"}, "succeeded") /\ UNCHANGED <<artifactVars, caller>>
  BY <1>2, <1>4 DEF Succeed
<1>6. /\ status'[j] = IF status[j] = "running" THEN "succeeded" ELSE status[j]
      /\ attempts'[j] = attempts[j]
  BY <1>5, TransitionEffect
<1>7. RowsFit' /\ \A k \in Jobs \ {j} : Kept(k)
  BY <1>5, TransitionRows DEF Clean
<1>8. JobFits(j)'
  <2>1. CASE status[j] = "running"
    <3>1. attempts[j] = n /\ <<j, n>> \in artifacts /\ (Fresh(j) => file[j] = n)
      BY <1>3, <2>1 DEF HoldFits, Loaded, Working, WorkerSteps, HasRow
    <3> QED BY <1>3, <1>5, <1>6, <2>1, <3>1 DEF JobFits, artifactVars, Fresh
  <2>2. CASE status[j] # "running"
    BY <1>3, <1>5, <1>6, <2>2 DEF JobFits, artifactVars, Fresh
  <2> QED BY <2>1, <2>2
<1>9. pc \in Working => HoldFits(pc, n, j)'
  BY <1>3, <1>4, <1>6 DEF HoldFits, Working, WorkerSteps, Loaded, HasRow
<1> QED BY <1>1, <1>2, <1>5, <1>7, <1>8, <1>9, AtFitting

LEMMA DropRowFitting ==
    ASSUME SoloInv, NEW w \in Workers, DropRow(w)
    PROVE  Fitting'
<1>1. worker[w].pc \in Working /\ worker[w].pc = "dropRow"
  BY DEF DropRow, Working, WorkerSteps
<1>2. PICK j \in Jobs, n \in Nat : j = worker[w].job /\ n = worker[w].attempt
  BY <1>1, HeldFacts
<1>3. JobFits(j) /\ HoldFits("dropRow", n, j) /\ status[j] \in Statuses \ {"none"}
  BY <1>1, <1>2, HeldFacts
<1>4. /\ Withdraw(<<j, n>>) /\ WorkerAt(w, "dropJob")
      /\ UNCHANGED <<status, attempts, artifacts, expired, file, caller>>
  BY <1>2 DEF DropRow, jobVars, Withdraw
<1>5. \A k \in Jobs : Kept(k)
  BY <1>4, SoloTypes, KeptWhen
<1>6. RowsFit'
  <2>1. status[j] \notin Clean
    BY <1>3 DEF HoldFits, Clean
  <2>2. \A a \in withdrawn' : status[a[1]] \in Clean => a \in expired
    BY <1>4, <2>1 DEF Withdraw, SoloInv, Fitting, RowsFit
  <2> QED BY <1>4, <2>2 DEF SoloInv, Fitting, RowsFit
<1>7. JobFits(j)'
  BY <1>5, OneJobFits
<1>8. HoldFits("dropJob", n, j)'
  BY <1>3, <1>4 DEF HoldFits, Loaded, Working, WorkerSteps, HasRow
<1> QED BY <1>1, <1>2, <1>4, <1>5, <1>6, <1>7, <1>8, AtFitting

\* The ends of an attempt that leave no artifact.
LEMMA EndFitting ==
    ASSUME SoloInv, NEW w \in Workers, DropJob(w) \/ Fail(w) \/ GiveUp(w)
    PROVE  Fitting'
<1>1. worker[w].pc \in Working
  BY DEF DropJob, Fail, GiveUp, Working, WorkerSteps
<1>2. PICK j \in Jobs, n \in Nat : j = worker[w].job /\ n = worker[w].attempt
  BY <1>1, HeldFacts
<1>3. PICK expected, new : /\ Transition(j, expected, new) /\ new \in {"failed", "cancelled"}
                           /\ expected \subseteq {"running", "cancel_requested"}
  <2>1. worker[w].why \in {"failed", "cancelled"}
    BY <1>1, HeldFacts DEF Worker
  <2>2. CASE DropJob(w)
    BY <1>2, <2>2 DEF DropJob
  <2>3. CASE Fail(w)
    BY <1>2, <2>1, <2>3 DEF Fail
  <2>4. CASE GiveUp(w)
    BY <1>2, <2>4 DEF GiveUp
  <2> QED BY <2>2, <2>3, <2>4
<1>4. WorkerAt(w, "finish") /\ UNCHANGED <<artifactVars, caller>>
  BY DEF DropJob, Fail, GiveUp
<1>5. /\ status'[j] = IF status[j] \in expected THEN new ELSE status[j]
      /\ attempts'[j] = attempts[j]
  BY <1>3, TransitionEffect
<1>6. RowsFit' /\ \A k \in Jobs \ {j} : Kept(k)
  BY <1>3, <1>4, TransitionRows DEF Clean
<1>7. JobFits(j)'
  <2>1. JobFits(j)
    BY <1>1, <1>2, HeldFacts
  <2> QED BY <1>3, <1>4, <1>5, <2>1 DEF JobFits, artifactVars, Fresh
<1> QED BY <1>1, <1>2, <1>4, <1>6, <1>7, AtFitting DEF Working

LEMMA RequeueFitting ==
    ASSUME SoloInv, NEW w \in Workers, Requeue(w)
    PROVE  Fitting'
<1>1. worker[w].pc \in Working /\ worker[w].pc = "requeue"
  BY DEF Requeue, Working, WorkerSteps
<1>2. PICK j \in Jobs, n \in Nat : j = worker[w].job /\ n = worker[w].attempt
  BY <1>1, HeldFacts
<1>3. JobFits(j) /\ HoldFits("requeue", n, j)
  BY <1>1, <1>2, HeldFacts
<1>4. PICK pc : pc = IF status[j] = "running" THEN "claim" ELSE "giveUp"
  OBVIOUS
<1>5. WorkerAt(w, pc) /\ Transition(j, {"running"}, "queued") /\ UNCHANGED <<artifactVars, caller>>
  BY <1>2, <1>4 DEF Requeue
<1>6. /\ status'[j] = IF status[j] = "running" THEN "queued" ELSE status[j]
      /\ attempts'[j] = attempts[j]
  BY <1>5, TransitionEffect
<1>7. RowsFit' /\ \A k \in Jobs \ {j} : Kept(k)
  BY <1>5, TransitionRows DEF Clean
<1>8. JobFits(j)'
  <2>1. status[j] = "running" => attempts[j] < MaxAttempts
    BY <1>3 DEF HoldFits, Loaded, Working, WorkerSteps, HasRow
  <2> QED BY <1>3, <1>5, <1>6, <2>1 DEF JobFits, artifactVars, Fresh
<1>9. HoldFits(pc, n, j)'
  BY <1>3, <1>4, <1>6 DEF HoldFits, Working, WorkerSteps, Loaded, HasRow
<1> QED BY <1>1, <1>2, <1>5, <1>7, <1>8, <1>9, AtFitting

LEMMA WorkerStepFitting ==
    ASSUME SoloInv, NEW w \in Workers, WorkerStep(w)
    PROVE  Fitting'
<1>1. CASE Take(w) \/ Finish(w) \/ Forget(w)
  <2>1. UNCHANGED <<status, attempts, artifactVars, caller>>
    BY <1>1 DEF Take, Finish, Forget, jobVars
  <2>2. RowsFit' /\ \A k \in Jobs : Kept(k) /\ JobFits(k)'
    BY <2>1, NothingFitting
  <2>3. PICK f : worker' = [worker EXCEPT ![w] = f] /\ (f.pc \in Working => f.pc = "claim")
    <3>1. CASE Take(w)
      <4>1. PICK f : f = [Idle EXCEPT !.pc = "claim", !.job = Head(pool[Host[w]])]
        OBVIOUS
      <4>2. worker' = [worker EXCEPT ![w] = f]
        BY <3>1, <4>1 DEF Take
      <4>3. f.pc = "claim"
        BY <4>1 DEF Idle
      <4> QED BY <4>2, <4>3
    <3>2. CASE Finish(w) \/ Forget(w)
      <4>1. PICK f : (f = [worker[w] EXCEPT !.pc = "forget"] \/ f = Idle) /\ worker' = [worker EXCEPT ![w] = f]
        BY <3>2 DEF Finish, Forget
      <4>2. f.pc \in {"forget", "idle"}
        BY <4>1, PlaceTypes DEF Idle, Worker, SoloInv, PlacesInv, PromiseInv
      <4> QED BY <4>1, <4>2 DEF Working
    <3> QED BY <1>1, <3>1, <3>2
  <2>4. worker'[w] = f /\ \A v \in Workers \ {w} : worker'[v] = worker[v]
    BY <2>3, PlaceTypes DEF SoloInv, PlacesInv, PromiseInv
  <2>5. WorkerFits(w)'
    BY <2>3, <2>4 DEF WorkerFits, Works, HoldFits, Loaded, Working
  <2>6. \A v \in Workers : WorkerFits(v)'
    BY <2>2, <2>4, <2>5, OneWorkerFits
  <2>7. ListFits'
    BY <2>1 DEF SoloInv, Fitting, ListFits
  <2> QED BY <2>2, <2>6, <2>7 DEF Fitting
<1> QED BY <1>1, QuietAttemptFitting, ClaimFitting, StoreFitting, RecordFitting, SucceedFitting, DropRowFitting,
           EndFitting, RequeueFitting DEF WorkerStep, Attempt

LEMMA ListFitting ==
    ASSUME OneProcess, SoloInv, NEW i \in Instances, ListJobs(i)
    PROVE  Fitting'
<1>1. i \in Callers /\ UNCHANGED <<status, attempts, artifactVars, worker>> /\ \A h \in Instances : h = i
  BY DEF ListJobs, jobVars, Callers, OneProcess
<1>2. PICK rows : rows = {[job |-> j, status |-> status[j], attempts |-> attempts[j]] : j \in Incomplete}
  OBVIOUS
<1>3. PICK f : f = [caller[i] EXCEPT !.pc = "recover", !.left = rows]
  OBVIOUS
<1>4. f.pc = "recover" /\ f.seen = caller[i].seen /\ f.left = rows
  BY <1>1, <1>3 DEF SoloInv, PlacesInv, PromiseInv, TypeInv, CallersOK, Caller
<1>5. caller'[i] = f /\ \A d \in Callers \ {i} : caller'[d] = caller[d]
  BY <1>1, <1>2, <1>3 DEF ListJobs, SoloInv, PlacesInv, PromiseInv, TypeInv, CallersOK
<1>6. \A j \in Jobs : Kept(j) /\ JobFits(j)'
  <2>1. \A j \in Jobs : Kept(j)
    BY <1>1, SoloTypes, KeptWhen DEF artifactVars
  <2> QED BY <2>1, OneJobFits
<1>7. \A w \in Workers : WorkerFits(w)'
  BY <1>1, <1>6, OneWorkerFits
<1>8. ListFits'
  <2>1. \A s \in rows : status[s.job] = s.status /\ attempts[s.job] = s.attempts
    BY <1>2
  <2> QED BY <1>1, <1>4, <1>5, <2>1 DEF ListFits
<1>9. RowsFit'
  <2>1. \A c \in Callers : caller'[c].seen = caller[c].seen /\ (caller'[c].pc \in Tidying => caller'[c].seen # {})
    BY <1>4, <1>5 DEF SoloInv, Fitting, RowsFit, Tidying
  <2> QED BY <1>1, <2>1 DEF SoloInv, Fitting, RowsFit, artifactVars
<1> QED BY <1>6, <1>7, <1>8, <1>9 DEF Fitting

\* The frame of a main thread that has worked off one row of its list.
LEMMA RecoveredFrame ==
    ASSUME SoloInv, NEW i \in Instances, NEW s \in caller[i].left, NEW pc \in {"submit", "recover"}, Recovered(i, s, pc)
    PROVE  /\ \A c \in Callers : caller'[c].seen = caller[c].seen /\ (caller'[c].pc \in Tidying => caller'[c].seen # {})
           /\ caller'[i].left = caller[i].left \ {s}
           /\ \A h \in Instances \ {i} : caller'[h].left = caller[h].left
           /\ s.job \in Jobs /\ status[s.job] = s.status /\ attempts[s.job] = s.attempts
           /\ \A r \in caller[i].left \ {s} : r.job \in Jobs \ {s.job}
           /\ \A h \in Instances : \A r \in caller[h].left : r.job \in Jobs
           /\ \A w \in Workers : ~Works(w, s.job)
<1>1. i \in Callers /\ Instances \subseteq Callers /\ caller \in [Callers -> Caller]
  BY DEF Callers, SoloInv, PlacesInv, PromiseInv, TypeInv, CallersOK
<1>2. PICK f : f = [caller[i] EXCEPT !.pc = pc, !.left = caller[i].left \ {s}, !.job = IF pc = "submit" THEN s.job ELSE None]
  OBVIOUS
<1>3. f.pc = pc /\ f.seen = caller[i].seen /\ f.left = caller[i].left \ {s}
  BY <1>1, <1>2 DEF Caller
<1>4. caller'[i] = f /\ \A d \in Callers \ {i} : caller'[d] = caller[d]
  BY <1>1, <1>2 DEF Recovered
<1>5. \A c \in Callers : caller'[c].seen = caller[c].seen /\ (caller'[c].pc \in Tidying => caller'[c].seen # {})
  BY <1>3, <1>4 DEF SoloInv, Fitting, RowsFit, Tidying
<1>6. \A h \in Instances \ {i} : caller'[h].left = caller[h].left
  BY <1>1, <1>4
<1>7. /\ s.job \in Jobs /\ \A h \in Instances : \A r \in caller[h].left : r.job \in Jobs
      /\ status[s.job] = s.status /\ attempts[s.job] = s.attempts
  BY PlaceTypes DEF SoloInv, PlacesInv, PromiseInv, Fitting, ListFits
<1>8. \A r \in caller[i].left \ {s} : r.job # s.job
  BY DEF SoloInv, PlacesInv, Alone, ListedAlone
<1>9. \A w \in Workers : ~Works(w, s.job)
  BY DEF SoloInv, PlacesInv, Alone, ListedAlone
<1> QED BY <1>3, <1>4, <1>5, <1>6, <1>7, <1>8, <1>9

\* A row of the list is worked off: its job moves, or not.
LEMMA RecoveredFitting ==
    ASSUME OneProcess, SoloInv, NEW i \in Instances, NEW s \in caller[i].left, NEW pc \in {"submit", "recover"},
           Recovered(i, s, pc), UNCHANGED <<artifactVars, worker>>,
           NEW new \in {"queued", "failed", "cancelled"}, Transition(s.job, {s.status}, new),
           new = "queued" => s.status = "running" /\ s.attempts < MaxAttempts
    PROVE  Fitting'
<1>1. PICK j \in Jobs : j = s.job
  BY RecoveredFrame
<1>2. /\ \A c \in Callers : caller'[c].seen = caller[c].seen /\ (caller'[c].pc \in Tidying => caller'[c].seen # {})
      /\ caller'[i].left = caller[i].left \ {s}
      /\ status[j] = s.status /\ attempts[j] = s.attempts
      /\ \A r \in caller[i].left \ {s} : r.job \in Jobs \ {j}
      /\ \A w \in Workers : ~Works(w, j)
  BY <1>1, RecoveredFrame
<1>3. /\ \A k \in Jobs : status'[k] = IF k = j THEN new ELSE status[k]
      /\ \A k \in Jobs : attempts'[k] = attempts[k]
      /\ attempts' \in [Jobs -> Nat]
      /\ s.status \in Active
  <2>1. Transition(j, {status[j]}, new)
    BY <1>1, <1>2
  <2>2. s.status \in Active
    BY PlaceTypes DEF SoloInv, PlacesInv, PromiseInv
  <2>3. attempts' \in [Jobs -> Nat]
    BY <2>1, SoloTypes DEF Transition
  <2> QED BY <2>1, <2>2, <2>3, TransitionEffect
<1>4. \A k \in Jobs \ {j} : Kept(k)
  BY <1>3, SoloTypes, KeptWhen DEF artifactVars
<1>5. \A w \in Workers : WorkerFits(w)'
  BY <1>2, <1>4, OneWorkerFits
<1>6. \A k \in Jobs : JobFits(k)'
  <2>1. \A k \in Jobs \ {j} : JobFits(k)'
    BY <1>4, OneJobFits
  <2>2. JobFits(j)'
    <3>1. JobFits(j)
      BY DEF SoloInv, Fitting
    <3> QED BY <1>2, <1>3, <3>1 DEF JobFits
  <2> QED BY <2>1, <2>2
<1>7. ListFits'
  <2>1. \A h \in Instances : h = i
    BY DEF OneProcess
  <2> QED BY <1>2, <1>4, <2>1 DEF SoloInv, Fitting, ListFits, Kept
<1>8. RowsFit'
  <2>1. \A a \in Artifact : a[1] \in Jobs /\ a[2] \in Nat
    BY DEF Artifact
  <2>2. \A a \in withdrawn : status'[a[1]] \in Clean => status[a[1]] \in Clean
    BY <1>2, <1>3, <2>1, SoloTypes DEF Clean
  <2>3. \A a \in artifacts : attempts[a[1]] <= attempts'[a[1]]
    BY <1>3, <2>1, SoloTypes
  <2>4. \A k \in Jobs : status[k] = "pruned" => status'[k] = "pruned"
    BY <1>2, <1>3 DEF Active
  <2> QED BY <1>2, <1>3, <2>2, <2>3, <2>4, RowsStep DEF artifactVars
<1> QED BY <1>5, <1>6, <1>7, <1>8 DEF Fitting

LEMMA RecoverFitting ==
    ASSUME OneProcess, SoloInv, NEW i \in Instances, Recover(i)
    PROVE  Fitting'
<1>0. i \in Callers /\ UNCHANGED <<artifactVars, worker>>
  BY DEF Recover, Callers
<1>1. CASE UNCHANGED jobVars /\ caller' = [caller EXCEPT ![i] = Maintaining(Frame("recover", "start"))]
  <2>1. PICK f : f = Frame("recover", "start")
    OBVIOUS
  <2>2. f \in Caller /\ f.left = {}
    BY <2>1 DEF Frame, Caller, CallerSteps
  <2> QED BY <1>0, <1>1, <2>1, <2>2, MaintainingFitting DEF jobVars
<1>2. ASSUME NEW s \in caller[i].left, RecoverQueued(i, s)
      PROVE  Fitting'
  <2>1. Recovered(i, s, "submit") /\ UNCHANGED <<status, attempts>>
    BY <1>2 DEF RecoverQueued, jobVars
  <2>2. PICK f : f = [caller[i] EXCEPT !.pc = "submit", !.left = caller[i].left \ {s}, !.job = s.job]
    OBVIOUS
  <2>3. f.pc = "submit" /\ f.seen = caller[i].seen /\ f.left = caller[i].left \ {s}
    BY <1>0, <2>2 DEF SoloInv, PlacesInv, PromiseInv, TypeInv, CallersOK, Caller
  <2>4. caller' = [caller EXCEPT ![i] = f]
    BY <1>0, <2>1, <2>2 DEF Recovered, SoloInv, PlacesInv, PromiseInv, TypeInv, CallersOK
  <2> QED BY <1>0, <2>1, <2>3, <2>4, QuietFitting DEF Tidying
<1>3. ASSUME NEW s \in caller[i].left, RecoverCancelled(i, s)
      PROVE  Fitting'
  BY <1>0, <1>3, RecoveredFitting DEF RecoverCancelled
<1>4. ASSUME NEW s \in caller[i].left, RecoverStranded(i, s)
      PROVE  Fitting'
  <2>1. PICK new, pc : /\ Transition(s.job, {s.status}, new) /\ Recovered(i, s, pc)
                       /\ new \in {"queued", "failed"} /\ pc \in {"submit", "recover"}
                       /\ new = "queued" => s.status = "running" /\ s.attempts < MaxAttempts
    <3>1. CASE MayRetry(s.attempts)
      <4>1. PICK pc : pc = IF status[s.job] = "running" THEN "submit" ELSE "recover"
        OBVIOUS
      <4> QED BY <1>4, <3>1, <4>1 DEF RecoverStranded, MayRetry
    <3>2. CASE ~MayRetry(s.attempts)
      BY <1>4, <3>2 DEF RecoverStranded
    <3> QED BY <3>1, <3>2
  <2> QED BY <1>0, <2>1, RecoveredFitting
<1> QED BY <1>1, <1>2, <1>3, <1>4 DEF Recover

LEMMA CrashFitting ==
    ASSUME OneProcess, SoloInv, NEW i \in Instances, Crash(i)
    PROVE  Fitting'
<1>1. /\ \A c \in Callers : caller'[c].pc \in {"down", "idle"} /\ caller'[c].left = {} /\ caller'[c].seen = {}
      /\ \A w \in Workers : worker'[w].pc = "idle"
      /\ UNCHANGED <<status, attempts, artifactVars>>
  <2>1. \A x \in Instances \cup Threads \cup Workers : Host[x] = i
    BY HostType DEF OneProcess
  <2>2. /\ caller' = [c \in Callers |-> IF c = i THEN Frame("down", "start") ELSE Frame("idle", "list")]
        /\ worker' = [w \in Workers |-> Idle]
    BY <2>1 DEF Crash, Callers
  <2> QED BY <2>2 DEF Frame, Idle, Crash, jobVars
<1>2. \A j \in Jobs : Kept(j) /\ JobFits(j)'
  <2>1. \A j \in Jobs : Kept(j)
    BY <1>1, SoloTypes, KeptWhen DEF artifactVars
  <2> QED BY <2>1, OneJobFits
<1>3. \A w \in Workers : WorkerFits(w)'
  BY <1>1 DEF WorkerFits, Works, Working
<1>4. ListFits'
  BY <1>1 DEF ListFits, Callers
<1>5. RowsFit'
  BY <1>1 DEF SoloInv, Fitting, RowsFit, artifactVars, Tidying
<1> QED BY <1>2, <1>3, <1>4, <1>5 DEF Fitting

LEMMA TimeFitting ==
    ASSUME SoloInv, Time
    PROVE  Fitting'
<1>1. /\ UNCHANGED <<status, attempts, artifacts, withdrawn, file, caller, worker>>
      /\ expired \subseteq expired'
  BY DEF Time, Lapse, ExpireTime, RetainTime, jobVars, artifactVars
<1>2. \A j \in Jobs : Kept(j) /\ JobFits(j)'
  <2>1. \A j \in Jobs : Kept(j)
    BY <1>1, SoloTypes, KeptWhen
  <2> QED BY <2>1, OneJobFits
<1>3. \A w \in Workers : WorkerFits(w)'
  BY <1>1, <1>2, OneWorkerFits
<1>4. ListFits' /\ RowsFit'
  BY <1>1 DEF SoloInv, Fitting, ListFits, RowsFit
<1> QED BY <1>2, <1>3, <1>4 DEF Fitting

LEMMA SoloInvStays ==
    ASSUME OneProcess, SoloInv, [Next]_vars
    PROVE  SoloInv'
<1>1. PlacesInv'
  BY PlacesInvStays DEF SoloInv
<1>2. Fitting'
  <2>1. CASE UNCHANGED vars
    <3>1. UNCHANGED <<status, attempts, artifactVars, caller, worker>>
      BY <2>1 DEF vars, jobVars
    <3>2. RowsFit' /\ \A j \in Jobs : Kept(j) /\ JobFits(j)'
      BY <3>1, NothingFitting
    <3>3. \A w \in Workers : WorkerFits(w)'
      BY <3>1, <3>2, OneWorkerFits
    <3>4. ListFits'
      BY <3>1 DEF SoloInv, Fitting, ListFits
    <3> QED BY <3>2, <3>3, <3>4 DEF Fitting
  <2>2. ASSUME NEW i \in Instances, Start(i) \/ Crash(i)
        PROVE  Fitting'
    <3>0. i \in Callers
      BY DEF Callers
    <3>1. CASE Launch(i)
      <4>1. PICK f : f = Frame("claim", "start")
        OBVIOUS
      <4>2. f.left = {} /\ f.seen = {} /\ f.pc = "claim"
        BY <4>1 DEF Frame
      <4> QED BY <3>0, <3>1, <4>1, <4>2, QuietFitting DEF Launch, jobVars, Tidying
    <3>2. CASE ClaimSlot(i)
      BY <3>0, <3>2, GotoFitting DEF ClaimSlot, jobVars, Tidying
    <3> QED BY <2>2, <3>1, <3>2, ListFitting, RecoverFitting, CrashFitting DEF Start
  <2>3. ASSUME NEW c \in Callers, CallerStep(c)
        PROVE  Fitting'
    BY <2>3, MaintainFitting, CoordinatorFitting DEF CallerStep
  <2> QED BY <2>1, <2>2, <2>3, RequestFitting, WorkerStepFitting, TimeFitting DEF Next
<1> QED BY <1>1, <1>2 DEF SoloInv

LEMMA SoloInit == Init => SoloInv
<1> SUFFICES ASSUME Init PROVE SoloInv
  OBVIOUS
<1>1. PlacesInv
  BY PlacesInit
<1>2. /\ \A c \in Callers : caller[c].pc \in {"idle", "down"} /\ caller[c].left = {} /\ caller[c].seen = {}
      /\ \A w \in Workers : worker[w].pc = "idle"
      /\ \A j \in Jobs : status[j] = "none" /\ attempts[j] = 0
  BY DEF Init, Frame, Idle, Callers
<1>3. \A w \in Workers : WorkerFits(w)
  BY <1>2 DEF WorkerFits, Works, Working
<1>4. \A j \in Jobs : JobFits(j)
  BY <1>2, ExportAssumption DEF JobFits
<1>5. ListFits
  BY <1>2 DEF ListFits, Callers
<1>6. RowsFit
  BY <1>2 DEF RowsFit, Init, Tidying
<1> QED BY <1>1, <1>3, <1>4, <1>5, <1>6 DEF SoloInv, Fitting

\* One process never attempts a job more often than max_attempts, over all its retries in
\* place and its recoveries after restarts together (_requeue_for_retry, recover_incomplete_jobs).
THEOREM AttemptsBounded == OneProcess /\ Spec => []AttemptsAreBounded
<1> SUFFICES ASSUME OneProcess PROVE Spec => []AttemptsAreBounded
  OBVIOUS
<1>1. SoloInv => AttemptsAreBounded
  BY DEF SoloInv, Fitting, JobFits, AttemptsAreBounded
<1>2. SoloInv /\ [Next]_vars => SoloInv'
  BY SoloInvStays
<1> QED BY <1>1, <1>2, SoloInit, PTL DEF Spec

LEMMA SoloHasFile == SoloInv => SucceededHasFile
<1> SUFFICES ASSUME SoloInv, NEW j \in Jobs, status[j] = "succeeded", Fresh(j)
             PROVE  LiveRows(j) # {} /\ file[j] = Newest(j)[2]
  BY DEF SucceededHasFile, Fresh
<1>1. PICK n \in Nat : n = attempts[j]
  BY SoloTypes
<1>2. <<j, n>> \in artifacts /\ file[j] = n
  BY <1>1 DEF SoloInv, Fitting, JobFits
<1>3. \A a \in withdrawn : a[1] # j
  BY DEF SoloInv, Fitting, RowsFit, Clean, Fresh
<1>4. <<j, n>> \in LiveRows(j)
  BY <1>2, <1>3 DEF LiveRows
<1>5. \A b \in LiveRows(j) : b[1] = j /\ b[2] \in Nat /\ b[2] <= n /\ b = <<j, b[2]>>
  <2> SUFFICES ASSUME NEW b \in LiveRows(j) PROVE b[1] = j /\ b[2] \in Nat /\ b[2] <= n /\ b = <<j, b[2]>>
    OBVIOUS
  <2>1. b \in Artifact /\ b \in artifacts /\ b[1] = j
    BY SoloTypes DEF LiveRows
  <2>2. b[2] <= attempts[b[1]]
    BY <2>1 DEF SoloInv, Fitting, RowsFit
  <2> QED BY <1>1, <2>1, <2>2 DEF Artifact
<1>6. PICK m : m = Newest(j)
  OBVIOUS
<1>7. m \in LiveRows(j) /\ \A b \in LiveRows(j) : b[2] <= m[2]
  <2>1. \E a \in LiveRows(j) : \A b \in LiveRows(j) : b[2] <= a[2]
    BY <1>4, <1>5
  <2> QED BY <1>6, <2>1 DEF Newest
<1>8. m[2] = n
  <2>1. m[2] \in Nat /\ m[2] <= n
    BY <1>5, <1>7
  <2>2. n <= m[2]
    BY <1>4, <1>7
  <2> QED BY <1>1, <2>1, <2>2
<1> QED BY <1>2, <1>4, <1>6, <1>8

\* In one process a succeeded job can be downloaded until an artifact of it reaches its end:
\* there is a row, a file, and the newest row describes it (_publish, cleanup_expired_artifacts).
THEOREM SucceededIsThere == OneProcess /\ Spec => []SucceededHasFile
<1> SUFFICES ASSUME OneProcess PROVE Spec => []SucceededHasFile
  OBVIOUS
<1>1. SoloInv /\ [Next]_vars => SoloInv'
  BY SoloInvStays
<1> QED BY <1>1, SoloInit, SoloHasFile, PTL DEF Spec
=============================================================================
