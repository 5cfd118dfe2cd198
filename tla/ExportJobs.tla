------------------------------ MODULE ExportJobs ------------------------------
(***************************************************************************)
(* Export jobs: the rows of consumption_jobs and consumption_artifacts,    *)
(* the files of LocalArtifactStore, the request threads that create and    *)
(* cancel jobs and tidy up on their way, LocalJobCoordinator with its pool *)
(* of workers, ConsumptionJobRunner, and start() with the recovery of what *)
(* an earlier process left.                                                *)
(*                                                                         *)
(* Every call into ConsumptionStore or LocalArtifactStore is one atomic    *)
(* step; between any two of them every other thread may run and the        *)
(* process may die.  Rows and files survive it.  All jobs belong to one    *)
(* principal and one app, so one quota stands for the two that are checked *)
(* one after the other.  An artifact is named by its job and the attempt   *)
(* that wrote it; all attempts of a job write the same file.               *)
(*                                                                         *)
(* An operator named D_variant is D with one plausible mistake in it; the  *)
(* specification does not use it.                                          *)
(***************************************************************************)
EXTENDS Naturals, Sequences, FiniteSets

CONSTANTS
    Jobs,           \* job ids that may ever be drawn
    Keys,           \* idempotency keys
    Instances,      \* processes of the control plane (of which one is meant to run)
    Threads,        \* their request threads
    Workers,        \* their pool threads, max_concurrent_jobs of them
    Host,           \* the process of each thread; an instance stands for its main thread
    MaxAttempts,    \* max_attempts of the policy
    Quota,          \* max_active_jobs of the policy
    MaxCrashes,     \* bound: how often processes die
    MayRaise,       \* bound: whether a step of an attempt may raise an unexpected exception
    MayAge,         \* bound: whether artifacts and jobs reach the end of their time
    MayLapse,       \* bound: whether a heartbeat may grow old beside a living process
    None

ASSUME ExportAssumption ==
    /\ MaxAttempts \in Nat \ {0} /\ Quota \in Nat \ {0} /\ MaxCrashes \in Nat
    /\ MayRaise \in BOOLEAN /\ MayAge \in BOOLEAN /\ MayLapse \in BOOLEAN
    /\ Host \in [Instances \cup Threads \cup Workers -> Instances] /\ \A i \in Instances : Host[i] = i
    /\ None \notin Jobs \cup Keys \cup Instances \cup Threads
    /\ Instances \cap Threads = {}

VARIABLES
    status,     \* consumption_jobs: status of each job
    attempts,   \* its attempt_count
    asked,      \* jobs with a cancel_requested_at
    keyOf,      \* its idempotency_key
    artifacts,  \* consumption_artifacts: the rows, as <<job, attempt>>
    withdrawn,  \* those with a deleted_at
    expired,    \* those whose expires_at has passed
    retired,    \* ended jobs whose finished_at is past the retention time
    file,       \* of each job, the attempt whose output is stored, or 0
    slot,       \* consumption_coordinator: the owner, or None
    lapsed,     \* whether its heartbeat_at is older than _COORDINATOR_STALE_SECONDS
    caller,     \* the frame of each request thread and main thread
    worker,     \* the frame of each pool thread
    pool,       \* ThreadPoolExecutor: the jobs submitted and not yet taken
    future,     \* LocalJobCoordinator._futures
    callback,   \* jobs whose future has its done callback
    lock,       \* who holds LocalJobCoordinator._lock
    crashes     \* how often processes have died

jobVars == <<status, attempts, asked, keyOf, retired>>
artifactVars == <<artifacts, withdrawn, expired, file>>
coordinatorVars == <<pool, future, callback, lock>>
slotVars == <<slot, lapsed>>
vars == <<jobVars, artifactVars, coordinatorVars, slotVars, caller, worker, crashes>>

-----------------------------------------------------------------------------
(* Types *)

Active == {"queued", "running", "cancel_requested"}
Terminal == {"succeeded", "failed", "cancelled", "expired"}
Statuses == {"none", "pruned"} \cup Active \cup Terminal    \* "none" and "pruned": no row
Artifact == Jobs \X Nat
Callers == Instances \cup Threads

CallerSteps == {"down", "claim", "listJobs", "recover", "serving", "idle", "dropFile", "dropRow", "dropJob",
                "prune", "unlink", "beat", "lookup", "quota", "insert", "submit", "register", "wedged"}
WorkerSteps == {"idle", "claim", "load", "execute", "store", "record", "succeed", "dropFile", "dropRow", "dropJob",
                "fail", "retry", "requeue", "giveUp", "finish", "forget"}

\* op: what a thread does after its maintenance; seen: the rows a caller has read and
\* not yet worked off (incomplete jobs, expired artifacts, or pruned artifacts).
Snapshot == [job : Jobs, status : Active, attempts : Nat]
Caller == [pc : CallerSteps, op : {"start", "create", "list"}, key : Keys \cup {None}, job : Jobs \cup {None},
           seen : SUBSET Artifact, left : SUBSET Snapshot]
Worker == [pc : WorkerSteps, job : Jobs \cup {None}, attempt : Nat, why : {"failed", "cancelled"}]

TypeOK ==
    /\ status \in [Jobs -> Statuses] /\ attempts \in [Jobs -> Nat]
    /\ asked \subseteq Jobs /\ retired \subseteq Jobs
    /\ keyOf \in [Jobs -> Keys \cup {None}]
    /\ artifacts \subseteq Artifact /\ withdrawn \subseteq Artifact /\ expired \subseteq Artifact
    /\ file \in [Jobs -> Nat]
    /\ slot \in Instances \cup {None} /\ lapsed \in BOOLEAN
    /\ caller \in [Callers -> Caller]
    /\ worker \in [Workers -> Worker]
    /\ pool \in [Instances -> Seq(Jobs)]
    /\ future \in [Instances -> [Jobs -> {"none", "pending", "done"}]]
    /\ callback \in [Instances -> SUBSET Jobs]
    /\ lock \in [Instances -> Callers \cup {None}]
    /\ crashes \in 0..MaxCrashes

Frame(pc, op) == [pc |-> pc, op |-> op, key |-> None, job |-> None, seen |-> {}, left |-> {}]
Idle == [pc |-> "idle", job |-> None, attempt |-> 0, why |-> "failed"]

-----------------------------------------------------------------------------
(* ConsumptionStore *)

Transition_unconditional(j, expected, new) ==
    /\ status' = [status EXCEPT ![j] = new]
    /\ attempts' = IF new = "running" THEN [attempts EXCEPT ![j] = @ + 1] ELSE attempts
    /\ UNCHANGED <<asked, keyOf, retired>>

\* transition_job: a compare-and-set on the status; a claim counts an attempt.
Transition(j, expected, new) ==
    /\ status' = IF status[j] \in expected THEN [status EXCEPT ![j] = new] ELSE status
    /\ attempts' = IF status[j] \in expected /\ new = "running" THEN [attempts EXCEPT ![j] = @ + 1] ELSE attempts
    /\ UNCHANGED <<asked, keyOf, retired>>

CancelRequested(j) == status[j] \in {"cancel_requested", "cancelled"}
HasRow(j) == status[j] \notin {"none", "pruned"}
ActiveJobs == {j \in Jobs : status[j] \in Active}
NewIds == {j \in Jobs : status[j] = "none"}
HoldsKey(k) == {j \in Jobs : HasRow(j) /\ keyOf[j] = k}

\* The row that get_artifact_for_job returns, if there is one.
LiveRows(j) == {a \in artifacts \ withdrawn : a[1] = j}
Newest(j) == CHOOSE a \in LiveRows(j) : \A b \in LiveRows(j) : b[2] <= a[2]

-----------------------------------------------------------------------------
(* Control flow of callers and workers *)

Goto(c, pc) == caller' = [caller EXCEPT ![c].pc = pc]
Serving(i) == caller[i].pc = "serving"

\* A request is answered; a main thread goes on with its recovery.
Return(c) ==
    caller' = [caller EXCEPT ![c] = IF c \in Threads THEN Frame("idle", "list") ELSE [@ EXCEPT !.pc = "recover", !.job = None]]

WorkerAt(w, pc) == worker' = [worker EXCEPT ![w].pc = pc]

-----------------------------------------------------------------------------
(* run_maintenance: every start, create and list begins with it *)

Overdue_ignored(a) == TRUE
Overdue(a) == a \in expired

\* list_expired_artifacts, the first thing a caller with frame f does.
Maintaining(f) ==
    LET found == {a \in artifacts \ withdrawn : Overdue(a)}
    IN  [f EXCEPT !.seen = found, !.pc = IF found = {} THEN "prune" ELSE "dropFile"]

Begin(t, op, k) ==
    /\ caller[t].pc = "idle" /\ Serving(Host[t])
    /\ caller' = [caller EXCEPT ![t] = Maintaining([Frame("idle", op) EXCEPT !.key = k])]
    /\ UNCHANGED <<jobVars, artifactVars, coordinatorVars, slotVars, worker, crashes>>

\* The artifact a caller works on: the oldest one of some job.
Current(c) == CHOOSE a \in caller[c].seen : \A b \in caller[c].seen : b[1] = a[1] => a[2] <= b[2]

\* LocalArtifactStore.delete
Unlink(j) == file' = [file EXCEPT ![j] = 0] /\ UNCHANGED <<artifacts, withdrawn, expired>>

\* mark_artifact_deleted
Withdraw(a) == withdrawn' = withdrawn \cup ({a} \cap artifacts) /\ UNCHANGED <<artifacts, expired, file>>

\* cleanup_expired_artifacts
ExpireFile(c) ==
    /\ caller[c].pc = "dropFile"
    /\ Unlink(Current(c)[1]) /\ Goto(c, "dropRow")
    /\ UNCHANGED <<jobVars, coordinatorVars, slotVars, worker, crashes>>

ExpireRow(c) ==
    /\ caller[c].pc = "dropRow"
    /\ Withdraw(Current(c)) /\ Goto(c, "dropJob")
    /\ UNCHANGED <<jobVars, coordinatorVars, slotVars, worker, crashes>>

ExpireJob(c) ==
    /\ caller[c].pc = "dropJob"
    /\ Transition(Current(c)[1], {"succeeded"}, "expired")
    /\ LET rest == caller[c].seen \ {Current(c)}
       IN  caller' = [caller EXCEPT ![c].seen = rest, ![c].pc = IF rest = {} THEN "prune" ELSE "dropFile"]
    /\ UNCHANGED <<artifactVars, coordinatorVars, slotVars, worker, crashes>>

\* prune_expired_jobs: rows go together, in one transaction, and release their keys.
Prune(c) ==
    /\ caller[c].pc = "prune"
    /\ LET gone == {j \in retired : status[j] \in Terminal}
           rows == {a \in artifacts : a[1] \in gone}
       IN  /\ status' = [j \in Jobs |-> IF j \in gone THEN "pruned" ELSE status[j]]
           /\ attempts' = [j \in Jobs |-> IF j \in gone THEN 0 ELSE attempts[j]]
           /\ keyOf' = [j \in Jobs |-> IF j \in gone THEN None ELSE keyOf[j]]
           /\ asked' = asked \ gone /\ retired' = retired \ gone
           /\ artifacts' = artifacts \ rows /\ withdrawn' = withdrawn \ rows /\ expired' = expired \ rows
           /\ caller' = [caller EXCEPT ![c].seen = rows, ![c].pc = IF rows = {} THEN "beat" ELSE "unlink"]
    /\ UNCHANGED <<file, coordinatorVars, slotVars, worker, crashes>>

UnlinkPruned(c) ==
    /\ caller[c].pc = "unlink"
    /\ Unlink(Current(c)[1])
    /\ LET rest == caller[c].seen \ {Current(c)}
       IN  caller' = [caller EXCEPT ![c].seen = rest, ![c].pc = IF rest = {} THEN "beat" ELSE "unlink"]
    /\ UNCHANGED <<jobVars, coordinatorVars, slotVars, worker, crashes>>

AfterMaintenance(f) ==
    CASE f.op = "start"  -> "serving"
      [] f.op = "list"   -> "idle"
      [] f.op = "create" -> IF f.key = None THEN "quota" ELSE "lookup"

\* heartbeat_coordinator; then start, create_export, list_exports or a download goes on.
Beat(c) ==
    /\ caller[c].pc = "beat"
    /\ lapsed' = IF slot = Host[c] THEN FALSE ELSE lapsed
    /\ Goto(c, AfterMaintenance(caller[c]))
    /\ UNCHANGED <<slot, jobVars, artifactVars, coordinatorVars, worker, crashes>>

-----------------------------------------------------------------------------
(* create_export and cancel_export *)

KeyTaken_unchecked(k) == FALSE
KeyTaken(k) == k # None /\ HoldsKey(k) # {}

QuotaLeft_offByOne == Cardinality(ActiveJobs) <= Quota
QuotaLeft == Cardinality(ActiveJobs) < Quota

\* find_by_idempotency: the job of the key is the answer, or the error.
Lookup(t) ==
    /\ caller[t].pc = "lookup"
    /\ IF HoldsKey(caller[t].key) # {} THEN Return(t) ELSE Goto(t, "quota")
    /\ UNCHANGED <<jobVars, artifactVars, coordinatorVars, slotVars, worker, crashes>>

EnforceQuotas(t) ==
    /\ caller[t].pc = "quota"
    /\ IF QuotaLeft THEN Goto(t, "insert") ELSE Return(t)
    /\ UNCHANGED <<jobVars, artifactVars, coordinatorVars, slotVars, worker, crashes>>

\* Policy, authorization, parameters or preflight say no.
Refuse(t) ==
    /\ caller[t].pc \in {"lookup", "quota", "insert"}
    /\ Return(t)
    /\ UNCHANGED <<jobVars, artifactVars, coordinatorVars, slotVars, worker, crashes>>

\* create_job: the unique index on the key has the last word.
Insert(t) ==
    /\ caller[t].pc = "insert"
    /\ IF KeyTaken(caller[t].key)
       THEN Return(t) /\ UNCHANGED jobVars
       ELSE \E j \in NewIds :
              /\ status' = [status EXCEPT ![j] = "queued"]
              /\ keyOf' = [keyOf EXCEPT ![j] = caller[t].key]
              /\ caller' = [caller EXCEPT ![t].pc = "submit", ![t].job = j]
              /\ UNCHANGED <<attempts, asked, retired>>
    /\ UNCHANGED <<artifactVars, coordinatorVars, slotVars, worker, crashes>>

\* request_cancel: one statement for both of its cases.
Cancel(t, j) ==
    /\ caller[t].pc = "idle" /\ Serving(Host[t])
    /\ status[j] \in {"queued", "running"}
    /\ status' = [status EXCEPT ![j] = IF @ = "queued" THEN "cancelled" ELSE "cancel_requested"]
    /\ asked' = asked \cup {j}
    /\ UNCHANGED <<attempts, keyOf, retired, artifactVars, coordinatorVars, slotVars, caller, worker, crashes>>

-----------------------------------------------------------------------------
(* LocalJobCoordinator *)

\* submit, up to executor.submit: the lock is kept.
Submit(c) ==
    LET i == Host[c]  j == caller[c].job
    IN  /\ caller[c].pc = "submit" /\ lock[i] = None
        /\ IF future[i][j] = "pending"
           THEN Return(c) /\ UNCHANGED coordinatorVars
           ELSE /\ lock' = [lock EXCEPT ![i] = c]
                /\ pool' = [pool EXCEPT ![i] = Append(@, j)]
                /\ future' = [future EXCEPT ![i][j] = "pending"]
                /\ Goto(c, "register") /\ UNCHANGED callback
        /\ UNCHANGED <<jobVars, artifactVars, slotVars, worker, crashes>>

\* submit, add_done_callback: on a future that is done the callback runs here and
\* waits for the lock that this caller holds.
Register(c) ==
    LET i == Host[c]  j == caller[c].job
    IN  /\ caller[c].pc = "register"
        /\ IF future[i][j] = "done"
           THEN Goto(c, "wedged") /\ UNCHANGED <<callback, lock>>
           ELSE /\ callback' = [callback EXCEPT ![i] = @ \cup {j}]
                /\ lock' = [lock EXCEPT ![i] = None]
                /\ Return(c)
        /\ UNCHANGED <<jobVars, artifactVars, slotVars, pool, future, worker, crashes>>

Take(w) ==
    LET i == Host[w]
    IN  /\ worker[w].pc = "idle" /\ pool[i] # <<>>
        /\ worker' = [worker EXCEPT ![w] = [Idle EXCEPT !.pc = "claim", !.job = Head(pool[i])]]
        /\ pool' = [pool EXCEPT ![i] = Tail(@)]
        /\ UNCHANGED <<jobVars, artifactVars, slotVars, future, callback, lock, caller, crashes>>

\* The runner returns; the pool thread marks the future done and calls back.
Finish(w) ==
    LET i == Host[w]  j == worker[w].job
    IN  /\ worker[w].pc = "finish"
        /\ future' = [future EXCEPT ![i][j] = "done"]
        /\ worker' = [worker EXCEPT ![w] = IF j \in callback[i] THEN [@ EXCEPT !.pc = "forget"] ELSE Idle]
        /\ UNCHANGED <<jobVars, artifactVars, slotVars, pool, callback, lock, caller, crashes>>

Forget(w) ==
    LET i == Host[w]  j == worker[w].job
    IN  /\ worker[w].pc = "forget" /\ lock[i] = None
        /\ future' = [future EXCEPT ![i][j] = "none"]
        /\ callback' = [callback EXCEPT ![i] = @ \ {j}]
        /\ worker' = [worker EXCEPT ![w] = Idle]
        /\ UNCHANGED <<jobVars, artifactVars, slotVars, pool, lock, caller, crashes>>

-----------------------------------------------------------------------------
(* ConsumptionJobRunner.  In the try block of _run_attempt any step may raise an *)
(* unexpected exception (Raise); domain errors come from Execute.                *)

\* _claim; a job that was cancelled or taken meanwhile ends the run.
Claim(w) ==
    /\ worker[w].pc = "claim"
    /\ WorkerAt(w, IF status[worker[w].job] = "queued" THEN "load" ELSE "finish")
    /\ Transition(worker[w].job, {"queued"}, "running")
    /\ UNCHANGED <<artifactVars, coordinatorVars, slotVars, caller, crashes>>

\* The row is read again; its attempt_count decides about retries.
Load(w) ==
    LET j == worker[w].job
    IN  /\ worker[w].pc = "load"
        /\ worker' = [worker EXCEPT ![w].pc = IF HasRow(j) THEN "execute" ELSE "finish", ![w].attempt = attempts[j]]
        /\ UNCHANGED <<jobVars, artifactVars, coordinatorVars, slotVars, caller, crashes>>

\* _resolve, _authorize, and _execute up to its last look at the status.  The revision,
\* the contract, the principal's access, the query and the limits may all refuse.
Execute(w) ==
    /\ worker[w].pc = "execute"
    /\ \/ worker' = [worker EXCEPT ![w].pc = "fail", ![w].why = "failed"]
       \/ /\ CancelRequested(worker[w].job)
          /\ worker' = [worker EXCEPT ![w].pc = "fail", ![w].why = "cancelled"]
       \/ ~CancelRequested(worker[w].job) /\ WorkerAt(w, "store")
    /\ UNCHANGED <<jobVars, artifactVars, coordinatorVars, slotVars, caller, crashes>>

\* LocalArtifactStore.publish
Store(w) ==
    /\ worker[w].pc = "store"
    /\ file' = [file EXCEPT ![worker[w].job] = worker[w].attempt]
    /\ WorkerAt(w, "record")
    /\ UNCHANGED <<artifacts, withdrawn, expired, jobVars, coordinatorVars, slotVars, caller, crashes>>

\* create_artifact: INSERT ... SELECT from the row of the job.
Record(w) ==
    /\ worker[w].pc = "record"
    /\ artifacts' = artifacts \cup {a \in {<<worker[w].job, worker[w].attempt>>} : HasRow(a[1])}
    /\ WorkerAt(w, "succeed")
    /\ UNCHANGED <<withdrawn, expired, file, jobVars, coordinatorVars, slotVars, caller, crashes>>

Succeed(w) ==
    /\ worker[w].pc = "succeed"
    /\ WorkerAt(w, IF status[worker[w].job] = "running" THEN "finish" ELSE "dropFile")
    /\ Transition(worker[w].job, {"running"}, "succeeded")
    /\ UNCHANGED <<artifactVars, coordinatorVars, slotVars, caller, crashes>>

\* _publish, when a cancellation came first.
DropFile(w) ==
    /\ worker[w].pc = "dropFile"
    /\ Unlink(worker[w].job) /\ WorkerAt(w, "dropRow")
    /\ UNCHANGED <<jobVars, coordinatorVars, slotVars, caller, crashes>>

DropRow(w) ==
    /\ worker[w].pc = "dropRow"
    /\ Withdraw(<<worker[w].job, worker[w].attempt>>) /\ WorkerAt(w, "dropJob")
    /\ UNCHANGED <<jobVars, coordinatorVars, slotVars, caller, crashes>>

DropJob(w) ==
    /\ worker[w].pc = "dropJob"
    /\ Transition(worker[w].job, {"cancel_requested"}, "cancelled")
    /\ WorkerAt(w, "finish")
    /\ UNCHANGED <<artifactVars, coordinatorVars, slotVars, caller, crashes>>

\* _record_domain_failure
Fail(w) ==
    /\ worker[w].pc = "fail"
    /\ Transition(worker[w].job, {"running", "cancel_requested"}, worker[w].why)
    /\ WorkerAt(w, "finish")
    /\ UNCHANGED <<artifactVars, coordinatorVars, slotVars, caller, crashes>>

Raise(w) ==
    /\ MayRaise
    /\ worker[w].pc \in {"execute", "store", "record", "succeed", "dropRow", "dropJob"}
    /\ WorkerAt(w, "retry")
    /\ UNCHANGED <<jobVars, artifactVars, coordinatorVars, slotVars, caller, crashes>>

MayRetry_offByOne(n) == n <= MaxAttempts
MayRetry(n) == n < MaxAttempts

\* _requeue_for_retry: the status is read, then compared and set.
Retry(w) ==
    /\ worker[w].pc = "retry"
    /\ WorkerAt(w, IF MayRetry(worker[w].attempt) /\ ~CancelRequested(worker[w].job) THEN "requeue" ELSE "giveUp")
    /\ UNCHANGED <<jobVars, artifactVars, coordinatorVars, slotVars, caller, crashes>>

Requeue(w) ==
    /\ worker[w].pc = "requeue"
    /\ WorkerAt(w, IF status[worker[w].job] = "running" THEN "claim" ELSE "giveUp")
    /\ Transition(worker[w].job, {"running"}, "queued")
    /\ UNCHANGED <<artifactVars, coordinatorVars, slotVars, caller, crashes>>

\* _record_unexpected_failure
GiveUp(w) ==
    /\ worker[w].pc = "giveUp"
    /\ Transition(worker[w].job, {"running", "cancel_requested"}, "failed")
    /\ WorkerAt(w, "finish")
    /\ UNCHANGED <<artifactVars, coordinatorVars, slotVars, caller, crashes>>

-----------------------------------------------------------------------------
(* start and recover_incomplete_jobs *)

Dead(i) == caller[i].pc = "down"

\* claim_coordinator reads the slot and, unless another process that is alive has a fresh
\* heartbeat in it, writes it.
Launch(i) ==
    /\ Dead(i)
    /\ \A k \in Instances \ {i} : slot = k => lapsed \/ Dead(k)
    /\ caller' = [caller EXCEPT ![i] = Frame("claim", "start")]
    /\ UNCHANGED <<jobVars, artifactVars, coordinatorVars, slotVars, worker, crashes>>

ClaimSlot(i) ==
    /\ caller[i].pc = "claim"
    /\ slot' = i /\ lapsed' = FALSE
    /\ Goto(i, "listJobs")
    /\ UNCHANGED <<jobVars, artifactVars, coordinatorVars, worker, crashes>>

Incomplete_queued == {j \in Jobs : status[j] = "queued"}
Incomplete == ActiveJobs

\* list_incomplete_jobs
ListJobs(i) ==
    /\ caller[i].pc = "listJobs"
    /\ caller' = [caller EXCEPT ![i].pc = "recover",
                      ![i].left = {[job |-> j, status |-> status[j], attempts |-> attempts[j]] : j \in Incomplete}]
    /\ UNCHANGED <<jobVars, artifactVars, coordinatorVars, slotVars, worker, crashes>>

\* The main thread goes to pc; with the next row to be worked off removed.
Recovered(i, s, pc) ==
    caller' = [caller EXCEPT ![i].pc = pc, ![i].left = @ \ {s}, ![i].job = IF pc = "submit" THEN s.job ELSE None]

RecoverQueued(i, s) ==
    /\ s.status = "queued"
    /\ Recovered(i, s, "submit") /\ UNCHANGED jobVars

RecoverCancelled(i, s) ==
    /\ s.status = "cancel_requested"
    /\ Transition(s.job, {"cancel_requested"}, "cancelled") /\ Recovered(i, s, "recover")

RecoverStranded(i, s) ==
    /\ s.status = "running"
    /\ IF MayRetry(s.attempts)
       THEN /\ Transition(s.job, {"running"}, "queued")
            /\ Recovered(i, s, IF status[s.job] = "running" THEN "submit" ELSE "recover")
       ELSE Transition(s.job, {"running"}, "failed") /\ Recovered(i, s, "recover")

Recover(i) ==
    /\ caller[i].pc = "recover"
    /\ \/ \E s \in caller[i].left : RecoverQueued(i, s) \/ RecoverCancelled(i, s) \/ RecoverStranded(i, s)
       \/ /\ caller[i].left = {} /\ UNCHANGED jobVars
          /\ caller' = [caller EXCEPT ![i] = Maintaining(Frame("recover", "start"))]
    /\ UNCHANGED <<artifactVars, coordinatorVars, slotVars, worker, crashes>>

-----------------------------------------------------------------------------
(* Time and failures *)

\* An artifact's time to live passes; of one job's artifacts, the older ones come first.
ExpireTime(a) ==
    /\ MayAge /\ a \in artifacts \ expired
    /\ \A b \in artifacts : b[1] = a[1] /\ b[2] < a[2] => b \in expired
    /\ expired' = expired \cup {a}
    /\ UNCHANGED <<artifacts, withdrawn, file, jobVars, coordinatorVars, slotVars, caller, worker, crashes>>

\* The retention time of an ended job passes, never before that of its artifacts.
RetainTime(j) ==
    /\ MayAge /\ status[j] \in Terminal /\ j \notin retired
    /\ \A a \in artifacts : a[1] = j => a \in expired
    /\ retired' = retired \cup {j}
    /\ UNCHANGED <<status, attempts, asked, keyOf, artifactVars, coordinatorVars, slotVars, caller, worker, crashes>>

Lapse ==
    /\ MayLapse /\ ~lapsed /\ lapsed' = TRUE
    /\ UNCHANGED <<slot, jobVars, artifactVars, coordinatorVars, caller, worker, crashes>>

\* The process dies: its threads, pool, futures and lock are gone.
Crash(i) ==
    /\ ~Dead(i) /\ crashes < MaxCrashes
    /\ crashes' = crashes + 1
    /\ caller' = [c \in Callers |-> CASE Host[c] # i -> caller[c]
                                      [] c = i -> Frame("down", "start")
                                      [] OTHER -> Frame("idle", "list")]
    /\ worker' = [w \in Workers |-> IF Host[w] = i THEN Idle ELSE worker[w]]
    /\ pool' = [pool EXCEPT ![i] = <<>>]
    /\ future' = [future EXCEPT ![i] = [j \in Jobs |-> "none"]]
    /\ callback' = [callback EXCEPT ![i] = {}]
    /\ lock' = [lock EXCEPT ![i] = None]
    /\ UNCHANGED <<jobVars, artifactVars, slotVars>>

-----------------------------------------------------------------------------
(* The specification *)

Init ==
    /\ status = [j \in Jobs |-> "none"] /\ attempts = [j \in Jobs |-> 0]
    /\ asked = {} /\ retired = {} /\ keyOf = [j \in Jobs |-> None]
    /\ artifacts = {} /\ withdrawn = {} /\ expired = {} /\ file = [j \in Jobs |-> 0]
    /\ slot = None /\ lapsed = FALSE
    /\ caller = [c \in Callers |-> IF c \in Threads THEN Frame("idle", "list") ELSE Frame("down", "start")]
    /\ worker = [w \in Workers |-> Idle]
    /\ pool = [i \in Instances |-> <<>>] /\ future = [i \in Instances |-> [j \in Jobs |-> "none"]]
    /\ callback = [i \in Instances |-> {}] /\ lock = [i \in Instances |-> None]
    /\ crashes = 0

Request(t) ==
    \/ \E k \in Keys \cup {None} : Begin(t, "create", k)
    \/ Begin(t, "list", None)
    \/ \E j \in Jobs : Cancel(t, j)

Maintain(c) == ExpireFile(c) \/ ExpireRow(c) \/ ExpireJob(c) \/ Prune(c) \/ UnlinkPruned(c) \/ Beat(c)
Start(i) == Launch(i) \/ ClaimSlot(i) \/ ListJobs(i) \/ Recover(i)
CallerStep(c) == Maintain(c) \/ Submit(c) \/ Register(c)
Creating(t) == Lookup(t) \/ EnforceQuotas(t) \/ Insert(t) \/ Refuse(t)

Attempt(w) ==
    \/ Claim(w) \/ Load(w) \/ Execute(w) \/ Store(w) \/ Record(w) \/ Succeed(w)
    \/ DropFile(w) \/ DropRow(w) \/ DropJob(w)
    \/ Fail(w) \/ Raise(w) \/ Retry(w) \/ Requeue(w) \/ GiveUp(w)
WorkerStep(w) == Take(w) \/ Attempt(w) \/ Finish(w) \/ Forget(w)

Time == Lapse \/ (\E a \in artifacts : ExpireTime(a)) \/ \E j \in Jobs : RetainTime(j)

Next ==
    \/ \E t \in Threads : Request(t) \/ Creating(t)
    \/ \E c \in Callers : CallerStep(c)
    \/ \E w \in Workers : WorkerStep(w)
    \/ \E i \in Instances : Start(i) \/ Crash(i)
    \/ Time

Spec == Init /\ [][Next]_vars

Fairness ==
    /\ \A c \in Callers : WF_vars(CallerStep(c))
    /\ \A w \in Workers : WF_vars(WorkerStep(w))
    /\ \A i \in Instances : WF_vars(Start(i))

FairSpec == Spec /\ Fairness

-----------------------------------------------------------------------------
(* Safety *)

\* A job that succeeded can be downloaded until an artifact of it reaches its end: there is
\* a row, a file, and the file is what the row describes, whatever retries, crashes between
\* the two, cancellations and clean-ups of other threads did (_publish, cleanup_expired_artifacts).
SucceededHasFile ==
    \A j \in Jobs : status[j] = "succeeded" /\ (\A a \in expired : a[1] # j) =>
        LiveRows(j) # {} /\ file[j] = Newest(j)[2]

\* max_attempts bounds the attempts of a job over retries in place and recoveries after
\* restarts together (_requeue_for_retry, recover_incomplete_jobs).
AttemptsAreBounded == \A j \in Jobs : attempts[j] <= MaxAttempts

\* The quota is checked before the insert; threads that pass the check together may exceed
\* it, but only by the threads there are (_enforce_quotas, create_job).
QuotaOvershootIsBounded == Cardinality(ActiveJobs) <= Quota + Cardinality(Threads) - 1

\* Two requests with one idempotency key never leave two jobs (create_export, create_job).
OneJobPerKey == \A k \in Keys : Cardinality(HoldsKey(k)) <= 1

Outcome(j) == CASE status[j] \in Active -> "open" [] status[j] = "pruned" -> "forgotten" [] OTHER -> status[j]
Promise == INSTANCE ExportPromise WITH outcome <- [j \in Jobs |-> Outcome(j)]

\* Requests, workers, recovery and maintenance together keep the promise of ExportPromise:
\* ended jobs stay ended, and an accepted cancellation excludes success.
KeepsPromise == Promise!PromiseSpec

-----------------------------------------------------------------------------
(* Liveness *)

Wedged(i) == lock[i] # None /\ caller[lock[i]].pc = "wedged"
Open(j) == status[j] \in Active

\* Unless a submit blocks on itself for ever, every job ends, crashes and retries included:
\* nothing is left queued, running or with a pending cancellation (recover_incomplete_jobs).
EveryJobEnds == (\E i \in Instances : <>[]Wedged(i)) \/ \A j \in Jobs : Open(j) ~> ~Open(j)
=============================================================================
