-------------------------------- MODULE Workers --------------------------------
(***************************************************************************)
(* Isolated mode: AppWorkerManager, the proxies mounted in front of its    *)
(* workers, the worker processes, and the persisted worker records.        *)
(*                                                                         *)
(* start() keeps the manager's lock from its first line until the worker   *)
(* is ready or given up; stop() and ensure_running() use the lock for one  *)
(* step and go on without it, so every other thread runs in between.  A    *)
(* record is kept per mount path, its file per revision.  The control      *)
(* plane may die between any two steps: records, mounts and the restart    *)
(* window are lost, workers and files survive, and bootstrap adopts or     *)
(* reaps what the files name.                                              *)
(*                                                                         *)
(* An operator named D_variant is D with one plausible mistake in it; the  *)
(* specification does not use it.                                          *)
(***************************************************************************)
EXTENDS Integers

CONSTANTS
    Mounts,         \* mount paths, live and preview
    Revs,           \* revisions with an app.py, of any app
    PathsOf,        \* where each revision may be mounted
    Clients,        \* threads of the WSGI server
    Keeper,         \* the thread that runs deployment operations and bootstrap
    Sweeper,        \* the idle sweep thread
    MaxSpawns,      \* bound: processes ever started; afterwards the spawn fails
    RestartCap,     \* max_restarts_per_5_minutes, 0 switches the cap off
    WindowLen,      \* maxlen of the deque of restart timestamps
    Forkserver,     \* whether a prewarmed baseline forks the workers
    IdleStops,      \* whether idle_stop_seconds > 0: there is an idle sweep
    MaxCrashes,     \* bound: deaths of the control plane
    None            \* no revision, no thread, no file, no record

Pids == 1..MaxSpawns
Threads == Clients \cup {Keeper, Sweeper}
Record == [rev : Revs, pid : Pids]

ASSUME WorkersAssumption ==
    /\ MaxSpawns \in Nat /\ RestartCap \in Nat /\ WindowLen \in Nat \ {0} /\ MaxCrashes \in Nat
    /\ Forkserver \in BOOLEAN /\ IdleStops \in BOOLEAN
    /\ PathsOf \in [Revs -> SUBSET Mounts]
    /\ None \notin Mounts \cup Revs \cup Threads \cup Record
    /\ Keeper \notin Clients /\ Sweeper \notin Clients /\ Keeper # Sweeper

VARIABLES
    \* operating system
    proc,       \* every process ever started
    \* instance/workers/<app>/<revision>.json
    file,       \* of each revision; None when there is no file
    \* AppWorkerManager
    record,     \* _records
    quiet,      \* processes whose record has seen no request for idle_stop_seconds
    starts,     \* restart timestamps of a mount path inside the window
    lock,       \* the thread inside start(), or None
    \* control plane
    phase,      \* "up", "down" or "booting"
    mounted,    \* mount paths with a proxy in the dispatcher
    wanted,      \* what the registry wants at a mount path
    job,        \* what each thread is doing
    todo,       \* rest of the sweep's snapshot: mount path and process
    unread,     \* files adoption has not looked at yet
    crashes     \* deaths so far

vars == <<proc, file, record, quiet, starts, lock, phase, mounted, wanted, job, todo, unread, crashes>>
osVars == <<proc, file>>
bootVars == <<phase, mounted, wanted, unread, crashes>>

-----------------------------------------------------------------------------
(* Types *)

ProcState == {"unused", "starting", "ready", "dead"}
Proc == [state : ProcState, rev : Revs \cup {None}, mount : Mounts \cup {None}, born : 0..MaxCrashes]
File == [mount : Mounts, pid : Pids]
Doing == {"none", "request", "call", "mount", "unmount", "sweep"}
Steps == {"idle", "ensure", "start", "fork", "wait", "forward", "stop", "terminate", "persist"}
Job == [pc : Steps, what : Doing, mount : Mounts \cup {None}, rev : Revs \cup {None}, pid : Pids \cup {0}]

Idle == [pc |-> "idle", what |-> "none", mount |-> None, rev |-> None, pid |-> 0]
Unborn == [state |-> "unused", rev |-> None, mount |-> None, born |-> 0]

TypeOK ==
    /\ proc \in [Pids -> Proc]
    /\ file \in [Revs -> File \cup {None}]
    /\ record \in [Mounts -> Record \cup {None}]
    /\ quiet \subseteq Pids
    /\ starts \in [Mounts -> 0..WindowLen]
    /\ lock \in Threads \cup {None}
    /\ phase \in {"up", "down", "booting"}
    /\ mounted \subseteq Mounts
    /\ wanted \in [Mounts -> Revs \cup {None}]
    /\ job \in [Threads -> Job]
    /\ todo \subseteq Mounts \X Pids
    /\ unread \subseteq Revs
    /\ crashes \in 0..MaxCrashes

Init ==
    /\ proc = [p \in Pids |-> Unborn]
    /\ file = [r \in Revs |-> None]
    /\ record = [m \in Mounts |-> None]
    /\ quiet = {}
    /\ starts = [m \in Mounts |-> 0]
    /\ lock = None
    /\ phase = "up"
    /\ mounted = {}
    /\ wanted = [m \in Mounts |-> None]
    /\ job = [t \in Threads |-> Idle]
    /\ todo = {}
    /\ unread = {}
    /\ crashes = 0

-----------------------------------------------------------------------------
(* Reading the state *)

Alive(p) == proc[p].state = "ready"

\* _record_is_alive of the record at a mount path.
HasWorker(m) == record[m] # None /\ Alive(record[m].pid)

\* The revisions whose file names the mount path: _read_persisted_spec returns the
\* first one in directory order, which is any of them.
Specs(m) == {r \in Revs : file[r] # None /\ file[r].mount = m}

\* Thread t waits inside start() for the process it forked or spawned.
Starting(t) == lock = t /\ phase # "down" /\ job[t].pc \in {"fork", "wait"}

\* The lock is free for a step of a thread that does not hold it.
Unlocked == lock = None /\ phase # "down"

\* _check_restart_cap.
Capped(m) == RestartCap > 0 /\ starts[m] >= RestartCap

\* A timestamp is appended; the deque drops its oldest when it is full.
CountStart(m) ==
    starts' = IF RestartCap = 0 THEN starts
              ELSE [starts EXCEPT ![m] = IF @ = WindowLen THEN @ ELSE @ + 1]

Unused == {p \in Pids : proc[p].state = "unused"}
NextPid == CHOOSE p \in Unused : TRUE

\* A new process for revision r at mount path m.
Spawn(m, r) == [proc EXCEPT ![NextPid] = [state |-> "starting", rev |-> r, mount |-> m, born |-> crashes]]

Killed(p) == [proc EXCEPT ![p].state = "dead", ![p].born = 0]

\* _persist_record: the file of the record's revision, whatever it held before.
Persisted(r, m, p) == [file EXCEPT ![r] = [mount |-> m, pid |-> p]]

-----------------------------------------------------------------------------
(* start *)

\* What the caller of start() does with a living worker: a proxy forwards, a probe and
\* the restart tool answer, a mount puts the proxy in the dispatcher.
Started(t, p) ==
    LET j == job[t] IN
    /\ job' = [job EXCEPT ![t] = IF j.what = "request"
                                 THEN [j EXCEPT !.pc = "forward", !.rev = None, !.pid = p] ELSE Idle]
    /\ mounted' = IF j.what = "mount" THEN mounted \cup {j.mount} ELSE mounted
    /\ UNCHANGED <<phase, wanted, unread, crashes>>

\* WorkerStartError: 503, a failed probe or tool call, a runtime_mount_error.
StartFailed(t) == job' = [job EXCEPT ![t] = Idle]

\* A living worker of the mount path is returned, whatever revision it runs.
StartFindsWorker(t) ==
    /\ Unlocked /\ job[t].pc = "start"
    /\ HasWorker(job[t].mount)
    /\ Started(t, record[job[t].mount].pid)
    /\ UNCHANGED <<osVars, record, quiet, starts, lock, todo>>

\* The record at the mount path may be dropped and its worker replaced.
Replaceable_always(m) == TRUE
Replaceable(m) == ~HasWorker(m)

\* Otherwise the record is dropped, the cap is asked, and a process is forked, or spawned
\* when there is no baseline to fork from.
StartSpawns(t) ==
    LET m == job[t].mount IN
    /\ Unlocked /\ job[t].pc = "start"
    /\ Replaceable(m)
    /\ record' = [record EXCEPT ![m] = None]
    /\ \/ /\ Capped(m)
          /\ StartFailed(t)
          /\ UNCHANGED <<proc, starts, lock>>
       \/ /\ ~Capped(m)  \* OSError of Popen
          /\ CountStart(m)
          /\ StartFailed(t)
          /\ UNCHANGED <<proc, lock>>
       \/ /\ ~Capped(m) /\ Unused # {}
          /\ CountStart(m)
          /\ proc' = Spawn(m, job[t].rev)
          /\ lock' = t
          /\ \E how \in (IF Forkserver THEN {"fork", "wait"} ELSE {"wait"}) :
                job' = [job EXCEPT ![t].pc = how, ![t].pid = NextPid]
    /\ UNCHANGED <<file, quiet, todo, bootVars>>

\* The ready event: the record and its file are written, then the lock is released.
Ready(t) ==
    LET j == job[t] IN
    /\ Starting(t)
    /\ proc' = [proc EXCEPT ![j.pid].state = "ready"]
    /\ record' = [record EXCEPT ![j.mount] = [rev |-> j.rev, pid |-> j.pid]]
    /\ file' = Persisted(j.rev, j.mount, j.pid)
    /\ quiet' = quiet \ {j.pid}
    /\ lock' = None
    /\ Started(t, j.pid)
    /\ UNCHANGED <<starts, todo>>

\* The process exits, reports a failure, or writes some other line after the deadline: it is
\* terminated.  The reads block, so of a living process that writes nothing start() never
\* hears again, deadline or not.  (A forked one: and Popen raises.)
NotReady(t) ==
    /\ Starting(t)
    /\ proc' = Killed(job[t].pid)
    /\ lock' = None
    /\ StartFailed(t)
    /\ UNCHANGED <<file, record, quiet, starts, todo, bootVars>>

\* The process of start() t is killed and another one takes its place.
SpawnedInstead_beside(t) == Spawn(job[t].mount, job[t].rev)
SpawnedInstead(t) ==
    [Spawn(job[t].mount, job[t].rev) EXCEPT ![job[t].pid].state = "dead", ![job[t].pid].born = 0]

\* A forked worker that does not become ready is killed and a spawned one tried,
\* under the same lock and without another look at the cap.
ForkMiss(t) ==
    /\ Starting(t) /\ job[t].pc = "fork" /\ Unused # {}
    /\ proc' = SpawnedInstead(t)
    /\ job' = [job EXCEPT ![t].pc = "wait", ![t].pid = NextPid]
    /\ UNCHANGED <<file, record, quiet, starts, lock, todo, bootVars>>

-----------------------------------------------------------------------------
(* ensure_running, the proxy, probes *)

\* Thread t is about to call ensure_running for a mount path.
Calls(t, what, m) == job' = [job EXCEPT ![t] = [Idle EXCEPT !.pc = "ensure", !.what = what, !.mount = m]]

\* A request under a mounted path reaches the proxy; the path may be unmounted behind it.
Request(t, m) ==
    /\ phase = "up" /\ job[t] = Idle
    /\ m \in mounted
    /\ Calls(t, "request", m)
    /\ UNCHANGED <<osVars, record, quiet, starts, lock, todo, bootVars>>

\* _worker_alive_probe asks only for a path that has a record.
Probe(t, m) ==
    /\ Unlocked /\ phase = "up" /\ job[t] = Idle
    /\ record[m] # None
    /\ Calls(t, "call", m)
    /\ UNCHANGED <<osVars, record, quiet, starts, lock, todo, bootVars>>


\* ensure_running up to its call of start: a living record, a spec read from disk, or
\* nothing.  A dead record is dropped.
EnsureRunning(t) ==
    LET m == job[t].mount IN
    /\ Unlocked /\ job[t].pc = "ensure"
    /\ \/ /\ HasWorker(m)
          /\ job' = [job EXCEPT ![t] = IF @.what = "request"
                                       THEN [@ EXCEPT !.pc = "forward", !.pid = record[m].pid] ELSE Idle]
          /\ UNCHANGED record
       \/ /\ ~HasWorker(m)
          /\ record' = [record EXCEPT ![m] = None]
          /\ \/ \E r \in Specs(m) : job' = [job EXCEPT ![t].pc = "start", ![t].rev = r]
             \/ /\ Specs(m) = {}
                /\ job' = [job EXCEPT ![t] = Idle]
    /\ UNCHANGED <<osVars, quiet, starts, lock, todo, bootVars>>

\* The worker answers, and the record now at the path is touched; or the connection
\* fails, or is silent for a minute, and the proxy answers 502.
Forward(t) ==
    LET j == job[t] IN
    /\ phase # "down" /\ j.pc = "forward"
    /\ \/ /\ Alive(j.pid) /\ lock = None
          /\ quiet' = IF record[j.mount] = None THEN quiet ELSE quiet \ {record[j.mount].pid}
       \/ UNCHANGED quiet
    /\ job' = [job EXCEPT ![t] = Idle]
    /\ UNCHANGED <<osVars, record, starts, lock, todo, bootVars>>

-----------------------------------------------------------------------------
(* stop: dispatcher.unmount, the restart tool, the idle sweep *)

\* The record is popped under the lock; the process is stopped and the file written or
\* removed without it.
PopToStop(t, what, m) ==
    /\ record' = [record EXCEPT ![m] = None]
    /\ job' = [job EXCEPT ![t] = [pc |-> "terminate", what |-> what, mount |-> m,
                                  rev |-> record[m].rev, pid |-> record[m].pid]]

\* dispatcher.unmount: the path is gone; its observer goes on to stop the worker.  A
\* restart of the app unmounts a path the registry still wants.
Unmount(m) ==
    /\ phase = "up" /\ job[Keeper] = Idle /\ m \in mounted
    /\ mounted' = mounted \ {m}
    /\ wanted' \in {wanted, [wanted EXCEPT ![m] = None]}
    /\ job' = [job EXCEPT ![Keeper] = [Idle EXCEPT !.pc = "stop", !.what = "unmount", !.mount = m]]
    /\ UNCHANGED <<osVars, record, quiet, starts, lock, todo, phase, unread, crashes>>

\* _stop_worker_for_mount: without a record nothing is stopped and the file stays.
StopUnmounted ==
    LET m == job[Keeper].mount IN
    /\ Unlocked /\ job[Keeper].pc = "stop"
    /\ IF record[m] = None THEN /\ job' = [job EXCEPT ![Keeper] = Idle]
                                /\ UNCHANGED record
       ELSE PopToStop(Keeper, "unmount", m)
    /\ UNCHANGED <<osVars, quiet, starts, lock, todo, bootVars>>

\* app_runtime_workers_restart: any absolute path, mounted or not.
RestartTool(t, m) ==
    /\ Unlocked /\ phase = "up" /\ job[t] = Idle
    /\ IF record[m] = None THEN /\ Calls(t, "call", m)
                                /\ UNCHANGED record
       ELSE PopToStop(t, "call", m)
    /\ UNCHANGED <<osVars, quiet, starts, lock, todo, bootVars>>

Terminate(t) ==
    /\ phase # "down" /\ job[t].pc = "terminate"
    /\ proc' = Killed(job[t].pid)
    /\ job' = [job EXCEPT ![t].pc = "persist"]
    /\ UNCHANGED <<file, record, quiet, starts, lock, todo, bootVars>>

\* _persist_record after an idle stop, _remove_persisted after any other: the file is
\* the one of the record's revision, whichever worker it names by now.
Persist(t) ==
    LET j == job[t] IN
    /\ phase # "down" /\ j.pc = "persist"
    /\ file' = IF j.what = "unmount" THEN [file EXCEPT ![j.rev] = None] ELSE Persisted(j.rev, j.mount, j.pid)
    /\ IF j.what = "call" THEN Calls(t, "call", j.mount) ELSE job' = [job EXCEPT ![t] = Idle]
    /\ UNCHANGED <<proc, record, quiet, starts, lock, todo, bootVars>>

\* run_idle_sweep_once takes its snapshot under the lock.
SweepBegins ==
    /\ Unlocked /\ job[Sweeper] = Idle /\ todo = {}
    /\ todo' = {e \in Mounts \X quiet : record[e[1]] # None /\ record[e[1]].pid = e[2]}
    /\ todo' # {}
    /\ UNCHANGED <<osVars, record, quiet, starts, lock, job, bootVars>>

\* Whether the sweep stops the path of a snapshot entry.
StillIdle_mounted(m, p) == p \in quiet /\ record[m] # None /\ m \in mounted
StillIdle(m, p) == p \in quiet /\ record[m] # None

\* One record of the snapshot: if it is still quiet, whatever the path holds by now is
\* stopped.
SweepNext ==
    /\ Unlocked /\ job[Sweeper] = Idle
    /\ \E e \in todo :
          /\ todo' = todo \ {e}
          /\ IF StillIdle(e[1], e[2])
             THEN PopToStop(Sweeper, "sweep", e[1])
             ELSE UNCHANGED <<record, job>>
    /\ UNCHANGED <<osVars, quiet, starts, lock, bootVars>>

-----------------------------------------------------------------------------
(* Mounting, bootstrap *)

\* _mount_revision_isolated, called when the row names the revision.
Mount(m, r) ==
    /\ phase = "up" /\ job[Keeper] = Idle /\ m \in PathsOf[r]
    /\ job' = [job EXCEPT ![Keeper] = [Idle EXCEPT !.pc = "start", !.what = "mount", !.mount = m, !.rev = r]]
    /\ wanted' = [wanted EXCEPT ![m] = r]
    /\ UNCHANGED <<osVars, record, quiet, starts, lock, todo, phase, mounted, unread, crashes>>

\* The control plane dies.  A worker it was waiting for writes its ready line into a
\* broken pipe and exits, unless the line was written already and never read.
Crash ==
    /\ phase # "down" /\ crashes < MaxCrashes
    /\ phase' = "down"
    /\ crashes' = crashes + 1
    /\ \E last \in {"ready", "dead"} :
          proc' = [p \in Pids |-> IF proc[p].state = "starting" THEN [proc[p] EXCEPT !.state = last] ELSE proc[p]]
    /\ record' = [m \in Mounts |-> None]
    /\ quiet' = {} /\ todo' = {} /\ mounted' = {} /\ lock' = None
    /\ starts' = [m \in Mounts |-> 0]
    /\ job' = [t \in Threads |-> Idle]
    /\ UNCHANGED <<file, wanted, unread>>

BootBegins ==
    /\ phase = "down"
    /\ phase' = "booting"
    /\ unread' = {r \in Revs : file[r] # None}
    /\ UNCHANGED <<osVars, record, quiet, starts, lock, mounted, wanted, job, todo, crashes>>

\* _adopt_worker: the record made of a file.
Adopted_asWanted(r) ==
    [rev |-> IF wanted[file[r].mount] = None THEN r ELSE wanted[file[r].mount], pid |-> file[r].pid]
Adopted(r) == [rev |-> r, pid |-> file[r].pid]

\* adopt_persisted_workers, one file: skipped when the path has a record; adopted when
\* its process lives and its port answers, and the proxy is mounted, whether or not the
\* registry still wants the path; otherwise reaped.
AdoptFile(r) ==
    LET f == file[r] IN
    /\ Unlocked /\ phase = "booting" /\ r \in unread
    /\ unread' = unread \ {r}
    /\ \/ /\ f # None /\ record[f.mount] # None
          /\ UNCHANGED <<proc, file, record, mounted>>
       \/ /\ f # None /\ record[f.mount] = None /\ Alive(f.pid)
          /\ record' = [record EXCEPT ![f.mount] = Adopted(r)]
          /\ file' = Persisted(r, f.mount, f.pid)
          /\ mounted' = mounted \cup {f.mount}
          /\ UNCHANGED proc
       \/ /\ f # None /\ record[f.mount] = None
          /\ proc' = IF Alive(f.pid) THEN Killed(f.pid) ELSE proc
          /\ file' = [file EXCEPT ![r] = None]
          /\ UNCHANGED <<record, mounted>>
    /\ UNCHANGED <<quiet, starts, lock, phase, wanted, job, todo, crashes>>

\* The mounts of bootstrap: paths the registry wants that were not adopted.
BootMount(m) ==
    /\ phase = "booting" /\ unread = {} /\ job[Keeper] = Idle
    /\ wanted[m] # None /\ m \notin mounted
    /\ job' = [job EXCEPT ![Keeper] =
                 [Idle EXCEPT !.pc = "start", !.what = "mount", !.mount = m, !.rev = wanted[m]]]
    /\ UNCHANGED <<osVars, record, quiet, starts, lock, todo, bootVars>>

\* A mount that fails is recorded and bootstrap goes on.
BootEnds ==
    /\ phase = "booting" /\ unread = {} /\ job[Keeper] = Idle
    /\ phase' = "up"
    /\ UNCHANGED <<osVars, record, quiet, starts, lock, mounted, wanted, job, todo, unread, crashes>>

-----------------------------------------------------------------------------
(* Time and the operating system *)

\* idle_stop_seconds pass without a request for a record: noticed when a sweep is due.
FallsQuiet(p) ==
    /\ IdleStops
    /\ job[Sweeper] = Idle /\ todo = {}
    /\ p \notin quiet /\ \E m \in Mounts : record[m] # None /\ record[m].pid = p
    /\ quiet' = quiet \cup {p}
    /\ UNCHANGED <<osVars, record, starts, lock, job, todo, bootVars>>

\* A restart timestamp of the path is old enough to leave.
InWindow(m) == starts[m] > 0

\* The oldest restart of a mount path leaves the window of five minutes: noticed when a
\* thread is about to ask.
WindowMoves(m) ==
    /\ InWindow(m) /\ lock = None
    /\ \E t \in Threads : job[t].pc = "start" /\ job[t].mount = m
    /\ starts' = [starts EXCEPT ![m] = @ - 1]
    /\ UNCHANGED <<osVars, record, quiet, lock, job, todo, bootVars>>

\* A worker exits by itself.
Exit(p) ==
    /\ Alive(p)
    /\ proc' = Killed(p)
    /\ UNCHANGED <<file, record, quiet, starts, lock, job, todo, bootVars>>

-----------------------------------------------------------------------------

ThreadStep(t) ==
    \/ StartFindsWorker(t) \/ StartSpawns(t) \/ Ready(t) \/ NotReady(t) \/ ForkMiss(t)
    \/ EnsureRunning(t) \/ Forward(t) \/ Terminate(t) \/ Persist(t)

Sweep == SweepBegins \/ SweepNext

Bootstrap == BootBegins \/ (\E r \in Revs : AdoptFile(r)) \/ (\E m \in Mounts : BootMount(m)) \/ BootEnds

Next ==
    \/ \E t \in Threads : ThreadStep(t)
    \/ StopUnmounted
    \/ \E t \in Clients, m \in Mounts : Request(t, m) \/ Probe(t, m) \/ RestartTool(t, m)
    \/ Sweep
    \/ \E m \in Mounts, r \in Revs : Mount(m, r)
    \/ \E m \in Mounts : Unmount(m) \/ WindowMoves(m)
    \/ Crash
    \/ Bootstrap
    \/ \E p \in Pids : FallsQuiet(p) \/ Exit(p)

Spec == Init /\ [][Next]_vars

\* Threads run, except that nothing makes a process answer the start() that waits for it;
\* the sweep's timer fires, time passes for an idle record, and a dead control plane is
\* started again.  MaxSpawns bounds how often a waiting thread can miss the lock; without
\* that bound a thread would need strong fairness.
FairSpec ==
    /\ Spec
    /\ \A t \in Threads : WF_vars(~Starting(t) /\ ThreadStep(t))
    /\ WF_vars(StopUnmounted)
    /\ WF_vars(SweepBegins) /\ SF_vars(SweepNext)
    /\ WF_vars(Bootstrap)
    /\ \A p \in Pids : SF_vars(FallsQuiet(p))

-----------------------------------------------------------------------------
(* Properties *)

\* The record of a mount path, and the file a restarted control plane trusts, name a
\* process that was started for that path and that revision, through idle stops,
\* restarts, forks, adoption and requests that race them: a proxy never forwards one
\* app's requests to another app's worker.
RecordsNameTheirProcess ==
    /\ \A m \in Mounts : record[m] # None =>
          proc[record[m].pid].mount = m /\ proc[record[m].pid].rev = record[m].rev
    /\ \A r \in Revs : file[r] # None =>
          proc[file[r].pid].mount = file[r].mount /\ proc[file[r].pid].rev = r
    /\ \A t \in Threads : job[t].pc = "forward" => proc[job[t].pid].mount = job[t].mount

\* Someone will stop the process: a record at its path, the start() that waits for it,
\* or a stop() on its way to it.
Owned(p) ==
    \/ \E m \in Mounts : record[m] # None /\ record[m].pid = p
    \/ \E t \in Threads : job[t].pid = p /\ job[t].pc \in {"fork", "wait", "terminate"}

\* A living worker that nobody will ever stop was started by a control plane that has
\* died since: without a crash nothing leaks, whatever threads interleave in start,
\* stop, ensure_running and the sweep.
LiveWorkersAreOwned ==
    \A p \in Pids : proc[p].state \in {"starting", "ready"} /\ proc[p].born = crashes => Owned(p)

\* Each living worker of a path is its only one, counting those of this control plane
\* that are not being stopped.
OneWorkerPerPath ==
    \A p, q \in Pids :
        /\ \A x \in {p, q} : /\ proc[x].state \in {"starting", "ready"} /\ proc[x].born = crashes
                             /\ \A t \in Threads : job[t].pid = x => job[t].pc # "terminate"
        /\ proc[p].mount = proc[q].mount
        => p = q

\* From some time on one start() waits, under the manager's lock, for the ready line of a
\* living process that never comes.
SilentWorker == \E t \in Threads : <>[]Starting(t)

\* Unless a silent worker blocks the manager, and where there is an idle sweep: a worker
\* whose path is not mounted ends, or the path is mounted again.  dispatcher.unmount stops
\* it, and the idle sweep the one that a request already past the proxy starts from the
\* file the stop has yet to remove.
AbandonedWorkersEnd ==
    \/ SilentWorker
    \/ ~IdleStops
    \/ \A m \in Mounts : m \notin mounted /\ record[m] # None ~> record[m] = None \/ m \in mounted

\* Unless a silent worker blocks the manager, every request, probe and tool call ends: the
\* lock is free again after every start, failed start and lookup, and no thread waits for
\* one it holds.
CallsReturn ==
    \/ SilentWorker
    \/ \A t \in Clients : job[t].pc # "idle" ~> job[t].pc = "idle"
=============================================================================
