# A formal model of dash-server

dash-server is a control plane that hosts Dash dashboards. Agents and operators
drive it through MCP tools; Git holds what should be live, SQLite caches it, and a
WSGI dispatcher serves it. This directory holds TLA+ modules for the parts of the
server whose correctness depends on the order in which things happen, the TLC runs
that check small instances of them, and TLAPS proofs of what matters most.

Paths below are relative to `src/src/dash_server/` unless they start with `src/`.

## The system

| part | state it keeps | operations | what is hard about it | what makes it correct |
|---|---|---|---|---|
| Deployment core (`runtime/service.py`, `runtime/reconciler.py`) | per-app locks | create, delete, build, preview, promote, rollback, route, enable, policy, start, stop, restart, reconcile | operations are chains of Git commits, SQL statements and dispatcher calls; four of them hold a lock, the rest do not; a crash can fall between any two links | Git, SQLite and dispatcher agree at rest; startup repairs any crash; routes stay apart; promotions have no gap |
| Git desired state (`gitops/repo_service.py`) | `desired-state/`, `releases/`, `apps/` on main | publish, write desired state, delete | several commits per operation | desired state selects released revisions only |
| Registry (`registry/sqlite_registry.py`) | apps, revisions, events, sharing | one transaction per method | an operation is several transactions | rows match Git |
| Dispatcher and mounter (`runtime/dispatcher.py`, `runtime/mounter.py`) | mounts | mount, unmount | loading a revision can raise | a mount serves what the row says |
| Browser session channel (`session_channel/`, `dash_apps/assets/session_channel.js`) | tabs, one command slot per tab | register, poll, result, eval | pages reload, navigate, vanish; deadlines race results; the server restarts | at most once, right caller, everyone returns |
| Isolated workers (`runtime/worker_manager.py`, `worker_proxy.py`, `dash_server_runtime/`) | worker records in memory, spec files on disk, processes | start, stop, ensure running, forward, adopt, idle sweep | one lock that only some steps hold; processes die and survive their parent | records name their process; nothing leaks without a crash; one worker per path; abandoned workers end |
| Export jobs (`consumption/`) | jobs, artifacts, files | submit, claim, cancel, retry, publish, expire, recover | compare-and-set between worker, canceller and recovery | one terminal outcome; a file exactly while its artifact lives |
| Dependency environments (`dependencies/`) | environment directories and their records | ensure, touch, invalidate, collect | shared between apps, no lock | what is called ready is whole; invalidation takes effect |
| Draft workspaces (`workspace/`, `gitops/worktree_service.py`) | files, candidate version, artifacts, tags | edit, validate, build, create, delete | edits, builds and creates half-way through, with and without the lock | artifact, hash, commit, tag and row of a revision are one validated draft |
| Sharing and access (`auth/`, `public/blueprint.py`, part of the registry) | grants, links, invitations | grant, revoke, redeem, accept, expire | each is several transactions, beside revocation and deletion | one use; revocation reaches the grants and is final; who is let in may look |
| MCP server (`mcp/`) | none of its own | tool calls | `app_deploy_draft` chains three operations | the operations it starts |
| Diagnostics (`diagnostics/service.py`), health probes (`runtime/prober.py`) | ledger of failures, file of last times, successes, acknowledgement | record a failure or a success, acknowledge, probe | files read and written without a lock by every thread and process | a failure reaches the probe; the first success after it is kept |
| Exasol access (`exasol/`) | profile and secret files, a session per thread | create and rewrite a profile, query, check, validate, export | files without a lock, sessions cached over rewrites, a database that drops them, a limit on sessions | a statement runs on a session set up for it; none leaks; a lost one is replaced |
| Scaffolding, source checks, mail, pages, configuration | logs | rendering, analysis | text | not over time |

How they interact: a tool call enters `mcp/handlers.py`, which calls a method of
`AppRuntimeService` in the request's thread. A lifecycle method publishes the revision
to main, commits desired state, then calls `reconcile_app`, which reads desired state
back and brings the row and the mounts after it. A browser request enters the
dispatcher, which picks a mount or falls through to the control plane's own routes,
the session channel among them. At startup `app_factory.py` runs backfill, rebuild of
SQLite from Git, bootstrap of the mounts and one reconcile of all apps, in that order.

`PROJECT.json` lists every component with its status and every hazard with its line.

## Modules

| module | what it is |
|---|---|
| `Deployment` | The deployment core: Git, SQLite, dispatcher, locks, request threads, crash, startup |
| `Drafts` | The draft of one app: edits, validation, and the artifact, commit, tag and row a build makes of it |
| `Workers` | Worker manager, proxies, worker processes and their files, idle sweep, adoption at boot |
| `Environments` | Dependency environments: creation, reuse, invalidation, the collector |
| `EnvironmentState` | What `Environments` keeps and promises, so that its theorems can stand beside those on `ExasolSessions` |
| `Sharing` | Links, invitations, grants, and the decision to show an app |
| `SessionChannel` | Registry, queue, handler threads, pages and the requests between them |
| `SessionPromise` | What the channel promises the caller of `app_session_eval_js` |
| `ExportJobs` | Export jobs: rows, files, request threads with maintenance, coordinator, attempts, recovery, coordinator slot |
| `ExportPromise` | What an export job promises the principal who asked for it |
| `Diagnostics` | The data-layer ledger: failures, successes and acknowledgements, as the probe reports them |
| `ExasolSessions` | A connection profile, its secret, and the database sessions that threads keep or open for it |
| `DeploymentProofs`, `DraftsProofs`, `WorkersProofs`, `ExportProofs`, `DiagnosticsProofs`, `SharingProofs`, `SessionProofs` | Theorems about the module each is named after, and their proofs |
| `ResourceProofs` | The same about what apps share without a lock: `ExasolSessions` and `Environments` |
| `MCDeployment`, `MCDrafts`, `MCWorkers`, `MCEnvironments`, `MCSharing`, `MCSessionChannel`, `MCExportJobs`, `MCDiagnostics`, `MCExasolSessions` | Model values for TLC |

`Deployment`, `Drafts`, `Workers` and `Environments` are four views of one lifecycle, kept apart
because their product is far too large and because they meet in single steps. A `Build...` of
`Deployment` is a build of `Drafts` seen from Git and SQLite; `MountLive` of `Deployment` is a
`Mount` of `Workers` where isolated mode is on; `Install` of `Environments` is one verdict in the
validation of `Drafts`; `Serve` and `Release` of `Environments` are what `Deployment` does to a row.

An operator named `D_variant` is `D` with one plausible mistake. The specification
never uses it; it documents which property would notice that mistake:

| variant | the mistake | noticed by |
|---|---|---|
| `RebuiltCurrent_noFallback` | no fallback when the desired revision has no release | `RevisionsAreNamed` |
| `DeleteGit_keepsPreview` | delete leaves the preview manifest | `DesiredIsReleased` |
| `DesiredLive_notArchived` | archived revisions do not resolve (a rollback is ignored) | `RowFollowsGit` |
| `WithoutOldRoute_never`, `_always` | the old route is never, or always, unmounted | `DispatcherFollowsRow`, `PromotionHasNoGap` |
| `RouteAvailable_unchecked` | no check for a taken route | `RoutesAreDistinct` |
| `Unlock_anyHolder` | a return frees the lock of whoever holds it | `LockedOperationsExclude` |
| `AcceptLocked_unlocked` | locked operations do not take the lock | `BuildNumberHonoured` |
| `MountLive_latest` | the newest revision is mounted instead of the current one | `StartupConverges` |
| `LeaveReconcile_keepsLock` | an operation that ends with its reconcile does not release the lock | `LocksAreInUse` |
| `SlotAfter_kept` | a timeout leaves the slot taken | `SlotBelongsToCaller` |
| `Deliverable_again` | a delivered command is handed out on a later poll | `DeliveredOnce` |
| `Expected_any` | a result is accepted whatever command it names | `KeepsPromise` |
| `Overdue_delivered` | the deadline starts with the delivery | `CallsReturn` |
| `AfterUnknown_ignored` | the page ignores `register_required` | `TabsComeBack` |
| `Transition_unconditional` | a status is set without comparing | `KeepsPromise` |
| `Overdue_ignored` | maintenance takes artifacts that have not expired | `SucceededHasFile` |
| `MayRetry_offByOne` | one attempt too many | `AttemptsAreBounded` |
| `Incomplete_queued` | recovery lists queued jobs only | `EveryJobEnds` |
| `QuotaLeft_offByOne`, `KeyTaken_unchecked` | a job over the quota; no unique index | `QuotaOvershootIsBounded`, `OneJobPerKey` |
| `Adopted_asWanted` | an adopted process is taken for the revision the registry wants | `RecordsNameTheirProcess` |
| `Replaceable_always` | a start drops a living worker's record | `LiveWorkersAreOwned` |
| `SpawnedInstead_beside` | a forked worker that was given up is not killed | `OneWorkerPerPath` |
| `StillIdle_mounted` | the sweep leaves paths that are not mounted alone | `AbandonedWorkersEnd` |
| `EnsureRunning_inside` | `ensure_running` calls `start` without giving the lock back, which is not reentrant | `CallsReturn` |
| `Redeemable_always` | the mark does not look at the uses | `OneUse` |
| `Acceptable_revoked` | a revoked invitation can be marked accepted | `RevokedIsFinal` |
| `AttachedGrant_none` | an accepted invitation does not learn its grant | `RevocationReachesGrants` |
| `HasLinkGrant_ofAnyone` | any active grant counts as the link's | `SessionOpensTarget` |
| `NextNumber_last`, `Bumped_never` | the number of the last revision again; an edit keeps the candidate version | `OneSource`, `CandidateNamesSource` |
| `Reusable_unfinished`, `Eligible_onlyOld` | an unfinished environment is reused; the collector overlooks invalidated ones | `EnvironmentsAreWhole`, `InvalidationTakesEffect` |
| `Repeated_acrossSuccesses` | the rate limit ignores a success in between | `FailuresAreReported` |
| `Forget_leavesThrottle` | a failure does not lift the throttle of successes | `SuccessesAreSeen` |
| `Reusable_anySettings` | a cached session is used whatever settings it was opened with | `StatementsFindTheirSession` |
| `Forgotten_unclosed` | a session leaves the cache and stays open | `OpenSessionsHaveOneHolder` |
| `MayRetry_never`, `_always` | no second attempt; one more after each | `LostSessionsAreRetried`, `CallsReturn` |

### Deployment

State. `desired`, `desiredPreview`, `releases`, `onMain` are the files on main;
`registered`, `row`, `revState` are the tables `apps` and `app_revisions`; `liveMount`,
`previewMount` are the dispatcher's mounts; `lock`, `pc`, `req` are the per-app locks and,
for every request thread, its next step and its local variables; `phase` says whether
the process is down, starting or up. A revision is its number, 0 stands for none.
Visibility, auth policy and permissions always travel together and are one value.

Steps. A request begins with what the method reads and checks (`Begin...`), and goes on
with one action per effect on shared state: `Publish` (release and source tree on main),
`Desire` (the commit of desired state), `ReadDesired` (the reconcile's one read of it),
`ApplyRow`, `ApplyMount`, `ApplyPreview`. A fleet reconcile reads once and runs the three
apply steps for each app. Between two steps every other thread may run, and the process
may crash. `Return` releases the thread's lock, on success and on every error path.

Abstractions:

- The SQL statements of `_reconcile_app_desired_state` before and after its mount are one
  step each. Reading desired state, file by file in the code, is one read.
- Loading a revision succeeds or raises when `MountMayFail`; preflight only has a verdict.
- Events and history files are left out; artifacts, workspaces and git tags are in `Drafts`.
- The fleet pass visits apps in any order (the code sorts them).
- Mounts are in-process; what a mount is in isolated mode is in `Workers`.
- `failed` is a history variable: apps whose last reconcile or mount raised. It only
  weakens properties that cannot hold after an error the caller was told about.

`Init` is an installation that has been restarted at least once. (On the very first boot
the demo's desired revision is on main before its release file, which the next startup's
backfill adds.)

### SessionChannel

State. `shown` and `recency` are the `SessionRegistry`, ordered by last poll; `stale` holds
the tabs that stopped polling; `pending` is `CommandQueue._pending`; `call` has, for every call, its
`Command` and where its handler thread is; `page` is the state object of the script in
each tab; `net` has the requests and replies on their way. `ran` is a history
variable: how often each call's code was started.

A tab keeps its session id over page loads (`sessionStorage`) while the script starts anew,
so a request of an earlier page can be handled late, and its reply is dropped: a poll of
a page that is gone can take the command away. Handling a poll is two steps, `Touch` and
`Take`, since registry and queue have a lock each. `wait` is `Return`, or `Expire` followed
by `GiveUp`: the event's timeout and the lock taken after it are two moments.
Time is nondeterministic. A restart of the control plane clears everything but the pages.

Left out: `command_seq`, audit records, size caps, `prune_stale` (nothing calls it), and
what the evaluated code does. A refused call changes nothing and is not an action.

### ExportJobs

State. `status`, `attempts`, `asked`, `keyOf`, `retired` are columns of `consumption_jobs`;
`artifacts`, `withdrawn`, `expired` are the rows of `consumption_artifacts`, each named by its
job and the attempt that wrote it; `file` is the one file that all attempts of a job share, by
the attempt whose output it holds; `slot`, `lapsed` are the coordinator slot and the age of its
heartbeat. `pool`, `future`, `callback`, `lock` belong to `LocalJobCoordinator`; `caller` holds
the next step and the locals of every request thread and of the main thread of every process,
`worker` those of every pool thread.

Steps. Every call of a method of `ConsumptionStore` or `LocalArtifactStore` is one step, so
`create_export` is maintenance (`ExpireFile`, `ExpireRow`, `ExpireJob`, `Prune`, `UnlinkPruned`,
`Beat`), `Lookup`, `EnforceQuotas`, `Insert`, `Submit`, `Register`. An attempt is `Claim`, `Load`,
`Execute`, `Store`, `Record`, `Succeed`, with the ways out `DropFile`, `DropRow`, `DropJob` after a
cancellation, `Fail` after a domain error, `Retry`, `Requeue`, `GiveUp` after any other exception
(`Raise`). `_resolve`, `_authorize` and the query change nothing but progress and are one step up
to the last look for a cancellation. A start is `Launch`, `ClaimSlot` (read and write of the slot),
`ListJobs`, and `Recover` for one listed row at a time. `submit` is two steps because the pool
thread can finish between `executor.submit` and `add_done_callback`; the lock is held over both.

Abstractions:

- One principal and one app: the two quotas are one. Refusals by policy, authorization,
  preflight or parameters are one action, `Refuse`, which may happen at any of their places.
- Leases are left out: they are written, and no decision reads them. Progress, audit events,
  download tokens and temporary files are left out too.
- Time is nondeterministic; retention never ends before an artifact's time to live, which the
  policy enforces, and older artifacts of a job expire first.
- A job that maintenance prunes keeps its id out of circulation (`pruned`): ids are drawn at random.
- The writes of `_claim`, of the failure handlers and of recovery do not raise.

### Drafts

State. `draft` is the workspace directory, abstracted to the source and the requirements it holds,
`candidate` its `candidate_version`; `artifact`, `tag`, `row` are, for each revision number, the artifact
directory, the commit the release tag points at, and the row of `app_revisions`; `lock` is the app's
lock; `job` is each request thread's next step and what it has noted down. `torn`, `cut` and `unnamed`
are history: what the properties except, each with its reason beside it.

Steps. An edit is `Put` or `Patch`, then `WriteSource`, `WriteRequirements`, `NameEdit`: a put with
two files writes them one after the other and counts the edit last. A build validates (`ReadDraft`,
`SmokePasses`), reads the next number, copies the draft (`Snapshot`), commits and tags it
(`TagRevision`) and inserts the row, whose number it takes anew. `Create` does the same without the
lock and numbers its revision 1. A delete drops Git and then the rows. Any step of a build may fail
(`Fail`) and leave what the steps before it wrote; the process may die between any two. A build may
bring a bundle (`BuildBundle`), and a restart gives an app that lost its draft the files of a revision
(`Seeds`).

The bundle replaces the files one after the other, like a put. Which check finds which fault is data: `Faults` gives, for every content, the checks that it fails.

### Workers

State. `record`, `quiet`, `starts`, `lock` are the manager's records, idle clocks, restart timestamps
and lock; `file` has the JSON file of each revision; `proc` every process ever started, with the path
and revision it was started for and the generation of the control plane that did it; `mounted` the
proxies in the dispatcher, `wanted` what the registry wants at a path; `job` each thread's step.

Steps. `start` holds the lock from the look at the record to the ready line or the time-out, so other
threads that need the lock wait: `StartSpawns`, then `Ready`, `NotReady`, or `ForkMiss` where a
baseline forks. A worker that lives and writes nothing may never be heard of again: the reads block,
and the time-out is looked at between lines only. `stop` and `ensure_running` take the lock for one step and go on without it:
`PopToStop` then `Terminate` then `Persist`; `EnsureRunning` reads the file of the path and starts
later. The proxy asks `EnsureRunning`, forwards, and retries once when the connection fails. The
sweep takes a snapshot and looks at every entry again. A death of the control plane clears memory,
leaves processes and files, and `AdoptFile` takes them over one by one before bootstrap mounts the rest.

Left out: process ids that the operating system hands out again, websockets, metrics, and how long
anything takes.

### Environments

State. `env` is each environment's directory: what its record says, whether everything is installed,
whether it is past retention. `ensure` and `gc` are where each thread, and the collector, are, with
what a removal has still to take (the record, the rest); `recorded` and `served` the environments that
rows name. `contested` is history: environments whose creation or removal another actor disturbed, or
whose removal a death cut off in front of the record, until the directory is removed undisturbed.

Steps. `ensure_requirements` is `Reuse` then `Touch`, or `Force`/`Wipe`/`Absent`, `Make`, `Install`, `Mark`,
with `InstallFails` and `DirectoryGone`, and `Record` once it returned. The collector reads references,
lists what is eligible, and evicts one at a time. `rmtree` takes one file after another, in the order
the directory was listed in, and ignores errors: a removal is `RemoveSome` (`EvictSome`) for the record
and for the rest, in either order, then `RemoveLast` (`EvictLast`), which leaves a directory in which
somebody wrote again. A record is written in one piece: half of one reads like none.

### Sharing

State. `link`, `invite`, `grants` are the rows of `share_links`, `app_invitations`, `app_acl_entries`;
`session` the tokens whose principal a browser keeps; `job` each thread's next transaction. `torn`
is history: tokens with a use and a revocation that overlapped, or a request that a death cut off.

Steps. One action per SQLite transaction: a redemption is `OpenLink`, `MarkLink`, `GrantLink`; an
acceptance `OpenInvitation`, `MarkInvitation`, `GrantInvitation`, `Attach`; a revocation the row and then
its grants. `Allowed` is the decision of the authorization service for a principal without a global
role: the app is `enabled` or the revision is the one in `preview`, both of which deployments change
beside the handlers, and a grant matches. A deleted app takes its rows along, and an app of its name may
be created again. Where a browser is redirected to after a redemption is left out: `SessionOpensTarget`
speaks of every target the offer is good for.

### Diagnostics

State. `dedup` and `state` are the file of last times and whether it can be read; `successes`, `ledger`,
`ack` the other three files; `written` the throttle in each process's memory; `call` each thread's
step and what it has read. `raced` is history: successes that were noted between the last two steps
of a failure. A file fails in one way, so its name stands for file and fingerprint; only the newest
record of a file in a revision is kept, because an older one is never reported without it.

Steps. `record_data_layer_error` is `LetIn` (or `Suppress`, or `Swallow` when the file cannot be read),
`Truncate`, `Write`, `Forget`, `Append`; `record_data_layer_success` is `Ignore`, or `Load` and `Save`
under the lock of the process. `_write_json` opens with truncation and writes then, so two writers
may leave one text over the end of another: `Write` decides by length. The file of acknowledgements is
written in the same way and taken as written in one piece: a probe that meets half of it raises, which
the next acknowledgement repairs; no record of a failure or a success reads it.

### ExasolSessions

State. `profile` is the JSON file of one profile in the Git working tree, `secret` the file beside the
repository that holds its secret, by number; `secrets` and `rewrites` count. `session` are the sessions
the database knows, by what was done to them; `cache` is the thread-local cache of the connection
manager, `idle` its entries that are past the idle time-out; `call` each thread's step and what it has
read; `writer` each rewrite's. `stray` has the sessions that only the garbage collector can still close.

Steps. `write_text` truncates and writes, so a rewrite is `TruncateSecret`, `FillSecret`, `TruncateProfile`,
`FillProfile`, or `KeepProfile` where the text is the same; a second writer in between may leave its text
over the end of the first (`Filled`). A query reads the profile (`Query`), then `Reuse`s a cached session or
`Replace`s it: `Resolve` the secret, `Login`, `InitSession`. It ends in `Rows`, in `NoRows` and `Discard`
(a statement without a result set may have changed the session), or in `QueryFails`, which closes
the session and tries once more if the text of the error looks like a lost session. SQL checks,
profile validation and exports open a session of their own and close it. The database drops sessions
at any time (`Lose`), and the driver reports it in words that the code knows (`lost`) or not (`vanished`).
A query with a result set is taken to leave its session as it was.

Left out: secrets in environment variables, several profiles (they meet only in the limit on sessions),
what statements do, and the texts of errors (a choice: looks lost or does not; of a session that the
database ended, what `Lose` chose).

## Runs

Every run finishes its whole state space.

| run | instance | what it shows |
|---|---|---|
| `deployment_sequential` | 1 thread, 2 apps, 2 routes, 2 revisions, all operations but the policy and restart ones, crashes, failing mounts | `RowFollowsGit`, `DispatcherFollowsRow`, `RoutesAreDistinct`, `DesiredIsReleased`, `RevisionsAreNamed`: at rest the three stores agree, after any sequence of operations, errors, crashes and startups. `PromotionHasNoGap` |
| `deployment_concurrent` | 2 threads, 1 app, 2 revisions, build, promote, enable, policy, restart, reconcile, crashes, failing mounts; 282,000 states | `LockedOperationsExclude`, `LocksAreInUse`, `BuildNumberHonoured`, `StartupConverges` |
| `drafts` | 2 threads, 3 sources (one faulty), 1 package, 2 revisions, 3 candidate versions, 1 delete, 1 death; 485,000 states | `OneSource`, `CandidateNamesSource` |
| `workers` | 1 path, 2 revisions, 1 client, 2 processes, forked or spawned, 1 death; 260,000 states | `RecordsNameTheirProcess`, `LiveWorkersAreOwned`, `OneWorkerPerPath`; `AbandonedWorkersEnd` and `CallsReturn` under fairness |
| `environments` | 1 environment, 2 threads and the collector, removals file by file, 1 death; 160,000 states | `EnvironmentsAreWhole`; `InvalidationTakesEffect` under fairness |
| `sharing` | 1 link, 1 invitation, 1 user, 2 browsers, 2 grants, the app enabled or not, 1 preview or none, 1 delete or death; 1,710,000 states | `OneUse`, `RevocationReachesGrants`, `SessionOpensTarget`, `RevokedIsFinal` |
| `session_calls` | 1 tab, 2 page loads, 2 calls, losses and restarts | `SlotBelongsToCaller`, `DeliveredOnce`, `KeepsPromise` (refinement of `SessionPromise`), `CallsReturn` |
| `session_tabs` | 2 tabs, 1 place in the registry, 1 call, losses and restarts | `TabsComeBack` |
| `exports_one_job` | 1 job, 1 request thread, 1 worker, 2 attempts, exceptions, expiry, retention, 2 deaths of the process | `SucceededHasFile`, `AttemptsAreBounded`, `KeepsPromise` (refinement of `ExportPromise`), `EveryJobEnds` |
| `exports_quota` | 3 jobs, 2 request threads, 1 worker, quota 1, 1 idempotency key; nothing fails or ages | `QuotaOvershootIsBounded`: a quota of n is exceeded by at most the other threads; `OneJobPerKey` |
| `diagnostics` | 2 threads of one process, 2 files, live and preview, limits of 2 ticks, 3 queries, 1 death; 1,173,000 states | `FailuresAreReported`, `SuccessesAreSeen` |
| `exasol_sessions` | 1 callback thread, 1 other, 2 rewrites by 2 requests, 2 settings, 1 session at a time, lost with an error the code knows or not, deaths; 154,000 states | `StatementsFindTheirSession`, `OpenSessionsHaveOneHolder`, `LostSessionsAreRetried`; `CallsReturn` under fairness |

Bounds. Two apps are the least that can compete for a route, two threads the least that
can race; an app's revisions matter only as old and new, hence two. `BusyApps` lets only one of the
two apps be built again, previewed, enabled, started and stopped; the other is created, promoted,
rerouted, rolled back and deleted beside it. What two apps share is the table of routes and the
dispatcher, which those operations reach; builds of different apps share nothing. Sequential and
concurrent runs are separate because their product is too large; the sequential run is where errors
and crashes meet every operation, the concurrent one where interleavings do. With two page loads a
tab has one page before and one after, with two calls a slot has an owner and a rival.

Jobs meet in three places only: the quota, the keys and the coordinator's lock and pool.
`exports_one_job` therefore follows one job through everything that can happen to it, with two
attempts so that there is a first and a last one and two deaths so that a recovery is itself cut
short; `exports_quota` lets jobs meet, with one more job than quota and threads need.

In `Workers` paths share the lock and nothing else: one path with two revisions has an old worker, a
new one, and the third start that finds no process left (the bound on processes doubles as an error
of the operating system). One client beside the tools' thread and the sweep is enough for every race
around the lock; the three invariants are proved for any number. In `ExasolSessions` one session
makes the two threads wait for one another, and two settings are the least that can be mixed up. In `Environments`
two environments meet only in a pass of the collector, which treats each alone; two threads beside the collector are a creator and one that disturbs it, then
a third that reuses the result when one of them begins anew. In `Sharing`
two browsers race for one token, two grants are the least that can belong to two tokens, and one
revision is previewed or not, which is all that the decision about it asks. A deletion and a death
share one bound (`MaxCuts`), so that the run has one or the other between any two steps; the theorems hold
for any number of both.
`diagnostics` has three queries: a failure, the success or failure that races it, and the one after;
the same file in two revisions, because the file of last times does not tell revisions apart.

`Overlaps` = FALSE in `drafts` keeps a create or a delete apart from any other change of the app.
The code does not (neither takes the lock), but with overlap nearly every state is `torn` and
excepted from the properties, so that such a run would show little more; the theorems about
`Drafts` are for both values.

Symmetry is used where threads, revisions or jobs are interchangeable, and only in runs without
liveness properties. The export, sharing, drafts, diagnostics and Exasol runs switch the deadlock check off
because the system really may stop: ids, tokens, numbers or queries run out, a submit may block
on its own lock, and a profile that a death left unreadable stays so.

Fairness. `Deployment` has none: in it nothing waits for anything (the lock is refused, never awaited),
so that its operations end because they are finite, and the runs ask for safety only. A lock left
behind would show as a state that breaks `LocksAreInUse`.
`SessionChannel`: handler threads run (weak fairness); a page's interval timer keeps firing and its
requests are handled if it tries often enough (strong fairness), although
any one of them may be lost. Nothing obliges a page to be opened, and nothing stops a
restart, so `CallsReturn` counts a call that a restart cut off as ended.
`ExportJobs`: request threads, pool threads and main threads keep running (weak fairness; the one
lock they wait for is released by the thread that holds it unless that thread blocks on
itself), and a process that died is started again. Nobody is obliged to create or cancel jobs, and
time need not pass. `EveryJobEnds` excuses exactly one situation, a submit that blocks on
itself for ever (see below).
`Workers`: threads run (weak fairness), a dead control plane is started again, the sweep's timer fires,
and its next entry is looked at although others keep taking the lock (strong fairness, the lock is
a plain mutex that the loop asks for again and again); a record without requests grows idle, where
`idle_stop_seconds` is not 0. Nothing makes a worker that lives answer: both properties have the worker
that stays silent for ever as an exception (`SilentWorker`). That a thread gets the lock in the end
although others ask for it rests on the bound on processes, which bounds how often they do.
`ExasolSessions`: threads run (weak fairness of their steps); no query, rewrite or loss is obliged to come.
`Environments`: the collector thread wakes up and finishes its passes (weak fairness), which
`env_gc_enabled` decides; no request is obliged to come.

### Known disagreements

Reachable in the models; no property claims the contrary, and where a property comes near it names
the exception.

1. Stale worker. `start` returns the living worker of a path whatever revision it runs
   (`runtime/worker_manager.py:266`), and a promotion that keeps the route mounts over the old one
   without unmounting it (`runtime/reconciler.py:388`): the worker of the previous revision goes on
   serving the path. `src/docs/mcp-reference.md:36` says of `app_promote`: "Switch the live route to
   a built revision".
2. Preview leak (`runtime/service.py:570`). Starting a second preview leaves the first one mounted,
   and deleting the app unmounts only the second.
3. Lost promotion (`runtime/service.py:1008`). An exposure change reads the current revision without
   the per-app lock; a promotion that completes before it commits is silently undone. A stop beside
   a promotion leaves a stopped app mounted, two route changes can both pass the check, and a promotion
   past its check brings a deleted app back.
4. Rollback target (`runtime/reconciler.py:69`). Startup replaces it by the next lower revision number,
   which nobody may ever have promoted.
5. Create overlaps (`runtime/service.py:460`). Create takes no lock and rewrites the draft, and then
   artifact `r000001`, before it finds that the app is there already.
6. Late result (`session_channel/queue.py:131`). A result that arrives just after the deadline is
   accepted (the page is told so), and the caller is told that the session did not answer.
7. Wrong dashboard (`session_channel/service.py:286`). The app of a tab is checked when a call is
   resolved; if the tab loads another dashboard before it polls, the code runs there.
8. Stranded exports (`consumption/coordinator.py:27`). `submit` adds the done callback while it holds
   the coordinator's lock. If the future is already done, the callback runs at once in the same
   thread and waits for that lock for ever, and so does every later submit.
9. Second coordinator (`consumption/store.py:459`). `src/docs/consumption.md` says that startup refuses
   when another living process coordinates on the same database; it is also let in when the
   other's heartbeat is older than five minutes, which is what a quiet server looks like. `Lapse`
   and several `Instances` are in the model and in the theorems.
10. Contested environments (`dependencies/environment_service.py:147`). A request that finds an unfinished
    environment removes it under the thread that builds it; what both leave may be called ready.
11. Failures lost for ever (`diagnostics/service.py:534`). A death between the truncation and the write
    of `data_layer_errors_dedup.json`, or two writers at once, leaves text that is not JSON. Every later
    `record_data_layer_error` of that app raises on it, and the caller swallows the exception.
12. Lost success (`diagnostics/service.py:257`). The lock around the successes belongs to one process;
    two isolated workers that save at once lose one, and the throttle keeps it lost for half a
    minute. `SuccessesAreSeen` is checked for one process.
13. Order of stamps (`runtime/prober.py:738`). The acknowledgement is compared with stamps as text,
    although the comment thirty lines above says that stamps do not sort as text when a fraction
    is zero. The model compares times.

14. Profile unreadable (`exasol/profiles.py:41`, `gitops/repo_service.py:735`). A death between the
    truncation and the write of a profile leaves text that is not JSON. `get_profile` raises on it,
    outside the handler of errors that `exasol/runtime.py:240` promises ("never raise"), and so does
    the rewrite that would repair it.
15. Mixed rewrite (`exasol/service.py:237`). Two rewrites at once may leave one's secret with the other's
    settings. A rewrite of the secret alone does not change the fingerprint of a session
    (`exasol/connection_manager.py:36`), so a busy thread keeps the one it has.
16. Sessions left behind (`consumption/execution.py:69`, `exasol/connection_manager.py:346`). An export
    whose query cannot be started, and a thread that ends (`close_all_for_thread` has no caller), leave
    their session to the garbage collector.
17. Twice (`exasol/service.py:699`). A statement that changed data before its session was lost is run
    again by the retry.
18. Unknown losses (`exasol/service.py:1190`). A session that the database ended between two queries is the
    reason of an error whenever the driver says so in other words than the nine of `_DEAD_SESSION_HINTS`.
    `LostSessionsAreRetried` excepts these (`unknown`).
19. Scripts (`exasol/service.py:669`). "a session change made by one app's query file must not leak into
    another's queries" (line 728), but only statements without a result set discard their session; a script that
    returns a table and changes the session leaves it in the cache. `Rows` assumes there is none.
20. Silent worker (`runtime/worker_manager.py:789`, `1044`). `_read_ready_event` reads "until we see a ready event
    or the timeout fires", and `src/docs/runtime-modes.md:54` names a start time-out of 30 seconds; but both
    loops block in `readline` and look at the deadline between lines. A worker that lives and writes nothing
    keeps the manager's lock for ever: no request of any isolated app gets a worker, and the sweep stands still.
21. Half removed (`dependencies/environment_service.py:145`, `153`, `380`). A death in the middle of `rmtree` may
    leave a record that says ready over half an environment, which the next request reuses; a reuse that
    writes its last use meanwhile (line 658) may do so without a death.

## Proofs

Each proof module shows an inductive invariant step by step, one case per action; helpers that many
actions share have a lemma that says what they keep. All rest on the module's named assumption on
its constants, and hold for any number of threads, apps, processes and deaths unless they say otherwise.
Where a theorem has a hypothesis more, it is a condition on the constants that stands in its
statement (`OneProcess`, `Threads = {t}`, no `"delete"` in `Ops`) and below with its reason.

`DeploymentProofs`

- `TypeCorrect`: `Spec => []TypeOK`.
- `RevisionsNamed`: `Spec => []RevisionsAreNamed`. Inductive by itself together with `TypeOK`:
  the case that needs an argument is `Startup`, where a rebuilt app has at least one
  release, so that the fallback to the largest one names a revision (`MaxIn` lemmas).
- `LockExcludes`: `Spec => []LockedOperationsExclude`. Exclusion is not inductive: that two
  threads are apart says nothing about the lock they will ask for. `LockHeld` adds that a
  thread inside a locked operation holds the lock of its app; two holders are then one.
- `NoLockIsLeaked`: `Spec => []LocksAreInUse`, the converse, with `LockHeld`: a lock that is held belongs to an
  operation that runs, so every step that ends one has released it.
- `DesiredReleased`: with no delete among the operations, `Spec => []DesiredIsReleased`, under every
  interleaving. The strengthening `PublishedFirst` says that a thread about to commit
  desired state has its revision's release on main already.
- `BuildNumbersHonoured`: with no delete, `Spec => []BuildNumberHonoured`, for any number of threads.
  The lock (`LockHeld`) keeps other builds of the app away; `NumbersInv` says that an app has its first
  revision before anything else is known of it, so that neither a create nor a rebuild gives
  it another one between the choice of a number and its `INSERT`.
- `StartupRestoresAll`: with no delete, `Spec => StartupConverges`, the action property, for any number of
  threads. `StartupInv` follows the rebuild and the pass over the fleet: from `Startup` on the rows of all
  apps that Git publishes are as Git wants them (`Restoring`), and the pass changes none of them; `RootedOnMain`
  is what makes the rebuild find them.

A delete takes no lock, and beside another operation it breaks all three (see the disagreements). With one
request at a time it does not: `DesiredReleasedInTurn` and `StartupRestoresInTurn` have every operation.
So do the theorems about what overlapping requests break even without a delete, because exposure
changes, starts and stops take no lock either:

- `RowsFollowGit`, `DispatcherFollows`, `RoutesDistinct`: with `Threads = {t}`, `Spec => []RowFollowsGit`,
  `[]DispatcherFollowsRow`, `[]RoutesAreDistinct`. None is inductive: in the middle of an operation the three
  stores disagree. `Turn(t)` says at every step how far: what Git and the rows hold of revisions
  (`Stored`); that routes are apart, in the rows and in Git together (`RoutesApart`), and the route a
  request is about to publish from all others (`Routed`); which apps' rows, previews and mounts are
  excepted while the step of the thread is where it is (`Followed`, `Previewed`, `Mounted`, `Served`); and
  what the thread has in hand for them (`InHand`, `Planned`). Its end is `Settled`, from which the
  three statements follow. Each of the actions has a lemma (`...Turn`) that it keeps `Turn`.
- `PromotionsHaveNoGap`: with `Threads = {t}`, `Spec => PromotionHasNoGap`, the action property, from the
  same invariant: `Kept` says that an operation which is no exposure change carries the exposure of the row
  along, so that `WithoutOldRoute` unmounts nothing.

`DraftsProofs`

- `DraftsTypeCorrect`: `Spec => []TypeOK`, which needs what a thread has noted down by each step (`JobOK`).
- `RevisionsHaveOneSource`: `Spec => []OneSource`. As long as nothing overlapped (`~torn`), the lock
  (`LockHeld`) and the order of steps keep one thread at work at a time (`Solo`); then what that thread
  knows at each step (`Knows`), what the tags point at (`Tagged`) and what an absent app has left
  behind (`Absent`) carry the rows (`Rows`).
- `CandidatesNameSources`: `Spec => []CandidateNamesSource`. `Versions`: the current version names the draft
  unless a change is under way, and a change that ends takes a number that no row has.

`WorkersProofs`

- `WorkersTypeCorrect`: `Spec => []TypeOK`.
- `RecordsNameProcess`: `Spec => []RecordsNameTheirProcess`, by `Names`: a process keeps path and revision
  once it has them (`Grow`), and every copy of a process id, in a record, a file or a thread, was
  taken from one that fits.
- `WorkersAreOwned`, `PathsHaveOneWorker`: `Spec => []LiveWorkersAreOwned`, `Spec => []OneWorkerPerPath`, by
  `Control`: a thread that waits for a worker holds the lock and its path has no record, so
  records, waiting and stopping threads share the living workers among them.

`ResourceProofs`

The module extends `ExasolSessions` and has `Environments` as the instance `Env`; no step of the one
uses a fact of the other.

- `ExasolTypeCorrect`, `StatementsRunOnTheirSession`, `OneHolderPerSession`, `LostSessionsNeverFail`:
  `Spec => []TypeOK`, `[]StatementsFindTheirSession`, `[]OpenSessionsHaveOneHolder` and
  `[]LostSessionsAreRetried`, from one invariant, `IInv`, with a part for the files and one for the sessions.
  - `FileInv`. Secrets are numbered as they are stored, and neither their type nor the assertion that a
    profile never asks for a secret that does not exist yet is inductive: `SecretsAreCounted` adds that the
    stored secrets and the writers with one still to store are at most the rewrites begun (a cardinality,
    kept action by action by the `Count...` lemmas), `SecretsGrow` that nobody has seen a secret beyond
    the last. Crossed writes and deaths tear files but store no number.
  - `SessionInv`. `CallGood`, `HeldGood`, `CacheGood` and `KeptGood` say what a call, the session it holds and
    the cache of its thread look like at each step; they are predicates of values, so that the lemma on an
    action speaks of the values it writes. `HolderInv` is the ownership itself, which needs them: a thread
    opens a session only with an empty cache, and a call that holds one holds what its cache holds.
    `Moves` describes what a step of a caller may do to one session (take, keep, give up, close or
    strand it), and `CallerKeeps` shows once that such a step keeps everything other callers have.
  - That faults are on file rests on the same facts: at the second attempt the lost session of the first is
    closed, so another loss happened while the query ran (`LoseKeeps` records it).
- `EnvironmentsTypeCorrect`: `Env!Spec => []Env!TypeOK`.
- `ReadyIsWhole`: `Env!Spec => []EnvironmentsAreWhole`. `Good` says, for every environment that is not
  contested: who creates it is alone, with nobody removing it, and has everything installed by the time it
  writes that; a removal has the record still before it or the record does not say ready; and a directory
  called ready is whole or being removed. What is contested is decided when a removal begins or takes a
  file, when a record is written over another's work, and when the process dies.

`ExportProofs`

- `ExportTypeCorrect`: `Spec => []TypeOK`. The strengthening `TypeInv` adds that a caller that
  submits and a worker that is busy have a job.
- `ExportKeepsPromise`: `Spec => KeepsPromise`, that is, ExportJobs implements ExportPromise with the
  refinement mapping `Outcome`, for several processes with stale heartbeats too. `PromiseInv` adds
  two facts to types: `asked` is what the status says until a job has ended (`CancelKnown`), and a
  worker about to record a cancellation has seen one, which cannot be taken back meanwhile
  (`CauseKnown`). `TransitionKeeps` does the work once for all callers of `transition_job`.
- `KeyHasOneJob`: `Spec => []OneJobPerKey`, for several processes too.
- `OvershootIsBounded`: for a finite set of request threads, `Spec => []QuotaOvershootIsBounded`. `QuotaInv`
  counts the jobs in progress and the threads between check and insert together.
- `AttemptsBounded`: with `OneProcess`, `Spec => []AttemptsAreBounded`. `PlacesInv`: a job that may still be attempted
  is in one place only, with a caller about to submit it, in the list of the recovery, in the pool or
  with a worker; that the main thread lists the incomplete jobs before requests come in is why.
- `SucceededIsThere`: with `OneProcess`, `Spec => []SucceededHasFile`. `SoloInv` adds what the worker of a job knows of
  its row, artifacts and file at each step, and what maintenance may be taking away.

`OneProcess` is what the coordinator slot is for. A second process is let in beside one whose
heartbeat is old (disagreement 9), and then both claim and attempt the same job: with two instances TLC
finds `AttemptsAreBounded` violated. `ExportAssumption` tells main threads from request threads
(`Instances \cap Threads = {}`), which share the variable `caller`.

`DiagnosticsProofs`

- `DiagnosticsTypeCorrect`: `Spec => []TypeInv`, types and that a busy thread knows its file.
- `LetInFailuresAreTraced`: stamps come from the past (`TimeInv`), and every moment that stands in the
  file of last times, or in a thread's copy of it, is traced to a record, a death, or a thread
  on its way to the record (`TraceInv`).
- `FailuresReachProbe`: `Spec => FailuresAreReported`, the action property, from that invariant: what is
  suppressed is reported already, or excused.
- `SuccessesReachProbe`: with one process, `Spec => SuccessesAreSeen`, the action property. `SeenInv`: one thread
  saves at a time over the file it read, and a last write that is remembered is on its way to the
  file or in it, no older than the newest failure. Two processes lose one (disagreement 12).

`SharingProofs`

- `SharingTypeCorrect`: `Spec => []TypeOK`, by `TypeInv`: a thread knows the token, the principal and the
  offer its next step writes. 
- `OneUseHolds`: `Spec => []OneUse`. `MadeInv`: a token that any row, step or session is of was created, and
  is not created again. `UseInv`: only one thread at a time stands between the mark and the grant of a
  token, the token is then `Spent` and has no grant yet, and a token has one grant at most.
- `SessionsOpen`: `Spec => []SessionOpensTarget`. `OfferInv`: what a thread read of the row before its mark is
  what the row still says, and whoever has a session has the grant that gives it.
- `RevocationReaches`: `Spec => []RevocationReachesGrants`. `TornInv`, for every token without an overlap: a use
  and a revocation exclude each other, a revoked token is not in use, and an invitation, or the
  thread that revokes it, knows the only grant that can be active.
- `RevocationIsFinal`: `Spec => RevokedIsFinal`, the action property, from the same invariant.

`SessionProofs`

- `SlotIsCallers`: `Spec => []SlotBelongsToCaller`, by `SlotInv`: it adds that a call which has no slot yet has
  no answer and was given to no page.
- `CodeStartsOnce`: `Spec => []DeliveredOnce`, by `RunInv`: a command is in one message, before its code ran
  and never again, and a result comes only from code that ran.
- `ChannelKeepsPromise`: `Spec => KeepsPromise`, that is, SessionChannel implements SessionPromise: each
  action is a step of the promise or changes nothing in it.

- `ChannelTypeCorrect`: `Spec => []TypeOK`. `Registry` completes the types: a session is in `recency` once,
  in the order of the polls, and there are at most `MaxSessions`. A poll moves its tab to the end or puts it
  there, and an eviction cuts off the front.
- `EvictionsAreOldest`: `Spec => EvictsOldest`, an action property: when a registration evicts a tab, every
  tab that stays has polled since. It rests on `Registry`: a full registry loses exactly its first session,
  and one that is not full, or a session that registers again, evicts nobody. No run checks it: the runs
  keep one session at a time, and it takes one that goes and one that stays.

The order of evictions matters to these two theorems only. The other three use `Types`, which leaves
`recency` and `stale` out, and hold whatever an eviction takes.

`TypeOK` is proved for every module, and stands in no run.

Every invariant and every action property that a run checks is proved. Only model-checked is liveness
(`CallsReturn`, `TabsComeBack`, `EveryJobEnds`, `AbandonedWorkersEnd`,
`InvalidationTakesEffect`), which the prover cannot do (no fairness, no `ENABLED`). `BuildNumberHonoured` and `StartupConverges` are neither proved nor
checked where deletes overlap other requests, and false there.

## Plan

Done: the modules above, in the order deployment core, session channel, export jobs, workers,
sharing, drafts, environments, diagnostics, Exasol sessions; abstract specifications of the session channel and of
export jobs; the proofs listed.

What would come next:

1. `app_deploy_draft` as build, promote and automatic rollback over `Deployment`.
2. Proofs: the part of `RowFollowsGit` that survives overlapping requests when none of them is an exposure
   change or a delete.

## Not modelled

The `components` of `PROJECT.json` give the reason for each part: what only renders, parses or
analyses text (scaffolding, formats, source checks, tool schemas, pages) has no behaviour over time;
the Exasol database itself, mail and uv are outside. More than half of the source lines are of this kind, which is
why the modules map about a fifth of them. Within the modelled parts:

- process ids that the operating system hands out again to another process than the worker a
  file names;
- the legacy per-app installer of `dependencies/service.py`;
- leases of export jobs, which are written and never read;
- exceptions of SQLite inside the failure handlers of an export job;
- websockets, log rotation, metrics and health payloads;
- share policies for the public, groups and domains, and the session cookies of browsers.

## Running

    tlc -workers 2 -config DeploymentSequential.cfg MCDeployment.tla
    tlapm WorkersProofs.tla

The other runs are named after their `.cfg`; `PROJECT.json` pairs each with its module. No run takes
more than three minutes with two workers. `tlapm` needs minutes for each of the larger proof modules.
