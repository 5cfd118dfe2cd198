--------------------------------- MODULE Drafts ---------------------------------
(***************************************************************************)
(* The draft of one app and the revisions built from it.                   *)
(*                                                                         *)
(* A draft is the directory an author edits, with a candidate version that *)
(* counts its edits.  A build validates it, copies it into an artifact     *)
(* directory, commits and tags it in Git and inserts a row that names all  *)
(* three.  Builds and edits hold the lock of the app; creating, deleting   *)
(* and validating do not.  A draft is abstracted to the source it holds    *)
(* and its requirements: the two files that two steps of one edit write.   *)
(*                                                                         *)
(* What happens to a built revision (desired state, mounts, preflight) is  *)
(* the business of Deployment, the installation of its requirements that   *)
(* of Environments: here it succeeds or fails.                             *)
(*                                                                         *)
(* An operator named D_variant is D with one plausible mistake in it; the  *)
(* specification does not use it.                                          *)
(***************************************************************************)
EXTENDS Integers, FiniteSets

CONSTANTS
    Clients,        \* threads of the WSGI server
    Sources,        \* contents of a draft's source files
    Requirements,   \* contents of its requirements.txt that name packages
    Faults,         \* the checks that each source and each text of requirements fails
    Offers,         \* drafts that are put, built or created
    Overlaps,       \* bound: whether a create or delete may overlap another change, as the code lets it
    MaxRevision,    \* bound: revision numbers
    MaxCandidate,   \* bound: candidate version at which edits stop
    MaxDeletes,     \* bound: deletions of the app
    MaxCrashes,     \* bound: deaths of the process
    None            \* no draft, no row, no packages, nobody

Checks == {"syntax", "requirements", "cross_module_symbols", "credential_safety",
           "imports", "callbacks", "exasol", "consumption"}
Numbers == 1..MaxRevision
Draft == [source : Sources, requirements : Requirements \cup {None}]
Row == [hash : Draft, commit : Draft, candidate : Nat]

ASSUME DraftsAssumption ==
    /\ MaxRevision \in Nat \ {0} /\ MaxCandidate \in Nat /\ MaxDeletes \in Nat /\ MaxCrashes \in Nat
    /\ Faults \in [Sources \cup Requirements -> SUBSET Checks]
    /\ Offers \subseteq Draft
    /\ Overlaps \in BOOLEAN
    /\ None \notin Sources \cup Requirements \cup Clients \cup Draft
    /\ None \notin Row

VARIABLES
    exists,         \* whether the app has its row
    draft,          \* the files of the workspace
    candidate,      \* candidate_version in its state file
    artifact,       \* artifact directory of each number
    tag,            \* release tag of each number: the draft of the commit it points to
    row,            \* app_revisions
    lock,           \* holder of the app's lock
    job,            \* what each thread is doing
    torn,           \* a create or delete overlapped another change of the app, or a delete was cut off
    cut,            \* numbers that were tagged for a build that failed afterwards
    unnamed,        \* candidate versions whose files changed without a new number
    deletes,        \* deletions so far
    crashes         \* deaths so far

fileVars == <<draft, candidate>>
revisionVars == <<artifact, tag, row>>
appVars == <<exists, deletes, crashes>>
vars == <<exists, draft, candidate, artifact, tag, row, lock, job, torn, cut, unnamed, deletes, crashes>>

-----------------------------------------------------------------------------
(* Types *)

Operations == {"none", "put", "build", "create", "delete"}
Steps == {"idle", "source", "requirements", "name", "validate", "smoke", "snapshot",
          "tag", "insert", "insertApp", "dropGit", "dropRows"}
Job == [op : Operations, pc : Steps, offer : Draft \cup {None}, next : Nat, seen : Draft \cup {None},
        number : 0..MaxRevision, hash : Draft \cup {None}, commit : Draft \cup {None}]

Idle == [op |-> "none", pc |-> "idle", offer |-> None, next |-> 0, seen |-> None,
         number |-> 0, hash |-> None, commit |-> None]

TypeOK ==
    /\ exists \in BOOLEAN
    /\ draft \in Draft \cup {None}
    /\ candidate \in Nat
    /\ artifact \in [Numbers -> Draft \cup {None}]
    /\ tag \in [Numbers -> Draft \cup {None}]
    /\ row \in [Numbers -> Row \cup {None}]
    /\ lock \in Clients \cup {None}
    /\ job \in [Clients -> Job]
    /\ torn \in BOOLEAN
    /\ cut \subseteq Numbers
    /\ unnamed \subseteq Nat
    /\ deletes \in 0..MaxDeletes
    /\ crashes \in 0..MaxCrashes

Init ==
    /\ exists = FALSE
    /\ draft = None
    /\ candidate = 1
    /\ artifact = [n \in Numbers |-> None]
    /\ tag = [n \in Numbers |-> None]
    /\ row = [n \in Numbers |-> None]
    /\ lock = None
    /\ job = [t \in Clients |-> Idle]
    /\ torn = FALSE
    /\ cut = {}
    /\ unnamed = {}
    /\ deletes = 0
    /\ crashes = 0

-----------------------------------------------------------------------------
(* Requests *)

Does(t, pc) == job[t].pc = pc
Goto(t, pc) == job' = [job EXCEPT ![t].pc = pc]

\* n is MAX(revision_number), or 0 when there is no row.
IsLast(n) == (n = 0 \/ row[n] # None) /\ \A m \in Numbers : row[m] # None => m <= n

\* Two requests at once are kept apart by nothing when one of them is a create or a delete.
Torn(t, op) == \E u \in Clients \ {t} : ~Does(u, "idle") /\ (op \in {"create", "delete"} \/ job[u].op \in {"create", "delete"})

\* _locked_app_operation takes the lock or refuses at once, and lets go on every way out.
Free == lock = None
Unlocked(t) == lock' = IF lock = t THEN None ELSE lock

Ends(t) == /\ job' = [job EXCEPT ![t] = Idle]
           /\ Unlocked(t)

\* An error answer: a refused draft, a conflict, an exception of Git, SQLite or the disk.
\* A number whose tag is set by then has no row to go with it.
Fails(t) ==
    /\ Ends(t)
    /\ cut' = cut \cup {n \in Numbers : Does(t, "insert") /\ n = job[t].number}
    /\ UNCHANGED <<fileVars, revisionVars, appVars, torn, unnamed>>

Starts(t, op, pc, offer, next) ==
    /\ Does(t, "idle")
    /\ Overlaps \/ ~Torn(t, op)
    /\ job' = [job EXCEPT ![t] = [Idle EXCEPT !.op = op, !.pc = pc, !.offer = offer, !.next = next]]
    /\ torn' = (torn \/ Torn(t, op))

Locks(t) == Free /\ lock' = t

-----------------------------------------------------------------------------
(* Editing *)

\* app_put_files: each file of the list is written as its entry is read; the candidate
\* version follows last.
Put(t, d) ==
    /\ exists /\ candidate < MaxCandidate
    /\ Locks(t)
    /\ Starts(t, "put", "source", d, 0)
    /\ UNCHANGED <<fileVars, revisionVars, appVars, cut, unnamed>>

\* app_patch_file and app_delete_file: one file of the source changes.
Patch(t, source) ==
    /\ exists /\ draft # None /\ candidate < MaxCandidate
    /\ Locks(t)
    /\ draft' = [draft EXCEPT !.source = source]
    /\ Starts(t, "put", "name", None, 0)
    /\ UNCHANGED <<candidate, revisionVars, appVars, cut, unnamed>>

WriteSource(t) ==
    /\ Does(t, "source")
    /\ draft' = [source |-> job[t].offer.source, requirements |-> IF draft = None THEN None ELSE draft.requirements]
    /\ Goto(t, "requirements")
    /\ UNCHANGED <<candidate, revisionVars, appVars, lock, torn, cut, unnamed>>

WriteRequirements(t) ==
    /\ Does(t, "requirements")
    /\ draft # None
    /\ draft' = [draft EXCEPT !.requirements = job[t].offer.requirements]
    /\ Goto(t, "name")
    /\ UNCHANGED <<candidate, revisionVars, appVars, lock, torn, cut, unnamed>>

\* The second entry of the list is refused, or a file cannot be written.
LeftHalfWritten(t) ==
    /\ Does(t, "requirements")
    /\ Ends(t)
    /\ unnamed' = unnamed \cup {candidate}
    /\ UNCHANGED <<fileVars, revisionVars, appVars, torn, cut>>

\* _bump_candidate, or the state file that a bundle is written with.
Bumped_never(t) == IF job[t].op = "put" THEN candidate ELSE job[t].next
Bumped(t) == IF job[t].op = "put" THEN candidate + 1 ELSE job[t].next

NameEdit(t) ==
    /\ Does(t, "name")
    /\ candidate' = Bumped(t)
    /\ IF job[t].op = "put" \/ (job[t].op = "create" /\ exists)
       THEN Ends(t)
       ELSE /\ job' = [job EXCEPT ![t].pc = "validate", ![t].offer = None, ![t].next = 0]
            /\ UNCHANGED lock
    /\ UNCHANGED <<draft, revisionVars, appVars, torn, cut, unnamed>>

-----------------------------------------------------------------------------
(* Builds and creations begin *)

\* ensure_workspace_from_bundle reads the version before it writes the files.
AfterBundle == IF draft # None THEN candidate + 1 ELSE candidate

\* app_build of the draft as it is.
Build(t) ==
    /\ exists
    /\ Locks(t)
    /\ Starts(t, "build", "validate", None, 0)
    /\ UNCHANGED <<fileVars, revisionVars, appVars, cut, unnamed>>

BuildBundle(t, d) ==
    /\ exists /\ candidate < MaxCandidate
    /\ Locks(t)
    /\ Starts(t, "build", "source", d, AfterBundle)
    /\ UNCHANGED <<fileVars, revisionVars, appVars, cut, unnamed>>

\* app_create writes the draft first and asks afterwards whether the app exists.
Create(t, d) ==
    /\ candidate < MaxCandidate
    /\ Starts(t, "create", "source", d, AfterBundle)
    /\ UNCHANGED <<fileVars, revisionVars, appVars, lock, cut, unnamed>>

-----------------------------------------------------------------------------
(* The validation pipeline *)

Faulty(d, checks) ==
    \E c \in checks : c \in Faults[d.source] \/ (d.requirements # None /\ c \in Faults[d.requirements])

\* Every check but those that import the app reads the files once, at the beginning.  The
\* installation of the requirements comes between (see Environments): it changes nothing
\* here and fails like everything else.
Static == Checks \ {"imports", "callbacks"}

ReadDraft(t) ==
    /\ Does(t, "validate")
    /\ draft # None
    /\ job' = [job EXCEPT ![t].pc = "smoke", ![t].seen = draft]
    /\ UNCHANGED <<fileVars, revisionVars, appVars, lock, torn, cut, unnamed>>

\* The import runs in a process that reads the files again.  Whether it passes is decided
\* before, by the static checks, when one of those failed.
Passes(t) == draft # None /\ ~Faulty(job[t].seen, Static) /\ ~Faulty(draft, {"syntax", "imports", "callbacks"})

SmokePasses(t) ==
    /\ Does(t, "smoke")
    /\ Passes(t)
    /\ job' = [job EXCEPT ![t].pc = "snapshot", ![t].seen = None]
    /\ UNCHANGED <<fileVars, revisionVars, appVars, lock, torn, cut, unnamed>>

-----------------------------------------------------------------------------
(* A revision is made *)

\* The number is read from the rows; the row gets its own when it is inserted.
NextNumber_last(t) == {n \in Numbers : IF job[t].op = "create" \/ IsLast(0) THEN n = 1 ELSE IsLast(n)}
NextNumber(t) == {n \in Numbers : IF job[t].op = "create" THEN n = 1 ELSE IsLast(n - 1)}

\* _write_workspace_artifact: the directory of that number is replaced, and the draft hashed.
Snapshot(t) ==
    /\ Does(t, "snapshot")
    /\ draft # None
    /\ \E n \in NextNumber(t) :
          /\ artifact' = [artifact EXCEPT ![n] = draft]
          /\ job' = [job EXCEPT ![t].pc = "tag", ![t].number = n, ![t].hash = draft]
    /\ UNCHANGED <<fileVars, tag, row, appVars, lock, torn, cut, unnamed>>

\* materialize_revision commits what is in the worktree; a tag that is there stays.
TagRevision(t) ==
    /\ Does(t, "tag")
    /\ draft # None
    /\ tag' = [tag EXCEPT ![job[t].number] = IF @ = None THEN draft ELSE @]
    /\ job' = [job EXCEPT ![t].pc = "insert", ![t].commit = draft]
    /\ UNCHANGED <<fileVars, artifact, row, appVars, lock, torn, cut, unnamed>>

NewRow(t) == [hash |-> job[t].hash, commit |-> job[t].commit, candidate |-> candidate]

\* INSERT ... SELECT MAX + 1 of a build, which has nothing left to do here; a create inserts
\* number 1, once.
InsertRow(t) ==
    /\ Does(t, "insert")
    /\ \E n \in NextNumber(t) : row[n] = None /\ row' = [row EXCEPT ![n] = NewRow(t)]
    /\ IF job[t].op = "create"
       THEN /\ job' = [job EXCEPT ![t] = [Idle EXCEPT !.op = "create", !.pc = "insertApp"]]
            /\ UNCHANGED lock
       ELSE Ends(t)
    /\ UNCHANGED <<fileVars, artifact, tag, appVars, torn, cut, unnamed>>

InsertApp(t) ==
    /\ Does(t, "insertApp")
    /\ ~exists
    /\ exists' = TRUE
    /\ Ends(t)
    /\ UNCHANGED <<fileVars, revisionVars, deletes, crashes, torn, cut, unnamed>>

\* The draft is not there or not valid, a step raises, or the row is there already.
MayFail == {"validate", "smoke", "snapshot", "tag", "insert", "insertApp"}
Fail(t) ==
    /\ job[t].pc \in MayFail
    /\ Fails(t)

-----------------------------------------------------------------------------
(* Deleting *)

Delete(t) ==
    /\ exists /\ deletes < MaxDeletes
    /\ deletes' = deletes + 1
    /\ Starts(t, "delete", "dropGit", None, 0)
    /\ UNCHANGED <<fileVars, revisionVars, exists, crashes, lock, cut, unnamed>>

\* The release tags go with the repository's files, then the worktree goes.
DropGit(t) ==
    /\ Does(t, "dropGit")
    /\ tag' = [n \in Numbers |-> None]
    /\ draft' = None
    /\ candidate' = 1
    /\ Goto(t, "dropRows")
    /\ UNCHANGED <<artifact, row, appVars, lock, torn, cut, unnamed>>

DropRows(t) ==
    /\ Does(t, "dropRows")
    /\ exists' = FALSE
    /\ row' = [n \in Numbers |-> None]
    /\ artifact' = [n \in Numbers |-> None]
    /\ cut' = {} /\ unnamed' = {}
    /\ Ends(t)
    /\ UNCHANGED <<fileVars, tag, deletes, crashes, torn>>

-----------------------------------------------------------------------------
(* Faults and scheduling *)

\* The process dies.  Startup gives an app without a workspace the files of the revision it
\* serves, which may be any.
Seeds == exists /\ draft = None
Seeded(n) == row[n] # None /\ artifact[n] # None
Restart ==
    IF Seeds /\ \E n \in Numbers : Seeded(n)
    THEN \E n \in Numbers : Seeded(n) /\ draft' = artifact[n] /\ candidate' = n
    ELSE UNCHANGED fileVars

Crash ==
    /\ crashes < MaxCrashes
    /\ crashes' = crashes + 1
    /\ job' = [t \in Clients |-> Idle]
    /\ lock' = None
    /\ Restart
    /\ cut' = cut \cup {n \in Numbers : \E t \in Clients : Does(t, "insert") /\ job[t].number = n}
    /\ unnamed' = unnamed \cup {c \in {candidate} : \E t \in Clients : job[t].pc \in {"requirements", "name"}}
    /\ torn' = (torn \/ \E t \in Clients : Does(t, "dropRows"))
    /\ UNCHANGED <<revisionVars, exists, deletes>>

Edit(t) ==
    \/ \E d \in Offers : Put(t, d)
    \/ \E d \in Offers : Patch(t, d.source)
    \/ WriteSource(t) \/ WriteRequirements(t) \/ LeftHalfWritten(t) \/ NameEdit(t)

Validation(t) == ReadDraft(t) \/ SmokePasses(t)

Revision(t) ==
    \/ Build(t)
    \/ \E d \in Offers : BuildBundle(t, d)
    \/ \E d \in Offers : Create(t, d)
    \/ Snapshot(t) \/ TagRevision(t) \/ InsertRow(t) \/ InsertApp(t)
    \/ Fail(t)

Deletion(t) == Delete(t) \/ DropGit(t) \/ DropRows(t)

Next ==
    \/ \E t \in Clients : Edit(t) \/ Validation(t) \/ Revision(t) \/ Deletion(t)
    \/ Crash

Spec == Init /\ [][Next]_vars

-----------------------------------------------------------------------------
(* Properties *)

Deleting == \E t \in Clients : Does(t, "dropRows")

\* A revision has one source: the artifact directory that is served, the hash in its row
\* and the commit it names are the same draft, that draft passed every check, and the
\* release tag of its number points at that commit.  This must hold over edits between the
\* steps of a build, builds that fail half-way and leave their number to the next, deaths
\* of the process and deletions.  Exceptions: a create or delete that overlaps another
\* change (service.py:460 and :565 take no lock), and the tag of a number that a failed
\* build had tagged already, which stays at the old commit (repo_service.py:212).
OneSource ==
    exists /\ ~torn /\ ~Deleting =>
        \A n \in Numbers : row[n] # None =>
            /\ artifact[n] = row[n].hash
            /\ row[n].commit = row[n].hash
            /\ ~Faulty(row[n].hash, Checks)
            /\ tag[n] = row[n].commit \/ n \in cut

\* A candidate version names a source: two revisions that record the same one were built
\* from the same files.  Exceptions: edits that were cut off between their first file and
\* the new number (workspace/service.py:203), and overlapping creates and deletes.
CandidateNamesSource ==
    exists /\ ~torn =>
        \A m, n \in Numbers :
            row[m] # None /\ row[n] # None /\ row[m].candidate = row[n].candidate /\ row[m].candidate \notin unnamed
                => row[m].hash = row[n].hash
=============================================================================
