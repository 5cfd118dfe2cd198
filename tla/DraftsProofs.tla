----------------------------- MODULE DraftsProofs -----------------------------
(***************************************************************************)
(* Theorems about Drafts for every value of its constants: any number of   *)
(* threads, any drafts and checks, and creates and deletes that overlap    *)
(* everything else as the code lets them (Overlaps = TRUE).                *)
(***************************************************************************)
EXTENDS Drafts, TLAPS

-----------------------------------------------------------------------------
(* Type correctness.  What a thread has noted down by each step; without that, the steps  *)
(* that write it to the files and rows would not keep their types.                        *)

Editing == {"source", "requirements", "name"}
Building == {"validate", "smoke", "snapshot", "tag", "insert"}

JobOK(j) ==
    /\ j \in Job
    /\ j.pc = "idle" <=> j.op = "none"
    /\ j.pc \in Editing => j.op \in {"put", "build", "create"}
    /\ j.pc \in Building => j.op \in {"build", "create"}
    /\ j.pc = "insertApp" => j.op = "create"
    /\ j.pc \in {"dropGit", "dropRows"} => j.op = "delete"
    /\ j.pc \in {"source", "requirements"} => j.offer \in Draft
    /\ j.pc = "smoke" => j.seen \in Draft
    /\ j.pc \in {"tag", "insert"} => j.hash \in Draft /\ j.number \in Numbers
    /\ j.pc = "insert" => j.commit \in Draft

FileTypes == draft \in Draft \cup {None} /\ candidate \in Nat
RevisionTypes ==
    /\ artifact \in [Numbers -> Draft \cup {None}]
    /\ tag \in [Numbers -> Draft \cup {None}]
    /\ row \in [Numbers -> Row \cup {None}]
AppTypes == exists \in BOOLEAN /\ deletes \in 0..MaxDeletes /\ crashes \in 0..MaxCrashes
HistoryTypes == torn \in BOOLEAN /\ cut \subseteq Numbers /\ unnamed \subseteq Nat
JobTypes == job \in [Clients -> Job] /\ \A t \in Clients : JobOK(job[t])
LockType == lock \in Clients \cup {None}

TypeInv == FileTypes /\ RevisionTypes /\ AppTypes /\ HistoryTypes /\ JobTypes /\ LockType

LEMMA TypeInvImplies == TypeInv => TypeOK
  BY DEF TypeInv, TypeOK, FileTypes, RevisionTypes, AppTypes, HistoryTypes, JobTypes, LockType

LEMMA IdleOK == JobOK(Idle) /\ Idle.pc = "idle" /\ Idle.op = "none"
  BY DraftsAssumption DEF JobOK, Idle, Job, Steps, Operations, Numbers, Editing, Building

\* One thread gets a new frame.
LEMMA FrameType ==
    ASSUME TypeInv, NEW t \in Clients, NEW f, JobOK(f), job' = [job EXCEPT ![t] = f]
    PROVE  JobTypes'
  BY DEF TypeInv, JobTypes, JobOK

LEMMA EndsType ==
    ASSUME TypeInv, NEW t \in Clients, Ends(t)
    PROVE  JobTypes' /\ LockType'
<1>1. JobTypes'
  BY IdleOK, FrameType DEF Ends
<1> QED BY <1>1 DEF Ends, Unlocked, TypeInv, LockType

LEMMA StartsType ==
    ASSUME TypeInv, NEW t \in Clients, NEW next \in Nat,
           NEW op \in Operations, NEW pc \in Steps, NEW offer \in Draft \cup {None},
           Starts(t, op, pc, offer, next),
           \/ pc = "source" /\ op \in {"put", "build", "create"} /\ offer \in Draft
           \/ pc = "name" /\ op = "put"
           \/ pc = "validate" /\ op = "build"
           \/ pc = "dropGit" /\ op = "delete"
    PROVE  JobTypes' /\ torn' \in BOOLEAN
<1> DEFINE f == [Idle EXCEPT !.op = op, !.pc = pc, !.offer = offer, !.next = next]
<1>1. f \in Job /\ f.op = op /\ f.pc = pc /\ f.offer = offer
  BY IdleOK DEF JobOK, Job, Idle
<1>2. JobOK(f)
  BY <1>1 DEF JobOK, Editing, Building
<1>3. JobTypes'
  BY <1>2, FrameType DEF Starts
<1> QED BY <1>3 DEF Starts, TypeInv, HistoryTypes

\* A thread goes to its next step, with what it notes down there.
LEMMA GotoType ==
    ASSUME TypeInv, NEW t \in Clients, NEW pc \in Steps, Goto(t, pc),
           \/ Does(t, "source") /\ pc = "requirements"
           \/ Does(t, "requirements") /\ pc = "name"
           \/ Does(t, "dropGit") /\ pc = "dropRows"
    PROVE  JobTypes'
<1> DEFINE f == [job[t] EXCEPT !.pc = pc]
<1>1. JobOK(job[t]) /\ job[t] \in Job
  BY DEF TypeInv, JobTypes
<1>2. /\ f \in Job /\ f.pc = pc
      /\ f.op = job[t].op /\ f.offer = job[t].offer
  BY <1>1 DEF Job
<1>3. JobOK(f)
  BY <1>1, <1>2 DEF JobOK, Does, Editing, Building
<1>4. job' = [job EXCEPT ![t] = f]
  BY DEF Goto
<1> QED BY <1>3, <1>4, FrameType

LEMMA TypeInit == Init => TypeInv
<1> SUFFICES ASSUME Init PROVE TypeInv
  OBVIOUS
<1>1. Idle \in Job
  BY IdleOK DEF JobOK
<1>2. JobTypes
  BY <1>1, IdleOK DEF Init, JobTypes
<1>3. AppTypes
  <2>1. 0 \in 0..MaxDeletes /\ 0 \in 0..MaxCrashes
    BY DraftsAssumption
  <2> QED BY <2>1 DEF Init, AppTypes
<1>4. RevisionTypes
  BY DEF Init, RevisionTypes
<1>5. FileTypes /\ HistoryTypes /\ LockType
  BY DEF Init, FileTypes, HistoryTypes, LockType
<1> QED BY <1>2, <1>3, <1>4, <1>5 DEF TypeInv

LEMMA TypeEdit == ASSUME TypeInv, NEW t \in Clients, Edit(t) PROVE TypeInv'
<1> USE DEF fileVars, revisionVars, appVars
<1>1. ASSUME NEW d \in Offers, Put(t, d) PROVE TypeInv'
  <2>1. d \in Draft
    BY DraftsAssumption
  <2>2. JobTypes' /\ torn' \in BOOLEAN
    BY <1>1, <2>1, StartsType DEF Put, Operations, Steps
  <2> QED BY <1>1, <2>2
      DEF Put, Locks, TypeInv, FileTypes, RevisionTypes, AppTypes, HistoryTypes, LockType
<1>2. ASSUME NEW d \in Offers, Patch(t, d.source) PROVE TypeInv'
  <2>1. d.source \in Sources
    BY DraftsAssumption DEF Draft
  <2>2. draft \in Draft /\ draft' = [draft EXCEPT !.source = d.source]
    BY <1>2 DEF Patch, TypeInv, FileTypes
  <2>3. draft' \in Draft
    BY <2>1, <2>2 DEF Draft
  <2>4. JobTypes' /\ torn' \in BOOLEAN
    BY <1>2, StartsType DEF Patch, Operations, Steps
  <2> QED BY <1>2, <2>3, <2>4
      DEF Patch, Locks, TypeInv, FileTypes, RevisionTypes, AppTypes, HistoryTypes, LockType
<1>3. CASE WriteSource(t)
  <2>1. job[t].offer \in Draft
    BY <1>3 DEF WriteSource, Does, TypeInv, JobTypes, JobOK
  <2>2. draft' \in Draft
    BY <1>3, <2>1 DEF WriteSource, TypeInv, FileTypes, Draft
  <2>3. JobTypes'
    BY <1>3, GotoType DEF WriteSource, Steps
  <2> QED BY <1>3, <2>2, <2>3
      DEF WriteSource, TypeInv, FileTypes, RevisionTypes, AppTypes, HistoryTypes, LockType
<1>4. CASE WriteRequirements(t)
  <2>1. job[t].offer.requirements \in Requirements \cup {None}
    BY <1>4 DEF WriteRequirements, Does, TypeInv, JobTypes, JobOK, Draft
  <2>2. draft \in Draft /\ draft' = [draft EXCEPT !.requirements = job[t].offer.requirements]
    BY <1>4 DEF WriteRequirements, TypeInv, FileTypes
  <2>3. draft' \in Draft
    BY <2>1, <2>2 DEF Draft
  <2>4. JobTypes'
    BY <1>4, GotoType DEF WriteRequirements, Steps
  <2> QED BY <1>4, <2>3, <2>4
      DEF WriteRequirements, TypeInv, FileTypes, RevisionTypes, AppTypes, HistoryTypes, LockType
<1>5. CASE LeftHalfWritten(t)
  BY <1>5, EndsType
     DEF LeftHalfWritten, TypeInv, FileTypes, RevisionTypes, AppTypes, HistoryTypes
<1>6. CASE NameEdit(t)
  <2>1. JobOK(job[t]) /\ job[t] \in Job /\ job[t].pc = "name"
    BY <1>6 DEF NameEdit, Does, TypeInv, JobTypes
  <2>2. candidate' \in Nat
    <3>1. job[t].next \in Nat
      BY <2>1 DEF Job
    <3> QED BY <1>6, <3>1 DEF NameEdit, Bumped, TypeInv, FileTypes
  <2>3. JobTypes' /\ LockType'
    <3>1. CASE job[t].op = "put" \/ (job[t].op = "create" /\ exists)
      BY <1>6, <3>1, EndsType DEF NameEdit
    <3>2. CASE ~(job[t].op = "put" \/ (job[t].op = "create" /\ exists))
      <4> DEFINE f == [job[t] EXCEPT !.pc = "validate", !.offer = None, !.next = 0]
      <4>1. f \in Job /\ f.pc = "validate" /\ f.op = job[t].op
        BY <2>1 DEF Job, Steps
      <4>2. JobOK(f)
        BY <2>1, <3>2, <4>1 DEF JobOK, Editing, Building
      <4>3. job' = [job EXCEPT ![t] = f] /\ lock' = lock
        BY <1>6, <3>2 DEF NameEdit
      <4>4. JobTypes'
        BY <4>2, <4>3, FrameType
      <4> QED BY <4>3, <4>4 DEF TypeInv, LockType
    <3> QED BY <3>1, <3>2
  <2> QED BY <1>6, <2>2, <2>3
      DEF NameEdit, TypeInv, FileTypes, RevisionTypes, AppTypes, HistoryTypes
<1> QED BY <1>1, <1>2, <1>3, <1>4, <1>5, <1>6 DEF Edit

LEMMA TypeRevision == ASSUME TypeInv, NEW t \in Clients, Validation(t) \/ Revision(t) PROVE TypeInv'
<1> USE DEF fileVars, revisionVars, appVars
<1> DEFINE j == job[t]
<1>0. JobOK(job[t]) /\ job[t] \in Job
  BY DEF TypeInv, JobTypes
<1>1. CASE ReadDraft(t)
  <2> DEFINE f == [job[t] EXCEPT !.pc = "smoke", !.seen = draft]
  <2>1. draft \in Draft /\ job[t].pc = "validate"
    BY <1>1 DEF ReadDraft, Does, TypeInv, FileTypes
  <2>2. f \in Job /\ f.pc = "smoke" /\ f.op = job[t].op /\ f.seen = draft
    BY <1>0, <2>1 DEF Job, Steps
  <2>3. JobOK(f)
    BY <1>0, <2>1, <2>2 DEF JobOK, Editing, Building
  <2>4. JobTypes'
    <3>1. job' = [job EXCEPT ![t] = f]
      BY <1>1 DEF ReadDraft
    <3> QED BY <2>3, <3>1, FrameType
  <2> QED BY <1>1, <2>4
      DEF ReadDraft, TypeInv, FileTypes, RevisionTypes, AppTypes, HistoryTypes, LockType
<1>2. CASE SmokePasses(t)
  <2> DEFINE f == [job[t] EXCEPT !.pc = "snapshot", !.seen = None]
  <2>1. job[t].pc = "smoke"
    BY <1>2 DEF SmokePasses, Does
  <2>2. f \in Job /\ f.pc = "snapshot" /\ f.op = job[t].op
    BY <1>0 DEF Job, Steps
  <2>3. JobOK(f)
    BY <1>0, <2>1, <2>2 DEF JobOK, Editing, Building
  <2>4. JobTypes'
    <3>1. job' = [job EXCEPT ![t] = f]
      BY <1>2 DEF SmokePasses
    <3> QED BY <2>3, <3>1, FrameType
  <2> QED BY <1>2, <2>4
      DEF SmokePasses, TypeInv, FileTypes, RevisionTypes, AppTypes, HistoryTypes, LockType
<1>3. CASE Build(t)
  <2>1. JobTypes' /\ torn' \in BOOLEAN
    BY <1>3, StartsType DEF Build, Operations, Steps
  <2> QED BY <1>3, <2>1
      DEF Build, Locks, TypeInv, FileTypes, RevisionTypes, AppTypes, HistoryTypes, LockType
<1>4. ASSUME NEW d \in Offers, BuildBundle(t, d) \/ Create(t, d) PROVE TypeInv'
  <2>1. AfterBundle \in Nat /\ d \in Draft
    BY DraftsAssumption DEF AfterBundle, TypeInv, FileTypes
  <2>2. JobTypes' /\ torn' \in BOOLEAN
    BY <1>4, <2>1, StartsType DEF BuildBundle, Create, Operations, Steps
  <2> QED BY <1>4, <2>2
      DEF BuildBundle, Create, Locks, TypeInv, FileTypes, RevisionTypes, AppTypes, HistoryTypes, LockType
<1>5. CASE Snapshot(t)
  <2>1. PICK n \in Numbers : /\ artifact' = [artifact EXCEPT ![n] = draft]
                             /\ job' = [job EXCEPT ![t].pc = "tag", ![t].number = n, ![t].hash = draft]
    BY <1>5 DEF Snapshot, NextNumber
  <2> DEFINE f == [job[t] EXCEPT !.pc = "tag", !.number = n, !.hash = draft]
  <2>2. draft \in Draft /\ job[t].pc = "snapshot"
    BY <1>5 DEF Snapshot, Does, TypeInv, FileTypes
  <2>3. n \in 0..MaxRevision
    BY DraftsAssumption DEF Numbers
  <2>4. f \in Job /\ f.pc = "tag" /\ f.op = job[t].op /\ f.hash = draft /\ f.number = n
    BY <1>0, <2>2, <2>3 DEF Job, Steps
  <2>5. JobOK(f)
    BY <1>0, <2>2, <2>4 DEF JobOK, Editing, Building
  <2>6. JobTypes'
    BY <2>1, <2>5, FrameType
  <2> QED BY <1>5, <2>1, <2>2, <2>6
      DEF Snapshot, TypeInv, FileTypes, RevisionTypes, AppTypes, HistoryTypes, LockType
<1>6. CASE TagRevision(t)
  <2> DEFINE f == [job[t] EXCEPT !.pc = "insert", !.commit = draft]
  <2>1. draft \in Draft /\ job[t].pc = "tag"
    BY <1>6 DEF TagRevision, Does, TypeInv, FileTypes
  <2>2. f \in Job /\ f.pc = "insert" /\ f.op = job[t].op /\ f.commit = draft /\ f.hash = job[t].hash /\ f.number = job[t].number
    BY <1>0, <2>1 DEF Job, Steps
  <2>3. JobOK(f)
    BY <1>0, <2>1, <2>2 DEF JobOK, Editing, Building
  <2>4. JobTypes'
    <3>1. job' = [job EXCEPT ![t] = f]
      BY <1>6 DEF TagRevision
    <3> QED BY <2>3, <3>1, FrameType
  <2>5. tag' \in [Numbers -> Draft \cup {None}]
    BY <1>6, <2>1 DEF TagRevision, TypeInv, RevisionTypes
  <2> QED BY <1>6, <2>4, <2>5
      DEF TagRevision, TypeInv, FileTypes, RevisionTypes, AppTypes, HistoryTypes, LockType
<1>7. CASE InsertRow(t)
  <2>1. NewRow(t) \in Row
    BY <1>0, <1>7 DEF InsertRow, Does, JobOK, NewRow, Row, TypeInv, FileTypes
  <2>2. row' \in [Numbers -> Row \cup {None}]
    BY <1>7, <2>1 DEF InsertRow, NextNumber, TypeInv, RevisionTypes
  <2>3. JobTypes' /\ LockType'
    <3>1. CASE job[t].op = "create"
      <4> DEFINE f == [Idle EXCEPT !.op = "create", !.pc = "insertApp"]
      <4>1. f \in Job /\ f.pc = "insertApp" /\ f.op = "create"
        BY IdleOK DEF JobOK, Job, Idle, Steps, Operations
      <4>2. JobOK(f)
        BY <4>1 DEF JobOK, Editing, Building
      <4>3. job' = [job EXCEPT ![t] = f] /\ lock' = lock
        BY <1>7, <3>1 DEF InsertRow
      <4>4. JobTypes'
        BY <4>2, <4>3, FrameType
      <4> QED BY <4>3, <4>4 DEF TypeInv, LockType
    <3>2. CASE job[t].op # "create"
      BY <1>7, <3>2, EndsType DEF InsertRow
    <3> QED BY <3>1, <3>2
  <2> QED BY <1>7, <2>2, <2>3
      DEF InsertRow, TypeInv, FileTypes, RevisionTypes, AppTypes, HistoryTypes
<1>8. CASE InsertApp(t)
  BY <1>8, EndsType
     DEF InsertApp, TypeInv, FileTypes, RevisionTypes, AppTypes, HistoryTypes
<1>9. CASE Fail(t)
  BY <1>9, EndsType
     DEF Fail, Fails, TypeInv, FileTypes, RevisionTypes, AppTypes, HistoryTypes
<1> QED BY <1>1, <1>2, <1>3, <1>4, <1>5, <1>6, <1>7, <1>8, <1>9 DEF Validation, Revision

LEMMA TypeDeletion == ASSUME TypeInv, NEW t \in Clients, Deletion(t) PROVE TypeInv'
<1> USE DEF fileVars, revisionVars, appVars
<1>1. CASE Delete(t)
  <2>1. JobTypes' /\ torn' \in BOOLEAN
    BY <1>1, StartsType DEF Delete, Operations, Steps
  <2>2. deletes' \in 0..MaxDeletes
    BY <1>1, DraftsAssumption DEF Delete, TypeInv, AppTypes
  <2> QED BY <1>1, <2>1, <2>2
      DEF Delete, TypeInv, FileTypes, RevisionTypes, AppTypes, HistoryTypes, LockType
<1>2. CASE DropGit(t)
  <2>1. JobTypes'
    BY <1>2, GotoType DEF DropGit, Steps
  <2> QED BY <1>2, <2>1
      DEF DropGit, TypeInv, FileTypes, RevisionTypes, AppTypes, HistoryTypes, LockType
<1>3. CASE DropRows(t)
  BY <1>3, EndsType
     DEF DropRows, TypeInv, FileTypes, RevisionTypes, AppTypes, HistoryTypes
<1> QED BY <1>1, <1>2, <1>3 DEF Deletion

LEMMA TypeCrash == ASSUME TypeInv, Crash PROVE TypeInv'
<1> USE DEF fileVars, revisionVars, appVars
<1>1. Idle \in Job
  BY IdleOK DEF JobOK
<1>2. JobTypes'
  BY <1>1, IdleOK DEF Crash, JobTypes
<1>3. FileTypes'
  <2>1. ASSUME NEW n \in Numbers, Seeded(n), draft' = artifact[n], candidate' = n PROVE FileTypes'
    <3>1. n \in Nat
      BY DraftsAssumption DEF Numbers
    <3> QED BY <2>1, <3>1 DEF Seeded, TypeInv, RevisionTypes, FileTypes
  <2>2. CASE UNCHANGED fileVars
    BY <2>2 DEF TypeInv, FileTypes
  <2> QED BY <2>1, <2>2 DEF Crash, Restart
<1>4. crashes' \in 0..MaxCrashes
  BY DraftsAssumption DEF Crash, TypeInv, AppTypes
<1>5. HistoryTypes'
  <2>1. {n \in Numbers : \E t \in Clients : Does(t, "insert") /\ job[t].number = n} \subseteq Numbers
    OBVIOUS
  <2>2. candidate \in Nat
    BY DEF TypeInv, FileTypes
  <2> QED BY <2>1, <2>2 DEF Crash, TypeInv, HistoryTypes
<1> QED BY <1>2, <1>3, <1>4, <1>5 DEF Crash, TypeInv, RevisionTypes, AppTypes, LockType

LEMMA TypeStep == TypeInv /\ [Next]_vars => TypeInv'
<1>1. ASSUME TypeInv, UNCHANGED vars PROVE TypeInv'
  <2> USE DEF vars
  <2>1. JobTypes'
    BY <1>1 DEF TypeInv, JobTypes
  <2> QED BY <1>1, <2>1 DEF TypeInv, FileTypes, RevisionTypes, AppTypes, HistoryTypes, LockType
<1> QED BY <1>1, TypeEdit, TypeRevision, TypeDeletion, TypeCrash DEF Next

\* Every variable of Drafts keeps its type: by the step that writes it, a thread has a draft
\* to write, a hash and a commit that are drafts, and a number within bounds.
THEOREM DraftsTypeCorrect == Spec => []TypeOK
<1> QED BY TypeInit, TypeStep, TypeInvImplies, PTL DEF Spec

-----------------------------------------------------------------------------
(* The lock, and being alone.  Edits and builds hold the lock; creates and deletes do not, *)
(* but as long as none of them overlapped another change one thread is at work at a time.  *)

Active(t) == job[t].pc # "idle"
LockHeld == \A t \in Clients : job[t].op \in {"put", "build"} => lock = t
Solo == \A t, u \in Clients : Active(t) /\ Active(u) => t = u

OnlyMoves(t) == \A u \in Clients \ {t} : job'[u] = job[u]

\* What every step of a thread does to the locks: it begins, or it goes on or ends.
Begins(t) ==
    /\ ~Active(t) /\ torn' = (torn \/ Torn(t, job'[t].op))
    /\ \/ job'[t].op \in {"put", "build"} /\ lock = None /\ lock' = t
       \/ job'[t].op \in {"create", "delete"} /\ lock' = lock
Continues(t) ==
    /\ Active(t) /\ (torn' = torn)
    /\ \/ job'[t].op = job[t].op /\ lock' = lock
       \/ job'[t] = Idle /\ lock' = IF lock = t THEN None ELSE lock

LEMMA BeginsSummary ==
    ASSUME TypeInv, NEW t \in Clients, NEW op \in Operations, NEW pc \in Steps, NEW offer, NEW next,
           Starts(t, op, pc, offer, next),
           \/ op \in {"put", "build"} /\ Locks(t)
           \/ op \in {"create", "delete"} /\ lock' = lock
    PROVE  OnlyMoves(t) /\ Begins(t) /\ job'[t].pc = pc /\ job'[t].op = op
<1> DEFINE f == [Idle EXCEPT !.op = op, !.pc = pc, !.offer = offer, !.next = next]
<1>1. f.op = op /\ f.pc = pc
  BY DEF Idle
<1>2. job' = [job EXCEPT ![t] = f]
  BY DEF Starts
<1>3. job'[t] = f /\ OnlyMoves(t)
  BY <1>2 DEF TypeInv, JobTypes, OnlyMoves
<1> QED BY <1>1, <1>3 DEF Starts, Begins, Active, Does, Locks, Free

LEMMA EndsSummary ==
    ASSUME TypeInv, NEW t \in Clients, Active(t), Ends(t), torn' = torn
    PROVE  OnlyMoves(t) /\ Continues(t) /\ job'[t] = Idle
  BY DEF TypeInv, JobTypes, OnlyMoves, Continues, Ends, Unlocked

LEMMA MovesSummary ==
    ASSUME TypeInv, NEW t \in Clients, Active(t), lock' = lock, torn' = torn,
           NEW f, job' = [job EXCEPT ![t] = f], f.op = job[t].op
    PROVE  OnlyMoves(t) /\ Continues(t) /\ job'[t] = f
  BY DEF TypeInv, JobTypes, OnlyMoves, Continues

\* The frame of a thread that goes on.
LEMMA OpKept ==
    ASSUME TypeInv, NEW t \in Clients
    PROVE  /\ \A pc : [job[t] EXCEPT !.pc = pc].op = job[t].op
           /\ [job[t] EXCEPT !.pc = "validate", !.offer = None, !.next = 0].op = job[t].op
           /\ \A d : [job[t] EXCEPT !.pc = "smoke", !.seen = d].op = job[t].op
           /\ [job[t] EXCEPT !.pc = "snapshot", !.seen = None].op = job[t].op
           /\ \A n, d : [job[t] EXCEPT !.pc = "tag", !.number = n, !.hash = d].op = job[t].op
           /\ \A d : [job[t] EXCEPT !.pc = "insert", !.commit = d].op = job[t].op
  BY DEF TypeInv, JobTypes, Job

StepOf(t) == Edit(t) \/ Validation(t) \/ Revision(t) \/ Deletion(t)

LEMMA Summary == ASSUME TypeInv, NEW t \in Clients, StepOf(t) PROVE OnlyMoves(t) /\ (Begins(t) \/ Continues(t))
<1> USE DEF appVars
<1>1. CASE \E d \in Offers : Put(t, d)
  BY <1>1, BeginsSummary DEF Put, Operations, Steps
<1>2. CASE \E d \in Offers : Patch(t, d.source)
  BY <1>2, BeginsSummary DEF Patch, Operations, Steps
<1>3. CASE Build(t)
  BY <1>3, BeginsSummary DEF Build, Operations, Steps
<1>4. CASE \E d \in Offers : BuildBundle(t, d)
  BY <1>4, BeginsSummary DEF BuildBundle, Operations, Steps
<1>5. CASE \E d \in Offers : Create(t, d)
  BY <1>5, BeginsSummary DEF Create, Operations, Steps
<1>6. CASE Delete(t)
  BY <1>6, BeginsSummary DEF Delete, Operations, Steps
<1>7. CASE LeftHalfWritten(t) \/ InsertApp(t) \/ DropRows(t)
  BY <1>7, EndsSummary DEF LeftHalfWritten, InsertApp, DropRows, Active, Does
<1>8. CASE Fail(t)
  BY <1>8, EndsSummary DEF Fail, Fails, MayFail, Active
<1>9. CASE WriteSource(t) \/ WriteRequirements(t) \/ DropGit(t)
  <2>1. PICK pc : job' = [job EXCEPT ![t] = [job[t] EXCEPT !.pc = pc]]
    BY <1>9 DEF WriteSource, WriteRequirements, DropGit, Goto
  <2> QED BY <1>9, <2>1, OpKept, MovesSummary DEF WriteSource, WriteRequirements, DropGit, Active, Does
<1>10. CASE NameEdit(t)
  <2>1. CASE Ends(t)
    BY <1>10, <2>1, EndsSummary DEF NameEdit, Active, Does
  <2>2. CASE ~Ends(t)
    <3> DEFINE f == [job[t] EXCEPT !.pc = "validate", !.offer = None, !.next = 0]
    <3>1. f.op = job[t].op /\ job' = [job EXCEPT ![t] = f]
      BY <1>10, <2>2, OpKept DEF NameEdit
    <3> HIDE DEF f
    <3> QED BY <1>10, <2>2, <3>1, MovesSummary DEF NameEdit, Active, Does
  <2> QED BY <2>1, <2>2
<1>11. CASE ReadDraft(t) \/ SmokePasses(t) \/ TagRevision(t)
  <2>1. CASE ReadDraft(t)
    <3> DEFINE f == [job[t] EXCEPT !.pc = "smoke", !.seen = draft]
    <3>1. f.op = job[t].op /\ job' = [job EXCEPT ![t] = f]
      BY <2>1, OpKept DEF ReadDraft
    <3> HIDE DEF f
    <3> QED BY <2>1, <3>1, MovesSummary DEF ReadDraft, Active, Does
  <2>2. CASE SmokePasses(t)
    <3> DEFINE f == [job[t] EXCEPT !.pc = "snapshot", !.seen = None]
    <3>1. f.op = job[t].op /\ job' = [job EXCEPT ![t] = f]
      BY <2>2, OpKept DEF SmokePasses
    <3> HIDE DEF f
    <3> QED BY <2>2, <3>1, MovesSummary DEF SmokePasses, Active, Does
  <2>3. CASE TagRevision(t)
    <3> DEFINE f == [job[t] EXCEPT !.pc = "insert", !.commit = draft]
    <3>1. f.op = job[t].op /\ job' = [job EXCEPT ![t] = f]
      BY <2>3, OpKept DEF TagRevision
    <3> HIDE DEF f
    <3> QED BY <2>3, <3>1, MovesSummary DEF TagRevision, Active, Does
  <2> QED BY <1>11, <2>1, <2>2, <2>3
<1>12. CASE Snapshot(t)
  <2>1. PICK n \in Numbers : job' = [job EXCEPT ![t] = [job[t] EXCEPT !.pc = "tag", !.number = n, !.hash = draft]]
    BY <1>12 DEF Snapshot, NextNumber
  <2> DEFINE f == [job[t] EXCEPT !.pc = "tag", !.number = n, !.hash = draft]
  <2>2. f.op = job[t].op /\ job' = [job EXCEPT ![t] = f]
    BY <2>1, OpKept
  <2> HIDE DEF f
  <2> QED BY <1>12, <2>2, MovesSummary DEF Snapshot, Active, Does
<1>13. CASE InsertRow(t)
  <2>1. CASE job[t].op = "create"
    <3>1. [Idle EXCEPT !.op = "create", !.pc = "insertApp"].op = "create"
      BY DEF Idle
    <3> QED BY <1>13, <2>1, <3>1, MovesSummary DEF InsertRow, Active, Does
  <2>2. CASE job[t].op # "create"
    BY <1>13, <2>2, EndsSummary DEF InsertRow, Active, Does
  <2> QED BY <2>1, <2>2
<1> QED BY <1>1, <1>2, <1>3, <1>4, <1>5, <1>6, <1>7, <1>8, <1>9, <1>10, <1>11, <1>12, <1>13
    DEF StepOf, Edit, Validation, Revision, Deletion

LEMMA LockStep ==
    ASSUME TypeInv, LockHeld, NEW t \in Clients, OnlyMoves(t), Begins(t) \/ Continues(t)
    PROVE  LockHeld'
<1> SUFFICES ASSUME NEW u \in Clients, job'[u].op \in {"put", "build"} PROVE lock' = u
  BY DEF LockHeld
<1>0. None \notin Clients
  BY DraftsAssumption
<1>1. CASE Begins(t)
  <2>1. CASE u = t
    BY <1>1, <2>1 DEF Begins
  <2>2. CASE u # t
    BY <1>0, <1>1, <2>2 DEF Begins, OnlyMoves, LockHeld
  <2> QED BY <2>1, <2>2
<1>2. CASE Continues(t)
  <2>1. CASE u = t
    BY <1>2, <2>1, IdleOK DEF Continues, LockHeld
  <2>2. CASE u # t
    BY <1>0, <1>2, <2>2 DEF Continues, OnlyMoves, LockHeld
  <2> QED BY <2>1, <2>2
<1> QED BY <1>1, <1>2

\* Nobody but t is at work, before and after its step.
Alone(t) == \A u \in Clients \ {t} : job[u].pc = "idle" /\ job'[u] = job[u]

LEMMA AloneStep ==
    ASSUME TypeInv, LockHeld, NEW t \in Clients, OnlyMoves(t), Begins(t) \/ Continues(t), Solo, ~torn'
    PROVE  Alone(t) /\ Solo' /\ ~torn
<1>0. ASSUME NEW u \in Clients PROVE JobOK(job[u]) /\ job[u].op \in Operations
  BY DEF TypeInv, JobTypes, JobOK, Job
<1>1. Alone(t) /\ ~torn
  <2>1. CASE Begins(t)
    <3>1. ASSUME NEW u \in Clients \ {t}, job[u].pc # "idle" PROVE FALSE
      <4>1. ~Torn(t, job'[t].op)
        BY <2>1 DEF Begins
      <4>2. job'[t].op \notin {"create", "delete"} /\ job[u].op \notin {"create", "delete"}
        BY <3>1, <4>1 DEF Torn, Does
      <4>3. lock = None
        BY <2>1, <4>2 DEF Begins
      <4>4. job[u].op \in {"put", "build"}
        BY <1>0, <3>1, <4>2 DEF JobOK, Operations
      <4> QED BY <4>3, <4>4, DraftsAssumption DEF LockHeld
    <3> QED BY <2>1, <3>1 DEF Alone, OnlyMoves, Begins
  <2>2. CASE Continues(t)
    BY <2>2 DEF Continues, Active, Solo, Alone, OnlyMoves
  <2> QED BY <2>1, <2>2
<1>2. Solo'
  BY <1>1 DEF Alone, Solo, Active
<1> QED BY <1>1, <1>2

-----------------------------------------------------------------------------
(* One source *)

\* Row n of the registry, its artifact, its commit and its tag are one checked draft.
GoodRow(n) ==
    /\ artifact[n] = row[n].hash
    /\ row[n].commit = row[n].hash
    /\ ~Faulty(row[n].hash, Checks)
    /\ tag[n] = row[n].commit \/ n \in cut

Rows == (exists \/ \E t \in Clients : Does(t, "insertApp")) /\ ~Deleting =>
            \A n \in Numbers : row[n] # None => GoodRow(n)

\* An app that is not registered has at most the row of a creation that was cut off.
Absent == ~exists => \A n \in Numbers : n # 1 => row[n] = None

\* A tag without a row is that of a failed build, or of one that is about to insert its row.
Tagged == \A n \in Numbers : tag[n] # None =>
              row[n] # None \/ n \in cut \/ \E t \in Clients : Does(t, "insert") /\ job[t].number = n

\* What a thread knows at each step of a build or create.
KnowsApp(t) ==
    /\ job[t].op = "create" /\ job[t].pc \in Building \cup {"insertApp"} => ~exists
    /\ job[t].op \in {"build", "delete"} => exists
KnowsDraft(t) ==
    /\ Does(t, "smoke") => job[t].seen = draft
    /\ Does(t, "snapshot") => draft = None \/ ~Faulty(draft, Checks)
    /\ Does(t, "tag") => job[t].hash = draft
KnowsNumber(t) ==
    job[t].pc \in {"tag", "insert"} =>
        /\ job[t].number \in NextNumber(t)
        /\ artifact[job[t].number] = job[t].hash
        /\ ~Faulty(job[t].hash, Checks)
KnowsCommit(t) ==
    Does(t, "insert") =>
        /\ job[t].commit = job[t].hash
        /\ tag[job[t].number] = job[t].commit \/ job[t].number \in cut \/ row[job[t].number] # None
KnowsTags(t) == Does(t, "dropRows") => \A n \in Numbers : tag[n] = None
Knows(t) == KnowsApp(t) /\ KnowsDraft(t) /\ KnowsNumber(t) /\ KnowsCommit(t) /\ KnowsTags(t)

Facts == Rows /\ Absent /\ Tagged /\ \A t \in Clients : Knows(t)

\* A thread that rests knows nothing that could become false.
LEMMA IdleKnows ==
    ASSUME NEW u \in Clients, JobOK(job[u]), job[u].pc = "idle"
    PROVE  Knows(u)
  BY DEF JobOK, Knows, KnowsApp, KnowsDraft, KnowsNumber, KnowsCommit, KnowsTags, Does

LEMMA OthersKnow ==
    ASSUME TypeInv', NEW t \in Clients, Alone(t), Knows(t)'
    PROVE  \A u \in Clients : Knows(u)'
<1>1. ASSUME NEW u \in Clients, u # t PROVE Knows(u)'
  <2>1. JobOK(job[u])' /\ job'[u].pc = "idle"
    BY <1>1 DEF TypeInv, JobTypes, Alone
  <2> QED BY <2>1 DEF JobOK, Knows, KnowsApp, KnowsDraft, KnowsNumber, KnowsCommit, KnowsTags, Does
<1> QED BY <1>1

\* No step but that of t.
LEMMA OnlyMine ==
    ASSUME NEW t \in Clients, Alone(t)
    PROVE  /\ \A u \in Clients : job[u].pc # "idle" => u = t
           /\ \A u \in Clients : job'[u].pc # "idle" => u = t
  BY DEF Alone

\* A step of t that leaves rows, artifacts, tags and registration alone.
LEMMA RowsStay ==
    ASSUME NEW t \in Clients, Alone(t), Facts,
           UNCHANGED <<exists, row, artifact, tag>>, cut \subseteq cut',
           job[t].pc # "dropRows", job'[t].pc # "insertApp",
           job[t].pc = "insert" => job[t].number \in cut'
    PROVE  (Rows /\ Absent /\ Tagged)'
<1>1. Absent'
  BY DEF Facts, Absent
<1>2. Tagged'
  <2>1. ASSUME NEW n \in Numbers, tag[n] # None
        PROVE  row[n] # None \/ n \in cut'
    <3>1. CASE \E u \in Clients : Does(u, "insert") /\ job[u].number = n
      BY <3>1, OnlyMine DEF Does
    <3> QED BY <2>1, <3>1 DEF Facts, Tagged
  <2> QED BY <2>1 DEF Tagged
<1>3. Rows'
  <2>1. ~Deleting
    BY OnlyMine DEF Deleting, Does
  <2>2. ~\E u \in Clients : Does(u, "insertApp")'
    BY OnlyMine DEF Does
  <2>3. exists => \A n \in Numbers : row[n] # None => GoodRow(n)
    BY <2>1 DEF Facts, Rows
  <2> QED BY <2>2, <2>3 DEF Rows, GoodRow
<1> QED BY <1>1, <1>2, <1>3

LEMMA ChecksTogether ==
    ASSUME NEW d, ~Faulty(d, Static), ~Faulty(d, {"syntax", "imports", "callbacks"})
    PROVE  ~Faulty(d, Checks)
  BY DEF Faulty, Static, Checks

LEMMA NumberIsNew ==
    ASSUME TypeInv, NEW t \in Clients, NEW n \in NextNumber(t)
    PROVE  /\ n \in Numbers
           /\ \A m \in NextNumber(t) : m = n
           /\ job[t].op = "create" => n = 1
           /\ job[t].op # "create" => row[n] = None
<1>1. \A m \in NextNumber(t) : m \in Numbers /\ m \in Int
  BY DraftsAssumption DEF NextNumber, Numbers
<1>2. CASE job[t].op = "create"
  BY <1>1, <1>2 DEF NextNumber
<1>3. CASE job[t].op # "create"
  <2>1. ASSUME NEW m \in NextNumber(t) PROVE (m - 1 = 0 \/ row[m - 1] # None) /\ \A k \in Numbers : row[k] # None => k <= m - 1
    BY <1>3 DEF NextNumber, IsLast
  <2>2. row[n] = None
    BY <1>1, <2>1
  <2>3. ASSUME NEW m \in NextNumber(t), NEW k \in NextNumber(t) PROVE ~(k < m)
    <3>1. SUFFICES ASSUME k < m PROVE FALSE
      OBVIOUS
    <3>2. m - 1 \in Numbers /\ k \in Numbers /\ m \in Int /\ k \in Int
      BY <1>1, <3>1, DraftsAssumption DEF Numbers
    <3>3. row[m - 1] # None
      BY <2>1, <3>1, <3>2, DraftsAssumption DEF Numbers
    <3>4. m - 1 <= k - 1
      BY <2>1, <3>2, <3>3
    <3> QED BY <3>1, <3>2, <3>4
  <2>4. \A m \in NextNumber(t) : m = n
    BY <1>1, <2>3
  <2> QED BY <1>1, <1>3, <2>2, <2>4
<1> QED BY <1>2, <1>3

\* Edits, requests that begin, and errors: the rows stay, and the thread knows no more than
\* whether its app is there.
LEMMA QuietKnows ==
    ASSUME NEW t \in Clients,
           job'[t].pc \in Editing \cup {"idle", "validate", "dropGit"},
           job'[t].pc = "validate" /\ job'[t].op = "create" => ~exists',
           job'[t].op \in {"build", "delete"} => exists'
    PROVE  Knows(t)'
  BY DEF Knows, KnowsApp, KnowsDraft, KnowsNumber, KnowsCommit, KnowsTags, Does, Editing, Building

LEMMA FactsBegin ==
    ASSUME TypeInv, TypeInv', Facts, NEW t \in Clients, Alone(t),
           NEW op \in Operations, NEW pc \in {"source", "name", "validate", "dropGit"}, NEW offer, NEW next,
           Starts(t, op, pc, offer, next),
           op \in {"put", "build", "create", "delete"}, op \in {"build", "delete"} => exists,
           pc = "validate" => op = "build",
           UNCHANGED <<exists, row, artifact, tag, cut>>
    PROVE  Facts'
<1>1. job[t].pc = "idle" /\ job'[t].pc = pc /\ job'[t].op = op
  <2> DEFINE f == [Idle EXCEPT !.op = op, !.pc = pc, !.offer = offer, !.next = next]
  <2>1. f.op = op /\ f.pc = pc
    BY DEF Idle
  <2>2. job' = [job EXCEPT ![t] = f]
    BY DEF Starts
  <2> QED BY <2>1, <2>2 DEF Starts, Does, TypeInv, JobTypes
<1>2. (Rows /\ Absent /\ Tagged)'
  BY <1>1, RowsStay
<1>3. Knows(t)'
  BY <1>1, QuietKnows DEF Editing
<1> QED BY <1>2, <1>3, OthersKnow DEF Facts

LEMMA FactsEnd ==
    ASSUME TypeInv, TypeInv', Facts, NEW t \in Clients, Alone(t), Ends(t),
           UNCHANGED <<exists, row, artifact, tag>>, cut \subseteq cut',
           job[t].pc # "dropRows", job[t].pc = "insert" => job[t].number \in cut'
    PROVE  Facts'
<1>1. job'[t].pc = "idle" /\ job'[t].op = "none"
  BY IdleOK DEF Ends, TypeInv, JobTypes
<1>2. (Rows /\ Absent /\ Tagged)'
  BY <1>1, RowsStay
<1>3. Knows(t)'
  BY <1>1, QuietKnows
<1> QED BY <1>2, <1>3, OthersKnow DEF Facts

LEMMA FactsEdit ==
    ASSUME TypeInv, TypeInv', Facts, NEW t \in Clients, Alone(t), Edit(t)
    PROVE  Facts'
<1> USE DEF fileVars, revisionVars, appVars
<1>0. JobOK(job[t]) /\ Knows(t)
  BY DEF TypeInv, JobTypes, Facts
<1>1. CASE \E d \in Offers : Put(t, d) \/ Patch(t, d.source)
  BY <1>1, FactsBegin DEF Put, Patch, Operations
<1>2. CASE WriteSource(t) \/ WriteRequirements(t)
  <2>1. /\ job'[t].pc \in Editing /\ job'[t].op = job[t].op
        /\ job[t].pc \in Editing
    <3>1. PICK pc \in Editing : job' = [job EXCEPT ![t] = [job[t] EXCEPT !.pc = pc]]
      BY <1>2 DEF WriteSource, WriteRequirements, Goto, Editing
    <3>2. job'[t] = [job[t] EXCEPT !.pc = pc] /\ job[t] \in Job
      BY <3>1 DEF TypeInv, JobTypes
    <3>3. [job[t] EXCEPT !.pc = pc].pc = pc /\ [job[t] EXCEPT !.pc = pc].op = job[t].op
      BY <3>2 DEF Job
    <3> QED BY <1>2, <3>2, <3>3 DEF WriteSource, WriteRequirements, Does, Editing
  <2>2. UNCHANGED <<exists, row, artifact, tag, cut>>
    BY <1>2 DEF WriteSource, WriteRequirements
  <2>3. (Rows /\ Absent /\ Tagged)'
    BY <2>1, <2>2, RowsStay DEF Editing
  <2>4. Knows(t)'
    BY <1>0, <2>1, <2>2, QuietKnows DEF Knows, KnowsApp, Editing
  <2> QED BY <2>3, <2>4, OthersKnow DEF Facts
<1>3. CASE LeftHalfWritten(t)
  BY <1>3, FactsEnd DEF LeftHalfWritten, Does
<1>4. CASE NameEdit(t)
  <2>1. CASE Ends(t)
    BY <1>4, <2>1, FactsEnd DEF NameEdit, Does
  <2>2. CASE ~Ends(t)
    <3> DEFINE f == [job[t] EXCEPT !.pc = "validate", !.offer = None, !.next = 0]
    <3>1. job' = [job EXCEPT ![t] = f] /\ ~(job[t].op = "put" \/ (job[t].op = "create" /\ exists))
      BY <1>4, <2>2 DEF NameEdit
    <3>2. job'[t] = f /\ f.pc = "validate" /\ f.op = job[t].op
      BY <3>1 DEF TypeInv, JobTypes, Job
    <3> HIDE DEF f
    <3>3. UNCHANGED <<exists, row, artifact, tag, cut>> /\ job[t].pc = "name"
      BY <1>4 DEF NameEdit, Does
    <3>4. (Rows /\ Absent /\ Tagged)'
      BY <3>2, <3>3, RowsStay
    <3>5. Knows(t)'
      BY <1>0, <3>1, <3>2, <3>3, QuietKnows DEF Knows, KnowsApp
    <3> QED BY <3>4, <3>5, OthersKnow DEF Facts
  <2> QED BY <2>1, <2>2
<1> QED BY <1>1, <1>2, <1>3, <1>4 DEF Edit

LEMMA FactsValidation ==
    ASSUME TypeInv, TypeInv', Facts, NEW t \in Clients, Alone(t), Validation(t)
    PROVE  Facts'
<1> USE DEF fileVars, revisionVars, appVars
<1>0. Knows(t) /\ job[t] \in Job
  BY DEF Facts, TypeInv, JobTypes
<1>1. CASE ReadDraft(t)
  <2> DEFINE f == [job[t] EXCEPT !.pc = "smoke", !.seen = draft]
  <2>1. job'[t] = f
    BY <1>1 DEF ReadDraft, TypeInv, JobTypes
  <2>2. f.pc = "smoke" /\ f.op = job[t].op /\ f.seen = draft
    BY <1>0 DEF Job
  <2> HIDE DEF f
  <2>3. UNCHANGED <<exists, row, artifact, tag, cut, draft>> /\ job[t].pc = "validate"
    BY <1>1 DEF ReadDraft, Does
  <2>4. (Rows /\ Absent /\ Tagged)'
    BY <2>1, <2>2, <2>3, RowsStay
  <2>5. Knows(t)'
    BY <1>0, <2>1, <2>2, <2>3
       DEF Knows, KnowsApp, KnowsDraft, KnowsNumber, KnowsCommit, KnowsTags, Does, Building
  <2> QED BY <2>4, <2>5, OthersKnow DEF Facts
<1>2. CASE SmokePasses(t)
  <2> DEFINE f == [job[t] EXCEPT !.pc = "snapshot", !.seen = None]
  <2>1. job'[t] = f
    BY <1>2 DEF SmokePasses, TypeInv, JobTypes
  <2>2. f.pc = "snapshot" /\ f.op = job[t].op
    BY <1>0 DEF Job
  <2> HIDE DEF f
  <2>3. UNCHANGED <<exists, row, artifact, tag, cut, draft>> /\ job[t].pc = "smoke"
    BY <1>2 DEF SmokePasses, Does
  <2>4. (Rows /\ Absent /\ Tagged)'
    BY <2>1, <2>2, <2>3, RowsStay
  <2>5. ~Faulty(draft, Checks)
    BY <1>0, <1>2, <2>3, ChecksTogether DEF SmokePasses, Passes, Knows, KnowsDraft, Does
  <2>6. KnowsDraft(t)'
    BY <2>1, <2>2, <2>3, <2>5 DEF KnowsDraft, Does, Faulty
  <2>7. Knows(t)'
    BY <1>0, <2>1, <2>2, <2>3, <2>6
       DEF Knows, KnowsApp, KnowsNumber, KnowsCommit, KnowsTags, Does, Building
  <2> QED BY <2>4, <2>7, OthersKnow DEF Facts
<1> QED BY <1>1, <1>2 DEF Validation

LEMMA FactsDeletion ==
    ASSUME TypeInv, TypeInv', Facts, NEW t \in Clients, Alone(t), Deletion(t)
    PROVE  Facts'
<1> USE DEF fileVars, revisionVars, appVars
<1>0. Knows(t) /\ job[t] \in Job
  BY DEF Facts, TypeInv, JobTypes
<1>1. CASE Delete(t)
  BY <1>1, FactsBegin DEF Delete, Operations
<1>2. CASE DropGit(t)
  <2> DEFINE f == [job[t] EXCEPT !.pc = "dropRows"]
  <2>1. job'[t] = f
    BY <1>2 DEF DropGit, Goto, TypeInv, JobTypes
  <2>2. f.pc = "dropRows" /\ f.op = job[t].op
    BY <1>0 DEF Job
  <2> HIDE DEF f
  <2>3. UNCHANGED <<exists, row>> /\ \A n \in Numbers : tag'[n] = None
    BY <1>2 DEF DropGit
  <2>4. Absent' /\ Tagged' /\ Rows'
    BY <2>1, <2>2, <2>3 DEF Facts, Absent, Tagged, Rows, Deleting, Does
  <2>5. Knows(t)'
    BY <1>0, <2>1, <2>2, <2>3
       DEF Knows, KnowsApp, KnowsDraft, KnowsNumber, KnowsCommit, KnowsTags, Does, Building
  <2> QED BY <2>4, <2>5, OthersKnow DEF Facts
<1>3. CASE DropRows(t)
  <2>1. job'[t] = Idle
    BY <1>3 DEF DropRows, Ends, TypeInv, JobTypes
  <2>2. \A n \in Numbers : row'[n] = None /\ tag'[n] = None
    BY <1>0, <1>3 DEF DropRows, Knows, KnowsTags
  <2>3. Absent' /\ Tagged' /\ Rows'
    BY <2>2 DEF Absent, Tagged, Rows
  <2>4. Knows(t)'
    BY <2>1, IdleOK, QuietKnows
  <2> QED BY <2>3, <2>4, OthersKnow DEF Facts
<1> QED BY <1>1, <1>2, <1>3 DEF Deletion

LEMMA FactsSnapshot ==
    ASSUME TypeInv, TypeInv', Facts, NEW t \in Clients, Alone(t), Snapshot(t)
    PROVE  Facts'
<1> USE DEF fileVars, revisionVars, appVars
<1>0. Knows(t) /\ job[t] \in Job /\ JobOK(job[t]) /\ job[t].pc = "snapshot" /\ draft # None
  BY DEF Facts, TypeInv, JobTypes, Snapshot, Does
<1>1. PICK n \in NextNumber(t) : /\ artifact' = [artifact EXCEPT ![n] = draft]
                                 /\ job' = [job EXCEPT ![t] = [job[t] EXCEPT !.pc = "tag", !.number = n, !.hash = draft]]
  BY DEF Snapshot
<1> DEFINE f == [job[t] EXCEPT !.pc = "tag", !.number = n, !.hash = draft]
<1>2. job'[t] = f
  BY <1>1 DEF TypeInv, JobTypes
<1>3. f.pc = "tag" /\ f.op = job[t].op /\ f.number = n /\ f.hash = draft
  BY <1>0 DEF Job
<1> HIDE DEF f
<1>4. UNCHANGED <<exists, row, tag, cut, draft>>
  BY DEF Snapshot
<1>5. n \in Numbers /\ artifact'[n] = draft /\ \A m \in Numbers \ {n} : artifact'[m] = artifact[m]
  BY <1>1, NumberIsNew DEF TypeInv, RevisionTypes
<1>6. Absent'
  BY <1>4 DEF Facts, Absent
<1>7. Tagged'
  <2>1. ASSUME NEW m \in Numbers, tag[m] # None PROVE row[m] # None \/ m \in cut
    BY <1>0, <2>1, OnlyMine DEF Facts, Tagged, Does
  <2> QED BY <1>4, <2>1 DEF Tagged
<1>8. Rows'
  <2>1. CASE job[t].op = "create"
    <3>1. ~exists
      BY <1>0, <2>1 DEF Knows, KnowsApp, Building
    <3>2. \A u \in Clients : job'[u].pc # "insertApp"
      BY <1>2, <1>3, OnlyMine
    <3> QED BY <1>4, <3>1, <3>2 DEF Rows, Does
  <2>2. CASE job[t].op # "create"
    <3>1. row[n] = None
      BY <2>2, NumberIsNew
    <3>2. exists
      BY <1>0, <2>2 DEF JobOK, Building, Knows, KnowsApp
    <3>3. ~Deleting
      BY <1>0, OnlyMine DEF Deleting, Does
    <3>4. \A m \in Numbers : row[m] # None => GoodRow(m)
      BY <3>2, <3>3 DEF Facts, Rows
    <3>5. ASSUME NEW m \in Numbers, row[m] # None PROVE GoodRow(m)'
      BY <1>4, <1>5, <3>1, <3>4, <3>5 DEF GoodRow, Faulty
    <3> QED BY <1>4, <3>5 DEF Rows
  <2> QED BY <2>1, <2>2
<1>9. Knows(t)'
  <2>1. NextNumber(t)' = NextNumber(t)
    BY <1>2, <1>3, <1>4 DEF NextNumber, IsLast
  <2>2. ~Faulty(draft, Checks)
    BY <1>0 DEF Knows, KnowsDraft, Does
  <2>3. KnowsNumber(t)'
    <3>1. ~Faulty(draft, Checks)'
      BY <1>4, <2>2 DEF Faulty
    <3> QED BY <1>2, <1>3, <1>4, <1>5, <2>1, <2>2, <3>1 DEF KnowsNumber, Faulty
  <2>4. KnowsApp(t)'
    BY <1>0, <1>2, <1>3, <1>4 DEF Knows, KnowsApp, Building
  <2>5. KnowsDraft(t)' /\ KnowsCommit(t)' /\ KnowsTags(t)'
    BY <1>2, <1>3, <1>4 DEF KnowsDraft, KnowsCommit, KnowsTags, Does
  <2> QED BY <2>3, <2>4, <2>5 DEF Knows
<1> QED BY <1>6, <1>7, <1>8, <1>9, OthersKnow DEF Facts

LEMMA FactsTag ==
    ASSUME TypeInv, TypeInv', Facts, NEW t \in Clients, Alone(t), TagRevision(t)
    PROVE  Facts'
<1> USE DEF fileVars, revisionVars, appVars
<1>0. Knows(t) /\ job[t] \in Job /\ JobOK(job[t]) /\ job[t].pc = "tag" /\ draft # None
  BY DEF Facts, TypeInv, JobTypes, TagRevision, Does
<1> DEFINE f == [job[t] EXCEPT !.pc = "insert", !.commit = draft]
<1> DEFINE n == job[t].number
<1>2. job'[t] = f
  BY DEF TagRevision, TypeInv, JobTypes
<1>3. f.pc = "insert" /\ f.op = job[t].op /\ f.number = n /\ f.hash = job[t].hash /\ f.commit = draft
  BY <1>0 DEF Job
<1> HIDE DEF f
<1>4. UNCHANGED <<exists, row, artifact, cut, draft>>
  BY DEF TagRevision
<1>5. /\ n \in Numbers /\ n \in NextNumber(t)
      /\ tag'[n] = (IF tag[n] = None THEN draft ELSE tag[n])
      /\ \A m \in Numbers \ {n} : tag'[m] = tag[m]
  BY <1>0 DEF TagRevision, TypeInv, RevisionTypes, JobOK, Knows, KnowsNumber
<1>6. Absent'
  BY <1>4 DEF Facts, Absent
<1>7. \A m \in Numbers : tag[m] # None => row[m] # None \/ m \in cut
  BY <1>0, OnlyMine DEF Facts, Tagged, Does
<1>8. Tagged'
  <2>1. ASSUME NEW m \in Numbers, tag'[m] # None PROVE row[m] # None \/ m \in cut \/ m = n
    BY <1>5, <1>7, <2>1
  <2>2. Does(t, "insert")' /\ job'[t].number = n
    BY <1>2, <1>3 DEF Does
  <2> HIDE DEF n
  <2> QED BY <1>4, <2>1, <2>2 DEF Tagged
<1>9. Rows'
  <2>1. CASE job[t].op = "create"
    <3>1. ~exists
      BY <1>0, <2>1 DEF Knows, KnowsApp, Building
    <3>2. \A u \in Clients : job'[u].pc # "insertApp"
      BY <1>2, <1>3, OnlyMine
    <3> QED BY <1>4, <3>1, <3>2 DEF Rows, Does
  <2>2. CASE job[t].op # "create"
    <3>1. row[n] = None
      BY <1>5, <2>2, NumberIsNew
    <3>2. exists
      BY <1>0, <2>2 DEF JobOK, Building, Knows, KnowsApp
    <3>3. ~Deleting
      BY <1>0, OnlyMine DEF Deleting, Does
    <3>4. \A m \in Numbers : row[m] # None => GoodRow(m)
      BY <3>2, <3>3 DEF Facts, Rows
    <3>5. ASSUME NEW m \in Numbers, row[m] # None PROVE GoodRow(m)'
      BY <1>4, <1>5, <3>1, <3>4, <3>5 DEF GoodRow, Faulty
    <3> QED BY <1>4, <3>5 DEF Rows
  <2> QED BY <2>1, <2>2
<1>10. Knows(t)'
  <2>1. NextNumber(t)' = NextNumber(t)
    BY <1>2, <1>3, <1>4 DEF NextNumber, IsLast
  <2>2. job[t].hash = draft /\ artifact[n] = job[t].hash /\ ~Faulty(job[t].hash, Checks)
    BY <1>0 DEF Knows, KnowsDraft, KnowsNumber, Does
  <2>3. KnowsNumber(t)'
    BY <1>2, <1>3, <1>4, <1>5, <2>1, <2>2 DEF KnowsNumber, Faulty
  <2>4. KnowsCommit(t)'
    <3>1. tag'[n] = draft \/ n \in cut \/ row[n] # None
      BY <1>5, <1>7
    <3> QED BY <1>2, <1>3, <1>4, <2>2, <3>1 DEF KnowsCommit
  <2>5. KnowsApp(t)'
    BY <1>0, <1>2, <1>3, <1>4 DEF Knows, KnowsApp, Building
  <2>6. KnowsDraft(t)' /\ KnowsTags(t)'
    BY <1>2, <1>3 DEF KnowsDraft, KnowsTags, Does
  <2> QED BY <2>3, <2>4, <2>5, <2>6 DEF Knows
<1> QED BY <1>6, <1>8, <1>9, <1>10, OthersKnow DEF Facts

LEMMA FactsInsertRow ==
    ASSUME TypeInv, TypeInv', Facts, NEW t \in Clients, Alone(t), InsertRow(t)
    PROVE  Facts'
<1> USE DEF fileVars, revisionVars, appVars
<1>0. Knows(t) /\ job[t] \in Job /\ JobOK(job[t]) /\ job[t].pc = "insert"
  BY DEF Facts, TypeInv, JobTypes, InsertRow, Does
<1>1. PICK n \in NextNumber(t) : row[n] = None /\ row' = [row EXCEPT ![n] = NewRow(t)]
  BY DEF InsertRow
<1>2. /\ n \in Numbers /\ n = job[t].number /\ row'[n] = NewRow(t)
      /\ \A m \in Numbers \ {n} : row'[m] = row[m]
  BY <1>0, <1>1, NumberIsNew DEF Knows, KnowsNumber, TypeInv, RevisionTypes
<1>3. UNCHANGED <<exists, artifact, tag, cut, draft>>
  BY DEF InsertRow
<1>4. NewRow(t) # None
  <2>1. NewRow(t) \in Row
    BY <1>0 DEF JobOK, NewRow, Row, TypeInv, FileTypes
  <2> QED BY <2>1, DraftsAssumption
<1>5. GoodRow(n)'
  <2>1. row'[n].hash = job[t].hash /\ row'[n].commit = job[t].commit
    BY <1>2 DEF NewRow
  <2>2. /\ artifact[n] = job[t].hash /\ ~Faulty(job[t].hash, Checks) /\ job[t].commit = job[t].hash
        /\ tag[n] = job[t].commit \/ n \in cut
    BY <1>0, <1>1, <1>2 DEF Knows, KnowsNumber, KnowsCommit, Does
  <2> QED BY <1>3, <2>1, <2>2 DEF GoodRow, Faulty
<1>6. Tagged'
  <2>1. ASSUME NEW m \in Numbers, tag[m] # None PROVE row'[m] # None \/ m \in cut
    <3>1. row[m] # None \/ m \in cut \/ m = n
      BY <1>0, <1>2, <2>1, OnlyMine DEF Facts, Tagged, Does
    <3> QED BY <1>1, <1>2, <1>4, <3>1
  <2> QED BY <1>3, <2>1 DEF Tagged
<1>7. CASE job[t].op = "create"
  <2> DEFINE f == [Idle EXCEPT !.op = "create", !.pc = "insertApp"]
  <2>1. job'[t] = f
    BY <1>7 DEF InsertRow, TypeInv, JobTypes
  <2>2. f.pc = "insertApp" /\ f.op = "create"
    BY DEF Idle
  <2> HIDE DEF f
  <2>3. ~exists /\ n = 1
    BY <1>0, <1>7, NumberIsNew DEF Knows, KnowsApp, Building
  <2>4. \A m \in Numbers : m # n => row'[m] = None
    BY <1>2, <2>3 DEF Facts, Absent
  <2>5. Absent' /\ Rows'
    BY <1>5, <2>3, <2>4 DEF Absent, Rows
  <2>6. Knows(t)'
    BY <1>3, <2>1, <2>2, <2>3
       DEF Knows, KnowsApp, KnowsDraft, KnowsNumber, KnowsCommit, KnowsTags, Does
  <2> QED BY <1>6, <2>5, <2>6, OthersKnow DEF Facts
<1>8. CASE job[t].op # "create"
  <2>1. job'[t] = Idle
    BY <1>8 DEF InsertRow, Ends, TypeInv, JobTypes
  <2>2. exists
    BY <1>0, <1>8 DEF JobOK, Building, Knows, KnowsApp
  <2>3. ~Deleting
    BY <1>0, OnlyMine DEF Deleting, Does
  <2>4. \A m \in Numbers : row[m] # None => GoodRow(m)
    BY <2>2, <2>3 DEF Facts, Rows
  <2>5. ASSUME NEW m \in Numbers, row'[m] # None PROVE GoodRow(m)'
    <3>1. CASE m = n
      BY <1>5, <3>1
    <3>2. CASE m # n
      BY <1>2, <1>3, <2>4, <2>5, <3>2 DEF GoodRow, Faulty
    <3> QED BY <3>1, <3>2
  <2>6. Absent' /\ Rows'
    BY <1>3, <2>2, <2>5 DEF Absent, Rows
  <2>7. Knows(t)'
    BY <2>1, IdleOK, QuietKnows
  <2> QED BY <1>6, <2>6, <2>7, OthersKnow DEF Facts
<1> QED BY <1>7, <1>8

LEMMA FactsRevision ==
    ASSUME TypeInv, TypeInv', Facts, NEW t \in Clients, Alone(t), Revision(t)
    PROVE  Facts'
<1> USE DEF fileVars, revisionVars, appVars
<1>1. CASE Build(t) \/ \E d \in Offers : BuildBundle(t, d) \/ Create(t, d)
  BY <1>1, FactsBegin DEF Build, BuildBundle, Create, Operations
<1>2. CASE InsertApp(t)
  <2>1. job'[t] = Idle /\ job[t].pc = "insertApp"
    BY <1>2 DEF InsertApp, Ends, Does, TypeInv, JobTypes
  <2>2. UNCHANGED <<row, artifact, tag, cut>> /\ exists'
    BY <1>2 DEF InsertApp
  <2>3. ~Deleting /\ ~\E u \in Clients : Does(u, "insert")
    BY <2>1, OnlyMine DEF Deleting, Does
  <2>4. \A m \in Numbers : row[m] # None => GoodRow(m)
    BY <2>1, <2>3 DEF Facts, Rows, Does
  <2>5. \A m \in Numbers : tag[m] # None => row[m] # None \/ m \in cut
    BY <2>3 DEF Facts, Tagged
  <2>6. Absent' /\ Tagged' /\ Rows'
    BY <2>2, <2>4, <2>5 DEF Absent, Tagged, Rows, GoodRow, Faulty
  <2>7. Knows(t)'
    BY <2>1, IdleOK, QuietKnows
  <2> QED BY <2>6, <2>7, OthersKnow DEF Facts
<1>3. CASE Fail(t)
  <2>1. job[t].pc = "insert" => job[t].number \in cut'
    <3>1. JobOK(job[t])
      BY DEF TypeInv, JobTypes
    <3> QED BY <1>3, <3>1 DEF Fail, Fails, Does, JobOK
  <2> QED BY <1>3, <2>1, FactsEnd DEF Fail, Fails, MayFail
<1> QED BY <1>1, <1>2, <1>3, FactsSnapshot, FactsTag, FactsInsertRow DEF Revision

LEMMA FactsCrash ==
    ASSUME TypeInv, TypeInv', Facts, Crash, ~torn'
    PROVE  Facts'
<1> USE DEF fileVars, revisionVars, appVars
<1>1. UNCHANGED <<exists, row, artifact, tag>> /\ cut \subseteq cut' /\ \A t \in Clients : job'[t].pc = "idle"
  BY IdleOK DEF Crash
<1>2. ~Deleting
  BY DEF Crash, Deleting
<1>3. Absent'
  BY <1>1 DEF Facts, Absent
<1>4. Tagged'
  <2>1. ASSUME NEW n \in Numbers, NEW t \in Clients, Does(t, "insert"), job[t].number = n PROVE n \in cut'
    BY <2>1 DEF Crash
  <2> QED BY <1>1, <2>1 DEF Facts, Tagged
<1>5. Rows'
  BY <1>1, <1>2 DEF Facts, Rows, GoodRow, Does
<1>6. \A t \in Clients : Knows(t)'
  <2>1. ASSUME NEW t \in Clients PROVE JobOK(job[t])' /\ job'[t].pc = "idle"
    BY <1>1 DEF TypeInv, JobTypes
  <2> QED BY <2>1 DEF JobOK, Knows, KnowsApp, KnowsDraft, KnowsNumber, KnowsCommit, KnowsTags, Does
<1> QED BY <1>3, <1>4, <1>5, <1>6 DEF Facts

Inv == TypeInv /\ LockHeld /\ (torn \/ (Solo /\ Facts))

LEMMA InvInit == Init => Inv
<1> SUFFICES ASSUME Init PROVE Inv
  OBVIOUS
<1>1. \A t \in Clients : job[t].pc = "idle" /\ job[t].op = "none"
  BY IdleOK DEF Init
<1>2. LockHeld /\ Solo
  BY <1>1 DEF LockHeld, Solo, Active
<1>3. Facts
  <2>1. \A t \in Clients : Knows(t)
    BY <1>1, TypeInit, IdleKnows DEF TypeInv, JobTypes
  <2>2. Rows /\ Absent /\ Tagged
    BY DEF Init, Rows, Absent, Tagged
  <2> QED BY <2>1, <2>2 DEF Facts
<1> QED BY <1>2, <1>3, TypeInit DEF Inv

LEMMA InvStep == Inv /\ [Next]_vars => Inv'
<1> SUFFICES ASSUME Inv, [Next]_vars PROVE Inv'
  OBVIOUS
<1>1. TypeInv /\ TypeInv'
  BY TypeStep DEF Inv
<1>2. ASSUME NEW t \in Clients, StepOf(t) PROVE Inv'
  <2>1. OnlyMoves(t) /\ (Begins(t) \/ Continues(t))
    BY <1>1, <1>2, Summary
  <2>2. LockHeld'
    BY <1>1, <2>1, LockStep DEF Inv
  <2>3. ASSUME ~torn' PROVE Solo' /\ Facts'
    <3>1. ~torn
      BY <1>1, <2>1, <2>3 DEF Begins, Continues
    <3>2. Alone(t) /\ Solo'
      BY <1>1, <2>1, <2>3, <3>1, AloneStep DEF Inv
    <3> QED BY <1>1, <1>2, <3>1, <3>2, FactsEdit, FactsValidation, FactsRevision, FactsDeletion DEF Inv, StepOf
  <2> QED BY <1>1, <2>2, <2>3 DEF Inv
<1>3. CASE Crash
  <2>1. \A t \in Clients : job'[t].pc = "idle" /\ job'[t].op = "none"
    BY <1>3, IdleOK DEF Crash
  <2>2. LockHeld' /\ Solo'
    BY <2>1 DEF LockHeld, Solo, Active
  <2>3. torn \/ Facts
    BY DEF Inv
  <2>4. torn => torn'
    BY <1>3 DEF Crash
  <2> QED BY <1>1, <1>3, <2>2, <2>3, <2>4, FactsCrash DEF Inv
<1>4. CASE UNCHANGED vars
  <2> USE DEF vars
  <2>1. LockHeld' /\ (torn' \/ (Solo' /\ Facts'))
    BY <1>4 DEF Inv, LockHeld, Solo, Active, Facts, Rows, Absent, Tagged, GoodRow, Deleting, Knows, KnowsApp, KnowsDraft,
                KnowsNumber, KnowsCommit, KnowsTags, Does, NextNumber, IsLast
  <2> QED BY <1>1, <2>1 DEF Inv
<1> QED BY <1>2, <1>3, <1>4 DEF Next, StepOf

\* For any number of threads and revisions and any drafts and checks, over failed builds,
\* deletions and deaths at every step: what a revision serves, what its row hashes and what
\* its commit and tag name is one draft that passed every check.  Creates and deletes may
\* overlap everything here; once one does, the claim ends, and with it the lock's.
THEOREM RevisionsHaveOneSource == Spec => []OneSource
<1>1. Inv => OneSource
  BY DEF Inv, Facts, Rows, GoodRow, OneSource
<1> QED BY <1>1, InvInit, InvStep, PTL DEF Spec

-----------------------------------------------------------------------------
(* A candidate version names a source.  The rows are not enough for that: what the next row *)
(* will record is the version and the draft of now, so a row that records the version of     *)
(* now must hold the draft of now, unless files are being changed, and the number that       *)
(* names the change is one that no row records.                                              *)

Changing == \E t \in Clients : job[t].pc \in {"requirements", "name"}

\* What has been registered, or is about to be, has a draft.
HasDraft ==
    ~Deleting /\ (exists \/ (\E n \in Numbers : row[n] # None) \/ \E t \in Clients : Does(t, "insertApp")) => draft # None

NamedNow ==
    ~Deleting => \A n \in Numbers : row[n] # None =>
        /\ row[n].candidate <= candidate
        /\ row[n].candidate = candidate /\ candidate \notin unnamed /\ ~Changing => row[n].hash = draft

NamedPairs ==
    \A m, n \in Numbers :
        row[m] # None /\ row[n] # None /\ row[m].candidate = row[n].candidate /\ row[m].candidate \notin unnamed
            => row[m].hash = row[n].hash

NextIsNew(t) ==
    job[t].pc \in Editing /\ job[t].op # "put" =>
        job[t].next = candidate + 1 \/ (job[t].next = candidate /\ \A n \in Numbers : row[n] = None)
HashIsDraft(t) == Does(t, "insert") => job[t].hash = draft

Versions == HasDraft /\ NamedNow /\ NamedPairs /\ \A t \in Clients : NextIsNew(t) /\ HashIsDraft(t)

\* Threads that rest are about to name nothing.
LEMMA OthersName ==
    ASSUME NEW t \in Clients, Alone(t), NextIsNew(t)', HashIsDraft(t)'
    PROVE  \A u \in Clients : NextIsNew(u)' /\ HashIsDraft(u)'
  BY DEF Alone, NextIsNew, HashIsDraft, Does, Editing

\* Neither the files nor their version nor the rows change.
LEMMA FilesStay ==
    ASSUME NEW t \in Clients, Alone(t), Versions, UNCHANGED <<draft, candidate, row>>,
           unnamed \subseteq unnamed', job[t].pc # "dropRows", exists' => exists \/ draft # None,
           job[t].pc \in {"requirements", "name"} => candidate \in unnamed',
           job'[t].pc = "insertApp" => draft # None,
           NextIsNew(t)', HashIsDraft(t)'
    PROVE  Versions'
<1>1. ~Deleting
  BY OnlyMine DEF Deleting, Does
<1>2. HasDraft'
  BY <1>1, OnlyMine DEF Versions, HasDraft, Does
<1>3. NamedNow'
  <2>1. Changing => candidate \in unnamed'
    BY OnlyMine DEF Changing
  <2> QED BY <1>1, <2>1 DEF Versions, NamedNow
<1>4. NamedPairs'
  BY DEF Versions, NamedPairs
<1> QED BY <1>2, <1>3, <1>4, OthersName DEF Versions

\* A file is written; its name follows.
LEMMA FilesChange ==
    ASSUME NEW t \in Clients, Alone(t), Versions, UNCHANGED <<candidate, row, unnamed>>,
           job[t].pc # "dropRows", draft' # None, job'[t].pc \in {"requirements", "name"}, NextIsNew(t)'
    PROVE  Versions'
<1>1. ~Deleting
  BY OnlyMine DEF Deleting, Does
<1>2. HasDraft'
  BY DEF HasDraft
<1>3. NamedNow'
  BY <1>1 DEF Versions, NamedNow, Changing
<1>4. NamedPairs'
  BY DEF Versions, NamedPairs
<1>5. HashIsDraft(t)'
  BY DEF HashIsDraft, Does
<1> QED BY <1>2, <1>3, <1>4, <1>5, OthersName DEF Versions

LEMMA VersionsBegin ==
    ASSUME TypeInv, Versions, NEW t \in Clients, Alone(t),
           NEW op \in Operations, NEW pc \in {"source", "name", "validate", "dropGit"}, NEW offer, NEW next,
           Starts(t, op, pc, offer, next)
    PROVE  /\ job[t].pc = "idle" /\ job'[t].pc = pc /\ job'[t].op = op /\ job'[t].next = next
           /\ HashIsDraft(t)' /\ ~Deleting
<1>1. job[t].pc = "idle" /\ job'[t].pc = pc /\ job'[t].op = op /\ job'[t].next = next
  <2> DEFINE f == [Idle EXCEPT !.op = op, !.pc = pc, !.offer = offer, !.next = next]
  <2>1. f.op = op /\ f.pc = pc /\ f.next = next
    BY DEF Idle
  <2>2. job' = [job EXCEPT ![t] = f]
    BY DEF Starts
  <2> QED BY <2>1, <2>2 DEF Starts, Does, TypeInv, JobTypes
<1>2. ~Deleting
  BY <1>1, OnlyMine DEF Deleting, Does
<1> QED BY <1>1, <1>2 DEF HashIsDraft, Does

LEMMA VersionsEdit ==
    ASSUME TypeInv, Versions, NEW t \in Clients, Alone(t), Edit(t)
    PROVE  Versions'
<1> USE DEF fileVars, revisionVars, appVars
<1>0. /\ JobOK(job[t]) /\ job[t] \in Job /\ NextIsNew(t) /\ None \notin Draft
      /\ candidate \in Nat
  BY DraftsAssumption DEF TypeInv, JobTypes, FileTypes, Versions
<1>1. ASSUME NEW d \in Offers, Put(t, d) PROVE Versions'
  <2>1. job[t].pc = "idle" /\ job'[t].pc = "source" /\ job'[t].op = "put" /\ HashIsDraft(t)'
    BY <1>1, VersionsBegin DEF Put, Operations
  <2> QED BY <1>1, <2>1, FilesStay DEF Put, NextIsNew
<1>2. ASSUME NEW d \in Offers, Patch(t, d.source) PROVE Versions'
  <2>1. job[t].pc = "idle" /\ job'[t].pc = "name" /\ job'[t].op = "put"
    BY <1>2, VersionsBegin DEF Patch, Operations
  <2>2. draft' # None
    <3>1. d.source \in Sources /\ draft \in Draft
      BY <1>2, DraftsAssumption DEF Draft, Patch, TypeInv, FileTypes
    <3>2. draft' \in Draft
      BY <1>2, <3>1 DEF Patch, Draft
    <3> QED BY <1>0, <3>2
  <2> QED BY <1>2, <2>1, <2>2, FilesChange DEF Patch, NextIsNew
<1>3. CASE WriteSource(t) \/ WriteRequirements(t)
  <2>1. PICK pc \in {"requirements", "name"} : Goto(t, pc)
    BY <1>3 DEF WriteSource, WriteRequirements
  <2>2. job'[t].pc = pc /\ job'[t].op = job[t].op /\ job'[t].next = job[t].next
    <3>1. job'[t] = [job[t] EXCEPT !.pc = pc]
      BY <2>1 DEF Goto, TypeInv, JobTypes
    <3> QED BY <1>0, <3>1 DEF Job
  <2>3. draft' # None
    <3>1. job[t].offer \in Draft
      BY <1>0, <1>3 DEF WriteSource, WriteRequirements, Does, JobOK
    <3>2. draft' \in Draft
      BY <1>3, <3>1 DEF WriteSource, WriteRequirements, TypeInv, FileTypes, Draft
    <3> QED BY <1>0, <3>2
  <2>4. NextIsNew(t)'
    BY <1>0, <1>3, <2>2 DEF NextIsNew, WriteSource, WriteRequirements, Does, Editing
  <2>5. job[t].pc # "dropRows"
    BY <1>3 DEF WriteSource, WriteRequirements, Does
  <2> QED BY <1>3, <2>1, <2>2, <2>3, <2>4, <2>5, FilesChange DEF WriteSource, WriteRequirements
<1>4. CASE LeftHalfWritten(t)
  <2>1. job'[t] = Idle /\ job[t].pc = "requirements"
    BY <1>4 DEF LeftHalfWritten, Ends, Does, TypeInv, JobTypes
  <2>2. NextIsNew(t)' /\ HashIsDraft(t)'
    BY <2>1, IdleOK DEF NextIsNew, HashIsDraft, Does, Editing
  <2> QED BY <1>4, <2>1, <2>2, IdleOK, FilesStay DEF LeftHalfWritten
<1>5. CASE NameEdit(t)
  <2>1. job[t].pc = "name" /\ ~Deleting
    BY <1>5, OnlyMine DEF NameEdit, Deleting, Does
  <2>2. candidate' = candidate + 1 \/ (candidate' = candidate /\ \A n \in Numbers : row[n] = None)
    BY <1>0, <1>5, <2>1 DEF NameEdit, Bumped, NextIsNew, Editing
  <2>3. job'[t].pc \in {"idle", "validate"}
    <3>1. CASE Ends(t)
      BY <3>1, IdleOK DEF Ends, TypeInv, JobTypes
    <3>2. CASE ~Ends(t)
      <4>1. job' = [job EXCEPT ![t] = [job[t] EXCEPT !.pc = "validate", !.offer = None, !.next = 0]]
        BY <1>5, <3>2 DEF NameEdit
      <4>2. job'[t] = [job[t] EXCEPT !.pc = "validate", !.offer = None, !.next = 0]
        BY <4>1 DEF TypeInv, JobTypes
      <4> QED BY <1>0, <4>2 DEF Job
    <3> QED BY <3>1, <3>2
  <2>4. UNCHANGED <<draft, row, exists, unnamed>>
    BY <1>5 DEF NameEdit
  <2>5. HasDraft' /\ NamedPairs'
    BY <2>1, <2>3, <2>4, OnlyMine DEF Versions, HasDraft, NamedPairs, Does
  <2>6. NamedNow'
    <3>1. \A n \in Numbers : row[n] # None => row[n].candidate \in Nat /\ row[n].candidate <= candidate
      BY <2>1 DEF Versions, NamedNow, TypeInv, RevisionTypes, Row
    <3>2. \A n \in Numbers : row[n] # None => row[n].candidate < candidate'
      BY <1>0, <2>2, <3>1
    <3>3. candidate' \in Nat
      BY <1>0, <2>2
    <3> QED BY <2>4, <3>1, <3>2, <3>3 DEF NamedNow
  <2>7. NextIsNew(t)' /\ HashIsDraft(t)'
    BY <2>3 DEF NextIsNew, HashIsDraft, Does, Editing
  <2> QED BY <2>5, <2>6, <2>7, OthersName DEF Versions
<1> QED BY <1>1, <1>2, <1>3, <1>4, <1>5 DEF Edit

LEMMA VersionsRevision ==
    ASSUME TypeInv, Facts, Versions, NEW t \in Clients, Alone(t), Validation(t) \/ Revision(t)
    PROVE  Versions'
<1> USE DEF fileVars, revisionVars, appVars
<1>0. /\ JobOK(job[t]) /\ job[t] \in Job /\ Knows(t) /\ HashIsDraft(t) /\ None \notin Draft
      /\ candidate \in Nat
  BY DraftsAssumption DEF TypeInv, JobTypes, FileTypes, Facts, Versions
<1>1. CASE Build(t)
  <2>1. job[t].pc = "idle" /\ job'[t].pc = "validate" /\ HashIsDraft(t)'
    BY <1>1, VersionsBegin DEF Build, Operations
  <2> QED BY <1>1, <2>1, FilesStay DEF Build, NextIsNew, Editing
<1>2. ASSUME NEW d \in Offers, BuildBundle(t, d) \/ Create(t, d) PROVE Versions'
  <2>1. PICK op \in {"build", "create"} : Starts(t, op, "source", d, AfterBundle)
    BY <1>2 DEF BuildBundle, Create
  <2>2. job[t].pc = "idle" /\ job'[t].pc = "source" /\ job'[t].next = AfterBundle /\ HashIsDraft(t)' /\ ~Deleting
    BY <2>1, VersionsBegin DEF Operations
  <2>3. UNCHANGED <<draft, candidate, row, exists, unnamed>>
    BY <1>2 DEF BuildBundle, Create
  <2>4. AfterBundle = candidate + 1 \/ (AfterBundle = candidate /\ \A n \in Numbers : row[n] = None)
    BY <2>2 DEF AfterBundle, Versions, HasDraft
  <2> QED BY <2>2, <2>3, <2>4, FilesStay DEF NextIsNew
<1>3. CASE ReadDraft(t) \/ SmokePasses(t) \/ Snapshot(t) \/ TagRevision(t) \/ Fail(t)
  <2>1. /\ job[t].pc \in {"validate", "smoke", "snapshot", "tag", "insert", "insertApp"}
        /\ UNCHANGED <<draft, candidate, row, exists, unnamed>>
    BY <1>3 DEF ReadDraft, SmokePasses, Snapshot, TagRevision, Fail, Fails, MayFail, Does
  <2>2. job'[t].pc \in {"smoke", "snapshot", "tag", "idle"} \/ (job'[t].pc = "insert" /\ job'[t].hash = draft)
    <3>1. CASE ReadDraft(t)
      <4>1. job'[t] = [job[t] EXCEPT !.pc = "smoke", !.seen = draft]
        BY <3>1 DEF ReadDraft, TypeInv, JobTypes
      <4> QED BY <1>0, <4>1 DEF Job
    <3>2. CASE SmokePasses(t)
      <4>1. job'[t] = [job[t] EXCEPT !.pc = "snapshot", !.seen = None]
        BY <3>2 DEF SmokePasses, TypeInv, JobTypes
      <4> QED BY <1>0, <4>1 DEF Job
    <3>3. CASE Snapshot(t)
      <4>1. PICK n : job' = [job EXCEPT ![t] = [job[t] EXCEPT !.pc = "tag", !.number = n, !.hash = draft]]
        BY <3>3 DEF Snapshot
      <4>2. job'[t] = [job[t] EXCEPT !.pc = "tag", !.number = n, !.hash = draft]
        BY <4>1 DEF TypeInv, JobTypes
      <4> QED BY <1>0, <4>2 DEF Job
    <3>4. CASE TagRevision(t)
      <4>1. job'[t] = [job[t] EXCEPT !.pc = "insert", !.commit = draft] /\ job[t].pc = "tag"
        BY <3>4 DEF TagRevision, Does, TypeInv, JobTypes
      <4>2. job[t].hash = draft
        BY <1>0, <4>1 DEF Knows, KnowsDraft, Does
      <4> QED BY <1>0, <4>1, <4>2 DEF Job
    <3>5. CASE Fail(t)
      BY <3>5, IdleOK DEF Fail, Fails, Ends, TypeInv, JobTypes
    <3> QED BY <1>3, <3>1, <3>2, <3>3, <3>4, <3>5
  <2>3. NextIsNew(t)' /\ HashIsDraft(t)'
    BY <2>1, <2>2 DEF NextIsNew, HashIsDraft, Does, Editing
  <2> QED BY <2>1, <2>2, <2>3, FilesStay
<1>4. CASE InsertRow(t)
  <2>1. PICK n \in NextNumber(t) : row[n] = None /\ row' = [row EXCEPT ![n] = NewRow(t)]
    BY <1>4 DEF InsertRow
  <2>2. /\ n \in Numbers /\ row'[n] = NewRow(t) /\ \A m \in Numbers \ {n} : row'[m] = row[m]
    BY <2>1, NumberIsNew DEF TypeInv, RevisionTypes
  <2>3. job[t].pc = "insert" /\ job[t].hash = draft /\ draft # None
    BY <1>0, <1>4 DEF InsertRow, Does, HashIsDraft, JobOK
  <2>4. UNCHANGED <<draft, candidate, exists, unnamed>> /\ row'[n].hash = draft /\ row'[n].candidate = candidate
    BY <1>4, <2>2, <2>3 DEF InsertRow, NewRow
  <2>5. ~Deleting /\ ~Changing
    BY <2>3, OnlyMine DEF Deleting, Changing, Does
  <2>6. job'[t].pc \in {"idle", "insertApp"}
    <3>1. CASE job[t].op = "create"
      <4>1. job'[t] = [Idle EXCEPT !.op = "create", !.pc = "insertApp"]
        BY <1>4, <3>1 DEF InsertRow, TypeInv, JobTypes
      <4> QED BY <4>1 DEF Idle
    <3>2. CASE job[t].op # "create"
      BY <1>4, <3>2, IdleOK DEF InsertRow, Ends, TypeInv, JobTypes
    <3> QED BY <3>1, <3>2
  <2>7. HasDraft'
    BY <2>3, <2>4 DEF HasDraft
  <2>8. NamedNow'
    <3>1. \A m \in Numbers : row'[m] # None => /\ row'[m].candidate <= candidate
                                               /\ row'[m].candidate = candidate /\ candidate \notin unnamed => row'[m].hash = draft
      BY <1>0, <2>2, <2>4, <2>5 DEF Versions, NamedNow
    <3> QED BY <2>4, <3>1 DEF NamedNow
  <2>9. NamedPairs'
    <3> SUFFICES ASSUME NEW m \in Numbers, NEW k \in Numbers, row'[m] # None, row'[k] # None,
                        row'[m].candidate = row'[k].candidate, row'[m].candidate \notin unnamed
                 PROVE  row'[m].hash = row'[k].hash
      BY <2>4 DEF NamedPairs
    <3>1. CASE m # n /\ k # n
      BY <2>2, <3>1 DEF Versions, NamedPairs
    <3>2. CASE m = n /\ k # n
      BY <2>2, <2>4, <2>5, <3>2 DEF Versions, NamedNow
    <3>3. CASE m # n /\ k = n
      BY <2>2, <2>4, <2>5, <3>3 DEF Versions, NamedNow
    <3> QED BY <3>1, <3>2, <3>3
  <2>10. NextIsNew(t)' /\ HashIsDraft(t)'
    BY <2>6 DEF NextIsNew, HashIsDraft, Does, Editing
  <2> QED BY <2>7, <2>8, <2>9, <2>10, OthersName DEF Versions
<1>5. CASE InsertApp(t)
  <2>1. job'[t] = Idle /\ job[t].pc = "insertApp"
    BY <1>5 DEF InsertApp, Ends, Does, TypeInv, JobTypes
  <2>2. draft # None
    BY <2>1, OnlyMine DEF Versions, HasDraft, Deleting, Does
  <2>3. NextIsNew(t)' /\ HashIsDraft(t)'
    BY <2>1, IdleOK DEF NextIsNew, HashIsDraft, Does, Editing
  <2> QED BY <1>5, <2>1, <2>2, <2>3, IdleOK, FilesStay DEF InsertApp
<1> QED BY <1>1, <1>2, <1>3, <1>4, <1>5 DEF Validation, Revision

LEMMA VersionsDeletion ==
    ASSUME TypeInv, Versions, NEW t \in Clients, Alone(t), Deletion(t)
    PROVE  Versions'
<1> USE DEF fileVars, revisionVars, appVars
<1>1. CASE Delete(t)
  <2>1. job[t].pc = "idle" /\ job'[t].pc = "dropGit" /\ HashIsDraft(t)'
    BY <1>1, VersionsBegin DEF Delete, Operations
  <2> QED BY <1>1, <2>1, FilesStay DEF Delete, NextIsNew, Editing
<1>2. CASE DropGit(t)
  <2>1. job'[t].pc = "dropRows"
    <3>1. job'[t] = [job[t] EXCEPT !.pc = "dropRows"] /\ job[t] \in Job
      BY <1>2 DEF DropGit, Goto, TypeInv, JobTypes
    <3> QED BY <3>1 DEF Job
  <2>2. Deleting'
    BY <2>1 DEF Deleting, Does
  <2>3. HasDraft' /\ NamedNow'
    BY <2>2 DEF HasDraft, NamedNow
  <2>4. NamedPairs'
    BY <1>2 DEF DropGit, Versions, NamedPairs
  <2>5. NextIsNew(t)' /\ HashIsDraft(t)'
    BY <2>1 DEF NextIsNew, HashIsDraft, Does, Editing
  <2> QED BY <2>3, <2>4, <2>5, OthersName DEF Versions
<1>3. CASE DropRows(t)
  <2>1. job'[t] = Idle
    BY <1>3 DEF DropRows, Ends, TypeInv, JobTypes
  <2>2. ~exists' /\ \A n \in Numbers : row'[n] = None
    BY <1>3 DEF DropRows
  <2>3. \A u \in Clients : ~Does(u, "insertApp")'
    BY <2>1, IdleOK DEF Alone, Does
  <2>4. HasDraft' /\ NamedNow' /\ NamedPairs'
    BY <2>2, <2>3 DEF HasDraft, NamedNow, NamedPairs
  <2>5. NextIsNew(t)' /\ HashIsDraft(t)'
    BY <2>1, IdleOK DEF NextIsNew, HashIsDraft, Does, Editing
  <2> QED BY <2>4, <2>5, OthersName DEF Versions
<1> QED BY <1>1, <1>2, <1>3 DEF Deletion

LEMMA VersionsCrash ==
    ASSUME TypeInv, Versions, Crash, ~torn'
    PROVE  Versions'
<1> USE DEF fileVars, revisionVars, appVars
<1>1. /\ \A t \in Clients : job'[t].pc = "idle"
      /\ UNCHANGED <<row, exists>> /\ unnamed \subseteq unnamed' /\ ~Deleting
  BY IdleOK DEF Crash, Deleting
<1>2. UNCHANGED <<draft, candidate>>
  <2>1. ~Seeds
    BY <1>1 DEF Seeds, Versions, HasDraft
  <2> QED BY <2>1 DEF Crash, Restart
<1>3. Changing => candidate \in unnamed'
  BY DEF Crash, Changing
<1>4. HasDraft'
  BY <1>1, <1>2 DEF Versions, HasDraft, Does
<1>5. NamedNow'
  BY <1>1, <1>2, <1>3 DEF Versions, NamedNow
<1>6. NamedPairs'
  BY <1>1 DEF Versions, NamedPairs
<1>7. \A t \in Clients : NextIsNew(t)' /\ HashIsDraft(t)'
  BY <1>1 DEF NextIsNew, HashIsDraft, Does, Editing
<1> QED BY <1>4, <1>5, <1>6, <1>7 DEF Versions

VersionsInv == Inv /\ (torn \/ Versions)

LEMMA VersionsStep == VersionsInv /\ [Next]_vars => VersionsInv'
<1> SUFFICES ASSUME VersionsInv, [Next]_vars PROVE VersionsInv'
  OBVIOUS
<1>1. Inv /\ Inv' /\ TypeInv
  BY InvStep DEF VersionsInv, Inv
<1> SUFFICES ASSUME ~torn' PROVE Versions'
  BY <1>1 DEF VersionsInv
<1>2. ASSUME NEW t \in Clients, StepOf(t) PROVE Versions'
  <2>1. OnlyMoves(t) /\ (Begins(t) \/ Continues(t))
    BY <1>1, <1>2, Summary
  <2>2. ~torn
    BY <2>1, <1>1 DEF Begins, Continues
  <2>3. Alone(t)
    BY <1>1, <2>1, <2>2, AloneStep DEF Inv
  <2> QED BY <1>1, <1>2, <2>2, <2>3, VersionsEdit, VersionsRevision, VersionsDeletion DEF VersionsInv, Inv, StepOf
<1>3. CASE Crash
  <2>1. ~torn
    BY <1>1, <1>3 DEF Crash
  <2> QED BY <1>1, <1>3, <2>1, VersionsCrash DEF VersionsInv
<1>4. CASE UNCHANGED vars
  BY <1>4 DEF vars, VersionsInv, Versions, HasDraft, NamedNow, NamedPairs, NextIsNew, HashIsDraft, Changing, Deleting, Does
<1> QED BY <1>2, <1>3, <1>4 DEF Next, StepOf

\* Two revisions that record one candidate version were built from the same files, over edits,
\* builds and creations that fail or are cut off at any step, deletions and deaths of the process.
THEOREM CandidatesNameSources == Spec => []CandidateNamesSource
<1>1. Init => VersionsInv
  <2>1. Init => Versions
    BY IdleOK DEF Init, Versions, HasDraft, NamedNow, NamedPairs, NextIsNew, HashIsDraft, Does, Editing
  <2> QED BY <2>1, InvInit DEF VersionsInv
<1>2. VersionsInv => CandidateNamesSource
  BY DEF VersionsInv, Versions, NamedPairs, CandidateNamesSource
<1> QED BY <1>1, <1>2, VersionsStep, PTL DEF Spec
=============================================================================
