------------------------------ MODULE Environments ------------------------------
(***************************************************************************)
(* Dependency environments: one directory with a virtual environment for   *)
(* each set of requirements, shared by every app and built by whichever    *)
(* thread validates a draft first.                                         *)
(*                                                                         *)
(* A directory has a record, .env_record.json, and the record is all that  *)
(* a later request looks at.  No lock guards either: another request, a    *)
(* forced rebuild, an invalidation and the collector thread may act        *)
(* between any two steps of a creation, and of a removal, which takes one  *)
(* file after another.  A record is written in one piece: half of one      *)
(* reads like none, so that it can only cost a rebuild.                    *)
(*                                                                         *)
(* Left out: the wheel cache, and which of several old environments the    *)
(* collector evicts first (any).  Ages are one flag: past retention.  The  *)
(* collector is switched on.                                               *)
(*                                                                         *)
(* An operator named D_variant is D with one plausible mistake in it; the  *)
(* specification does not use it.                                          *)
(***************************************************************************)
EXTENDS EnvironmentState, FiniteSets

vars == <<env, ensure, gc, recorded, served, contested, crashes>>
rowVars == <<recorded, served>>

-----------------------------------------------------------------------------
(* Types *)

\* What a removal has still to take: the record and everything else.
Parts == {"record", "contents"}
Ensure == [pc : {"none", "remove", "check", "touch", "make", "install", "torn", "mark", "record"},
           env : Envs \cup {Nothing}, left : SUBSET Parts, forced : BOOLEAN]
Pass == [pc : {"idle", "refs", "evict", "remove"}, refs : SUBSET Envs, todo : SUBSET Envs,
         env : Envs \cup {Nothing}, left : SUBSET Parts]

NoEnsure == [pc |-> "none", env |-> Nothing, left |-> {}, forced |-> FALSE]
NoPass == [pc |-> "idle", refs |-> {}, todo |-> {}, env |-> Nothing, left |-> {}]

TypeOK ==
    /\ env \in [Envs -> Directory \cup {Nothing}]
    /\ ensure \in [Clients -> Ensure]
    /\ gc \in Pass
    /\ recorded \subseteq Envs
    /\ served \subseteq Envs
    /\ contested \subseteq Envs
    /\ crashes \in 0..MaxCrashes

Init ==
    /\ env = [e \in Envs |-> Nothing]
    /\ ensure = [t \in Clients |-> NoEnsure]
    /\ gc = NoPass
    /\ recorded = {}
    /\ served = {}
    /\ contested = {}
    /\ crashes = 0

-----------------------------------------------------------------------------
(* Directories *)

\* Threads between the record of a creation that has begun and that of a finished one; of a
\* torn one, somebody has taken files away since.
Creators(e) == {t \in Clients : ensure[t].env = e /\ ensure[t].pc \in {"install", "torn", "mark"}}

\* An actor writes to the directory of e when it disturbs somebody else's work, or not.
Disturb(e, disturbs) == contested' = IF disturbs THEN contested \cup {e} ELSE contested

Step(t, pc, e) == ensure' = [ensure EXCEPT ![t] = [NoEnsure EXCEPT !.pc = pc, !.env = e]]
Leave(t) == ensure' = [ensure EXCEPT ![t] = NoEnsure]
At(t, pc) == ensure[t].pc = pc
Mine(t) == ensure[t].env

-----------------------------------------------------------------------------
(* shutil.rmtree with ignore_errors *)

\* It lists the directory first: a record that is written later is none of its business.
Listed(e) == IF env[e] = Nothing THEN {}
             ELSE IF env[e].status = "unrecorded" THEN {"contents"} ELSE Parts

\* What a removal leaves of the directory of e when it has taken the record, or the rest.
\* A directory without a record counts as infinitely old.
Without(e, part) ==
    IF env[e] = Nothing THEN Nothing
    ELSE IF part = "record" THEN [env[e] EXCEPT !.status = "unrecorded", !.old = TRUE]
    ELSE [env[e] EXCEPT !.whole = FALSE]

\* The threads, once it has: files went that an installer has written.
Torn(e, part) ==
    [t \in Clients |-> IF part = "contents" /\ ensure[t].env = e /\ ensure[t].pc = "install"
                       THEN [ensure[t] EXCEPT !.pc = "torn"] ELSE ensure[t]]

\* The directory goes last, and stays if something is in it again: a record that somebody
\* wrote since, or what an installer put back.
Empty(e) == IF env[e] = Nothing THEN TRUE ELSE env[e].status = "unrecorded" /\ ~env[e].whole
RemoveDirectory(e, alone) ==
    \/ /\ Empty(e)
       /\ env' = [env EXCEPT ![e] = Nothing]
       /\ contested' = IF alone THEN contested \ {e} ELSE contested
    \/ /\ env[e] # Nothing
       /\ ~Empty(e) \/ e \in contested
       /\ UNCHANGED <<env, contested>>

-----------------------------------------------------------------------------
(* ensure_requirements *)

StartRemoval(t, e, forced) ==
    /\ ensure' = [ensure EXCEPT ![t] = [pc |-> "remove", env |-> e, left |-> Listed(e), forced |-> forced]]
    /\ Disturb(e, Creators(e) # {})

\* force_clean: whatever is there goes first.
Force(t, e) ==
    /\ At(t, "none")
    /\ env[e] # Nothing
    /\ StartRemoval(t, e, TRUE)
    /\ UNCHANGED <<env, gc, rowVars, crashes>>

\* The thread looks at the directory, for the first time or after a forced removal.
Looks(t, e) == At(t, "none") \/ (At(t, "check") /\ Mine(t) = e)

Reusable_unfinished(e) == env[e] # Nothing /\ env[e].status # "failed"
Reusable(e) == env[e] # Nothing /\ env[e].status = "ready"

\* The record says ready: it will be written again with a new last_used_at.
Reuse(t, e) ==
    /\ Looks(t, e)
    /\ Reusable(e)
    /\ Step(t, "touch", e)
    /\ UNCHANGED <<env, gc, rowVars, contested, crashes>>

\* Anything else in the way is removed.
Wipe(t, e) ==
    /\ Looks(t, e)
    /\ env[e] # Nothing /\ ~Reusable(e)
    /\ StartRemoval(t, e, FALSE)
    /\ UNCHANGED <<env, gc, rowVars, crashes>>

Absent(t, e) ==
    /\ Looks(t, e)
    /\ env[e] = Nothing
    /\ Step(t, "make", e)
    /\ UNCHANGED <<env, gc, rowVars, contested, crashes>>

RemoveSome(t) ==
    /\ At(t, "remove")
    /\ \E part \in ensure[t].left :
          /\ env' = [env EXCEPT ![Mine(t)] = Without(Mine(t), part)]
          /\ ensure' = [Torn(Mine(t), part) EXCEPT ![t].left = @ \ {part}]
    /\ Disturb(Mine(t), Creators(Mine(t)) # {})
    /\ UNCHANGED <<gc, rowVars, crashes>>

RemoveLast(t) ==
    /\ At(t, "remove") /\ ensure[t].left = {}
    /\ RemoveDirectory(Mine(t), Creators(Mine(t)) = {} /\ Removers(Mine(t)) = {t} /\ ~Evicting(Mine(t)))
    /\ Step(t, IF ensure[t].forced THEN "check" ELSE "make", Mine(t))
    /\ UNCHANGED <<gc, rowVars, crashes>>

\* _touch_last_used writes the record as it was read: whatever became of it since, the
\* environment is called ready again, also one that was invalidated or rebuilt in between.
Touch(t) ==
    /\ At(t, "touch")
    /\ env[Mine(t)] # Nothing
    /\ env' = [env EXCEPT ![Mine(t)].status = "ready", ![Mine(t)].old = FALSE]
    /\ Disturb(Mine(t), Creators(Mine(t)) # {} \/ BeingRemoved(Mine(t)) \/ ~Reusable(Mine(t)))
    /\ Step(t, "record", Mine(t))
    /\ UNCHANGED <<gc, rowVars, crashes>>

\* mkdir with exist_ok, and the record of a creation that has begun.
Make(t) ==
    /\ At(t, "make")
    /\ env' = [env EXCEPT ![Mine(t)] = [status |-> "creating", old |-> FALSE,
                                        whole |-> env[Mine(t)] # Nothing /\ env[Mine(t)].whole]]
    /\ Disturb(Mine(t), Creators(Mine(t)) # {} \/ BeingRemoved(Mine(t)))
    /\ Step(t, "install", Mine(t))
    /\ UNCHANGED <<gc, rowVars, crashes>>

\* venv and pip exit with 0.  Of what somebody took away under them, they may have written
\* all again or not.
Install(t) ==
    /\ At(t, "install") \/ At(t, "torn")
    /\ env[Mine(t)] # Nothing
    /\ \E all \in IF At(t, "install") THEN {TRUE} ELSE BOOLEAN :
          env' = [env EXCEPT ![Mine(t)].whole = all]
    /\ Step(t, "mark", Mine(t))
    /\ UNCHANGED <<gc, rowVars, contested, crashes>>

Mark(t) ==
    /\ At(t, "mark")
    /\ env[Mine(t)] # Nothing
    /\ env' = [env EXCEPT ![Mine(t)].status = "ready", ![Mine(t)].old = FALSE]
    /\ Step(t, "record", Mine(t))
    /\ UNCHANGED <<gc, rowVars, contested, crashes>>

\* A command fails or takes too long.
InstallFails(t) ==
    /\ At(t, "install") \/ At(t, "torn")
    /\ env[Mine(t)] # Nothing
    /\ env' = [env EXCEPT ![Mine(t)].status = "failed"]
    /\ Leave(t)
    /\ UNCHANGED <<gc, rowVars, contested, crashes>>

\* The directory is gone: writing the record raises, also in the handler of that exception.
DirectoryGone(t) ==
    /\ ensure[t].pc \in {"touch", "install", "torn", "mark"}
    /\ env[Mine(t)] = Nothing
    /\ Leave(t)
    /\ UNCHANGED <<env, gc, rowVars, contested, crashes>>

\* A build that succeeds names the environment in its row; a validation names it nowhere.
Record(t) ==
    /\ At(t, "record")
    /\ \E new \in {{}, {Mine(t)}} : recorded' = recorded \cup new
    /\ Leave(t)
    /\ UNCHANGED <<env, gc, served, contested, crashes>>

\* Revisions become live, preview or rollback revision, and stop being so.
Serve(e) ==
    /\ e \in recorded \ served
    /\ served' = served \cup {e}
    /\ UNCHANGED <<env, ensure, gc, recorded, contested, crashes>>

Release(e) ==
    /\ e \in served
    /\ served' = served \ {e}
    /\ UNCHANGED <<env, ensure, gc, recorded, contested, crashes>>

-----------------------------------------------------------------------------
(* Invalidation and collection *)

\* app_environment_invalidate: removed at the next pass that may, rebuilt at the next use.
Invalidate(e) ==
    /\ env[e] # Nothing
    /\ env' = [env EXCEPT ![e].status = "invalidated"]
    /\ UNCHANGED <<ensure, gc, rowVars, contested, crashes>>

\* Seven days without use; a creation ends long before.
GrowsOld(e) ==
    /\ env[e] # Nothing /\ ~env[e].old
    /\ Creators(e) = {}
    /\ env' = [env EXCEPT ![e].old = TRUE]
    /\ UNCHANGED <<ensure, gc, rowVars, contested, crashes>>

\* The collector reads the references from SQLite first, then the directories, then evicts.
CollectorReadsReferences ==
    /\ gc.pc = "idle"
    /\ gc' = [gc EXCEPT !.pc = "refs", !.refs = served]
    /\ UNCHANGED <<env, ensure, rowVars, contested, crashes>>

Eligible_onlyOld == {e \in Envs \ gc.refs : env[e] # Nothing /\ (DiskCap \/ env[e].old)}
Eligible == {e \in Envs \ gc.refs : env[e] # Nothing /\ (DiskCap \/ env[e].old \/ env[e].status = "invalidated")}

CollectorLists ==
    /\ gc.pc = "refs"
    /\ gc' = [NoPass EXCEPT !.pc = "evict", !.todo = Eligible]
    /\ UNCHANGED <<env, ensure, rowVars, contested, crashes>>

Evict(e) ==
    /\ gc.pc = "evict" /\ e \in gc.todo
    /\ gc' = [gc EXCEPT !.pc = "remove", !.todo = @ \ {e}, !.env = e, !.left = Listed(e)]
    /\ Disturb(e, Creators(e) # {})
    /\ UNCHANGED <<env, ensure, rowVars, crashes>>

EvictSome ==
    /\ gc.pc = "remove"
    /\ \E part \in gc.left :
          /\ env' = [env EXCEPT ![gc.env] = Without(gc.env, part)]
          /\ ensure' = Torn(gc.env, part)
          /\ gc' = [gc EXCEPT !.left = @ \ {part}]
    /\ Disturb(gc.env, Creators(gc.env) # {})
    /\ UNCHANGED <<rowVars, crashes>>

EvictLast ==
    /\ gc.pc = "remove" /\ gc.left = {}
    /\ RemoveDirectory(gc.env, Creators(gc.env) = {} /\ Removers(gc.env) = {})
    /\ gc' = [NoPass EXCEPT !.pc = "evict", !.todo = gc.todo]
    /\ UNCHANGED <<ensure, rowVars, crashes>>

\* Nothing left to evict, or the disk is below its cap.
CollectorEnds ==
    /\ gc.pc = "evict"
    /\ gc.todo = {} \/ DiskCap
    /\ gc' = NoPass
    /\ UNCHANGED <<env, ensure, rowVars, contested, crashes>>

Collect ==
    \/ CollectorReadsReferences
    \/ CollectorLists
    \/ (\E e \in Envs : Evict(e)) \/ EvictSome \/ EvictLast
    \/ CollectorEnds

\* The process dies: what is on disk stays, also the record of a directory whose removal had
\* not come to it.
Crash ==
    /\ crashes < MaxCrashes
    /\ crashes' = crashes + 1
    /\ ensure' = [t \in Clients |-> NoEnsure]
    /\ gc' = NoPass
    /\ contested' = contested \cup {e \in Envs : RecordAwaitsRemoval(e)}
    /\ UNCHANGED <<env, rowVars>>

EnsureStep(t) ==
    \/ \E e \in Envs : Force(t, e) \/ Reuse(t, e) \/ Wipe(t, e) \/ Absent(t, e)
    \/ RemoveSome(t) \/ RemoveLast(t)
    \/ Touch(t) \/ Make(t) \/ Install(t) \/ Mark(t)
    \/ InstallFails(t) \/ DirectoryGone(t)
    \/ Record(t)

Next ==
    \/ \E t \in Clients : EnsureStep(t)
    \/ \E e \in Envs : Invalidate(e) \/ GrowsOld(e) \/ Serve(e) \/ Release(e)
    \/ Collect
    \/ Crash

Spec == Init /\ [][Next]_vars

\* The collector thread wakes up again and again, and a pass goes on until it ends.
FairSpec == Spec /\ WF_vars(Collect)

-----------------------------------------------------------------------------
(* Properties *)

\* An invalidated environment does not stay: unless a served revision names it, the
\* collector removes it or a request rebuilds it (or calls it ready again, see Touch).
Invalidated(e) == env[e] # Nothing /\ env[e].status = "invalidated" /\ e \notin served
InvalidationTakesEffect == ~DiskCap => \A e \in Envs : Invalidated(e) ~> ~Invalidated(e)
=============================================================================
