---------------------------- MODULE EnvironmentState ----------------------------
(***************************************************************************)
(* What the dependency environments of Environments keep, on disk and in   *)
(* the threads that use them, and what they promise.  It is a module of    *)
(* its own so that the theorems about Environments can stand in one module *)
(* with those about another component.                                     *)
(***************************************************************************)
EXTENDS Integers

CONSTANTS
    Envs,           \* sets of requirements, which is what identifies an environment
    Clients,        \* threads of the WSGI server
    DiskCap,        \* whether the operator has set disk_cap_bytes
    MaxCrashes,     \* bound: deaths of the process
    Nothing         \* no directory, no environment

Status == {"creating", "ready", "failed", "invalidated", "unrecorded"}
Directory == [status : Status, whole : BOOLEAN, old : BOOLEAN]

ASSUME EnvironmentsAssumption ==
    /\ DiskCap \in BOOLEAN
    /\ MaxCrashes \in Nat
    /\ Nothing \notin Envs \cup Directory

VARIABLES
    env,            \* the directory of each environment, with its record
    ensure,         \* where each thread is in ensure_requirements
    gc,             \* one pass of the collector thread
    recorded,       \* environments that the row of some revision names
    served,         \* those of live, preview and rollback revisions
    contested,      \* environments with a creation or removal that was disturbed or cut off
    crashes         \* deaths so far

-----------------------------------------------------------------------------
\* A thread, or the collector, takes the directory of e away file by file.
Removers(e) == {t \in Clients : ensure[t].pc = "remove" /\ ensure[t].env = e}
Evicting(e) == gc.pc = "remove" /\ gc.env = e
BeingRemoved(e) == Removers(e) # {} \/ Evicting(e)

\* One of them has the record still before it.
RecordAwaitsRemoval(e) ==
    \/ \E t \in Removers(e) : "record" \in ensure[t].left
    \/ Evicting(e) /\ "record" \in gc.left

\* An environment that its record calls ready has everything installed in it: a creation
\* that failed, was invalidated on the way or died with the process is never taken for a
\* finished one, and a removal that ends leaves no record of what it took.  There are two
\* exceptions, in which the code does hand out half an environment: another thread or the
\* collector disturbed the creation or the removal (environment_service.py:148-154, 658), or
\* the process died in the middle of a removal that had not come to the record yet (380).
EnvironmentsAreWhole ==
    \A e \in Envs \ contested :
        env[e] # Nothing /\ env[e].status = "ready" /\ ~BeingRemoved(e) => env[e].whole
=============================================================================
