----------------------------- MODULE ExportPromise -----------------------------
(***************************************************************************)
(* What an export job promises the principal who asked for it: it ends at  *)
(* most once, an ended job never starts again, a job that accepted a       *)
(* cancellation does not succeed afterwards, and nobody's job is cancelled *)
(* unasked.  Only a job that ended can expire or be forgotten.             *)
(***************************************************************************)
CONSTANT Jobs

VARIABLES
    outcome,    \* of each job: "none", "open", an Ending, "expired" or "forgotten"
    asked       \* jobs whose cancellation was accepted and that are not forgotten

Endings == {"succeeded", "failed", "cancelled"}

PromiseInit == outcome = [j \in Jobs |-> "none"] /\ asked = {}

Create(j) ==
    /\ outcome[j] = "none"
    /\ outcome' = [outcome EXCEPT ![j] = "open"] /\ UNCHANGED asked

\* A job that no worker has claimed is cancelled at once.
Cancel(j) ==
    /\ outcome[j] = "open" /\ j \notin asked
    /\ asked' = asked \cup {j}
    /\ \E o \in {"open", "cancelled"} : outcome' = [outcome EXCEPT ![j] = o]

End(j) ==
    /\ outcome[j] = "open"
    /\ \E o \in Endings :
          /\ o = "succeeded" => j \notin asked
          /\ o = "cancelled" => j \in asked
          /\ outcome' = [outcome EXCEPT ![j] = o]
    /\ UNCHANGED asked

Expire(j) ==
    /\ outcome[j] = "succeeded"
    /\ outcome' = [outcome EXCEPT ![j] = "expired"] /\ UNCHANGED asked

Forget ==
    /\ \E S \in SUBSET {j \in Jobs : outcome[j] \in Endings \cup {"expired"}} :
          /\ outcome' = [j \in Jobs |-> IF j \in S THEN "forgotten" ELSE outcome[j]]
          /\ asked' = asked \ S

PromiseNext == Forget \/ \E j \in Jobs : Create(j) \/ Cancel(j) \/ End(j) \/ Expire(j)

PromiseSpec == PromiseInit /\ [][PromiseNext]_<<outcome, asked>>
=============================================================================
