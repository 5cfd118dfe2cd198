---------------------------- MODULE SessionPromise ----------------------------
(***************************************************************************)
(* What app_session_eval_js promises its caller: the submitted code runs   *)
(* in a page at most once, a caller that gets an answer gets the answer of *)
(* its own code, and a caller that is refused or times out has an outcome  *)
(* that stays, even though its code may still run afterwards (JavaScript   *)
(* cannot be cancelled from the server).                                   *)
(***************************************************************************)
CONSTANT Calls

VARIABLES
    ran,        \* calls whose code has been started in a page
    outcome     \* of each call: "open", "answered" or "failed"

PromiseInit == ran = {} /\ outcome = [c \in Calls |-> "open"]

Run(c) == c \notin ran /\ ran' = ran \cup {c} /\ UNCHANGED outcome

Answer(c) ==
    /\ outcome[c] = "open" /\ c \in ran
    /\ outcome' = [outcome EXCEPT ![c] = "answered"]
    /\ UNCHANGED ran

\* A restart of the control plane fails every open call at once.
Fail ==
    /\ \E S \in SUBSET {c \in Calls : outcome[c] = "open"} :
          outcome' = [c \in Calls |-> IF c \in S THEN "failed" ELSE outcome[c]]
    /\ UNCHANGED ran

PromiseNext == Fail \/ \E c \in Calls : Run(c) \/ Answer(c)

PromiseSpec == PromiseInit /\ [][PromiseNext]_<<ran, outcome>>
=============================================================================
