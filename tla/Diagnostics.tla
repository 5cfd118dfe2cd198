------------------------------ MODULE Diagnostics ------------------------------
(***************************************************************************)
(* The data-layer ledger of one hosted app: failures and successes of its  *)
(* query files, as the data_layer probe of a health check reports them.    *)
(*                                                                         *)
(* Threads that run a query record its end without a common lock.  A       *)
(* failure is kept out of the ledger while the same failure was let in     *)
(* less than a minute ago; that file of last times is read, truncated and  *)
(* written as three steps.  A success is thrown away while another was     *)
(* saved less than half a minute ago; it is read and replaced under a lock *)
(* of the process.  In in_process mode every thread is in one process, in  *)
(* isolated mode each worker is a process with one thread.                 *)
(*                                                                         *)
(* A query file fails in one way only, so that its name stands for the key *)
(* file::fingerprint.  Only the newest record of a file in a revision is   *)
(* kept: an older one is never reported without it.  Stamps are compared   *)
(* as times; two of one tick may be equal.  The acknowledgement is taken   *)
(* as written in one piece: a probe that meets half of one raises, until   *)
(* somebody acknowledges again.                                            *)
(*                                                                         *)
(* An operator named D_variant is D with one plausible mistake in it; the  *)
(* specification does not use it.                                          *)
(***************************************************************************)
EXTENDS Naturals, FiniteSets

CONSTANTS
    Threads,            \* that run queries
    Processes,
    ProcessOf,          \* the process of each thread
    Files,              \* query files of the app
    Revisions,          \* mounted live or as a preview
    Keys,               \* which revision has which files
    None,               \* no query
    RateLimit,          \* rate_limit_seconds
    Throttle,           \* min_interval_seconds
    MaxNow,             \* bound: the last time
    MaxDeaths,          \* bound: deaths of a process
    MaxQueries          \* bound: queries

ASSUME DiagnosticsAssumption ==
    /\ ProcessOf \in [Threads -> Processes]
    /\ Keys \subseteq Revisions \X Files
    /\ None \notin Keys
    /\ RateLimit \in Nat \ {0} /\ Throttle \in Nat
    /\ MaxNow \in Nat \ {0} /\ MaxDeaths \in Nat /\ MaxQueries \in Nat

VARIABLES
    now,                \* the clock; time starts at 1, and 0 is "never"
    call,               \* where each thread is in query_rows
    dedup,              \* data_layer_errors_dedup.json: when each failure was last let in
    state,              \* what that file holds: JSON, nothing, or one text over another
    successes,          \* data_layer_successes.json
    written,            \* _success_writes, in the memory of each process
    ledger,             \* errors.jsonl: the newest record of each file in each revision
    ack,                \* data_layer_ack.json
    raced,              \* successes noted between the two last steps of a failure
    deaths, died,       \* how many deaths there were, and when the last was
    queries             \* queries so far

files == <<dedup, state>>
vars == <<now, call, dedup, state, successes, written, ledger, ack, raced, deaths, died, queries>>

-----------------------------------------------------------------------------
(* Types *)

Times == 0..MaxNow
Stamps == [Keys -> Times]
Steps == {"idle", "failed", "open", "write", "forget", "append", "worked", "save"}

\* last: the file of last times that a failure will write; saved: the copy of
\* data_layer_successes.json that a success will replace it with.
Call == [pc : Steps, key : Keys \cup {None}, last : [Files -> Times], saved : Stamps]

Nothing == [f \in Files |-> 0]
Never == [k \in Keys |-> 0]

TypeOK ==
    /\ now \in Times
    /\ call \in [Threads -> Call]
    /\ dedup \in [Files -> Times]
    /\ state \in {"whole", "empty", "damaged"}
    /\ successes \in Stamps
    /\ written \in [Processes -> Stamps]
    /\ ledger \in Stamps
    /\ ack \in Times
    /\ raced \subseteq Keys
    /\ deaths \in 0..MaxDeaths
    /\ died \in Times
    /\ queries \in 0..MaxQueries

Idle == [pc |-> "idle", key |-> None, last |-> Nothing, saved |-> Never]

\* A file that does not exist is read as an empty object.
Init ==
    /\ now = 1
    /\ call = [t \in Threads |-> Idle]
    /\ dedup = Nothing /\ state = "whole"
    /\ successes = Never
    /\ written = [p \in Processes |-> Never]
    /\ ledger = Never
    /\ ack = 0
    /\ raced = {}
    /\ deaths = 0 /\ died = 0
    /\ queries = 0

-----------------------------------------------------------------------------
(* State formulas *)

At(t, pc) == call[t].pc = pc
Key(t) == call[t].key
File(t) == call[t].key[2]
Within(then, seconds) == then # 0 /\ now - then < seconds

Go(t, pc) == call' = [call EXCEPT ![t].pc = pc]
Leave(t) == call' = [call EXCEPT ![t] = Idle]

\* _data_layer_probe of a revision reports a file whose record is not resolved by a later
\* success and not acknowledged.
Resolved(k) == successes[k] > ledger[k]
Acknowledged(k) == ledger[k] <= ack
Reported(k) == ledger[k] # 0 /\ ~Resolved(k) /\ ~Acknowledged(k)

\* How much text the file of last times holds: one line for each failure let in.
Length(last) == Cardinality({f \in Files : last[f] # 0})

-----------------------------------------------------------------------------
(* A query ends, with an error or with rows *)

Query(t, k, end) ==
    /\ At(t, "idle")
    /\ queries < MaxQueries
    /\ queries' = queries + 1
    /\ call' = [call EXCEPT ![t] = [pc |-> end, key |-> k, last |-> Nothing, saved |-> Never]]
    /\ UNCHANGED <<now, files, successes, written, ledger, ack, raced, deaths, died>>

-----------------------------------------------------------------------------
(* record_data_layer_error *)

\* Reading the file of last times raises, and the caller swallows the exception.
Swallow(t) ==
    /\ At(t, "failed")
    /\ state # "whole"
    /\ Leave(t)
    /\ UNCHANGED <<now, files, successes, written, ledger, ack, raced, deaths, died, queries>>

SucceededSince(t) == successes[Key(t)] > dedup[File(t)]
Repeated_acrossSuccesses(t) == Within(dedup[File(t)], RateLimit)
Repeated(t) == Within(dedup[File(t)], RateLimit) /\ ~SucceededSince(t)

Suppress(t) ==
    /\ At(t, "failed")
    /\ state = "whole"
    /\ Repeated(t)
    /\ Leave(t)
    /\ UNCHANGED <<now, files, successes, written, ledger, ack, raced, deaths, died, queries>>

LetIn(t) ==
    /\ At(t, "failed")
    /\ state = "whole"
    /\ ~Repeated(t)
    /\ call' = [call EXCEPT ![t] = [@ EXCEPT !.pc = "open", !.last = [dedup EXCEPT ![File(t)] = now]]]
    /\ UNCHANGED <<now, files, successes, written, ledger, ack, raced, deaths, died, queries>>

\* _write_json opens the file, which truncates it, and then writes it.
Truncate(t) ==
    /\ At(t, "open")
    /\ dedup' = Nothing /\ state' = "empty"
    /\ Go(t, "write")
    /\ UNCHANGED <<now, successes, written, ledger, ack, raced, deaths, died, queries>>

\* Another thread may have written since: a shorter text leaves the end of the longer one.
Write(t) ==
    /\ At(t, "write")
    /\ IF Length(call[t].last) >= Length(dedup)
       THEN dedup' = call[t].last /\ state' = "whole"
       ELSE dedup' = dedup /\ state' = "damaged"
    /\ call' = [call EXCEPT ![t] = [@ EXCEPT !.pc = "forget", !.last = Nothing]]
    /\ UNCHANGED <<now, successes, written, ledger, ack, raced, deaths, died, queries>>

LockFree(t) == \A u \in Threads : ProcessOf[u] = ProcessOf[t] => ~At(u, "save")

Forget_leavesThrottle(t) ==
    /\ At(t, "forget")
    /\ LockFree(t)
    /\ raced' = raced \ {Key(t)}
    /\ Go(t, "append")
    /\ UNCHANGED <<now, files, written, successes, ledger, ack, deaths, died, queries>>

Forget(t) ==
    /\ At(t, "forget")
    /\ LockFree(t)
    /\ written' = [written EXCEPT ![ProcessOf[t]][Key(t)] = 0]
    /\ raced' = raced \ {Key(t)}
    /\ Go(t, "append")
    /\ UNCHANGED <<now, files, successes, ledger, ack, deaths, died, queries>>

Append(t) ==
    /\ At(t, "append")
    /\ ledger' = [ledger EXCEPT ![Key(t)] = now]
    /\ Leave(t)
    /\ UNCHANGED <<now, files, successes, written, ack, raced, deaths, died, queries>>

-----------------------------------------------------------------------------
(* record_data_layer_success *)

Throttled(t) == Within(written[ProcessOf[t]][Key(t)], Throttle)

Ignore(t) ==
    /\ At(t, "worked")
    /\ LockFree(t)
    /\ Throttled(t)
    /\ Leave(t)
    /\ UNCHANGED <<now, files, successes, written, ledger, ack, raced, deaths, died, queries>>

AppendsNext(k) == \E u \in Threads : At(u, "append") /\ Key(u) = k

Load(t) ==
    /\ At(t, "worked")
    /\ LockFree(t)
    /\ ~Throttled(t)
    /\ written' = [written EXCEPT ![ProcessOf[t]][Key(t)] = now]
    /\ raced' = IF AppendsNext(Key(t)) THEN raced \cup {Key(t)} ELSE raced \ {Key(t)}
    /\ call' = [call EXCEPT ![t] = [@ EXCEPT !.pc = "save", !.saved = successes]]
    /\ UNCHANGED <<now, files, successes, ledger, ack, deaths, died, queries>>

\* os.replace: a reader sees the file before or after.
Save(t) ==
    /\ At(t, "save")
    /\ successes' = [call[t].saved EXCEPT ![Key(t)] = now]
    /\ Leave(t)
    /\ UNCHANGED <<now, files, written, ledger, ack, raced, deaths, died, queries>>

-----------------------------------------------------------------------------
(* The operator, time, death *)

\* app_acknowledge_data_layer_errors
Acknowledge ==
    /\ ack' = now
    /\ UNCHANGED <<now, call, files, successes, written, ledger, raced, deaths, died, queries>>

Tick ==
    /\ now < MaxNow
    /\ now' = now + 1
    /\ UNCHANGED <<call, files, successes, written, ledger, ack, raced, deaths, died, queries>>

Die(p) ==
    /\ deaths < MaxDeaths
    /\ deaths' = deaths + 1 /\ died' = now
    /\ call' = [t \in Threads |-> IF ProcessOf[t] = p THEN Idle ELSE call[t]]
    /\ written' = [written EXCEPT ![p] = Never]
    /\ UNCHANGED <<now, files, successes, ledger, ack, raced, queries>>

Failure(t) == Swallow(t) \/ Suppress(t) \/ LetIn(t) \/ Truncate(t) \/ Write(t) \/ Forget(t) \/ Append(t)
Success(t) == Ignore(t) \/ Load(t) \/ Save(t)

Next ==
    \/ \E t \in Threads :
        \/ \E k \in Keys, end \in {"failed", "worked"} : Query(t, k, end)
        \/ Failure(t)
        \/ Success(t)
    \/ Acknowledge
    \/ Tick
    \/ \E p \in Processes : Die(p)

Spec == Init /\ [][Next]_vars

-----------------------------------------------------------------------------
(* Properties *)

Recording == {"open", "write", "forget", "append"}
Ends(t, pc) == call[t].pc = pc /\ call'[t].pc = "idle" /\ UNCHANGED deaths
Recent(then) == Within(then, RateLimit)

\* Why the probe of a revision may be silent about a failure of k that thread t has just
\* recorded or kept out of the ledger: within RateLimit somebody acknowledged, the same
\* failure was recorded for another revision, or a process died; or another thread is just
\* recording it; or the file of last times cannot be read.
Excused(t, k) ==
    \/ Recent(ack) \/ Recent(died)
    \/ \E j \in Keys : j # k /\ j[2] = k[2] /\ Recent(ledger[j])
    \/ \E u \in Threads \ {t} : call[u].pc \in Recording /\ File(u) = k[2]
    \/ state # "whole"

\* A query failure reaches the data_layer probe (prober.py:420): when its recording ends,
\* by a record or by suppression, the health check of the revision reports the file, or an
\* excuse of the last RateLimit seconds holds.
FailuresAreReported ==
    [][\A t \in Threads, k \in Keys :
        k = Key(t) /\ (Ends(t, "failed") \/ Ends(t, "append")) => Reported(k)' \/ Excused(t, k)]_vars

\* "The first success after an error is always persisted" (service.py:248): when the record
\* of a success ends, throttled or saved, the success on disk is no older than the newest
\* failure, unless a success was noted while that failure was between forgetting the last
\* write and its record.
SuccessesAreSeen ==
    [][\A t \in Threads : Ends(t, "worked") \/ Ends(t, "save") =>
        Key(t) \in raced \/ successes'[Key(t)] >= ledger[Key(t)]]_vars
=============================================================================
