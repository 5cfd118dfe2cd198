-------------------------- MODULE DiagnosticsProofs --------------------------
(***************************************************************************)
(* Theorems about Diagnostics for every value of its constants: any number *)
(* of threads, in one process or in several, of query files and revisions, *)
(* and deaths of a process at any step.  The last theorem is about one     *)
(* process, since two lose successes.                                      *)
(***************************************************************************)
EXTENDS Diagnostics, TLAPS

-----------------------------------------------------------------------------
(* Type correctness.  A thread that has begun has a query.                 *)

HasKey == \A t \in Threads : call[t].pc # "idle" => call[t].key \in Keys
TypeInv == TypeOK /\ HasKey

\* The call of one thread becomes c, the others stay.
Becomes(t, c) == /\ call' \in [Threads -> Call]
                 /\ call'[t] = c
                 /\ \A u \in Threads \ {t} : call'[u] = call[u]

IsIdle == Idle \in Call /\ Idle.pc = "idle" /\ Idle.last = Nothing /\ Idle.saved = Never
LEMMA IdleIsCall == IsIdle
  BY DiagnosticsAssumption DEF IsIdle, Idle, Call, Steps, Nothing, Never, Stamps, Times

LEMMA BecomesKeeps ==
    ASSUME TypeInv, NEW t \in Threads, NEW c \in Call, call' = [call EXCEPT ![t] = c]
    PROVE  Becomes(t, c)
  BY DEF TypeInv, TypeOK, Becomes

\* The call becomes one with a query, or none.
LEMMA KeysKeep ==
    ASSUME TypeInv, NEW t \in Threads, NEW pc, NEW k \in Keys, NEW last, NEW saved,
           Becomes(t, [pc |-> pc, key |-> k, last |-> last, saved |-> saved])
    PROVE  HasKey' /\ call' \in [Threads -> Call]
  BY DEF TypeInv, TypeOK, HasKey, Becomes

LEMMA LeaveKeeps ==
    ASSUME TypeInv, NEW t \in Threads, Becomes(t, Idle)
    PROVE  HasKey' /\ call' \in [Threads -> Call]
  BY IdleIsCall DEF IsIdle, TypeInv, TypeOK, HasKey, Becomes

\* A call with another step, or with other copies, is a call.
LEMMA CopyPc ==
    ASSUME NEW c \in Call, NEW pc \in Steps
    PROVE  /\ [c EXCEPT !.pc = pc] \in Call
           /\ [c EXCEPT !.pc = pc] = [pc |-> pc, key |-> c.key, last |-> c.last, saved |-> c.saved]
<1>1. [c EXCEPT !.pc = pc] \in Call
  BY DEF Call
<1>2. [c EXCEPT !.pc = pc] = [pc |-> pc, key |-> c.key, last |-> c.last, saved |-> c.saved]
  BY DEF Call
<1> QED BY <1>1, <1>2

LEMMA CopyLast ==
    ASSUME NEW c \in Call, NEW pc \in Steps, NEW last \in [Files -> Times]
    PROVE  /\ [c EXCEPT !.pc = pc, !.last = last] \in Call
           /\ [c EXCEPT !.pc = pc, !.last = last] = [pc |-> pc, key |-> c.key, last |-> last, saved |-> c.saved]
<1> DEFINE d == [c EXCEPT !.pc = pc]
<1>1. d \in Call /\ d = [pc |-> pc, key |-> c.key, last |-> c.last, saved |-> c.saved]
  BY CopyPc
<1> HIDE DEF d
<1>2. [d EXCEPT !.last = last] \in Call
  BY <1>1 DEF Call
<1>3. [d EXCEPT !.last = last] = [pc |-> pc, key |-> c.key, last |-> last, saved |-> c.saved]
  BY <1>1 DEF Call
<1> QED BY <1>2, <1>3 DEF d

LEMMA CopySaved ==
    ASSUME NEW c \in Call, NEW pc \in Steps, NEW saved \in Stamps
    PROVE  /\ [c EXCEPT !.pc = pc, !.saved = saved] \in Call
           /\ [c EXCEPT !.pc = pc, !.saved = saved] = [pc |-> pc, key |-> c.key, last |-> c.last, saved |-> saved]
<1> DEFINE d == [c EXCEPT !.pc = pc]
<1>1. d \in Call /\ d = [pc |-> pc, key |-> c.key, last |-> c.last, saved |-> c.saved]
  BY CopyPc
<1> HIDE DEF d
<1>2. [d EXCEPT !.saved = saved] \in Call
  BY <1>1 DEF Call
<1>3. [d EXCEPT !.saved = saved] = [pc |-> pc, key |-> c.key, last |-> c.last, saved |-> saved]
  BY <1>1 DEF Call
<1> QED BY <1>2, <1>3 DEF d

LEMMA GoBecomes ==
    ASSUME TypeInv, NEW t \in Threads, NEW pc \in Steps, Go(t, pc)
    PROVE  Becomes(t, [pc |-> pc, key |-> call[t].key, last |-> call[t].last, saved |-> call[t].saved])
<1>1. call[t] \in Call /\ call' = [call EXCEPT ![t] = [call[t] EXCEPT !.pc = pc]]
  BY DEF Go, TypeInv, TypeOK
<1>2. [call[t] EXCEPT !.pc = pc] \in Call /\ Becomes(t, [call[t] EXCEPT !.pc = pc])
  BY <1>1, CopyPc, BecomesKeeps
<1> QED BY <1>1, <1>2, CopyPc

LEMMA LeaveBecomes ==
    ASSUME TypeInv, NEW t \in Threads, Leave(t)
    PROVE  Becomes(t, Idle)
  BY BecomesKeeps, IdleIsCall DEF Leave, IsIdle

LEMMA QueryBecomes ==
    ASSUME TypeInv, NEW t \in Threads, NEW k \in Keys, NEW end \in {"failed", "worked"}, Query(t, k, end)
    PROVE  Becomes(t, [pc |-> end, key |-> k, last |-> Nothing, saved |-> Never])
<1>1. [pc |-> end, key |-> k, last |-> Nothing, saved |-> Never] \in Call
  BY DiagnosticsAssumption DEF Call, Steps, Nothing, Never, Stamps, Times
<1> QED BY <1>1, BecomesKeeps DEF Query

LEMMA LetInBecomes ==
    ASSUME TypeInv, NEW t \in Threads, LetIn(t)
    PROVE  /\ [dedup EXCEPT ![File(t)] = now] \in [Files -> Times]
           /\ Becomes(t, [pc |-> "open", key |-> call[t].key, last |-> [dedup EXCEPT ![File(t)] = now],
                          saved |-> call[t].saved])
<1> DEFINE d == [dedup EXCEPT ![File(t)] = now]
<1>1. d \in [Files -> Times]
  BY DEF TypeInv, TypeOK
<1>2. call[t] \in Call /\ call' = [call EXCEPT ![t] = [call[t] EXCEPT !.pc = "open", !.last = d]]
  BY DEF LetIn, TypeInv, TypeOK
<1>3. "open" \in Steps
  BY DEF Steps
<1> HIDE DEF d
<1>4. /\ [call[t] EXCEPT !.pc = "open", !.last = d] \in Call
      /\ [call[t] EXCEPT !.pc = "open", !.last = d] =
           [pc |-> "open", key |-> call[t].key, last |-> d, saved |-> call[t].saved]
  BY <1>1, <1>2, <1>3, CopyLast
<1>5. Becomes(t, [pc |-> "open", key |-> call[t].key, last |-> d, saved |-> call[t].saved])
  BY <1>2, <1>4, BecomesKeeps
<1> QED BY <1>1, <1>5 DEF d

LEMMA WriteBecomes ==
    ASSUME TypeInv, NEW t \in Threads, Write(t)
    PROVE  Becomes(t, [pc |-> "forget", key |-> call[t].key, last |-> Nothing, saved |-> call[t].saved])
<1>1. Nothing \in [Files -> Times] /\ "forget" \in Steps
  BY DiagnosticsAssumption DEF Nothing, Times, Steps
<1>2. call[t] \in Call /\ call' = [call EXCEPT ![t] = [call[t] EXCEPT !.pc = "forget", !.last = Nothing]]
  BY DEF Write, TypeInv, TypeOK
<1>3. /\ [call[t] EXCEPT !.pc = "forget", !.last = Nothing] \in Call
      /\ [call[t] EXCEPT !.pc = "forget", !.last = Nothing] =
           [pc |-> "forget", key |-> call[t].key, last |-> Nothing, saved |-> call[t].saved]
  BY <1>1, <1>2, CopyLast
<1> QED BY <1>2, <1>3, BecomesKeeps

LEMMA LoadBecomes ==
    ASSUME TypeInv, NEW t \in Threads, Load(t)
    PROVE  Becomes(t, [pc |-> "save", key |-> call[t].key, last |-> call[t].last, saved |-> successes])
<1>1. successes \in Stamps /\ "save" \in Steps
  BY DEF Steps, TypeInv, TypeOK
<1>2. call[t] \in Call /\ call' = [call EXCEPT ![t] = [call[t] EXCEPT !.pc = "save", !.saved = successes]]
  BY DEF Load, TypeInv, TypeOK
<1>3. /\ [call[t] EXCEPT !.pc = "save", !.saved = successes] \in Call
      /\ [call[t] EXCEPT !.pc = "save", !.saved = successes] =
           [pc |-> "save", key |-> call[t].key, last |-> call[t].last, saved |-> successes]
  BY <1>1, <1>2, CopySaved
<1> QED BY <1>2, <1>3, BecomesKeeps

LEMMA TypeInit == Init => TypeInv
<1> SUFFICES ASSUME Init PROVE TypeInv
  OBVIOUS
<1>1. now \in Times /\ ack \in Times /\ died \in Times
  BY DiagnosticsAssumption DEF Init, Times
<1>2. dedup \in [Files -> Times] /\ ledger \in Stamps /\ successes \in Stamps /\ written \in [Processes -> Stamps]
  BY DiagnosticsAssumption DEF Init, Times, Stamps, Nothing, Never
<1>3. call \in [Threads -> Call] /\ \A t \in Threads : call[t].pc = "idle"
  BY IdleIsCall DEF Init, IsIdle
<1>4. deaths \in 0..MaxDeaths /\ queries \in 0..MaxQueries
  BY DiagnosticsAssumption DEF Init
<1> QED BY <1>1, <1>2, <1>3, <1>4 DEF Init, TypeInv, TypeOK, HasKey

LEMMA TypeStep == TypeInv /\ [Next]_vars => TypeInv'
<1> SUFFICES ASSUME TypeInv, [Next]_vars PROVE TypeInv'
  OBVIOUS
<1> USE DEF files
<1>1. ASSUME NEW t \in Threads, NEW k \in Keys, NEW end \in {"failed", "worked"}, Query(t, k, end) PROVE TypeInv'
  <2>1. HasKey' /\ call' \in [Threads -> Call]
    BY <1>1, QueryBecomes, KeysKeep
  <2>2. queries' \in 0..MaxQueries
    BY <1>1, DiagnosticsAssumption DEF Query, TypeInv, TypeOK
  <2> QED BY <1>1, <2>1, <2>2 DEF Query, TypeInv, TypeOK
<1>2. ASSUME NEW t \in Threads, Swallow(t) \/ Suppress(t) \/ Ignore(t) PROVE TypeInv'
  <2>1. Leave(t)
    BY <1>2 DEF Swallow, Suppress, Ignore
  <2>2. HasKey' /\ call' \in [Threads -> Call]
    BY <2>1, LeaveBecomes, LeaveKeeps
  <2> QED BY <1>2, <2>2 DEF Swallow, Suppress, Ignore, TypeInv, TypeOK
<1>3. ASSUME NEW t \in Threads, LetIn(t) PROVE TypeInv'
  <2>1. call[t].key \in Keys
    BY <1>3 DEF LetIn, At, TypeInv, HasKey
  <2>2. HasKey' /\ call' \in [Threads -> Call]
    BY <1>3, <2>1, LetInBecomes, KeysKeep
  <2> QED BY <1>3, <2>2 DEF LetIn, TypeInv, TypeOK
<1>4. ASSUME NEW t \in Threads, Truncate(t) PROVE TypeInv'
  <2>1. call[t].key \in Keys
    BY <1>4 DEF Truncate, At, TypeInv, HasKey
  <2>2. HasKey' /\ call' \in [Threads -> Call]
    BY <1>4, <2>1, GoBecomes, KeysKeep DEF Truncate, Steps
  <2>3. dedup' \in [Files -> Times]
    BY <1>4, DiagnosticsAssumption DEF Truncate, Nothing, Times
  <2> QED BY <1>4, <2>2, <2>3 DEF Truncate, TypeInv, TypeOK
<1>5. ASSUME NEW t \in Threads, Write(t) PROVE TypeInv'
  <2>1. call[t].key \in Keys /\ call[t].last \in [Files -> Times]
    BY <1>5 DEF Write, At, TypeInv, TypeOK, HasKey, Call
  <2>2. HasKey' /\ call' \in [Threads -> Call]
    BY <1>5, <2>1, WriteBecomes, KeysKeep
  <2>3. dedup' \in [Files -> Times] /\ state' \in {"whole", "damaged"}
    BY <1>5, <2>1 DEF Write, TypeInv, TypeOK
  <2> QED BY <1>5, <2>2, <2>3 DEF Write, TypeInv, TypeOK
<1>6. ASSUME NEW t \in Threads, Forget(t) PROVE TypeInv'
  <2>1. call[t].key \in Keys
    BY <1>6 DEF Forget, At, TypeInv, HasKey
  <2>2. HasKey' /\ call' \in [Threads -> Call]
    BY <1>6, <2>1, GoBecomes, KeysKeep DEF Forget, Steps
  <2>3. written' \in [Processes -> Stamps]
    <3>1. 0 \in Times /\ ProcessOf[t] \in Processes
      BY DiagnosticsAssumption DEF Times
    <3>2. [written[ProcessOf[t]] EXCEPT ![Key(t)] = 0] \in Stamps
      BY <3>1 DEF TypeInv, TypeOK, Stamps
    <3>3. written' = [written EXCEPT ![ProcessOf[t]] = [written[ProcessOf[t]] EXCEPT ![Key(t)] = 0]]
      BY <1>6 DEF Forget, TypeInv, TypeOK
    <3> QED BY <3>2, <3>3 DEF TypeInv, TypeOK
  <2> QED BY <1>6, <2>2, <2>3 DEF Forget, TypeInv, TypeOK
<1>7. ASSUME NEW t \in Threads, Append(t) PROVE TypeInv'
  <2>1. HasKey' /\ call' \in [Threads -> Call]
    BY <1>7, LeaveBecomes, LeaveKeeps DEF Append
  <2>2. ledger' \in Stamps
    BY <1>7 DEF Append, TypeInv, TypeOK, Stamps
  <2> QED BY <1>7, <2>1, <2>2 DEF Append, TypeInv, TypeOK
<1>8. ASSUME NEW t \in Threads, Load(t) PROVE TypeInv'
  <2>1. call[t].key \in Keys
    BY <1>8 DEF Load, At, TypeInv, HasKey
  <2>2. HasKey' /\ call' \in [Threads -> Call]
    BY <1>8, <2>1, LoadBecomes, KeysKeep
  <2>3. written' \in [Processes -> Stamps]
    <3>1. [written[ProcessOf[t]] EXCEPT ![Key(t)] = now] \in Stamps
      BY DiagnosticsAssumption DEF TypeInv, TypeOK, Stamps
    <3>2. written' = [written EXCEPT ![ProcessOf[t]] = [written[ProcessOf[t]] EXCEPT ![Key(t)] = now]]
      BY <1>8 DEF Load, TypeInv, TypeOK
    <3> QED BY <3>1, <3>2 DEF TypeInv, TypeOK
  <2>4. raced' \subseteq Keys
    BY <1>8, <2>1 DEF Load, Key, TypeInv, TypeOK
  <2> QED BY <1>8, <2>2, <2>3, <2>4 DEF Load, TypeInv, TypeOK
<1>9. ASSUME NEW t \in Threads, Save(t) PROVE TypeInv'
  <2>1. HasKey' /\ call' \in [Threads -> Call]
    BY <1>9, LeaveBecomes, LeaveKeeps DEF Save
  <2>2. successes' \in Stamps
    BY <1>9 DEF Save, TypeInv, TypeOK, Call, Stamps
  <2> QED BY <1>9, <2>1, <2>2 DEF Save, TypeInv, TypeOK
<1>10. CASE Acknowledge
  BY <1>10 DEF Acknowledge, TypeInv, TypeOK, HasKey
<1>11. CASE Tick
  <2>1. now' \in Times
    BY <1>11, DiagnosticsAssumption DEF Tick, TypeInv, TypeOK, Times
  <2> QED BY <1>11, <2>1 DEF Tick, TypeInv, TypeOK, HasKey
<1>12. ASSUME NEW p \in Processes, Die(p) PROVE TypeInv'
  <2>1. call' \in [Threads -> Call] /\ HasKey'
    BY <1>12, IdleIsCall DEF Die, IsIdle, TypeInv, TypeOK, HasKey
  <2>2. written' \in [Processes -> Stamps]
    BY <1>12, DiagnosticsAssumption DEF Die, TypeInv, TypeOK, Stamps, Never, Times
  <2>3. deaths' \in 0..MaxDeaths
    BY <1>12, DiagnosticsAssumption DEF Die, TypeInv, TypeOK
  <2> QED BY <1>12, <2>1, <2>2, <2>3 DEF Die, TypeInv, TypeOK
<1>13. CASE UNCHANGED vars
  BY <1>13 DEF vars, TypeInv, TypeOK, HasKey
<1> QED BY <1>1, <1>2, <1>3, <1>4, <1>5, <1>6, <1>7, <1>8, <1>9, <1>10, <1>11, <1>12, <1>13
        DEF Next, Failure, Success

\* Every variable has its type, and every thread that records the end of a query knows
\* its revision and file.
THEOREM DiagnosticsTypeCorrect == Spec => []TypeInv
  BY TypeInit, TypeStep, PTL DEF Spec

-----------------------------------------------------------------------------
(* Stamps come from the past.                                              *)

TimeInv ==
    /\ now >= 1 /\ ack <= now /\ died <= now
    /\ \A k \in Keys : ledger[k] <= now /\ successes[k] <= now
    /\ \A f \in Files : dedup[f] <= now
    /\ \A t \in Threads : (\A f \in Files : call[t].last[f] <= now) /\ (\A k \in Keys : call[t].saved[k] <= now)

LEMMA Numbers ==
    ASSUME TypeInv
    PROVE  /\ now \in Nat /\ ack \in Nat /\ died \in Nat
           /\ \A k \in Keys : ledger[k] \in Nat /\ successes[k] \in Nat
           /\ \A f \in Files : dedup[f] \in Nat
           /\ \A t \in Threads : (\A f \in Files : call[t].last[f] \in Nat) /\ (\A k \in Keys : call[t].saved[k] \in Nat)
<1>1. Times \subseteq Nat
  BY DiagnosticsAssumption DEF Times
<1>2. \A t \in Threads : call[t].last \in [Files -> Times] /\ call[t].saved \in [Keys -> Times]
  BY DEF TypeInv, TypeOK, Call, Stamps
<1> QED BY <1>1, <1>2 DEF TypeInv, TypeOK, Stamps

\* Where the last times and copies of one thread come from the past, they all do.
LEMMA CallsFromPast ==
    ASSUME TypeInv, TimeInv, NEW t \in Threads, NEW pc, NEW k, NEW last, NEW saved,
           Becomes(t, [pc |-> pc, key |-> k, last |-> last, saved |-> saved]),
           \A f \in Files : last[f] <= now, \A j \in Keys : saved[j] <= now, now' = now
    PROVE  \A u \in Threads : /\ \A f \in Files : call'[u].last[f] <= now'
                              /\ \A j \in Keys : call'[u].saved[j] <= now'
  BY DEF TimeInv, Becomes

LEMMA LeaveFromPast ==
    ASSUME TypeInv, TimeInv, NEW t \in Threads, Becomes(t, Idle), now' = now
    PROVE  \A u \in Threads : /\ \A f \in Files : call'[u].last[f] <= now'
                              /\ \A j \in Keys : call'[u].saved[j] <= now'
<1>1. Idle.last = Nothing /\ Idle.saved = Never /\ now \in Nat
  BY IdleIsCall, Numbers DEF IsIdle
<1>2. (\A f \in Files : Nothing[f] <= now) /\ (\A j \in Keys : Never[j] <= now)
  BY <1>1 DEF Nothing, Never
<1> QED BY <1>1, <1>2 DEF TimeInv, Becomes

LEMMA TimeInit == Init => TimeInv
<1> SUFFICES ASSUME Init PROVE TimeInv
  OBVIOUS
<1>1. \A t \in Threads : call[t].last = Nothing /\ call[t].saved = Never
  BY IdleIsCall DEF Init, IsIdle
<1>2. \A t \in Threads : /\ \A f \in Files : call[t].last[f] <= now
                         /\ \A k \in Keys : call[t].saved[k] <= now
  BY <1>1 DEF Init, Nothing, Never
<1> QED BY <1>2 DEF Init, TimeInv, Nothing, Never

LEMMA TimeStep == TypeInv /\ TimeInv /\ [Next]_vars => TimeInv'
<1> SUFFICES ASSUME TypeInv, TimeInv, [Next]_vars PROVE TimeInv'
  OBVIOUS
<1> USE DEF files
<1>0. now \in Nat
  BY Numbers
<1>1. ASSUME NEW t \in Threads, NEW k \in Keys, NEW end \in {"failed", "worked"}, Query(t, k, end) PROVE TimeInv'
  <2>1. (\A f \in Files : Nothing[f] <= now) /\ (\A j \in Keys : Never[j] <= now)
    BY <1>0 DEF Nothing, Never
  <2>2. now' = now
    BY <1>1 DEF Query
  <2>3. \A u \in Threads : /\ \A f \in Files : call'[u].last[f] <= now'
                           /\ \A j \in Keys : call'[u].saved[j] <= now'
    BY <1>1, <2>1, <2>2, QueryBecomes, CallsFromPast
  <2> QED BY <1>1, <2>3 DEF Query, TimeInv
<1>2. ASSUME NEW t \in Threads, Swallow(t) \/ Suppress(t) \/ Ignore(t) PROVE TimeInv'
  <2>1. Leave(t) /\ now' = now
    BY <1>2 DEF Swallow, Suppress, Ignore
  <2>2. \A u \in Threads : /\ \A f \in Files : call'[u].last[f] <= now'
                           /\ \A j \in Keys : call'[u].saved[j] <= now'
    BY <2>1, LeaveBecomes, LeaveFromPast
  <2> QED BY <1>2, <2>2 DEF Swallow, Suppress, Ignore, TimeInv
<1>3. ASSUME NEW t \in Threads, LetIn(t) PROVE TimeInv'
  <2> DEFINE d == [dedup EXCEPT ![File(t)] = now]
  <2>1. \A f \in Files : d[f] <= now
    BY <1>0 DEF TypeInv, TypeOK, TimeInv
  <2>2. now' = now /\ Becomes(t, [pc |-> "open", key |-> call[t].key, last |-> d, saved |-> call[t].saved])
    BY <1>3, LetInBecomes DEF LetIn
  <2> HIDE DEF d
  <2>3. \A j \in Keys : call[t].saved[j] <= now
    BY DEF TimeInv
  <2>4. \A u \in Threads : /\ \A f \in Files : call'[u].last[f] <= now'
                           /\ \A j \in Keys : call'[u].saved[j] <= now'
    BY <2>1, <2>2, <2>3, CallsFromPast
  <2> QED BY <1>3, <2>4 DEF LetIn, TimeInv
<1>4. ASSUME NEW t \in Threads, Truncate(t) PROVE TimeInv'
  <2>1. now' = now /\ Go(t, "write") /\ "write" \in Steps
    BY <1>4 DEF Truncate, Steps
  <2>2. (\A f \in Files : call[t].last[f] <= now) /\ (\A j \in Keys : call[t].saved[j] <= now)
    BY DEF TimeInv
  <2>3. \A u \in Threads : /\ \A f \in Files : call'[u].last[f] <= now'
                           /\ \A j \in Keys : call'[u].saved[j] <= now'
    BY <2>1, <2>2, GoBecomes, CallsFromPast
  <2>4. \A f \in Files : dedup'[f] <= now'
    BY <1>0, <1>4, <2>1 DEF Truncate, Nothing
  <2> QED BY <1>4, <2>3, <2>4 DEF Truncate, TimeInv
<1>5. ASSUME NEW t \in Threads, Write(t) PROVE TimeInv'
  <2>1. now' = now /\ (\A f \in Files : Nothing[f] <= now)
    BY <1>0, <1>5 DEF Write, Nothing
  <2>2. (\A f \in Files : call[t].last[f] <= now) /\ (\A j \in Keys : call[t].saved[j] <= now)
    BY DEF TimeInv
  <2>3. \A u \in Threads : /\ \A f \in Files : call'[u].last[f] <= now'
                           /\ \A j \in Keys : call'[u].saved[j] <= now'
    BY <1>5, <2>1, <2>2, WriteBecomes, CallsFromPast
  <2>4. \A f \in Files : dedup'[f] <= now'
    BY <1>5, <2>1, <2>2 DEF Write, TimeInv
  <2> QED BY <1>5, <2>3, <2>4 DEF Write, TimeInv
<1>6. ASSUME NEW t \in Threads, Forget(t) PROVE TimeInv'
  <2>1. now' = now /\ Go(t, "append") /\ "append" \in Steps
    BY <1>6 DEF Forget, Steps
  <2>2. (\A f \in Files : call[t].last[f] <= now) /\ (\A j \in Keys : call[t].saved[j] <= now)
    BY DEF TimeInv
  <2>3. \A u \in Threads : /\ \A f \in Files : call'[u].last[f] <= now'
                           /\ \A j \in Keys : call'[u].saved[j] <= now'
    BY <2>1, <2>2, GoBecomes, CallsFromPast
  <2> QED BY <1>6, <2>3 DEF Forget, TimeInv
<1>7. ASSUME NEW t \in Threads, Append(t) PROVE TimeInv'
  <2>1. now' = now /\ Leave(t)
    BY <1>7 DEF Append
  <2>2. \A u \in Threads : /\ \A f \in Files : call'[u].last[f] <= now'
                           /\ \A j \in Keys : call'[u].saved[j] <= now'
    BY <2>1, LeaveBecomes, LeaveFromPast
  <2>3. \A k \in Keys : ledger'[k] <= now'
    BY <1>0, <1>7, <2>1 DEF Append, TypeInv, TypeOK, Stamps, TimeInv
  <2> QED BY <1>7, <2>2, <2>3 DEF Append, TimeInv
<1>8. ASSUME NEW t \in Threads, Load(t) PROVE TimeInv'
  <2>1. now' = now /\ (\A f \in Files : call[t].last[f] <= now) /\ (\A j \in Keys : successes[j] <= now)
    BY <1>8 DEF Load, TimeInv
  <2>2. \A u \in Threads : /\ \A f \in Files : call'[u].last[f] <= now'
                           /\ \A j \in Keys : call'[u].saved[j] <= now'
    BY <1>8, <2>1, LoadBecomes, CallsFromPast
  <2> QED BY <1>8, <2>2 DEF Load, TimeInv
<1>9. ASSUME NEW t \in Threads, Save(t) PROVE TimeInv'
  <2>1. now' = now /\ Leave(t)
    BY <1>9 DEF Save
  <2>2. \A u \in Threads : /\ \A f \in Files : call'[u].last[f] <= now'
                           /\ \A j \in Keys : call'[u].saved[j] <= now'
    BY <2>1, LeaveBecomes, LeaveFromPast
  <2>3. call[t].saved \in [Keys -> Times]
    BY DEF TypeInv, TypeOK, Call, Stamps
  <2>4. \A k \in Keys : successes'[k] <= now'
    BY <1>0, <1>9, <2>1, <2>3 DEF Save, TimeInv
  <2> QED BY <1>9, <2>2, <2>4 DEF Save, TimeInv
<1>10. CASE Acknowledge
  BY <1>0, <1>10 DEF Acknowledge, TimeInv
<1>11. CASE Tick
  <2>1. now' = now + 1 /\ UNCHANGED <<call, dedup, successes, ledger, ack, died>>
    BY <1>11 DEF Tick
  <2>2. \A n \in Nat : n <= now => n <= now'
    BY <1>0, <2>1
  <2> QED BY <1>0, <2>1, <2>2, Numbers DEF TimeInv
<1>12. ASSUME NEW p \in Processes, Die(p) PROVE TimeInv'
  <2>1. now' = now
    BY <1>12 DEF Die
  <2>2. \A u \in Threads : call'[u] = Idle \/ call'[u] = call[u]
    BY <1>12 DEF Die
  <2>3. (\A f \in Files : Idle.last[f] <= now) /\ (\A j \in Keys : Idle.saved[j] <= now)
    BY <1>0 DEF Idle, Nothing, Never
  <2>4. \A u \in Threads : /\ \A f \in Files : call'[u].last[f] <= now'
                           /\ \A j \in Keys : call'[u].saved[j] <= now'
    BY <2>1, <2>2, <2>3 DEF TimeInv
  <2> QED BY <1>0, <1>12, <2>4 DEF Die, TimeInv
<1>13. CASE UNCHANGED vars
  BY <1>13 DEF vars, TimeInv
<1> QED BY <1>1, <1>2, <1>3, <1>4, <1>5, <1>6, <1>7, <1>8, <1>9, <1>10, <1>11, <1>12, <1>13
        DEF Next, Failure, Success

-----------------------------------------------------------------------------
(* Every failure that was let in left a trace: a record no older than it,  *)
(* a death since, or a thread that is still on its way to the record.      *)

OnTheWay(f) == \E u \in Threads : call[u].pc \in Recording /\ call[u].key[2] = f
Traced(f, d) ==
    \/ \E k \in Keys : k[2] = f /\ ledger[k] >= d
    \/ died >= d
    \/ OnTheWay(f)

TraceInv ==
    /\ \A f \in Files : dedup[f] # 0 => Traced(f, dedup[f])
    /\ \A t \in Threads, f \in Files : call[t].last[f] # 0 => Traced(f, call[t].last[f])

Inv == TypeInv /\ TimeInv /\ TraceInv

\* A thread on its way to a record stays on it.
LEMMA StaysOnTheWay ==
    ASSUME TypeInv, NEW t \in Threads, NEW pc, NEW k, NEW last, NEW saved,
           Becomes(t, [pc |-> pc, key |-> k, last |-> last, saved |-> saved]),
           call[t].pc \in Recording => pc \in Recording /\ k = call[t].key,
           UNCHANGED <<ledger, died>>,
           NEW f \in Files, NEW d \in Nat, Traced(f, d)
    PROVE  Traced(f, d)'
<1>1. CASE OnTheWay(f)
  <2>1. PICK u \in Threads : call[u].pc \in Recording /\ call[u].key[2] = f
    BY <1>1 DEF OnTheWay
  <2>2. call'[u].pc \in Recording /\ call'[u].key[2] = f
    BY <2>1 DEF Becomes
  <2> QED BY <2>2 DEF Traced, OnTheWay
<1>2. CASE ~OnTheWay(f)
  BY <1>2 DEF Traced
<1> QED BY <1>1, <1>2

\* A thread that is not on its way to a record leaves.
LEMMA LeavingKeepsTraces ==
    ASSUME TypeInv, NEW t \in Threads, Becomes(t, Idle), call[t].pc \notin Recording,
           UNCHANGED <<ledger, died>>,
           NEW f \in Files, NEW d \in Nat, Traced(f, d)
    PROVE  Traced(f, d)'
<1>1. CASE OnTheWay(f)
  <2>1. PICK u \in Threads : call[u].pc \in Recording /\ call[u].key[2] = f
    BY <1>1 DEF OnTheWay
  <2>2. call'[u] = call[u]
    BY <2>1 DEF Becomes
  <2> QED BY <2>1, <2>2 DEF Traced, OnTheWay
<1>2. CASE ~OnTheWay(f)
  BY <1>2 DEF Traced
<1> QED BY <1>1, <1>2

\* No step of the system removes a trace.
LEMMA TracesStay ==
    ASSUME TypeInv, TimeInv, [Next]_vars, NEW f \in Files, NEW d \in Nat, d <= now, Traced(f, d)
    PROVE  Traced(f, d)'
<1> USE DEF files
<1>1. ASSUME NEW t \in Threads, NEW k \in Keys, NEW end \in {"failed", "worked"}, Query(t, k, end)
      PROVE  Traced(f, d)'
  <2>1. call[t].pc \notin Recording /\ UNCHANGED <<ledger, died>>
    BY <1>1 DEF Query, At, Recording
  <2> QED BY <1>1, <2>1, QueryBecomes, StaysOnTheWay
<1>2. ASSUME NEW t \in Threads, Swallow(t) \/ Suppress(t) \/ Ignore(t) \/ Save(t) PROVE Traced(f, d)'
  <2>1. Leave(t) /\ call[t].pc \notin Recording /\ UNCHANGED <<ledger, died>>
    BY <1>2 DEF Swallow, Suppress, Ignore, Save, At, Recording
  <2> QED BY <2>1, LeaveBecomes, LeavingKeepsTraces
<1>3. ASSUME NEW t \in Threads, LetIn(t) PROVE Traced(f, d)'
  <2>1. call[t].pc \notin Recording /\ UNCHANGED <<ledger, died>>
    BY <1>3 DEF LetIn, At, Recording
  <2> QED BY <1>3, <2>1, LetInBecomes, StaysOnTheWay
<1>4. ASSUME NEW t \in Threads, Truncate(t) PROVE Traced(f, d)'
  <2>1. Go(t, "write") /\ "write" \in Steps /\ "write" \in Recording /\ UNCHANGED <<ledger, died>>
    BY <1>4 DEF Truncate, Steps, Recording
  <2> QED BY <2>1, GoBecomes, StaysOnTheWay
<1>5. ASSUME NEW t \in Threads, Write(t) PROVE Traced(f, d)'
  <2>1. "forget" \in Recording /\ UNCHANGED <<ledger, died>>
    BY <1>5 DEF Write, Recording
  <2> QED BY <1>5, <2>1, WriteBecomes, StaysOnTheWay
<1>6. ASSUME NEW t \in Threads, Forget(t) PROVE Traced(f, d)'
  <2>1. Go(t, "append") /\ "append" \in Steps /\ "append" \in Recording /\ UNCHANGED <<ledger, died>>
    BY <1>6 DEF Forget, Steps, Recording
  <2> QED BY <2>1, GoBecomes, StaysOnTheWay
<1>7. ASSUME NEW t \in Threads, Append(t) PROVE Traced(f, d)'
  <2>1. Leave(t) /\ Key(t) \in Keys /\ ledger' = [ledger EXCEPT ![Key(t)] = now] /\ died' = died
    BY <1>7 DEF Append, At, Key, TypeInv, HasKey
  <2>2. \A k \in Keys : ledger[k] >= d => ledger'[k] >= d
    BY <2>1, Numbers DEF TypeInv, TypeOK, Stamps
  <2>3. CASE OnTheWay(f)
    <3>1. PICK u \in Threads : call[u].pc \in Recording /\ call[u].key[2] = f
      BY <2>3 DEF OnTheWay
    <3>2. CASE u = t
      <4>1. ledger'[Key(t)] = now /\ Key(t)[2] = f
        BY <2>1, <3>1, <3>2 DEF Key, TypeInv, TypeOK, Stamps
      <4>2. ledger'[Key(t)] >= d
        BY <4>1, Numbers
      <4> QED BY <2>1, <4>1, <4>2 DEF Traced
    <3>3. CASE u # t
      <4>1. call'[u] = call[u]
        BY <2>1, <3>3, LeaveBecomes DEF Becomes
      <4> QED BY <3>1, <4>1 DEF Traced, OnTheWay
    <3> QED BY <3>2, <3>3
  <2>4. CASE ~OnTheWay(f)
    BY <2>1, <2>2, <2>4 DEF Traced
  <2> QED BY <2>3, <2>4
<1>8. ASSUME NEW t \in Threads, Load(t) PROVE Traced(f, d)'
  <2>1. call[t].pc \notin Recording /\ UNCHANGED <<ledger, died>>
    BY <1>8 DEF Load, At, Recording
  <2> QED BY <1>8, <2>1, LoadBecomes, StaysOnTheWay
<1>9. CASE Acknowledge \/ Tick
  BY <1>9 DEF Acknowledge, Tick, Traced, OnTheWay
<1>10. ASSUME NEW p \in Processes, Die(p) PROVE Traced(f, d)'
  <2>1. died' = now
    BY <1>10 DEF Die
  <2> QED BY <2>1, Numbers DEF Traced
<1>11. CASE UNCHANGED vars
  BY <1>11 DEF vars, Traced, OnTheWay
<1> QED BY <1>1, <1>2, <1>3, <1>4, <1>5, <1>6, <1>7, <1>8, <1>9, <1>10, <1>11
        DEF Next, Failure, Success

\* What a step writes to the file of last times, or into a thread's copy of it, was in one
\* of them before, or is the failure that the step lets in.
LEMMA TracesOfCalls ==
    ASSUME Inv, [Next]_vars, NEW t \in Threads, NEW pc, NEW k, NEW last, NEW saved,
           Becomes(t, [pc |-> pc, key |-> k, last |-> last, saved |-> saved]),
           \A f \in Files : last[f] \in Nat,
           \A f \in Files, d \in Nat : last[f] = d /\ d # 0 => d <= now /\ (Traced(f, d) \/ Traced(f, d)')
    PROVE  \A u \in Threads, f \in Files, d \in Nat : call'[u].last[f] = d /\ d # 0 => Traced(f, d)'
<1> SUFFICES ASSUME NEW u \in Threads, NEW f \in Files, NEW d \in Nat, call'[u].last[f] = d, d # 0
             PROVE  Traced(f, d)'
  OBVIOUS
<1>1. CASE u = t
  <2>1. last[f] = d
    BY <1>1 DEF Becomes
  <2>2. d <= now /\ (Traced(f, d) \/ Traced(f, d)')
    BY <2>1
  <2> QED BY <2>2, TracesStay DEF Inv
<1>2. CASE u # t
  <2>1. call[u].last[f] = d
    BY <1>2 DEF Becomes
  <2>2. d <= now /\ Traced(f, d)
    BY <2>1 DEF Inv, TimeInv, TraceInv
  <2> QED BY <2>2, TracesStay DEF Inv
<1> QED BY <1>1, <1>2

LEMMA TracesOfLeavers ==
    ASSUME Inv, [Next]_vars, \A u \in Threads : call'[u] = Idle \/ call'[u] = call[u]
    PROVE  \A u \in Threads, f \in Files, d \in Nat : call'[u].last[f] = d /\ d # 0 => Traced(f, d)'
<1> SUFFICES ASSUME NEW u \in Threads, NEW f \in Files, NEW d \in Nat, call'[u].last[f] = d, d # 0
             PROVE  Traced(f, d)'
  OBVIOUS
<1>1. Idle.last[f] = 0
  BY DEF Idle, Nothing
<1>2. call[u].last[f] = d
  BY <1>1
<1>3. d <= now /\ Traced(f, d)
  BY <1>2 DEF Inv, TimeInv, TraceInv
<1> QED BY <1>3, TracesStay DEF Inv

\* The file of last times keeps traced values when each was there or in a thread's copy.
LEMMA TracesOfFile ==
    ASSUME Inv, [Next]_vars,
           \A f \in Files : \/ dedup'[f] = 0 \/ dedup'[f] = dedup[f]
                            \/ \E t \in Threads : dedup'[f] = call[t].last[f]
    PROVE  \A f \in Files, d \in Nat : dedup'[f] = d /\ d # 0 => Traced(f, d)'
<1> SUFFICES ASSUME NEW f \in Files, NEW d \in Nat, dedup'[f] = d, d # 0
             PROVE  Traced(f, d)'
  OBVIOUS
<1>1. dedup[f] = d \/ \E t \in Threads : call[t].last[f] = d
  OBVIOUS
<1>2. d <= now /\ Traced(f, d)
  BY <1>1 DEF Inv, TimeInv, TraceInv
<1> QED BY <1>2, TracesStay DEF Inv

LEMMA TraceInit == Init => TraceInv
<1> SUFFICES ASSUME Init PROVE TraceInv
  OBVIOUS
<1>1. \A t \in Threads : call[t].last = Nothing
  BY DEF Init, Idle
<1> QED BY <1>1 DEF Init, TraceInv, Nothing

LEMMA TraceStep == Inv /\ [Next]_vars => TraceInv'
<1> SUFFICES ASSUME Inv, [Next]_vars PROVE TraceInv'
  OBVIOUS
<1> USE DEF files
<1> DEFINE CallsTraced ==
        \A u \in Threads, f \in Files, d \in Nat : call'[u].last[f] = d /\ d # 0 => Traced(f, d)'
<1> DEFINE FileTraced == \A f \in Files, d \in Nat : dedup'[f] = d /\ d # 0 => Traced(f, d)'
<1>0. /\ \A f \in Files : Nothing[f] = 0
      /\ \A t \in Threads : \A f \in Files : call[t].last[f] \in Nat
      /\ TypeInv /\ TimeInv /\ TraceInv
  BY Numbers DEF Nothing, Inv
<1>a. ASSUME dedup' = dedup PROVE FileTraced
  BY <1>a, TracesOfFile
<1>b. ASSUME NEW t \in Threads, NEW pc, NEW k, NEW saved,
             Becomes(t, [pc |-> pc, key |-> k, last |-> call[t].last, saved |-> saved])
      PROVE  CallsTraced
  <2> DEFINE l == call[t].last
  <2>1. \A f \in Files, d \in Nat : l[f] = d /\ d # 0 => d <= now /\ Traced(f, d)
    BY <1>0 DEF TimeInv, TraceInv
  <2>2. Becomes(t, [pc |-> pc, key |-> k, last |-> l, saved |-> saved]) /\ \A f \in Files : l[f] \in Nat
    BY <1>b, <1>0
  <2> HIDE DEF l
  <2> QED BY <2>1, <2>2, TracesOfCalls
<1>1. ASSUME NEW t \in Threads, NEW k \in Keys, NEW end \in {"failed", "worked"}, Query(t, k, end)
      PROVE  CallsTraced /\ FileTraced
  <2>1. dedup' = dedup
    BY <1>1 DEF Query
  <2>2. Becomes(t, [pc |-> end, key |-> k, last |-> Nothing, saved |-> Never])
    BY <1>0, <1>1, QueryBecomes
  <2>3. \A f \in Files, d \in Nat : Nothing[f] = d /\ d # 0 => d <= now /\ (Traced(f, d) \/ Traced(f, d)')
    BY <1>0
  <2>4. \A f \in Files : Nothing[f] \in Nat
    BY <1>0
  <2>5. CallsTraced
    BY <2>2, <2>3, <2>4, TracesOfCalls
  <2> QED BY <1>a, <2>1, <2>5
<1>2. ASSUME NEW t \in Threads, Swallow(t) \/ Suppress(t) \/ Ignore(t) \/ Save(t) \/ Append(t)
      PROVE  CallsTraced /\ FileTraced
  <2>1. Leave(t) /\ dedup' = dedup
    BY <1>2 DEF Swallow, Suppress, Ignore, Save, Append
  <2>2. \A u \in Threads : call'[u] = Idle \/ call'[u] = call[u]
    BY <1>0, <2>1, LeaveBecomes DEF Becomes
  <2> QED BY <1>a, <2>1, <2>2, TracesOfLeavers
<1>3. ASSUME NEW t \in Threads, LetIn(t) PROVE CallsTraced /\ FileTraced
  <2> DEFINE l == [dedup EXCEPT ![File(t)] = now]
  <2>1. /\ l \in [Files -> Times]
        /\ Becomes(t, [pc |-> "open", key |-> call[t].key, last |-> l, saved |-> call[t].saved])
    BY <1>0, <1>3, LetInBecomes
  <2>2. dedup' = dedup
    BY <1>3 DEF LetIn
  <2>3. \A f \in Files : l[f] = dedup[f] \/ (f = File(t) /\ l[f] = now)
    BY <1>0 DEF TypeInv, TypeOK
  <2> HIDE DEF l
  <2>4. call'[t].pc = "open" /\ call'[t].key = call[t].key
    BY <2>1 DEF Becomes
  <2>5. ASSUME NEW f \in Files, NEW d \in Nat, l[f] = d, d # 0
        PROVE  d <= now /\ (Traced(f, d) \/ Traced(f, d)')
    <3>1. CASE l[f] = dedup[f]
      BY <1>0, <2>5, <3>1 DEF TimeInv, TraceInv
    <3>2. CASE f = File(t) /\ l[f] = now
      <4>1. OnTheWay(f)'
        BY <2>4, <3>2 DEF OnTheWay, Recording, File
      <4>2. d <= now
        BY <1>0, <2>5, <3>2, Numbers
      <4> QED BY <4>1, <4>2 DEF Traced
    <3> QED BY <2>3, <3>1, <3>2
  <2>6. \A f \in Files : l[f] \in Nat
    BY <2>1, DiagnosticsAssumption DEF Times
  <2>7. CallsTraced
    BY <2>1, <2>5, <2>6, TracesOfCalls
  <2> QED BY <1>a, <2>2, <2>7
<1>4. ASSUME NEW t \in Threads, Truncate(t) PROVE CallsTraced /\ FileTraced
  <2>1. Go(t, "write") /\ "write" \in Steps /\ dedup' = Nothing
    BY <1>4 DEF Truncate, Steps
  <2>2. CallsTraced
    BY <1>0, <1>b, <2>1, GoBecomes
  <2> QED BY <1>0, <2>1, <2>2
<1>5. ASSUME NEW t \in Threads, Write(t) PROVE CallsTraced /\ FileTraced
  <2>1. dedup' = dedup \/ dedup' = call[t].last
    BY <1>5 DEF Write
  <2>2. FileTraced
    BY <2>1, TracesOfFile
  <2>3. Becomes(t, [pc |-> "forget", key |-> call[t].key, last |-> Nothing, saved |-> call[t].saved])
    BY <1>0, <1>5, WriteBecomes
  <2>4. /\ \A f \in Files, d \in Nat : Nothing[f] = d /\ d # 0 => d <= now /\ (Traced(f, d) \/ Traced(f, d)')
        /\ \A f \in Files : Nothing[f] \in Nat
    BY <1>0
  <2>5. CallsTraced
    BY <2>3, <2>4, TracesOfCalls
  <2> QED BY <2>2, <2>5
<1>6. ASSUME NEW t \in Threads, Forget(t) PROVE CallsTraced /\ FileTraced
  <2>1. Go(t, "append") /\ "append" \in Steps /\ dedup' = dedup
    BY <1>6 DEF Forget, Steps
  <2>2. CallsTraced
    BY <1>0, <1>b, <2>1, GoBecomes
  <2> QED BY <1>a, <2>1, <2>2
<1>7. ASSUME NEW t \in Threads, Load(t) PROVE CallsTraced /\ FileTraced
  <2>1. dedup' = dedup
    BY <1>7 DEF Load
  <2>2. CallsTraced
    BY <1>0, <1>b, <1>7, LoadBecomes
  <2> QED BY <1>a, <2>1, <2>2
<1>8. ASSUME Acknowledge \/ Tick \/ UNCHANGED vars PROVE CallsTraced /\ FileTraced
  <2>1. call' = call /\ dedup' = dedup
    BY <1>8 DEF Acknowledge, Tick, vars
  <2> QED BY <1>a, <2>1, TracesOfLeavers
<1>9. ASSUME NEW p \in Processes, Die(p) PROVE CallsTraced /\ FileTraced
  <2>1. dedup' = dedup /\ \A u \in Threads : call'[u] = Idle \/ call'[u] = call[u]
    BY <1>9 DEF Die
  <2> QED BY <1>a, <2>1, TracesOfLeavers
<1>10. CallsTraced /\ FileTraced
  BY <1>1, <1>2, <1>3, <1>4, <1>5, <1>6, <1>7, <1>8, <1>9 DEF Next, Failure, Success
<1>11. /\ \A f \in Files : dedup'[f] \in Nat
       /\ \A u \in Threads, f \in Files : call'[u].last[f] \in Nat
  <2>1. TypeInv'
    BY <1>0, TypeStep
  <2>2. Times \subseteq Nat
    BY DiagnosticsAssumption DEF Times
  <2>3. \A u \in Threads : call'[u].last \in [Files -> Times]
    BY <2>1 DEF TypeInv, TypeOK, Call
  <2> QED BY <2>1, <2>2, <2>3 DEF TypeInv, TypeOK
<1>12. \A f \in Files : dedup'[f] # 0 => (\E d \in Nat : d = dedup'[f] /\ Traced(f, d)')
  BY <1>10, <1>11
<1>13. \A u \in Threads, f \in Files : call'[u].last[f] # 0 => (\E d \in Nat : d = call'[u].last[f] /\ Traced(f, d)')
  BY <1>10, <1>11
<1> QED BY <1>12, <1>13 DEF TraceInv, Traced

LEMMA Inductive == Inv /\ [Next]_vars => Inv'
  BY TypeStep, TimeStep, TraceStep DEF Inv

\* Every value in the file of last times, and in the copies that threads hold of it, stands
\* for a record, a death, or a thread on its way to the record: what the suppression of
\* repeated failures relies on.
THEOREM LetInFailuresAreTraced == Spec => []Inv
<1>1. Init => Inv
  BY TypeInit, TimeInit, TraceInit DEF Inv
<1> QED BY <1>1, Inductive, PTL DEF Spec

-----------------------------------------------------------------------------
(* What is suppressed is reported already, or excused.                     *)

LEMMA SuppressedIsReported ==
    ASSUME Inv, NEW t \in Threads, NEW k \in Keys, k = Key(t), Suppress(t)
    PROVE  Reported(k)' \/ Excused(t, k)
<1>0. /\ now \in Nat /\ RateLimit \in Nat
      /\ TypeInv /\ TimeInv /\ TraceInv
  BY Numbers, DiagnosticsAssumption DEF Inv
<1> DEFINE f == File(t)
<1> DEFINE d == dedup[File(t)]
<1>1. f \in Files /\ k[2] = f
  BY DiagnosticsAssumption DEF Key, File
<1>2. d # 0 /\ now - d < RateLimit /\ successes[k] <= d /\ d \in Nat
  BY <1>0, <1>1, Numbers DEF Suppress, Repeated, Within, SucceededSince
<1>3. \A n \in Nat : n >= d => Recent(n)
  BY <1>0, <1>2 DEF Recent, Within
<1>4. call[t].pc \notin Recording
  BY DEF Suppress, At, Recording
<1>5. UNCHANGED <<ledger, successes, ack>>
  BY DEF Suppress, files
<1>6. Traced(f, d)
  BY <1>0, <1>1, <1>2 DEF TraceInv
<1> HIDE DEF f, d
<1>7. CASE \E j \in Keys : j[2] = f /\ ledger[j] >= d
  <2>1. PICK j \in Keys : j[2] = f /\ ledger[j] >= d
    BY <1>7
  <2>2. CASE j # k
    BY <1>0, <1>1, <1>3, <2>1, <2>2, Numbers DEF Excused
  <2>3. CASE j = k
    <3>1. ledger[k] >= d /\ ledger[k] \in Nat /\ successes[k] \in Nat /\ ack \in Nat
      BY <1>0, <2>1, <2>3, Numbers
    <3>2. CASE ledger[k] <= ack
      <4>1. ack >= d
        BY <1>2, <3>1, <3>2
      <4> QED BY <1>3, <3>1, <4>1 DEF Excused
    <3>3. CASE ~(ledger[k] <= ack)
      <4>1. ledger[k] # 0 /\ ~(successes[k] > ledger[k])
        BY <1>2, <3>1
      <4> QED BY <1>5, <3>3, <4>1 DEF Reported, Resolved, Acknowledged
    <3> QED BY <3>2, <3>3
  <2> QED BY <2>2, <2>3
<1>8. CASE died >= d
  BY <1>0, <1>3, <1>8, Numbers DEF Excused
<1>9. CASE OnTheWay(f)
  <2>1. PICK u \in Threads : call[u].pc \in Recording /\ call[u].key[2] = f
    BY <1>9 DEF OnTheWay
  <2>2. u # t
    BY <1>4, <2>1
  <2> QED BY <1>1, <2>1, <2>2 DEF Excused, File
<1> QED BY <1>6, <1>7, <1>8, <1>9 DEF Traced

LEMMA AppendedIsReported ==
    ASSUME Inv, NEW t \in Threads, NEW k \in Keys, k = Key(t), Append(t)
    PROVE  Reported(k)' \/ Excused(t, k)
<1>1. /\ now \in Nat /\ now >= 1 /\ ack \in Nat /\ ack <= now
      /\ successes[k] \in Nat /\ successes[k] <= now
      /\ RateLimit \in Nat \ {0}
  BY Numbers, DiagnosticsAssumption DEF Inv, TimeInv
<1>2. ledger'[k] = now /\ UNCHANGED <<successes, ack>>
  BY DEF Append, Inv, TypeInv, TypeOK, Stamps
<1>3. CASE ack = now
  BY <1>1, <1>3 DEF Excused, Recent, Within
<1>4. CASE ack # now
  <2>1. now # 0 /\ ~(successes[k] > now) /\ ~(now <= ack)
    BY <1>1, <1>4
  <2> QED BY <1>2, <2>1 DEF Reported, Resolved, Acknowledged
<1> QED BY <1>3, <1>4

\* Only Swallow and Suppress end a recording at once, and only Append ends one that was let in.
LEMMA EndsByLeaving ==
    ASSUME TypeInv, NEW t \in Threads, [Next]_vars, Ends(t, "failed") \/ Ends(t, "append")
    PROVE  Swallow(t) \/ Suppress(t) \/ Append(t)
<1> USE DEF files
<1>2. ASSUME NEW u \in Threads, NEW pc, NEW k, NEW last, NEW saved, pc # "idle",
             Becomes(u, [pc |-> pc, key |-> k, last |-> last, saved |-> saved])
      PROVE  FALSE
  <2>1. call[t].pc # "idle" /\ call'[t].pc = "idle"
    BY DEF Ends
  <2> QED BY <1>2, <2>1 DEF Becomes
<1>3. ASSUME NEW u \in Threads, NEW k \in Keys, NEW end \in {"failed", "worked"}, Query(u, k, end) PROVE FALSE
  BY <1>2, <1>3, QueryBecomes
<1>4. ASSUME NEW u \in Threads, LetIn(u) PROVE FALSE
  BY <1>2, <1>4, LetInBecomes
<1>5. ASSUME NEW u \in Threads, Truncate(u) \/ Forget(u) PROVE FALSE
  <2>1. Go(u, "write") \/ Go(u, "append")
    BY <1>5 DEF Truncate, Forget
  <2>2. "write" \in Steps /\ "append" \in Steps
    BY DEF Steps
  <2> QED BY <1>2, <2>1, <2>2, GoBecomes
<1>6. ASSUME NEW u \in Threads, Write(u) PROVE FALSE
  BY <1>2, <1>6, WriteBecomes
<1>7. ASSUME NEW u \in Threads, Load(u) PROVE FALSE
  BY <1>2, <1>7, LoadBecomes
<1>8. ASSUME NEW u \in Threads, Swallow(u) \/ Suppress(u) \/ Append(u) PROVE Swallow(t) \/ Suppress(t) \/ Append(t)
  <2>1. Leave(u)
    BY <1>8 DEF Swallow, Suppress, Append
  <2>2. CASE u # t
    BY <2>1, <2>2, LeaveBecomes DEF Becomes, Ends
  <2> QED BY <1>8, <2>2
<1>9. ASSUME NEW u \in Threads, Ignore(u) \/ Save(u) PROVE FALSE
  <2>1. Leave(u) /\ call[u].pc \in {"worked", "save"}
    BY <1>9 DEF Ignore, Save, At
  <2>2. u # t
    BY <2>1 DEF Ends
  <2> QED BY <2>1, <2>2, LeaveBecomes DEF Becomes, Ends
<1>10. ASSUME Acknowledge \/ Tick \/ UNCHANGED vars PROVE FALSE
  BY <1>10 DEF Acknowledge, Tick, vars, Ends
<1>11. ASSUME NEW p \in Processes, Die(p) PROVE FALSE
  <2>1. deaths \in Nat /\ deaths' = deaths + 1 /\ deaths' = deaths
    BY <1>11, DiagnosticsAssumption DEF Die, Ends, TypeInv, TypeOK
  <2> QED BY <2>1
<1> QED BY <1>3, <1>4, <1>5, <1>6, <1>7, <1>8, <1>9, <1>10, <1>11 DEF Next, Failure, Success

\* A query failure reaches the data_layer probe, or an excuse holds.
THEOREM FailuresReachProbe == Spec => FailuresAreReported
<1>1. Inv /\ [Next]_vars =>
        \A t \in Threads, k \in Keys :
            k = Key(t) /\ (Ends(t, "failed") \/ Ends(t, "append")) => Reported(k)' \/ Excused(t, k)
  <2> SUFFICES ASSUME Inv, [Next]_vars, NEW t \in Threads, NEW k \in Keys,
                      k = Key(t), Ends(t, "failed") \/ Ends(t, "append")
               PROVE  Reported(k)' \/ Excused(t, k)
    OBVIOUS
  <2>1. Swallow(t) \/ Suppress(t) \/ Append(t)
    BY EndsByLeaving DEF Inv
  <2>2. CASE Swallow(t)
    BY <2>2 DEF Swallow, Excused
  <2> QED BY <2>1, <2>2, SuppressedIsReported, AppendedIsReported
<1> QED BY <1>1, LetInFailuresAreTraced, PTL DEF Spec, FailuresAreReported

-----------------------------------------------------------------------------
(* Successes, in one process.                                              *)

Saving(k) == \E u \in Threads : At(u, "save") /\ Key(u) = k

\* One thread saves at a time, over the file it read.  A last write that is remembered
\* is on its way to the file, or in it and no older than the newest failure: a failure
\* forgets it first, and what is noted between that and its record is a race.
SeenInv(p) ==
    /\ \A t, u \in Threads : At(t, "save") /\ At(u, "save") => t = u
    /\ \A t \in Threads : At(t, "save") => call[t].saved = successes /\ written[p][Key(t)] # 0
    /\ \A k \in Keys \ raced :
          /\ AppendsNext(k) => written[p][k] = 0
          /\ written[p][k] # 0 => Saving(k) \/ successes[k] >= ledger[k]

\* Nobody saves, before or after, and nobody comes to the end of a failure.
Uninvolved(t) == \/ call'[t] = call[t]
                 \/ call[t].pc # "save" /\ call'[t].pc \notin {"save", "append"}

LEMMA UninvolvedKeeps ==
    ASSUME NEW p, SeenInv(p), \A t \in Threads : Uninvolved(t),
           UNCHANGED <<successes, written, ledger, raced>>
    PROVE  SeenInv(p)'
<1>1. \A t \in Threads : At(t, "save")' => At(t, "save") /\ call'[t] = call[t]
  BY DEF Uninvolved, At
<1>2. \A t \in Threads : At(t, "append")' => At(t, "append") /\ call'[t] = call[t]
  BY DEF Uninvolved, At
<1>3. \A k \in Keys : (AppendsNext(k)' => AppendsNext(k)) /\ (Saving(k) => Saving(k)')
  BY <1>2 DEF AppendsNext, Saving, Uninvolved, At, Key
<1> QED BY <1>1, <1>3 DEF SeenInv, Key

LEMMA ForgetSeen ==
    ASSUME NEW p, Processes = {p}, TypeInv, SeenInv(p), NEW t \in Threads, Forget(t)
    PROVE  SeenInv(p)'
<1>1. \A u \in Threads : ProcessOf[u] = p
  BY DiagnosticsAssumption
<1>2. \A u \in Threads : ~At(u, "save")
  BY <1>1 DEF Forget, LockFree
<1>3. PICK k \in Keys : k = Key(t)
  BY DEF Forget, At, Key, TypeInv, HasKey
<1>4. Becomes(t, [pc |-> "append", key |-> k, last |-> call[t].last, saved |-> call[t].saved])
  BY <1>3, GoBecomes DEF Forget, Steps, Key
<1>5. \A u \in Threads : ~At(u, "save")'
  BY <1>2, <1>4 DEF Becomes, At
<1>6. /\ written'[p][k] = 0 /\ raced' = raced \ {k} /\ UNCHANGED <<successes, ledger>>
      /\ \A j \in Keys \ {k} : written'[p][j] = written[p][j]
  BY <1>1, <1>3 DEF Forget, TypeInv, TypeOK, Stamps
<1>7. \A j \in Keys \ {k} : AppendsNext(j)' => AppendsNext(j)
  BY <1>4 DEF Becomes, AppendsNext, At, Key
<1> QED BY <1>2, <1>5, <1>6, <1>7 DEF SeenInv, Saving

LEMMA AppendSeen ==
    ASSUME NEW p, TypeInv, SeenInv(p), NEW t \in Threads, Append(t)
    PROVE  SeenInv(p)'
<1>1. PICK k \in Keys : k = Key(t)
  BY DEF Append, At, Key, TypeInv, HasKey
<1>2. Becomes(t, Idle) /\ Idle.pc = "idle"
  BY LeaveBecomes, IdleIsCall DEF Append, IsIdle
<1>3. /\ UNCHANGED <<successes, written, raced>>
      /\ \A j \in Keys \ {k} : ledger'[j] = ledger[j]
  BY <1>1 DEF Append, TypeInv, TypeOK, Stamps
<1>4. AppendsNext(k)
  BY <1>1 DEF Append, AppendsNext
<1>5. \A u \in Threads : At(u, "save")' <=> At(u, "save") /\ u # t
  BY <1>2 DEF Becomes, At
<1>6. ~At(t, "save")
  BY DEF Append, At
<1>7. \A u \in Threads : At(u, "save")' => At(u, "save") /\ call'[u] = call[u]
  BY <1>2, <1>5 DEF Becomes
<1>8. \A j \in Keys : (AppendsNext(j)' => AppendsNext(j)) /\ (Saving(j) => Saving(j)')
  BY <1>2, <1>6 DEF Becomes, AppendsNext, Saving, At, Key
<1> QED BY <1>3, <1>4, <1>7, <1>8 DEF SeenInv, Key

LEMMA LoadSeen ==
    ASSUME NEW p, Processes = {p}, TypeInv, TimeInv, SeenInv(p), NEW t \in Threads, Load(t)
    PROVE  SeenInv(p)'
<1>1. \A u \in Threads : ProcessOf[u] = p
  BY DiagnosticsAssumption
<1>2. \A u \in Threads : ~At(u, "save")
  BY <1>1 DEF Load, LockFree
<1>3. PICK k \in Keys : k = Key(t)
  BY DEF Load, At, Key, TypeInv, HasKey
<1>4. Becomes(t, [pc |-> "save", key |-> k, last |-> call[t].last, saved |-> successes])
  BY <1>3, LoadBecomes DEF Key
<1>5. /\ written'[p][k] = now /\ now # 0 /\ UNCHANGED <<successes, ledger>>
      /\ raced' = IF AppendsNext(k) THEN raced \cup {k} ELSE raced \ {k}
      /\ \A j \in Keys \ {k} : written'[p][j] = written[p][j]
  BY <1>1, <1>3, Numbers DEF Load, TypeInv, TypeOK, Stamps, TimeInv
<1>6. \A u \in Threads : At(u, "save")' <=> u = t
  BY <1>2, <1>4 DEF Becomes, At
<1>7. call'[t].saved = successes /\ Key(t)' = k
  BY <1>4 DEF Becomes, Key
<1>8. \A j \in Keys : AppendsNext(j)' => AppendsNext(j)
  BY <1>4 DEF Becomes, AppendsNext, At, Key
<1>9. Saving(k)' /\ \A j \in Keys : ~Saving(j)
  BY <1>2, <1>6, <1>7 DEF Saving
<1>10. ASSUME NEW j \in Keys \ raced'
       PROVE  /\ AppendsNext(j)' => written'[p][j] = 0
              /\ written'[p][j] # 0 => Saving(j)' \/ successes'[j] >= ledger'[j]
  <2>1. CASE j = k
    BY <1>5, <1>8, <1>9, <1>10, <2>1
  <2>2. CASE j # k
    BY <1>5, <1>8, <1>9, <1>10, <2>2 DEF SeenInv
  <2> QED BY <2>1, <2>2
<1> QED BY <1>5, <1>6, <1>7, <1>10 DEF SeenInv

LEMMA SaveSeen ==
    ASSUME NEW p, TypeInv, TimeInv, SeenInv(p), NEW t \in Threads, Save(t)
    PROVE  /\ SeenInv(p)'
           /\ successes'[Key(t)] >= ledger[Key(t)]
<1>1. PICK k \in Keys : k = Key(t)
  BY DEF Save, At, Key, TypeInv, HasKey
<1>2. Becomes(t, Idle) /\ Idle.pc = "idle"
  BY LeaveBecomes, IdleIsCall DEF Save, IsIdle
<1>3. call[t].saved = successes /\ \A u \in Threads : At(u, "save") => u = t
  BY DEF Save, SeenInv
<1>4. \A u \in Threads : ~At(u, "save")'
  BY <1>2, <1>3 DEF Becomes, At
<1>5. /\ successes'[k] = now /\ UNCHANGED <<written, ledger, raced>>
      /\ \A j \in Keys \ {k} : successes'[j] = successes[j]
  BY <1>1, <1>3 DEF Save, TypeInv, TypeOK, Stamps
<1>6. \A j \in Keys : AppendsNext(j)' => AppendsNext(j)
  BY <1>2 DEF Becomes, AppendsNext, At, Key
<1>7. now >= ledger[k]
  BY <1>1, Numbers DEF TimeInv
<1>8. \A j \in Keys \ {k} : ~Saving(j)
  BY <1>1, <1>3 DEF Saving
<1> QED BY <1>1, <1>4, <1>5, <1>6, <1>7, <1>8 DEF SeenInv

LEMMA DieSeen ==
    ASSUME NEW p, Processes = {p}, TypeInv, SeenInv(p), Die(p)
    PROVE  SeenInv(p)'
<1>1. \A t \in Threads : ProcessOf[t] = p
  BY DiagnosticsAssumption
<1>2. \A t \in Threads : call'[t].pc = "idle"
  BY <1>1, IdleIsCall DEF Die, IsIdle
<1>3. \A k \in Keys : written'[p][k] = 0
  BY DEF Die, TypeInv, TypeOK, Never
<1> QED BY <1>2, <1>3 DEF SeenInv, At, AppendsNext

LEMMA SeenStep ==
    ASSUME NEW p, Processes = {p}, TypeInv, TimeInv, SeenInv(p), [Next]_vars
    PROVE  SeenInv(p)'
<1> USE DEF files
<1>1. ASSUME NEW t \in Threads, NEW c, Becomes(t, c), c.pc \notin {"save", "append"}, call[t].pc # "save"
      PROVE  \A u \in Threads : Uninvolved(u)
  BY <1>1 DEF Becomes, Uninvolved
<1>2. ASSUME NEW t \in Threads, NEW k \in Keys, NEW end \in {"failed", "worked"}, Query(t, k, end) PROVE SeenInv(p)'
  <2>1. \A u \in Threads : Uninvolved(u)
    BY <1>1, <1>2, QueryBecomes DEF Query, At
  <2> QED BY <1>2, <2>1, UninvolvedKeeps DEF Query
<1>3. ASSUME NEW t \in Threads, Swallow(t) \/ Suppress(t) \/ Ignore(t) PROVE SeenInv(p)'
  <2>1. Becomes(t, Idle) /\ Idle.pc = "idle" /\ call[t].pc \in {"failed", "worked"}
    BY <1>3, LeaveBecomes, IdleIsCall DEF Swallow, Suppress, Ignore, IsIdle, At
  <2>2. \A u \in Threads : Uninvolved(u)
    BY <1>1, <2>1
  <2> QED BY <1>3, <2>2, UninvolvedKeeps DEF Swallow, Suppress, Ignore
<1>4. ASSUME NEW t \in Threads, LetIn(t) PROVE SeenInv(p)'
  <2>1. \A u \in Threads : Uninvolved(u)
    BY <1>1, <1>4, LetInBecomes DEF LetIn, At
  <2> QED BY <1>4, <2>1, UninvolvedKeeps DEF LetIn
<1>5. ASSUME NEW t \in Threads, Truncate(t) PROVE SeenInv(p)'
  <2>1. Becomes(t, [pc |-> "write", key |-> call[t].key, last |-> call[t].last, saved |-> call[t].saved])
    BY <1>5, GoBecomes DEF Truncate, Steps
  <2>2. \A u \in Threads : Uninvolved(u)
    BY <1>1, <1>5, <2>1 DEF Truncate, At
  <2> QED BY <1>5, <2>2, UninvolvedKeeps DEF Truncate
<1>6. ASSUME NEW t \in Threads, Write(t) PROVE SeenInv(p)'
  <2>1. \A u \in Threads : Uninvolved(u)
    BY <1>1, <1>6, WriteBecomes DEF Write, At
  <2> QED BY <1>6, <2>1, UninvolvedKeeps DEF Write
<1>7. ASSUME Acknowledge \/ Tick \/ UNCHANGED vars PROVE SeenInv(p)'
  <2>1. UNCHANGED <<call, successes, written, ledger, raced>>
    BY <1>7 DEF Acknowledge, Tick, vars
  <2> QED BY <2>1, UninvolvedKeeps DEF Uninvolved
<1>8. ASSUME NEW q \in Processes, Die(q) PROVE SeenInv(p)'
  BY <1>8, DieSeen
<1> QED BY <1>2, <1>3, <1>4, <1>5, <1>6, <1>7, <1>8, ForgetSeen, AppendSeen, LoadSeen, SaveSeen
        DEF Next, Failure, Success

\* Only Ignore and Save end the recording of a success.
LEMMA SuccessEndsByLeaving ==
    ASSUME TypeInv, NEW t \in Threads, [Next]_vars, Ends(t, "worked") \/ Ends(t, "save")
    PROVE  Ignore(t) \/ Save(t)
<1> USE DEF files
<1>1. ASSUME NEW u \in Threads, NEW c, Becomes(u, c), c.pc # "idle" \/ call[u].pc \notin {"worked", "save"}
      PROVE  FALSE
  BY <1>1 DEF Becomes, Ends
<1>2. ASSUME NEW u \in Threads, NEW k \in Keys, NEW end \in {"failed", "worked"}, Query(u, k, end) PROVE FALSE
  BY <1>1, <1>2, QueryBecomes DEF Query, At
<1>3. ASSUME NEW u \in Threads, Swallow(u) \/ Suppress(u) \/ Append(u) PROVE FALSE
  <2>1. Leave(u) /\ call[u].pc \in {"failed", "append"}
    BY <1>3 DEF Swallow, Suppress, Append, At
  <2> QED BY <1>1, <2>1, LeaveBecomes
<1>4. ASSUME NEW u \in Threads, LetIn(u) PROVE FALSE
  BY <1>1, <1>4, LetInBecomes
<1>5. ASSUME NEW u \in Threads, Truncate(u) \/ Forget(u) PROVE FALSE
  <2>1. Go(u, "write") \/ Go(u, "append")
    BY <1>5 DEF Truncate, Forget
  <2>2. "write" \in Steps /\ "append" \in Steps
    BY DEF Steps
  <2>3. ASSUME NEW pc \in {"write", "append"}, Go(u, pc) PROVE FALSE
    <3>1. Becomes(u, [pc |-> pc, key |-> call[u].key, last |-> call[u].last, saved |-> call[u].saved])
      BY <2>2, <2>3, GoBecomes
    <3>2. pc # "idle"
      BY <2>3
    <3> QED BY <1>1, <3>1, <3>2
  <2> QED BY <2>1, <2>3
<1>6. ASSUME NEW u \in Threads, Write(u) PROVE FALSE
  BY <1>1, <1>6, WriteBecomes
<1>7. ASSUME NEW u \in Threads, Load(u) PROVE FALSE
  BY <1>1, <1>7, LoadBecomes
<1>8. ASSUME NEW u \in Threads, Ignore(u) \/ Save(u) PROVE Ignore(t) \/ Save(t)
  <2>1. Leave(u)
    BY <1>8 DEF Ignore, Save
  <2>2. CASE u # t
    BY <2>1, <2>2, LeaveBecomes DEF Becomes, Ends
  <2> QED BY <1>8, <2>2
<1>9. ASSUME Acknowledge \/ Tick \/ UNCHANGED vars PROVE FALSE
  BY <1>9 DEF Acknowledge, Tick, vars, Ends
<1>10. ASSUME NEW p \in Processes, Die(p) PROVE FALSE
  <2>1. deaths \in Nat /\ deaths' = deaths + 1 /\ deaths' = deaths
    BY <1>10, DiagnosticsAssumption DEF Die, Ends, TypeInv, TypeOK
  <2> QED BY <2>1
<1> QED BY <1>2, <1>3, <1>4, <1>5, <1>6, <1>7, <1>8, <1>9, <1>10 DEF Next, Failure, Success

LEMMA SeenInit == ASSUME NEW p, Processes = {p} PROVE Init => SeenInv(p)
<1> SUFFICES ASSUME Init PROVE SeenInv(p)
  OBVIOUS
<1>1. \A t \in Threads : call[t].pc = "idle"
  BY IdleIsCall DEF Init, IsIdle
<1>2. \A k \in Keys : written[p][k] = 0
  BY DEF Init, Never
<1> QED BY <1>1, <1>2 DEF SeenInv, At, AppendsNext

\* In one process, with any number of threads: when the record of a success ends, the
\* success on disk is no older than the newest failure, but for the named race.
THEOREM SuccessesReachProbe == ASSUME NEW p, Processes = {p} PROVE Spec => SuccessesAreSeen
<1> DEFINE IInv == Inv /\ SeenInv(p)
<1>1. Init => IInv
  BY TypeInit, TimeInit, TraceInit, SeenInit DEF Inv
<1>2. IInv /\ [Next]_vars => IInv'
  BY Inductive, SeenStep DEF Inv
<1>3. IInv /\ [Next]_vars =>
        [\A t \in Threads : Ends(t, "worked") \/ Ends(t, "save") =>
            Key(t) \in raced \/ successes'[Key(t)] >= ledger[Key(t)]]_vars
  <2> SUFFICES ASSUME Inv, SeenInv(p), [Next]_vars, NEW t \in Threads, Ends(t, "worked") \/ Ends(t, "save")
               PROVE  Key(t) \in raced \/ successes'[Key(t)] >= ledger[Key(t)]
    OBVIOUS
  <2>1. CASE Save(t)
    BY <2>1, SaveSeen DEF Inv
  <2>2. CASE Ignore(t)
    <3>1. ProcessOf[t] = p /\ \A u \in Threads : ProcessOf[u] = p
      BY DiagnosticsAssumption
    <3>2. written[p][Key(t)] # 0 /\ (\A u \in Threads : ~At(u, "save")) /\ successes' = successes
      BY <2>2, <3>1 DEF Ignore, Throttled, Within, LockFree
    <3>3. Key(t) \in Keys
      BY <2>2 DEF Ignore, At, Key, Inv, TypeInv, HasKey
    <3> QED BY <3>2, <3>3 DEF SeenInv, Saving
  <2> QED BY <2>1, <2>2, SuccessEndsByLeaving DEF Inv
<1> QED BY <1>1, <1>2, <1>3, PTL DEF Spec, SuccessesAreSeen
=============================================================================
