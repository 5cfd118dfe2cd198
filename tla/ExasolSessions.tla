---------------------------- MODULE ExasolSessions ----------------------------
(***************************************************************************)
(* Sessions with the Exasol database: one connection profile, its secret,  *)
(* the sessions that request threads keep for it, and those that builds,   *)
(* health checks and exports open for themselves.                          *)
(*                                                                         *)
(* The profile is a file of the Git working tree and its secret a file     *)
(* beside the repository; neither is guarded by a lock, and each is        *)
(* truncated before it is written.  A thread reads the profile once per    *)
(* query, and keeps its session in a thread-local cache until settings     *)
(* change, the session idles too long, or a statement fails.  The          *)
(* database may end any session at any time.                               *)
(*                                                                         *)
(* Left out: profiles whose secret is an environment variable, several     *)
(* profiles (they meet in the session limit only), rows and errors         *)
(* themselves, and what statements do in the database.                     *)
(*                                                                         *)
(* An operator named D_variant is D with one plausible mistake in it; the  *)
(* specification does not use it.                                          *)
(***************************************************************************)
EXTENDS Naturals

CONSTANTS
    Threads,        \* threads that run callbacks of hosted apps
    Others,         \* threads that open sessions for themselves
    Writers,        \* requests that create or rewrite the profile
    Settings,       \* everything in a profile but the secret
    MaxSessions,    \* sessions the database allows at once
    MaxRewrites,    \* bound: rewrites of the profile
    None,           \* nothing there
    Torn            \* a file that was truncated, or written by two at once

Sessions == 1..MaxSessions
Versions == 0..MaxRewrites
Callers == Threads \cup Others
Profile == [settings : Settings, since : Versions]

ASSUME ExasolAssumption ==
    /\ MaxSessions \in Nat /\ MaxRewrites \in Nat
    /\ Threads \cap Others = {}
    /\ None # Torn
    /\ {None, Torn} \cap (Profile \cup Sessions \cup Settings \cup Versions) = {}

VARIABLES
    profile,        \* profiles/exasol/<name>.json; "since" is the secret it was written for
    secret,         \* the secret file: the number of the secret in it
    secrets,        \* secrets stored so far
    writer,         \* what each rewrite is doing
    rewrites,       \* rewrites begun so far
    session,        \* sessions of the database, by what was done to them
    cache,          \* the session in each thread's cache
    idle,           \* threads whose session has been unused past the idle timeout
    call,           \* what each caller is doing
    stray           \* sessions whose connection object waits for the garbage collector

vars == <<profile, secret, secrets, writer, rewrites, session, cache, idle, call, stray>>
fileVars == <<profile, secret, secrets, writer, rewrites>>

-----------------------------------------------------------------------------
(* Types *)

\* "outdated" says that the session was opened with an older secret than its profile's.  A
\* session that is gone is "lost" if the error of its next statement has one of the texts of
\* _DEAD_SESSION_HINTS, and "vanished" if it has another.
Session == [state : {"closed", "open", "lost", "vanished"}, settings : Settings \cup {None}, outdated : BOOLEAN,
            ready : BOOLEAN, touched : BOOLEAN]
Closed == [state |-> "closed", settings |-> None, outdated |-> FALSE, ready |-> FALSE, touched |-> FALSE]

\* "failed" says that the last query ended with an error, "fault" that something went wrong
\* while it ran, which the loss of a session before it began does not, and "unknown" that it
\* found its session gone and could not tell so from the text of the error.
CallSteps == {"none", "connect", "resolve", "login", "init", "execute", "discard"}
Kinds == {"query", "smoke", "validation", "export"}
Call == [pc : CallSteps, kind : Kinds, read : Profile \cup {None}, secret : Versions, attempt : 0..1,
         session : Sessions \cup {None}, fault : BOOLEAN, unknown : BOOLEAN, failed : BOOLEAN]
NoCall == [pc |-> "none", kind |-> "query", read |-> None, secret |-> 0, attempt |-> 0, session |-> None,
           fault |-> FALSE, unknown |-> FALSE, failed |-> FALSE]

\* "crossed" says that another writer filled the file this one has truncated.
WriterSteps == {"none", "secret", "fill secret", "profile", "fill profile"}
Writer == [pc : WriterSteps, settings : Settings \cup {None}, since : Versions, crossed : BOOLEAN]
NoWriter == [pc |-> "none", settings |-> None, since |-> 0, crossed |-> FALSE]

TypeOK ==
    /\ profile \in Profile \cup {None, Torn}
    /\ secret \in Versions \cup {None, Torn}
    /\ secrets \in Versions
    /\ writer \in [Writers -> Writer]
    /\ rewrites \in 0..MaxRewrites
    /\ session \in [Sessions -> Session]
    /\ cache \in [Threads -> Sessions \cup {None}]
    /\ idle \subseteq Threads
    /\ call \in [Callers -> Call]
    /\ stray \subseteq Sessions

Init ==
    /\ profile = None
    /\ secret = None
    /\ secrets = 0
    /\ writer = [w \in Writers |-> NoWriter]
    /\ rewrites = 0
    /\ session = [s \in Sessions |-> Closed]
    /\ cache = [t \in Threads |-> None]
    /\ idle = {}
    /\ call = [c \in Callers |-> NoCall]
    /\ stray = {}

-----------------------------------------------------------------------------
(* Rewriting the profile *)

Readable == profile \in Profile

\* create_local_profile, or update_local_profile of what get_profile returns; a profile
\* that cannot be read cannot be rewritten.  A new profile comes with a secret.
BeginRewrite(w, settings, fresh) ==
    /\ writer[w].pc = "none"
    /\ rewrites < MaxRewrites
    /\ profile = None => fresh
    /\ profile # None => Readable
    /\ rewrites' = rewrites + 1
    /\ writer' = [writer EXCEPT ![w] = [pc |-> IF fresh THEN "secret" ELSE "profile", settings |-> settings,
                                        since |-> IF profile = None THEN 0 ELSE profile.since, crossed |-> FALSE]]
    /\ UNCHANGED <<profile, secret, secrets, session, cache, idle, call, stray>>

\* What a writer leaves in a file that another one filled in between: write_text starts at
\* the first byte, so that the tail of a longer text remains.
Filled(w, content) == {content} \cup (IF writer[w].crossed THEN {Torn} ELSE {})

\* The writers after w takes a step; those at the same file learn that it was filled.
Passed(w, pc, filled) ==
    [x \in Writers |->
        IF x = w THEN [writer[w] EXCEPT !.pc = pc, !.crossed = FALSE]
        ELSE [writer[x] EXCEPT !.crossed = @ \/ writer[x].pc = filled]]

TruncateSecret(w) ==
    /\ writer[w].pc = "secret"
    /\ secret' = Torn
    /\ writer' = Passed(w, "fill secret", "nothing")
    /\ UNCHANGED <<profile, secrets, rewrites>>

FillSecret(w) ==
    /\ writer[w].pc = "fill secret"
    /\ secrets' = secrets + 1
    /\ secret' \in Filled(w, secrets + 1)
    /\ writer' = [Passed(w, "profile", "fill secret") EXCEPT ![w].since = secrets + 1]
    /\ UNCHANGED <<profile, rewrites>>

Written(w) == [settings |-> writer[w].settings, since |-> writer[w].since]

\* A file that has the wanted text already is not written.
KeepProfile(w) ==
    /\ writer[w].pc = "profile"
    /\ Readable /\ profile.settings = writer[w].settings
    /\ profile' = Written(w)
    /\ writer' = [writer EXCEPT ![w] = NoWriter]
    /\ UNCHANGED <<secret, secrets, rewrites>>

TruncateProfile(w) ==
    /\ writer[w].pc = "profile"
    /\ ~(Readable /\ profile.settings = writer[w].settings)
    /\ profile' = Torn
    /\ writer' = Passed(w, "fill profile", "nothing")
    /\ UNCHANGED <<secret, secrets, rewrites>>

\* The commit that follows may fail, and leaves the file as it is.
FillProfile(w) ==
    /\ writer[w].pc = "fill profile"
    /\ profile' \in Filled(w, Written(w))
    /\ writer' = [Passed(w, "none", "fill profile") EXCEPT ![w] = NoWriter]
    /\ UNCHANGED <<secret, secrets, rewrites>>

Rewrite(w) ==
    /\ TruncateSecret(w) \/ FillSecret(w) \/ KeepProfile(w) \/ TruncateProfile(w) \/ FillProfile(w)
    /\ UNCHANGED <<session, cache, idle, call, stray>>

-----------------------------------------------------------------------------
(* Sessions *)

Alive(s) == session[s].state = "open"
Unused == {s \in Sessions : session[s].state = "closed"}
NewSession == CHOOSE s \in Unused : TRUE
SetCall(c, step) == call' = [call EXCEPT ![c] = step]

\* invalidate: the cached session, if any, is closed and leaves the cache.
Forgotten_unclosed(t) == session
Forgotten(t) == IF cache[t] = None THEN session ELSE [session EXCEPT ![cache[t]] = Closed]
Invalidate(t) ==
    /\ session' = Forgotten(t)
    /\ cache' = [cache EXCEPT ![t] = None]
    /\ idle' = idle \ {t}

\* get_profile, once per call and outside every handler of errors: when it raises, the
\* caller gets the exception and nothing has happened.
Begin(c, step, kind) ==
    /\ call[c].pc = "none"
    /\ Readable
    /\ SetCall(c, [NoCall EXCEPT !.pc = step, !.kind = kind, !.read = profile])
    /\ UNCHANGED <<fileVars, session, cache, idle, stray>>

Query(t) == Begin(t, "connect", "query")
Smoke(c) == Begin(c, "resolve", "smoke")
Validate(c) == Begin(c, "resolve", "validation")
Export(c) == Begin(c, "resolve", "export")

\* The fingerprint is the profile's text, which names the secret but does not contain it.
Reusable_anySettings(t) == cache[t] # None /\ t \notin idle
Reusable(t) == cache[t] # None /\ t \notin idle /\ session[cache[t]].settings = call[t].read.settings

Reuse(t) ==
    /\ call[t].pc = "connect"
    /\ Reusable(t)
    /\ SetCall(t, [call[t] EXCEPT !.pc = "execute", !.session = cache[t]])
    /\ UNCHANGED <<session, cache, idle, stray>>

Replace(t) ==
    /\ call[t].pc = "connect"
    /\ ~Reusable(t)
    /\ Invalidate(t)
    /\ SetCall(t, [call[t] EXCEPT !.pc = "resolve"])
    /\ UNCHANGED stray

\* Whether a call that failed begins again: once, if its error looks like a lost session.
MayRetry_never(c) == FALSE
MayRetry_always(c) == c \in Threads
MayRetry(c) == c \in Threads /\ call[c].attempt = 0

Error(c, fault) == [NoCall EXCEPT !.failed = c \in Threads, !.fault = c \in Threads /\ (call[c].fault \/ fault)]
Again(c, fault) == [NoCall EXCEPT !.pc = "connect", !.read = call[c].read, !.attempt = 1, !.fault = call[c].fault \/ fault]
Failed(c, looksLost, fault) == SetCall(c, IF looksLost /\ MayRetry(c) THEN Again(c, fault) ELSE Error(c, fault))

\* The secret may be missing or unreadable.
Resolve(c) ==
    /\ call[c].pc = "resolve"
    /\ IF secret \in Versions THEN SetCall(c, [call[c] EXCEPT !.pc = "login", !.secret = secret])
                              ELSE Failed(c, FALSE, TRUE)
    /\ UNCHANGED <<session, cache, idle, stray>>

Login(c) ==
    /\ call[c].pc = "login"
    /\ Unused # {}
    /\ session' = [session EXCEPT ![NewSession] =
                      [Closed EXCEPT !.state = "open", !.settings = call[c].read.settings,
                                     !.outdated = call[c].secret < call[c].read.since]]
    /\ SetCall(c, [call[c] EXCEPT !.pc = "init", !.secret = 0, !.session = NewSession])
    /\ UNCHANGED <<cache, idle, stray>>

\* Wrong credentials, no server, no session left.
LoginFails(c) ==
    /\ call[c].pc = "login"
    /\ \E looksLost \in BOOLEAN : Failed(c, looksLost, TRUE)
    /\ UNCHANGED <<session, cache, idle, stray>>

\* The statements of session_init_sql have run (a profile without any does not notice that
\* its session is lost); connect puts the session into the cache, connect_uncached hands it
\* to its caller.
InitSession(c) ==
    /\ call[c].pc = "init"
    /\ session' = [session EXCEPT ![call[c].session].ready = TRUE]
    /\ SetCall(c, [call[c] EXCEPT !.pc = "execute"])
    /\ IF c \in Threads THEN /\ cache' = [cache EXCEPT ![c] = call[c].session]
                             /\ idle' = idle \ {c}
                        ELSE UNCHANGED <<cache, idle>>
    /\ UNCHANGED stray

\* A failing statement closes the session.
InitFails(c) ==
    /\ call[c].pc = "init"
    /\ session' = [session EXCEPT ![call[c].session] = Closed]
    /\ \E looksLost \in BOOLEAN : Failed(c, looksLost, TRUE)
    /\ UNCHANGED <<cache, idle, stray>>

-----------------------------------------------------------------------------
(* Running statements *)

\* A query with a result set leaves its session in the cache, and is taken to leave it as it
\* was: a script that returns a table may change its session and is not looked at.
Rows(t) ==
    /\ call[t].pc = "execute"
    /\ Alive(call[t].session)
    /\ SetCall(t, NoCall)
    /\ UNCHANGED <<session, cache, idle, stray>>

\* One without may have changed the session: ALTER SESSION, OPEN SCHEMA, a script.
NoRows(t) ==
    /\ call[t].pc = "execute"
    /\ Alive(call[t].session)
    /\ session' = [session EXCEPT ![call[t].session].touched = TRUE]
    /\ SetCall(t, [call[t] EXCEPT !.pc = "discard"])
    /\ UNCHANGED <<cache, idle, stray>>

\* _no_result_set.
Discard(t) ==
    /\ call[t].pc = "discard"
    /\ Invalidate(t)
    /\ SetCall(t, NoCall)
    /\ UNCHANGED stray

\* An error of the database or of the text, which may say anything, or a session that is
\* gone.  Only the text of the error tells them apart.
QueryFails(t) ==
    /\ call[t].pc = "execute"
    /\ Invalidate(t)
    /\ LET state == session[call[t].session].state IN
       \/ state = "open" /\ \E looksLost \in BOOLEAN : Failed(t, looksLost, TRUE)
       \/ state = "lost" /\ Failed(t, TRUE, FALSE)
       \/ state = "vanished" /\ SetCall(t, [Error(t, FALSE) EXCEPT !.unknown = TRUE])
    /\ UNCHANGED stray

\* The owner of an uncached session closes it whatever became of its statements.
Close(c, kind) ==
    /\ call[c].pc = "execute" /\ call[c].kind = kind
    /\ session' = [session EXCEPT ![call[c].session] = Closed]
    /\ SetCall(c, NoCall)
    /\ UNCHANGED <<cache, idle, stray>>

EndSmoke(c) == Close(c, "smoke")
EndValidation(c) == Close(c, "validation")
EndExport(c) == Close(c, "export")

\* An export whose query cannot be started has no generator yet, which would close.
Strand(c) ==
    /\ call[c].pc = "execute" /\ call[c].kind = "export"
    /\ stray' = stray \cup {call[c].session}
    /\ SetCall(c, NoCall)
    /\ UNCHANGED <<session, cache, idle>>

Step(c) ==
    /\ \/ c \in Threads /\ (Reuse(c) \/ Replace(c) \/ Rows(c) \/ NoRows(c) \/ Discard(c) \/ QueryFails(c))
       \/ EndSmoke(c) \/ EndValidation(c) \/ EndExport(c) \/ Strand(c)
       \/ Resolve(c) \/ Login(c) \/ LoginFails(c) \/ InitSession(c) \/ InitFails(c)
    /\ UNCHANGED fileVars

-----------------------------------------------------------------------------
(* The rest of the world *)

\* The database ends a session, or the network does.
Lose(s) ==
    /\ session[s].state = "open"
    /\ \E gone \in {"lost", "vanished"} : session' = [session EXCEPT ![s].state = gone]
    /\ call' = [c \in Callers |-> [call[c] EXCEPT !.fault = @ \/ call[c].session = s]]
    /\ UNCHANGED <<fileVars, cache, idle, stray>>

GrowIdle(t) ==
    /\ cache[t] # None /\ t \notin idle
    /\ idle' = idle \cup {t}
    /\ UNCHANGED <<fileVars, session, cache, call, stray>>

\* A thread of the server that ends takes its cache along; nothing closes the sessions in
\* it, since close_all_for_thread has no caller.
EndThread(t) ==
    /\ call[t].pc = "none" /\ cache[t] # None
    /\ stray' = stray \cup {cache[t]}
    /\ cache' = [cache EXCEPT ![t] = None]
    /\ idle' = idle \ {t}
    /\ UNCHANGED <<fileVars, session, call>>

Collect(s) ==
    /\ s \in stray
    /\ stray' = stray \ {s}
    /\ session' = [session EXCEPT ![s] = Closed]
    /\ UNCHANGED <<fileVars, cache, idle, call>>

\* The process dies; files stay as they are, also one that is truncated.
Crash ==
    /\ writer' = [w \in Writers |-> NoWriter]
    /\ session' = [s \in Sessions |-> Closed]
    /\ cache' = [t \in Threads |-> None]
    /\ idle' = {}
    /\ call' = [c \in Callers |-> NoCall]
    /\ stray' = {}
    /\ UNCHANGED <<profile, secret, secrets, rewrites>>

Next ==
    \/ \E w \in Writers : (\E x \in Settings, fresh \in BOOLEAN : BeginRewrite(w, x, fresh)) \/ Rewrite(w)
    \/ \E c \in Others : Smoke(c) \/ Validate(c) \/ Export(c)
    \/ \E c \in Callers : Step(c)
    \/ \E s \in Sessions : Lose(s) \/ Collect(s)
    \/ \E t \in Threads : Query(t) \/ GrowIdle(t) \/ EndThread(t)
    \/ Crash

Spec == Init /\ [][Next]_vars

\* The server keeps running its threads.
FairSpec == Spec /\ \A c \in Callers : WF_vars(Step(c))

-----------------------------------------------------------------------------
(* Properties *)

\* What a statement runs on: a session set up from the profile that the call has read, after
\* its session_init_sql, without changes by an earlier statement of another app, and opened
\* with a secret no older than its profile was at that time (a rewrite of the secret alone
\* leaves cached sessions in use).  A query that begins after a rewrite therefore never runs
\* on the old settings.
StatementsFindTheirSession ==
    \A c \in Callers : call[c].pc = "execute" =>
        LET x == session[call[c].session] IN
        /\ x.settings = call[c].read.settings
        /\ x.ready /\ ~x.touched /\ ~x.outdated

\* An open session is in one cache or belongs to one call, and to nobody else, unless it
\* waits for the garbage collector: none is lost while it takes up a place in the database.
Holders(s) == {t \in Threads : cache[t] = s} \cup {c \in Callers : call[c].session = s}
OpenSessionsHaveOneHolder ==
    \A s \in Sessions :
        /\ \A c, d \in Holders(s) : c = d
        /\ session[s].state # "closed" <=> (Holders(s) # {} \/ s \in stray)
        /\ s \in stray => Holders(s) = {}

\* A query fails because of something that failed while it ran: a session that went away
\* between two queries is not a reason for an error, since the retry covers it, unless the
\* error says so in words that _looks_like_dead_session does not know.
LostSessionsAreRetried ==
    \A t \in Threads : call[t].failed => call[t].fault \/ call[t].unknown

\* Every query, check and export comes to an end, however often the database drops sessions.
CallsReturn == \A c \in Callers : call[c].pc # "none" ~> call[c].pc = "none"
=============================================================================
