---------------------------- MODULE SessionChannel ----------------------------
(***************************************************************************)
(* The browser session channel: the registry of tabs, the single-flight    *)
(* command queue, the handler threads of app_session_eval_js that wait on  *)
(* it, and the pages that register, poll, run a command and post a result. *)
(*                                                                         *)
(* A request is a message that the control plane handles at any later time *)
(* or that fails; a page that was reloaded or navigated elsewhere leaves   *)
(* its requests behind, and nobody hears their replies.  A tab keeps its   *)
(* session id over page loads.  Time is nondeterministic: a tab may become *)
(* stale, and a deadline may expire, in any state.                         *)
(*                                                                         *)
(* An operator named D_variant is D with one plausible mistake in it; the  *)
(* specification does not use it.                                          *)
(***************************************************************************)
EXTENDS Naturals, Sequences, FiniteSets, SequencesExt

CONSTANTS
    Tabs,           \* session ids
    Apps,           \* dashboards
    Calls,          \* calls of app_session_eval_js, each in a handler thread of its own
    MaxSessions,    \* max_sessions of the registry
    MaxLoads,       \* bound: page loads in one tab
    MayRestart,     \* bound: whether the control plane may restart
    MayFail,        \* bound: whether a request or its reply may be lost
    None

ASSUME ChannelAssumption ==
    /\ MaxSessions \in Nat \ {0} /\ MaxLoads \in Nat
    /\ MayRestart \in BOOLEAN /\ MayFail \in BOOLEAN
    /\ None \notin Tabs \cup Apps \cup Calls

VARIABLES
    shown,      \* SessionRegistry: the app each session registered for
    recency,    \* its sessions, the least recently polled first
    stale,      \* tabs that have not polled for stale_after_seconds
    pending,    \* CommandQueue._pending: the command in each session's slot
    call,       \* the Command of each call, and where its handler thread is
    page,       \* the page each tab shows
    net,        \* requests and replies on their way
    ran         \* history: how often each call's code was started in a page

serverVars == <<shown, recency, stale, pending>>
vars == <<shown, recency, stale, pending, call, page, net, ran>>

-----------------------------------------------------------------------------
(* Types *)

Requests == {"register", "poll", "touched", "result"}
Replies == {"registered", "unknown", "nothing", "command", "received"}
Message == [kind : Requests \cup Replies, tab : Tabs, load : 1..MaxLoads, app : Apps, call : Calls \cup {None}]
CallStates == {"new", "resolved", "waiting", "expired", "answered", "timedOut", "busy", "lost"}
Page == [load : 0..MaxLoads, app : Apps \cup {None}, registered : BOOLEAN,
         doing : {"closed", "idle", "registering", "polling", "running", "posting"}, call : Calls \cup {None}]
Call == [state : CallStates, app : Apps \cup {None}, tab : Tabs \cup {None}, delivered : BOOLEAN,
         result : Apps \cup {None}]     \* result: the app of the page that answered

TypeOK ==
    /\ shown \in [Tabs -> Apps \cup {None}]
    /\ recency \in Seq(Tabs) /\ IsInjective(recency) /\ Len(recency) <= MaxSessions
    /\ stale \subseteq Tabs
    /\ pending \in [Tabs -> Calls \cup {None}]
    /\ call \in [Calls -> Call]
    /\ page \in [Tabs -> Page]
    /\ net \subseteq Message
    /\ ran \in [Calls -> 0..2]

\* A page in its tab's n-th load.
Shown(n, app, registered, doing, c) == [load |-> n, app |-> app, registered |-> registered, doing |-> doing, call |-> c]
Closed == Shown(0, None, FALSE, "closed", None)
\* A call whose command no page has been given.
Unsent(state, app, t) == [state |-> state, app |-> app, tab |-> t, delivered |-> FALSE, result |-> None]
NewCall == Unsent("new", None, None)

-----------------------------------------------------------------------------
(* Messages *)

Registered(t) == t \in ToSet(recency)

\* What tab t's page sends, or is sent.
Msg(kind, t, c) == [kind |-> kind, tab |-> t, load |-> page[t].load, app |-> page[t].app, call |-> c]

\* The request m is answered; a page that is gone does not hear it.
Reply(m, kind, c) == [kind |-> kind, tab |-> m.tab, load |-> m.load, app |-> m.app, call |-> c]
Answered(m, kind, c) == IF m.load = page[m.tab].load THEN (net \ {m}) \cup {Reply(m, kind, c)} ELSE net \ {m}

-----------------------------------------------------------------------------
(* The page (session_channel.js) *)

\* The user opens, reloads or navigates: the renderer starts anew in the same tab.
Load(t, a) ==
    /\ page[t].load < MaxLoads
    /\ page' = [page EXCEPT ![t] = Shown(page[t].load + 1, a, FALSE, "idle", None)]
    /\ net' = {m \in net : m.tab # t \/ m.kind \in Requests}
    /\ UNCHANGED <<serverVars, call, ran>>

\* tick: nothing while a request is out or a command runs.
Tick(t) ==
    /\ page[t].doing = "idle"
    /\ IF page[t].registered
       THEN net' = net \cup {Msg("poll", t, None)} /\ page' = [page EXCEPT ![t].doing = "polling"]
       ELSE net' = net \cup {Msg("register", t, None)} /\ page' = [page EXCEPT ![t].doing = "registering"]
    /\ UNCHANGED <<serverVars, call, ran>>

AfterUnknown_ignored(p) == Shown(p.load, p.app, TRUE, "idle", p.call)
AfterUnknown(p) == Shown(p.load, p.app, FALSE, "idle", p.call)

\* The page once it has heard m.
Heard(p, m) ==
    CASE m.kind = "registered" -> Shown(p.load, p.app, TRUE, "idle", p.call)
      [] m.kind = "unknown"    -> AfterUnknown(p)
      [] m.kind = "nothing"    -> [p EXCEPT !.doing = "idle"]
      [] m.kind = "command"    -> Shown(p.load, p.app, p.registered, "running", m.call)
      [] m.kind = "received"   -> Shown(p.load, p.app, p.registered, "polling", None)

\* The page hears a reply: a command is run, a result that was posted is followed by a poll.
Hear(m) ==
    /\ m.kind \in Replies
    /\ LET t == m.tab
       IN  /\ page' = [page EXCEPT ![t] = Heard(@, m)]
           /\ net' = IF m.kind = "received" THEN (net \ {m}) \cup {Msg("poll", t, None)} ELSE net \ {m}
           /\ ran' = IF m.kind = "command" THEN [ran EXCEPT ![m.call] = @ + 1] ELSE ran
    /\ UNCHANGED <<serverVars, call>>

\* The code returned, threw, or ran into the page's own timeout: the result is posted.
Finish(t) ==
    /\ page[t].doing = "running"
    /\ page' = [page EXCEPT ![t].doing = "posting"]
    /\ net' = net \cup {Msg("result", t, page[t].call)}
    /\ UNCHANGED <<serverVars, call, ran>>

\* The page that waited for a request that failed.
Failed(p) ==
    CASE p.doing = "registering" -> [p EXCEPT !.doing = "idle"]
      [] p.doing = "polling"     -> Shown(p.load, p.app, FALSE, "idle", p.call)
      [] OTHER                   -> Shown(p.load, p.app, p.registered, "polling", None)

\* A request or its reply is lost; a page that waits for it gets an error.
Lose(m) ==
    /\ MayFail
    /\ LET t == m.tab
           waits == m.load = page[t].load
       IN  /\ page' = IF waits THEN [page EXCEPT ![t] = Failed(@)] ELSE page
           /\ net' = IF waits /\ page[t].doing = "posting" THEN (net \ {m}) \cup {Msg("poll", t, None)}
                     ELSE net \ {m}
    /\ UNCHANGED <<serverVars, call, ran>>

-----------------------------------------------------------------------------
(* SessionRegistry: register, touch *)

\* A session is in the dict once; register and touch make it the most recently polled.
Position(t) == CHOOSE i \in DOMAIN recency : recency[i] = t
Polled(t) == (IF Registered(t) THEN RemoveAt(recency, Position(t)) ELSE recency) \o <<t>>
\* _evict_if_needed: the least recently polled go.
Evicted(order) == IF Len(order) > MaxSessions THEN SubSeq(order, Len(order) - MaxSessions + 1, Len(order)) ELSE order

Register(m) ==
    /\ m.kind = "register"
    /\ shown' = [shown EXCEPT ![m.tab] = m.app]
    /\ recency' = Evicted(Polled(m.tab))
    /\ stale' = stale \ {m.tab}
    /\ net' = Answered(m, "registered", None)
    /\ UNCHANGED <<pending, call, page, ran>>

Touch(m) ==
    /\ m.kind = "poll"
    /\ IF Registered(m.tab)
       THEN /\ recency' = Polled(m.tab)
            /\ stale' = stale \ {m.tab}
            /\ net' = (net \ {m}) \cup {Reply(m, "touched", None)}
       ELSE /\ net' = Answered(m, "unknown", None)
            /\ UNCHANGED <<recency, stale>>
    /\ UNCHANGED <<shown, pending, call, page, ran>>

\* Time passes: a tab that is not polled again is no longer live.
GoStale(t) ==
    /\ Registered(t) /\ t \notin stale
    /\ \A i \in DOMAIN recency : recency[i] = t => \A j \in 1..(i - 1) : recency[j] \in stale
    /\ stale' = stale \cup {t}
    /\ UNCHANGED <<shown, recency, pending, call, page, net, ran>>

-----------------------------------------------------------------------------
(* CommandQueue: take, complete *)

Deliverable_again(c) == c # None
Deliverable(c) == c # None /\ ~call[c].delivered

Take(m) ==
    /\ m.kind = "touched"
    /\ LET c == pending[m.tab]
       IN  IF Deliverable(c)
           THEN call' = [call EXCEPT ![c].delivered = TRUE] /\ net' = Answered(m, "command", c)
           ELSE net' = Answered(m, "nothing", None) /\ UNCHANGED call
    /\ UNCHANGED <<serverVars, page, ran>>

Expected_any(m) == pending[m.tab] # None
Expected(m) == pending[m.tab] # None /\ pending[m.tab] = m.call

\* The slot is emptied and the waiting handler's event set; a result of a command
\* that is not in the slot is discarded.
Complete(m) ==
    /\ m.kind = "result"
    /\ IF Expected(m)
       THEN /\ call' = [call EXCEPT ![pending[m.tab]].result = m.app]
            /\ pending' = [pending EXCEPT ![m.tab] = None]
       ELSE UNCHANGED <<call, pending>>
    /\ net' = Answered(m, "received", None)
    /\ UNCHANGED <<shown, recency, stale, page, ran>>

-----------------------------------------------------------------------------
(* SessionChannelService.dispatch *)

\* _resolve_session_or_fail: the named tab, or the most recently polled live tab of
\* the app; a call that finds none is refused and changes nothing.
Resolve(c, a, t) ==
    /\ call[c].state = "new"
    /\ Registered(t) /\ shown[t] = a /\ t \notin stale
    /\ call' = [call EXCEPT ![c] = Unsent("resolved", a, t)]
    /\ UNCHANGED <<serverVars, page, net, ran>>

SlotFree(t) == pending[t] = None

\* enqueue: the slot is taken, or the call is refused as busy.
Enqueue(c) ==
    /\ call[c].state = "resolved"
    /\ IF SlotFree(call[c].tab)
       THEN /\ pending' = [pending EXCEPT ![call[c].tab] = c]
            /\ call' = [call EXCEPT ![c].state = "waiting"]
       ELSE /\ call' = [call EXCEPT ![c].state = "busy"]
            /\ UNCHANGED pending
    /\ UNCHANGED <<shown, recency, stale, page, net, ran>>

\* wait: the event was set in time.
Return(c) ==
    /\ call[c].state = "waiting" /\ call[c].result # None
    /\ call' = [call EXCEPT ![c].state = "answered"]
    /\ UNCHANGED <<serverVars, page, net, ran>>

Overdue_delivered(c) == call[c].result = None /\ call[c].delivered
\* The deadline counts from the moment the handler starts to wait.
Overdue(c) == call[c].result = None

\* wait: the event was not set in time; the lock is not taken yet.
Expire(c) ==
    /\ call[c].state = "waiting" /\ Overdue(c)
    /\ call' = [call EXCEPT ![c].state = "expired"]
    /\ UNCHANGED <<serverVars, page, net, ran>>

SlotAfter_kept(c) == pending
SlotAfter(c) == IF pending[call[c].tab] = c THEN [pending EXCEPT ![call[c].tab] = None] ELSE pending

\* wait: the command is abandoned and its slot released.
GiveUp(c) ==
    /\ call[c].state = "expired"
    /\ call' = [call EXCEPT ![c].state = "timedOut"]
    /\ pending' = SlotAfter(c)
    /\ UNCHANGED <<shown, recency, stale, page, net, ran>>

InProgress(c) == call[c].state \in {"resolved", "waiting", "expired"}

\* The control plane restarts: its memory, its handler threads and the requests it
\* was handling are gone; the pages are not.
Restart ==
    /\ MayRestart
    /\ shown' = [t \in Tabs |-> None] /\ recency' = <<>> /\ stale' = {}
    /\ pending' = [t \in Tabs |-> None]
    /\ call' = [c \in Calls |-> IF InProgress(c) THEN [call[c] EXCEPT !.state = "lost"] ELSE call[c]]
    /\ net' = {m \in net : m.kind # "touched"}
    /\ page' = [t \in Tabs |-> IF \E m \in net : m.kind = "touched" /\ m.tab = t /\ m.load = page[t].load
                               THEN Failed(page[t]) ELSE page[t]]
    /\ UNCHANGED ran

-----------------------------------------------------------------------------
(* The specification *)

Init ==
    /\ shown = [t \in Tabs |-> None] /\ recency = <<>> /\ stale = {}
    /\ pending = [t \in Tabs |-> None]
    /\ call = [c \in Calls |-> NewCall]
    /\ page = [t \in Tabs |-> Closed]
    /\ net = {}
    /\ ran = [c \in Calls |-> 0]

PageStep(t) == Tick(t) \/ Finish(t) \/ \E m \in net : m.tab = t /\ Hear(m)
ServerStep(m) == Register(m) \/ Touch(m) \/ Take(m) \/ Complete(m)
HandlerStep(c) == Enqueue(c) \/ Return(c) \/ Expire(c) \/ GiveUp(c)

Next ==
    \/ \E t \in Tabs : PageStep(t) \/ GoStale(t) \/ \E a \in Apps : Load(t, a)
    \/ \E m \in net : ServerStep(m) \/ Lose(m)
    \/ \E c \in Calls : HandlerStep(c) \/ \E a \in Apps, t \in Tabs : Resolve(c, a, t)
    \/ Restart

Spec == Init /\ [][Next]_vars

Fairness ==
    /\ \A t \in Tabs : SF_vars(PageStep(t)) /\ SF_vars(\E m \in net : m.tab = t /\ ServerStep(m))
    /\ \A c \in Calls : WF_vars(HandlerStep(c))

FairSpec == Spec /\ Fairness

-----------------------------------------------------------------------------
(* Safety *)

\* Over timeouts, late results, evictions, reloads and restarts, a slot holds the command
\* of a handler that still has to give it up, in that handler's own session; and a handler
\* that waits without an answer still owns its slot, so no other call can displace it
\* (CommandQueue.enqueue, complete, wait).
SlotBelongsToCaller ==
    /\ \A t \in Tabs : LET c == pending[t]
                      IN  c # None => /\ call[c].tab = t /\ call[c].result = None
                                      /\ call[c].state \in {"waiting", "expired"}
    /\ \A c \in Calls : call[c].state = "waiting" /\ call[c].result = None => pending[call[c].tab] = c

\* The code of one call is never started twice, whatever reloads, duplicate pages of a tab
\* and restarts do to the page that was given it (CommandQueue.take).
DeliveredOnce == \A c \in Calls : ran[c] <= 1

\* What a caller of app_session_eval_js is promised, in terms of this channel.
Outcome(c) == CASE call[c].state \in {"new", "resolved", "waiting", "expired"} -> "open"
                [] call[c].state = "answered" -> "answered"
                [] OTHER -> "failed"
Promise == INSTANCE SessionPromise WITH ran <- {c \in Calls : ran[c] > 0}, outcome <- [c \in Calls |-> Outcome(c)]

\* Queue, registry and pages together implement the promise: an answered call did run its
\* code, and no outcome that a caller was given changes afterwards.
KeepsPromise == Promise!PromiseSpec

-----------------------------------------------------------------------------
(* Liveness *)

\* Every call comes back, whether or not a page ever picks its command up.
CallsReturn == \A c \in Calls : InProgress(c) ~> ~InProgress(c)

\* A tab that shows a dashboard gets back into the registry after evictions, lost requests
\* and restarts of the control plane.
TabsComeBack == \A t \in Tabs : page[t].load > 0 ~> Registered(t)
=============================================================================
