----------------------------- MODULE SessionProofs -----------------------------
(***************************************************************************)
(* Theorems about SessionChannel for every value of its constants: any     *)
(* tabs, dashboards, calls and page loads, with and without restarts and   *)
(* failed requests.  The order of the sessions matters for their types     *)
(* only: which tab is evicted changes nothing else that is proved here.    *)
(***************************************************************************)
EXTENDS SessionChannel, SequenceTheorems, TLAPS

-----------------------------------------------------------------------------
(* Types, as far as they are needed. *)

PageOK(p) ==
    /\ p \in Page
    /\ p.load # 0 => p.app \in Apps
    /\ p.doing # "closed" => p.load # 0
    /\ p.doing = "running" => p.call \in Calls

\* A command or a result names its call, and a reply is for the page that is still there.
MsgOK(m) ==
    /\ m \in Message
    /\ m.kind \in {"command", "result"} => m.call \in Calls

Pages == page \in [Tabs -> Page] /\ \A t \in Tabs : PageOK(page[t])
Messages == \A m \in net : MsgOK(m) /\ (m.kind \in Replies => m.load = page[m.tab].load)
Slots == pending \in [Tabs -> Calls \cup {None}] /\ call \in [Calls -> Call]
Runs == ran \in [Calls -> Nat]

Types == Pages /\ Messages /\ Slots /\ Runs

LEMMA MsgIsOK ==
    ASSUME Pages, NEW t \in Tabs, page[t].load # 0, NEW kind \in {"register", "poll", "result"},
           NEW c \in Calls \cup {None}, kind = "result" => c \in Calls
    PROVE  MsgOK(Msg(kind, t, c)) /\ Msg(kind, t, c).kind = kind
<1>1. page[t].load \in 1..MaxLoads /\ page[t].app \in Apps
  BY ChannelAssumption DEF Pages, PageOK, Page
<1>2. Msg(kind, t, c) \in Message
  BY <1>1 DEF Msg, Message, Requests
<1> QED BY <1>2 DEF MsgOK, Msg

LEMMA ReplyIsOK ==
    ASSUME Messages, NEW m \in net, NEW kind \in Replies \cup {"touched"}, NEW c \in Calls \cup {None},
           kind = "command" => c \in Calls
    PROVE  /\ MsgOK(Reply(m, kind, c))
           /\ Reply(m, kind, c).kind = kind /\ Reply(m, kind, c).tab = m.tab /\ Reply(m, kind, c).load = m.load
<1>1. m \in Message
  BY DEF Messages, MsgOK
<1>2. Reply(m, kind, c) \in Message
  BY <1>1 DEF Reply, Message, Requests, Replies
<1>3. kind \in {"command", "result"} => c \in Calls
  BY DEF Replies
<1> QED BY <1>2, <1>3 DEF MsgOK, Reply

\* A page in one tab changes, to another that is all right.
LEMMA OnePage ==
    ASSUME Pages, NEW t \in Tabs, NEW p, PageOK(p), page' = [page EXCEPT ![t] = p]
    PROVE  Pages'
  BY DEF Pages, PageOK

LEMMA LoadTypes == ASSUME Types, NEW t \in Tabs, NEW a \in Apps, Load(t, a) PROVE Types'
<1> DEFINE p == Shown(page[t].load + 1, a, FALSE, "idle", None)
<1>1. page[t].load + 1 \in 0..MaxLoads /\ page[t].load + 1 # 0
  BY ChannelAssumption DEF Load, Types, Pages, PageOK, Page
<1>2. PageOK(p)
  BY <1>1 DEF PageOK, Page, Shown
<1>3. Pages'
  BY <1>2, OnePage DEF Load, Types
<1>4. Messages'
  BY DEF Load, Types, Messages, MsgOK, Message, Requests, Replies, Pages
<1> QED BY <1>3, <1>4 DEF Load, Types, Slots, Runs, serverVars

\* A page asks, or posts its result: its load stays.
LEMMA SendTypes ==
    ASSUME Types, NEW t \in Tabs, page[t].doing # "closed", NEW kind \in {"register", "poll", "result"},
           NEW c \in Calls \cup {None}, kind = "result" => c \in Calls,
           NEW doing \in {"registering", "polling", "posting"},
           page' = [page EXCEPT ![t].doing = doing], net' = net \cup {Msg(kind, t, c)}
    PROVE  Pages' /\ Messages'
<1> DEFINE p == [page[t] EXCEPT !.doing = doing]
<1>1. PageOK(page[t]) /\ page[t].load # 0
  BY DEF Types, Pages, PageOK
<1>2. PageOK(p) /\ p.load = page[t].load
  BY <1>1 DEF PageOK, Page
<1>3. page' = [page EXCEPT ![t] = p]
  OBVIOUS
<1> HIDE DEF p
<1>4. Pages'
  BY <1>2, <1>3, OnePage DEF Types
<1>5. MsgOK(Msg(kind, t, c)) /\ Msg(kind, t, c).kind \notin Replies
  BY <1>1, MsgIsOK DEF Types, Replies
<1>6. \A u \in Tabs : page'[u].load = page[u].load
  BY <1>2, <1>3 DEF Types, Pages
<1>7. \A m \in net' : MsgOK(m) /\ (m.kind \in Replies => m.load = page'[m.tab].load)
  BY <1>5, <1>6 DEF Types, Messages, MsgOK, Message
<1> QED BY <1>4, <1>7 DEF Messages

LEMMA TickTypes == ASSUME Types, NEW t \in Tabs, Tick(t) PROVE Types'
<1>1. Pages' /\ Messages'
  BY SendTypes DEF Tick
<1> QED BY <1>1 DEF Tick, Types, Slots, Runs, serverVars

LEMMA FinishTypes == ASSUME Types, NEW t \in Tabs, Finish(t) PROVE Types'
<1>1. page[t].call \in Calls
  BY DEF Finish, Types, Pages, PageOK
<1>2. Pages' /\ Messages'
  BY <1>1, SendTypes DEF Finish
<1> QED BY <1>2 DEF Finish, Types, Slots, Runs, serverVars

\* A message arrived at its page, or failed: the page's load stays, and it may poll next.
LEMMA ArriveTypes ==
    ASSUME Types, NEW m \in net, m.load = page[m.tab].load, NEW p, PageOK(p), p.load = page[m.tab].load,
           page' = [page EXCEPT ![m.tab] = p],
           net' = net \ {m} \/ net' = (net \ {m}) \cup {Msg("poll", m.tab, None)}
    PROVE  Pages' /\ Messages'
<1>1. MsgOK(m) /\ m.tab \in Tabs /\ page[m.tab].load # 0
  BY DEF Types, Messages, MsgOK, Message
<1>2. Pages'
  BY <1>1, OnePage DEF Types
<1>3. MsgOK(Msg("poll", m.tab, None)) /\ Msg("poll", m.tab, None).kind \notin Replies
  BY <1>1, MsgIsOK DEF Types, Replies
<1>4. \A u \in Tabs : page'[u].load = page[u].load
  BY <1>1 DEF Types, Pages
<1>5. \A n \in net' : MsgOK(n) /\ (n.kind \in Replies => n.load = page'[n.tab].load)
  BY <1>3, <1>4 DEF Types, Messages, MsgOK, Message
<1> QED BY <1>2, <1>5 DEF Messages

\* The page that heard m.
HeardAs(p, m, q) ==
    /\ PageOK(q) /\ q.load = p.load
    /\ (q.doing = "running") <=> (m.kind = "command")
    /\ (m.kind = "command") => (q.call = m.call)

LEMMA HeardOK ==
    ASSUME Types, NEW m \in net, m.kind \in Replies
    PROVE  /\ m.tab \in Tabs /\ m.load = page[m.tab].load
           /\ HeardAs(page[m.tab], m, Heard(page[m.tab], m))
<1> DEFINE p == page[m.tab]
<1>1. MsgOK(m) /\ m.tab \in Tabs /\ m.load = p.load /\ m.load # 0
  BY DEF Types, Messages, MsgOK, Message
<1>2. PageOK(p) /\ p \in Page /\ p.app \in Apps /\ p.load # 0
  BY <1>1 DEF Types, Pages, PageOK
<1>3. p.load \in 0..MaxLoads /\ p.registered \in BOOLEAN /\ p.call \in Calls \cup {None}
  BY <1>2 DEF Page
<1> HIDE DEF p
<1>4. ASSUME m.kind = "registered" PROVE HeardAs(p, m, Heard(p, m))
  <2>1. Heard(p, m) = Shown(p.load, p.app, TRUE, "idle", p.call)
    BY <1>4 DEF Heard
  <2>2. HeardAs(p, m, Shown(p.load, p.app, TRUE, "idle", p.call))
    BY <1>2, <1>3, <1>4 DEF HeardAs, PageOK, Page, Shown
  <2> QED BY <2>1, <2>2
<1>5. ASSUME m.kind = "unknown" PROVE HeardAs(p, m, Heard(p, m))
  <2>1. Heard(p, m) = Shown(p.load, p.app, FALSE, "idle", p.call)
    BY <1>5 DEF Heard, AfterUnknown
  <2>2. HeardAs(p, m, Shown(p.load, p.app, FALSE, "idle", p.call))
    BY <1>2, <1>3, <1>5 DEF HeardAs, PageOK, Page, Shown
  <2> QED BY <2>1, <2>2
<1>6. ASSUME m.kind = "nothing" PROVE HeardAs(p, m, Heard(p, m))
  <2>1. Heard(p, m) = [p EXCEPT !.doing = "idle"]
    BY <1>6 DEF Heard
  <2>2. HeardAs(p, m, [p EXCEPT !.doing = "idle"])
    BY <1>2, <1>6 DEF HeardAs, PageOK, Page
  <2> QED BY <2>1, <2>2
<1>7. ASSUME m.kind = "command" PROVE HeardAs(p, m, Heard(p, m))
  <2>1. Heard(p, m) = Shown(p.load, p.app, p.registered, "running", m.call) /\ m.call \in Calls
    BY <1>1, <1>7 DEF Heard, MsgOK
  <2>2. HeardAs(p, m, Shown(p.load, p.app, p.registered, "running", m.call))
    BY <1>2, <1>3, <1>7, <2>1 DEF HeardAs, PageOK, Page, Shown
  <2> QED BY <2>1, <2>2
<1>8. ASSUME m.kind = "received" PROVE HeardAs(p, m, Heard(p, m))
  <2>1. Heard(p, m) = Shown(p.load, p.app, p.registered, "polling", None)
    BY <1>8 DEF Heard
  <2>2. HeardAs(p, m, Shown(p.load, p.app, p.registered, "polling", None))
    BY <1>2, <1>3, <1>8 DEF HeardAs, PageOK, Page, Shown
  <2> QED BY <2>1, <2>2
<1>9. HeardAs(p, m, Heard(p, m))
  <2>1. m.kind \in {"registered", "unknown", "nothing", "command", "received"}
    BY DEF Replies
  <2> QED BY <2>1, <1>4, <1>5, <1>6, <1>7, <1>8
<1> QED BY <1>1, <1>9 DEF p

LEMMA FailedOK ==
    ASSUME NEW p, PageOK(p), p.load # 0
    PROVE  PageOK(Failed(p)) /\ Failed(p).load = p.load /\ Failed(p).doing # "running"
<1>1. p \in Page /\ p.app \in Apps /\ p.load \in 0..MaxLoads /\ p.registered \in BOOLEAN /\ p.call \in Calls \cup {None}
  BY DEF PageOK, Page
<1>2. CASE p.doing = "registering"
  <2>1. Failed(p) = [p EXCEPT !.doing = "idle"]
    BY <1>2 DEF Failed
  <2> QED BY <1>1, <2>1 DEF PageOK, Page
<1>3. CASE p.doing = "polling"
  <2>1. Failed(p) = Shown(p.load, p.app, FALSE, "idle", p.call)
    BY <1>3 DEF Failed
  <2> QED BY <1>1, <2>1 DEF PageOK, Page, Shown
<1>4. CASE p.doing \notin {"registering", "polling"}
  <2>1. Failed(p) = Shown(p.load, p.app, p.registered, "polling", None)
    BY <1>4 DEF Failed
  <2> QED BY <1>1, <2>1 DEF PageOK, Page, Shown
<1> QED BY <1>2, <1>3, <1>4

LEMMA HearTypes == ASSUME Types, NEW m \in net, Hear(m) PROVE Types'
<1>1. Pages' /\ Messages'
  BY HeardOK, ArriveTypes DEF Hear, HeardAs
<1>2. Runs'
  BY DEF Hear, Types, Runs, Messages, MsgOK
<1> QED BY <1>1, <1>2 DEF Hear, Types, Slots, serverVars

LEMMA LoseTypes == ASSUME Types, NEW m \in net, Lose(m) PROVE Types'
<1>1. CASE m.load = page[m.tab].load
  <2>1. m.tab \in Tabs /\ PageOK(page[m.tab]) /\ page[m.tab].load # 0
    BY <1>1 DEF Types, Pages, Messages, MsgOK, Message
  <2>2. PageOK(Failed(page[m.tab])) /\ Failed(page[m.tab]).load = page[m.tab].load
    BY <2>1, FailedOK
  <2>3. Pages' /\ Messages'
    BY <1>1, <2>2, ArriveTypes DEF Lose
  <2> QED BY <2>3 DEF Lose, Types, Slots, Runs, serverVars
<1>2. CASE m.load # page[m.tab].load
  BY <1>2 DEF Lose, Types, Pages, Messages, Slots, Runs, serverVars
<1> QED BY <1>1, <1>2

\* A handler answers a request.
LEMMA AnswerTypes ==
    ASSUME Types, NEW m \in net, NEW kind \in Replies, NEW c \in Calls \cup {None}, kind = "command" => c \in Calls,
           net' = Answered(m, kind, c), page' = page
    PROVE  Pages' /\ Messages'
<1>1. /\ MsgOK(Reply(m, kind, c)) /\ Reply(m, kind, c).tab = m.tab /\ Reply(m, kind, c).load = m.load
  BY ReplyIsOK DEF Types
<1>2. \A n \in net' : MsgOK(n) /\ (n.kind \in Replies => n.load = page[n.tab].load)
  BY <1>1 DEF Answered, Types, Messages
<1> QED BY <1>2 DEF Messages, Types, Pages

LEMMA ServerTypes == ASSUME Types, NEW m \in net, ServerStep(m) PROVE Types'
<1>1. CASE Register(m)
  <2>1. Pages' /\ Messages'
    BY <1>1, AnswerTypes DEF Register, Replies
  <2> QED BY <1>1, <2>1 DEF Register, Types, Slots, Runs
<1>2. CASE Touch(m)
  <2>1. CASE Registered(m.tab)
    <3>1. MsgOK(Reply(m, "touched", None)) /\ Reply(m, "touched", None).kind \notin Replies
      BY ReplyIsOK DEF Types, Replies
    <3>2. net' = (net \ {m}) \cup {Reply(m, "touched", None)} /\ page' = page
      BY <1>2, <2>1 DEF Touch
    <3>3. Pages' /\ Messages'
      BY <3>1, <3>2 DEF Types, Pages, Messages
    <3> QED BY <1>2, <3>3 DEF Touch, Types, Slots, Runs
  <2>2. CASE ~Registered(m.tab)
    <3>1. Pages' /\ Messages'
      BY <1>2, <2>2, AnswerTypes DEF Touch, Replies
    <3> QED BY <1>2, <3>1 DEF Touch, Types, Slots, Runs
  <2> QED BY <2>1, <2>2
<1>3. CASE Take(m)
  <2>1. pending[m.tab] \in Calls \cup {None}
    BY DEF Types, Slots, Messages, MsgOK, Message
  <2>2. Pages' /\ Messages'
    BY <1>3, <2>1, AnswerTypes DEF Take, Deliverable, Replies
  <2>3. CASE call' = call
    BY <1>3, <2>2, <2>3 DEF Take, Types, Slots, Runs, serverVars
  <2>4. CASE call' # call
    <3>1. pending[m.tab] \in Calls /\ call' = [call EXCEPT ![pending[m.tab]].delivered = TRUE] /\ pending' = pending
      BY <1>3, <2>1, <2>4 DEF Take, Deliverable, serverVars
    <3>2. [call[pending[m.tab]] EXCEPT !.delivered = TRUE] \in Call
      BY <3>1 DEF Types, Slots, Call
    <3>3. Slots'
      BY <3>1, <3>2 DEF Types, Slots
    <3> QED BY <1>3, <2>2, <3>3 DEF Take, Types, Runs
  <2> QED BY <2>3, <2>4
<1>4. CASE Complete(m)
  <2>1. Pages' /\ Messages'
    BY <1>4, AnswerTypes DEF Complete, Replies
  <2>2. m.tab \in Tabs /\ m.app \in Apps
    BY DEF Types, Messages, MsgOK, Message
  <2>3. Slots'
    BY <1>4, <2>2, ChannelAssumption DEF Complete, Expected, Types, Slots, Call
  <2> QED BY <1>4, <2>1, <2>3 DEF Complete, Types, Runs
<1> QED BY <1>1, <1>2, <1>3, <1>4 DEF ServerStep

LEMMA HandlerTypes ==
    ASSUME Types, NEW c \in Calls, HandlerStep(c) \/ \E a \in Apps, t \in Tabs : Resolve(c, a, t)
    PROVE  Types'
<1>1. Slots'
  <2>1. ASSUME NEW a \in Apps, NEW t \in Tabs, Resolve(c, a, t) PROVE Slots'
    BY <2>1 DEF Resolve, Unsent, Types, Slots, Call, CallStates, serverVars
  <2>2. CASE Enqueue(c)
    BY <2>2 DEF Enqueue, Types, Slots, Call, CallStates
  <2>3. CASE Return(c) \/ Expire(c)
    BY <2>3 DEF Return, Expire, Types, Slots, Call, CallStates, serverVars
  <2>4. CASE GiveUp(c)
    BY <2>4 DEF GiveUp, SlotAfter, Types, Slots, Call, CallStates
  <2> QED BY <2>1, <2>2, <2>3, <2>4 DEF HandlerStep
<1>2. page' = page /\ net' = net /\ ran' = ran
  BY DEF HandlerStep, Enqueue, Return, Expire, GiveUp, Resolve
<1> QED BY <1>1, <1>2 DEF Types, Pages, Messages, Runs

LEMMA RestartTypes == ASSUME Types, Restart PROVE Types'
<1>1. \A c \in Calls : call'[c] \in Call
  BY DEF Restart, Types, Slots, Call, CallStates
<1>2. Slots'
  BY <1>1 DEF Restart, Types, Slots
<1>3. ASSUME NEW t \in Tabs PROVE PageOK(page'[t]) /\ page'[t].load = page[t].load
  <2>1. CASE page'[t] = page[t]
    BY <2>1 DEF Types, Pages
  <2>2. CASE page'[t] = Failed(page[t]) /\ \E m \in net : m.tab = t /\ m.load = page[t].load
    BY <2>2, FailedOK DEF Types, Pages, Messages, MsgOK, Message
  <2> QED BY <2>1, <2>2 DEF Restart
<1>4. Pages'
  BY <1>3 DEF Restart, Pages, PageOK
<1>5. Messages'
  BY <1>3 DEF Restart, Types, Messages, MsgOK, Message
<1> QED BY <1>2, <1>4, <1>5 DEF Restart, Types, Runs

LEMMA TypesStep == Types /\ [Next]_vars => Types'
<1> SUFFICES ASSUME Types, [Next]_vars PROVE Types'
  OBVIOUS
<1>1. ASSUME NEW t \in Tabs, GoStale(t) PROVE Types'
  BY <1>1 DEF GoStale, Types, Pages, Messages, Slots, Runs
<1>2. CASE UNCHANGED vars
  BY <1>2 DEF vars, serverVars, Types, Pages, Messages, Slots, Runs
<1> QED BY <1>1, <1>2, LoadTypes, TickTypes, FinishTypes, HearTypes, LoseTypes, ServerTypes, HandlerTypes, RestartTypes
        DEF Next, PageStep

LEMMA TypesInit == Init => Types
<1>1. PageOK(Closed)
  BY ChannelAssumption DEF Closed, PageOK, Page, Shown
<1>2. NewCall \in Call
  BY DEF NewCall, Unsent, Call, CallStates
<1> QED BY <1>1, <1>2 DEF Init, Types, Pages, Messages, Slots, Runs, PageOK

-----------------------------------------------------------------------------
(* The registry.  A session is in the order of polls at most once, so that *)
(* moving it to the end and evicting from the front keep the order one.    *)

Registry ==
    /\ shown \in [Tabs -> Apps \cup {None}]
    /\ recency \in Seq(Tabs) /\ IsInjective(recency) /\ Len(recency) <= MaxSessions
    /\ stale \subseteq Tabs

\* What is left of a sequence without its i-th element.
LEMMA RemoveAtIs ==
    ASSUME NEW S, NEW s \in Seq(S), NEW i \in 1..Len(s)
    PROVE  /\ RemoveAt(s, i) \in Seq(S) /\ Len(RemoveAt(s, i)) = Len(s) - 1
           /\ \A j \in 1..(Len(s) - 1) : RemoveAt(s, i)[j] = IF j < i THEN s[j] ELSE s[j + 1]
<1>1. PICK n \in Nat : n = Len(s)
  OBVIOUS
<1>2. \A j \in 1..n : s[j] \in S
  BY <1>1
<1>3. PICK front : front = SubSeq(s, 1, i - 1)
  OBVIOUS
<1>4. PICK back : back = SubSeq(s, i + 1, n)
  OBVIOUS
<1>5. i \in 1..n /\ i \in Int /\ n \in Int /\ i - 1 \in Int /\ i + 1 \in Int
  BY <1>1
<1>6. front \in Seq(S) /\ Len(front) = i - 1 /\ \A j \in 1..(i - 1) : front[j] = s[j]
  <2>1. \A j \in 1..(i - 1) : s[j] \in S
    BY <1>2, <1>5
  <2>2. /\ SubSeq(s, 1, i - 1) \in Seq(S)
        /\ Len(SubSeq(s, 1, i - 1)) = IF 1 <= i - 1 THEN i - 1 - 1 + 1 ELSE 0
        /\ \A j \in 1..(i - 1 - 1 + 1) : SubSeq(s, 1, i - 1)[j] = s[1 + j - 1]
    BY <1>5, <2>1, SubSeqProperties
  <2> QED BY <1>3, <1>5, <2>2
<1>7. back \in Seq(S) /\ Len(back) = n - i /\ \A j \in 1..(n - i) : back[j] = s[i + j]
  <2>1. \A j \in (i + 1)..n : s[j] \in S
    BY <1>2, <1>5
  <2>2. /\ SubSeq(s, i + 1, n) \in Seq(S)
        /\ Len(SubSeq(s, i + 1, n)) = IF i + 1 <= n THEN n - (i + 1) + 1 ELSE 0
        /\ \A j \in 1..(n - (i + 1) + 1) : SubSeq(s, i + 1, n)[j] = s[i + 1 + j - 1]
    BY <1>5, <2>1, SubSeqProperties
  <2> QED BY <1>4, <1>5, <2>2
<1>8. RemoveAt(s, i) = front \o back
  BY <1>1, <1>3, <1>4 DEF RemoveAt
<1>9. /\ front \o back \in Seq(S) /\ Len(front \o back) = Len(front) + Len(back)
      /\ \A j \in 1..(Len(front) + Len(back)) :
            (front \o back)[j] = IF j <= Len(front) THEN front[j] ELSE back[j - Len(front)]
  BY <1>6, <1>7, ConcatProperties
<1>10. Len(front) + Len(back) = n - 1
  BY <1>5, <1>6, <1>7
<1>11. ASSUME NEW j \in 1..(n - 1) PROVE (front \o back)[j] = IF j < i THEN s[j] ELSE s[j + 1]
  <2>1. CASE j < i
    <3>1. j \in 1..(i - 1) /\ j <= Len(front)
      BY <1>5, <1>6, <2>1
    <3> QED BY <1>6, <1>9, <1>10, <2>1, <3>1
  <2>2. CASE ~(j < i)
    <3>1. ~(j <= Len(front)) /\ j - Len(front) \in 1..(n - i) /\ i + (j - Len(front)) = j + 1
      BY <1>5, <1>6, <2>2
    <3> QED BY <1>7, <1>9, <1>10, <2>2, <3>1
  <2> QED BY <2>1, <2>2
<1> QED BY <1>1, <1>8, <1>9, <1>10, <1>11

\* A poll puts its session at the end of the order, and leaves the others in theirs.
LEMMA PolledIs ==
    ASSUME Registry, NEW t \in Tabs
    PROVE  /\ Polled(t) \in Seq(Tabs) /\ IsInjective(Polled(t))
           /\ Len(Polled(t)) = (IF Registered(t) THEN Len(recency) ELSE Len(recency) + 1)
<1>1. PICK s : s = (IF Registered(t) THEN RemoveAt(recency, Position(t)) ELSE recency)
  OBVIOUS
<1>2. recency \in Seq(Tabs) /\ Len(recency) \in Nat /\ \A i, j \in 1..Len(recency) : recency[i] = recency[j] => i = j
  BY DEF Registry, IsInjective
<1>3. /\ s \in Seq(Tabs) /\ \A i, j \in 1..Len(s) : s[i] = s[j] => i = j
      /\ \A i \in 1..Len(s) : s[i] # t
      /\ Len(s) + 1 = (IF Registered(t) THEN Len(recency) ELSE Len(recency) + 1)
  <2>1. CASE ~Registered(t)
    <3>1. \A i \in 1..Len(recency) : recency[i] # t
      BY <1>2, <2>1 DEF Registered, ToSet
    <3> QED BY <1>1, <1>2, <2>1, <3>1
  <2>2. CASE Registered(t)
    <3>1. PICK k : k = Position(t)
      OBVIOUS
    <3>2. k \in 1..Len(recency) /\ recency[k] = t
      BY <1>2, <2>2, <3>1 DEF Registered, ToSet, Position
    <3>3. s = RemoveAt(recency, k)
      BY <1>1, <2>2, <3>1
    <3>4. /\ s \in Seq(Tabs) /\ Len(s) = Len(recency) - 1
          /\ \A j \in 1..(Len(recency) - 1) : s[j] = IF j < k THEN recency[j] ELSE recency[j + 1]
      BY <1>2, <3>2, <3>3, RemoveAtIs
    <3>5. PICK n \in Nat : n = Len(recency)
      BY <1>2
    <3>6. ASSUME NEW i \in 1..(n - 1) PROVE
            \E at \in 1..n : s[i] = recency[at] /\ at # k /\ at = (IF i < k THEN i ELSE i + 1)
      BY <3>2, <3>4, <3>5
    <3>7. ASSUME NEW i \in 1..(n - 1), NEW j \in 1..(n - 1), s[i] = s[j] PROVE i = j
      <4>1. PICK a \in 1..n : s[i] = recency[a] /\ a = (IF i < k THEN i ELSE i + 1)
        BY <3>6
      <4>2. PICK b \in 1..n : s[j] = recency[b] /\ b = (IF j < k THEN j ELSE j + 1)
        BY <3>6
      <4>3. a = b
        BY <1>2, <3>5, <3>7, <4>1, <4>2
      <4> QED BY <3>2, <3>5, <4>1, <4>2, <4>3
    <3>8. ASSUME NEW i \in 1..(n - 1) PROVE s[i] # t
      BY <1>2, <3>2, <3>5, <3>6
    <3> QED BY <2>2, <3>4, <3>5, <3>7, <3>8
  <2> QED BY <2>1, <2>2
<1>4. <<t>> \in Seq(Tabs) /\ Len(<<t>>) = 1 /\ <<t>>[1] = t
  OBVIOUS
<1>5. PICK n \in Nat : n = Len(s)
  BY <1>3
<1>6. /\ s \o <<t>> \in Seq(Tabs) /\ Len(s \o <<t>>) = n + 1
      /\ \A i \in 1..(n + 1) : (s \o <<t>>)[i] = IF i <= n THEN s[i] ELSE <<t>>[i - n]
  BY <1>3, <1>4, <1>5, ConcatProperties
<1>7. \A i \in 1..(n + 1) : (s \o <<t>>)[i] = IF i <= n THEN s[i] ELSE t
  BY <1>4, <1>5, <1>6
<1>8. \A i, j \in 1..(n + 1) : (s \o <<t>>)[i] = (s \o <<t>>)[j] => i = j
  BY <1>3, <1>5, <1>7
<1>9. Polled(t) = s \o <<t>>
  BY <1>1 DEF Polled
<1>10. DOMAIN (s \o <<t>>) = 1..(n + 1)
  BY <1>6
<1> QED BY <1>3, <1>5, <1>6, <1>8, <1>9, <1>10 DEF IsInjective

\* An eviction takes sessions from the front, as many as are too many.
LEMMA EvictedIs ==
    ASSUME NEW order \in Seq(Tabs), IsInjective(order)
    PROVE  Evicted(order) \in Seq(Tabs) /\ IsInjective(Evicted(order)) /\ Len(Evicted(order)) <= MaxSessions
<1>1. PICK n \in Nat : n = Len(order)
  OBVIOUS
<1>2. (\A i \in 1..n : order[i] \in Tabs) /\ \A i, j \in 1..n : order[i] = order[j] => i = j
  BY <1>1 DEF IsInjective
<1>3. PICK k \in Nat \ {0} : k = MaxSessions
  BY ChannelAssumption
<1>4. CASE n <= k
  BY <1>1, <1>3, <1>4 DEF Evicted
<1>5. CASE n > k
  <2>1. PICK s : s = SubSeq(order, n - k + 1, n)
    OBVIOUS
  <2>2. n - k + 1 \in Int /\ n \in Int /\ n - k + 1 <= n /\ \A i \in (n - k + 1)..n : order[i] \in Tabs
    BY <1>2, <1>5
  <2>3. /\ s \in Seq(Tabs) /\ Len(s) = n - (n - k + 1) + 1
        /\ \A i \in 1..(n - (n - k + 1) + 1) : s[i] = order[n - k + 1 + i - 1]
    BY <2>1, <2>2, SubSeqProperties
  <2>4. Len(s) = k /\ \A i \in 1..k : s[i] = order[n - k + i] /\ n - k + i \in 1..n
    BY <1>5, <2>3
  <2>5. \A i, j \in 1..k : s[i] = s[j] => i = j
    <3> SUFFICES ASSUME NEW i \in 1..k, NEW j \in 1..k, s[i] = s[j] PROVE i = j
      OBVIOUS
    <3>1. n - k + i = n - k + j
      BY <1>2, <2>4
    <3> QED BY <3>1
  <2>6. Evicted(order) = s
    BY <1>1, <1>3, <1>5, <2>1 DEF Evicted
  <2> QED BY <1>3, <2>3, <2>4, <2>5, <2>6 DEF IsInjective
<1> QED BY <1>4, <1>5

LEMMA RegistryInit == Init => Registry
  BY ChannelAssumption DEF Init, Registry, IsInjective

LEMMA RegistryStep == Types /\ Registry /\ [Next]_vars => Registry'
<1> SUFFICES ASSUME Types, Registry, [Next]_vars PROVE Registry'
  OBVIOUS
<1>1. \A m \in net : m.tab \in Tabs /\ m.app \in Apps
  BY DEF Types, Messages, MsgOK, Message
<1>2. ASSUME NEW m \in net, Register(m) PROVE Registry'
  <2>1. /\ Evicted(Polled(m.tab)) \in Seq(Tabs) /\ IsInjective(Evicted(Polled(m.tab)))
        /\ Len(Evicted(Polled(m.tab))) <= MaxSessions
    BY <1>1, PolledIs, EvictedIs
  <2> QED BY <1>1, <1>2, <2>1 DEF Register, Registry
<1>3. ASSUME NEW m \in net, Touch(m) PROVE Registry'
  <2>1. CASE Registered(m.tab)
    <3>1. Polled(m.tab) \in Seq(Tabs) /\ IsInjective(Polled(m.tab)) /\ Len(Polled(m.tab)) = Len(recency)
      BY <1>1, <2>1, PolledIs
    <3> QED BY <1>3, <2>1, <3>1 DEF Touch, Registry
  <2>2. CASE ~Registered(m.tab)
    BY <1>3, <2>2 DEF Touch, Registry
  <2> QED BY <2>1, <2>2
<1>4. ASSUME NEW t \in Tabs, GoStale(t) PROVE Registry'
  BY <1>4 DEF GoStale, Registry
<1>5. CASE Restart
  BY <1>5, ChannelAssumption DEF Restart, Registry, IsInjective
<1>6. CASE UNCHANGED <<shown, recency, stale>>
  BY <1>6 DEF Registry
<1> QED BY <1>2, <1>3, <1>4, <1>5, <1>6
        DEF Next, PageStep, ServerStep, HandlerStep, Load, Tick, Hear, Finish, Lose, Take, Complete, Resolve,
            Enqueue, Return, Expire, GiveUp, serverVars, vars

-----------------------------------------------------------------------------
(* Who is evicted. *)

\* A session that leaves the registry had not polled for longer than any that stays.
EvictsOldest ==
    [][\A t, u \in Tabs : Registered(t) /\ ~Registered(t)' /\ Registered(u) /\ Registered(u)'
                            => Position(t) < Position(u)]_vars

LEMMA PositionIs ==
    ASSUME Registry, NEW t \in Tabs
    PROVE  /\ Registered(t) <=> \E i \in 1..Len(recency) : recency[i] = t
           /\ \A i \in 1..Len(recency) : recency[i] = t => Position(t) = i
<1>1. recency \in Seq(Tabs) /\ \A i, j \in 1..Len(recency) : recency[i] = recency[j] => i = j
  BY DEF Registry, IsInjective
<1>2. ASSUME NEW i \in 1..Len(recency), recency[i] = t PROVE Position(t) = i
  <2>1. Position(t) \in 1..Len(recency) /\ recency[Position(t)] = t
    BY <1>1, <1>2 DEF Position
  <2> QED BY <1>1, <1>2, <2>1
<1>3. Registered(t) <=> \E i \in 1..Len(recency) : recency[i] = t
  BY <1>1 DEF Registered, ToSet
<1> QED BY <1>2, <1>3

\* A poll loses nobody.
LEMMA PolledKeepsAll ==
    ASSUME Registry, NEW t \in Tabs, NEW u \in Tabs, Registered(u), Registered(t)
    PROVE  u \in ToSet(Polled(t))
<1>1. PICK k : k = Position(t)
  OBVIOUS
<1>2. PICK n \in Nat : n = Len(recency)
  BY DEF Registry
<1>3. recency \in Seq(Tabs) /\ k \in 1..n /\ recency[k] = t
  BY <1>1, <1>2, PositionIs DEF Registry
<1>4. PICK i \in 1..n : recency[i] = u
  BY <1>2, PositionIs
<1>5. PICK s : s = RemoveAt(recency, k)
  OBVIOUS
<1>6. s \in Seq(Tabs) /\ Len(s) = n - 1 /\ \A j \in 1..(n - 1) : s[j] = IF j < k THEN recency[j] ELSE recency[j + 1]
  BY <1>2, <1>3, <1>5, RemoveAtIs
<1>7. <<t>> \in Seq(Tabs) /\ Len(<<t>>) = 1 /\ <<t>>[1] = t
  OBVIOUS
<1>8. /\ s \o <<t>> \in Seq(Tabs) /\ Len(s \o <<t>>) = n
      /\ \A j \in 1..n : (s \o <<t>>)[j] = IF j <= n - 1 THEN s[j] ELSE <<t>>[j - (n - 1)]
  BY <1>6, <1>7, ConcatProperties
<1>9. \E j \in 1..n : (s \o <<t>>)[j] = u
  <2>1. CASE i = k
    BY <1>3, <1>4, <1>7, <1>8, <2>1
  <2>2. CASE i < k
    <3>1. i \in 1..(n - 1) /\ s[i] = u
      BY <1>3, <1>4, <1>6, <2>2
    <3> QED BY <1>8, <3>1
  <2>3. CASE i > k
    <3>1. i - 1 \in 1..(n - 1) /\ ~(i - 1 < k) /\ i - 1 + 1 = i
      BY <1>3, <2>3
    <3>2. s[i - 1] = u
      BY <1>4, <1>6, <3>1
    <3> QED BY <1>8, <3>1, <3>2
  <2>4. i \in Int /\ k \in Int
    BY <1>3, <1>4
  <2>5. i = k \/ i < k \/ i > k
    BY <2>4
  <2> QED BY <2>1, <2>2, <2>3, <2>5
<1> QED BY <1>1, <1>5, <1>8, <1>9 DEF Polled, ToSet

LEMMA RegisterEvicts ==
    ASSUME Registry, NEW r \in Tabs, NEW t \in Tabs, NEW u \in Tabs, Registered(t), Registered(u),
           recency' = Evicted(Polled(r)), ~Registered(t)', Registered(u)'
    PROVE  Position(t) < Position(u)
<1>1. PICK n \in Nat : n = Len(recency)
  BY DEF Registry
<1>2. PICK k \in Nat \ {0} : k = MaxSessions
  BY ChannelAssumption
<1>3. n <= k /\ recency \in Seq(Tabs)
  BY <1>1, <1>2 DEF Registry
<1>4. PICK order : order = Polled(r)
  OBVIOUS
<1>5. ~Registered(r) /\ n = k
  <2>1. CASE Registered(r)
    <3>1. Len(order) = n /\ t \in ToSet(order)
      BY <1>1, <1>4, <2>1, PolledIs, PolledKeepsAll
    <3>2. recency' = order
      BY <1>2, <1>3, <1>4, <3>1 DEF Evicted
    <3> QED BY <3>1, <3>2 DEF Registered
  <2>2. CASE ~Registered(r) /\ n # k
    <3>1. Len(order) = n + 1 /\ order = recency \o <<r>>
      BY <1>1, <1>4, <2>2, PolledIs DEF Polled
    <3>2. recency' = order
      BY <1>2, <1>3, <1>4, <2>2, <3>1 DEF Evicted
    <3>3. PICK i \in 1..n : recency[i] = t
      BY <1>1, PositionIs
    <3>4. (recency \o <<r>>)[i] = t /\ i \in 1..Len(order)
      BY <1>1, <1>3, <3>1, <3>3
    <3>5. order \in Seq(Tabs)
      BY <1>4, PolledIs
    <3>6. i \in DOMAIN order /\ order[i] = t
      BY <3>1, <3>4, <3>5
    <3>7. t \in ToSet(order)
      BY <3>6, Zenon DEF ToSet
    <3> QED BY <3>2, <3>7 DEF Registered
  <2> QED BY <2>1, <2>2
<1>6. <<r>> \in Seq(Tabs) /\ Len(<<r>>) = 1 /\ <<r>>[1] = r
  OBVIOUS
<1>7. order = recency \o <<r>>
  BY <1>4, <1>5 DEF Polled
<1>8. /\ order \in Seq(Tabs) /\ Len(order) = n + 1
      /\ \A i \in 1..(n + 1) : order[i] = IF i <= n THEN recency[i] ELSE <<r>>[i - n]
  BY <1>1, <1>3, <1>6, <1>7, ConcatProperties
<1>9. recency' = SubSeq(order, 2, n + 1)
  <2>1. Len(order) > MaxSessions /\ Len(order) - MaxSessions + 1 = 2
    BY <1>2, <1>5, <1>8
  <2> QED BY <1>4, <1>8, <2>1 DEF Evicted
<1>10. /\ SubSeq(order, 2, n + 1) \in Seq(Tabs) /\ Len(SubSeq(order, 2, n + 1)) = n
       /\ \A i \in 1..n : SubSeq(order, 2, n + 1)[i] = order[i + 1]
  <2>1. 2 \in Int /\ n + 1 \in Int /\ 2 <= n + 1 /\ n + 1 - 2 + 1 = n /\ \A i \in 2..(n + 1) : order[i] \in Tabs
    BY <1>2, <1>5, <1>8
  <2>2. /\ SubSeq(order, 2, n + 1) \in Seq(Tabs)
        /\ Len(SubSeq(order, 2, n + 1)) = IF 2 <= n + 1 THEN n + 1 - 2 + 1 ELSE 0
        /\ \A i \in 1..(n + 1 - 2 + 1) : SubSeq(order, 2, n + 1)[i] = order[2 + i - 1]
    BY <2>1, SubSeqProperties
  <2> QED BY <2>1, <2>2
<1>11. /\ DOMAIN recency' = 1..n
       /\ \A i \in 1..n : recency'[i] = order[i + 1]
  BY <1>9, <1>10
<1>12. PICK i \in 1..n : recency[i] = t
  BY <1>1, PositionIs
<1>13. PICK j \in 1..n : recency[j] = u
  BY <1>1, PositionIs
<1>14. i = 1
  <2>1. CASE i # 1
    <3>1. i - 1 \in 1..n /\ i - 1 + 1 = i /\ i \in 1..(n + 1) /\ i <= n
      BY <2>1
    <3>2. recency'[i - 1] = t
      BY <1>8, <1>11, <1>12, <3>1
    <3> QED BY <1>11, <3>1, <3>2 DEF Registered, ToSet
  <2> QED BY <2>1
<1>15. j # 1
  BY <1>12, <1>13, <1>14
<1>16. Position(t) = i /\ Position(u) = j
  BY <1>1, <1>12, <1>13, PositionIs
<1> QED BY <1>14, <1>15, <1>16

LEMMA EvictionStep ==
    ASSUME Types, Registry, [Next]_vars
    PROVE  \A t, u \in Tabs : Registered(t) /\ ~Registered(t)' /\ Registered(u) /\ Registered(u)'
                               => Position(t) < Position(u)
<1>1. \A m \in net : m.tab \in Tabs
  BY DEF Types, Messages, MsgOK, Message
<1> SUFFICES ASSUME NEW t \in Tabs, NEW u \in Tabs, Registered(t), ~Registered(t)', Registered(u), Registered(u)'
             PROVE  Position(t) < Position(u)
  OBVIOUS
<1>2. ASSUME NEW m \in net, Register(m) PROVE Position(t) < Position(u)
  BY <1>1, <1>2, RegisterEvicts DEF Register
<1>3. ASSUME NEW m \in net, Touch(m) PROVE recency' = recency
  <2>1. CASE Registered(m.tab)
    <3>1. t \in ToSet(recency')
      BY <1>1, <1>3, <2>1, PolledKeepsAll DEF Touch
    <3> QED BY <3>1 DEF Registered
  <2> QED BY <1>3, <2>1 DEF Touch
<1>4. ASSUME Restart PROVE Position(t) < Position(u)
  BY <1>4 DEF Restart, Registered, ToSet
<1>5. ASSUME NEW x \in Tabs, GoStale(x) PROVE recency' = recency
  BY <1>5 DEF GoStale
<1>6. CASE recency' = recency
  BY <1>6 DEF Registered
<1> QED BY <1>2, <1>3, <1>4, <1>5, <1>6
        DEF Next, PageStep, ServerStep, HandlerStep, Load, Tick, Hear, Finish, Lose, Take, Complete, Resolve,
            Enqueue, Return, Expire, GiveUp, serverVars, vars

-----------------------------------------------------------------------------
(* The slot. *)

\* A call that is not in a slot yet has no answer and was given to no page; a handler that
\* is to use a slot knows its session.
CallInv ==
    \A c \in Calls :
        /\ call[c].state \in {"new", "resolved"} => call[c].result = None /\ ~call[c].delivered
        /\ InProgress(c) => call[c].tab \in Tabs

SlotInv == SlotBelongsToCaller /\ CallInv

\* The steps that leave the slots and the calls alone.
LEMMA SlotSame ==
    ASSUME SlotInv, pending' = pending, call' = call
    PROVE  SlotInv'
  BY DEF SlotInv, SlotBelongsToCaller, CallInv, InProgress

LEMMA SlotServer == ASSUME Types, SlotInv, NEW m \in net, ServerStep(m) PROVE SlotInv'
<1>0. m.tab \in Tabs /\ m.app \in Apps /\ m.app # None
  BY ChannelAssumption DEF Types, Messages, MsgOK, Message
<1>1. CASE pending' = pending /\ call' = call
  BY <1>1, SlotSame
<1>2. CASE Take(m) /\ call' # call
  <2>1. /\ pending[m.tab] \in Calls /\ call' = [call EXCEPT ![pending[m.tab]].delivered = TRUE] /\ pending' = pending
    BY <1>0, <1>2 DEF Take, Deliverable, Types, Slots, serverVars
  <2>2. \A c \in Calls : /\ call'[c].state = call[c].state /\ call'[c].result = call[c].result /\ call'[c].tab = call[c].tab
                         /\ c # pending[m.tab] => call'[c] = call[c]
    BY <2>1 DEF Types, Slots, Call
  <2>3. call[pending[m.tab]].state \in {"waiting", "expired"}
    BY <1>0, <2>1, ChannelAssumption DEF SlotInv, SlotBelongsToCaller
  <2>4. \A c \in Calls : call[c].state \in {"new", "resolved"} => call'[c] = call[c]
    BY <2>2, <2>3
  <2>5. SlotBelongsToCaller'
    BY <2>1, <2>2 DEF SlotInv, SlotBelongsToCaller, Types, Slots
  <2>6. CallInv'
    BY <2>2, <2>4 DEF SlotInv, CallInv, InProgress
  <2> QED BY <2>5, <2>6 DEF SlotInv
<1>3. CASE Complete(m) /\ Expected(m)
  <2> DEFINE d == pending[m.tab]
  <2>1. d \in Calls /\ call' = [call EXCEPT ![d].result = m.app] /\ pending' = [pending EXCEPT ![m.tab] = None]
    BY <1>0, <1>3 DEF Complete, Expected, Types, Slots
  <2>2. \A c \in Calls : /\ call'[c].state = call[c].state /\ call'[c].tab = call[c].tab /\ call'[c].delivered = call[c].delivered
                         /\ c # d => call'[c].result = call[c].result
    BY <2>1 DEF Types, Slots, Call
  <2>3. call'[d].result = m.app /\ d # None
    BY <2>1, ChannelAssumption DEF Types, Slots, Call
  <2>4. call[d].tab = m.tab /\ call[d].state \in {"waiting", "expired"}
    BY <1>0, <2>3 DEF SlotInv, SlotBelongsToCaller
  <2>5. \A t \in Tabs : t # m.tab => pending'[t] = pending[t] /\ (pending[t] # None => pending[t] # d)
    BY <2>1, <2>4 DEF Types, Slots, SlotInv, SlotBelongsToCaller
  <2>6. pending'[m.tab] = None
    BY <1>0, <2>1 DEF Types, Slots
  <2> HIDE DEF d
  <2>7. ASSUME NEW t \in Tabs, pending'[t] # None
        PROVE  /\ call'[pending'[t]].tab = t /\ call'[pending'[t]].result = None
               /\ call'[pending'[t]].state \in {"waiting", "expired"}
    <3>1. t # m.tab /\ pending'[t] = pending[t] /\ pending[t] # d /\ pending[t] \in Calls
      BY <2>5, <2>6, <2>7 DEF Types, Slots
    <3> QED BY <2>2, <2>7, <3>1 DEF SlotInv, SlotBelongsToCaller
  <2>8. ASSUME NEW c \in Calls, call'[c].state = "waiting", call'[c].result = None PROVE pending'[call'[c].tab] = c
    <3>1. c # d /\ call[c].state = "waiting" /\ call[c].result = None /\ call[c].tab \in Tabs
      BY <1>0, <2>2, <2>3, <2>8 DEF SlotInv, CallInv, InProgress
    <3>2. pending[call[c].tab] = c
      BY <3>1 DEF SlotInv, SlotBelongsToCaller
    <3>3. call[c].tab # m.tab
      BY <3>1, <3>2 DEF d
    <3> QED BY <2>2, <2>5, <3>1, <3>2, <3>3
  <2>9. SlotBelongsToCaller'
    BY <2>7, <2>8 DEF SlotBelongsToCaller
  <2>10. CallInv'
    BY <2>1, <2>2, <2>4 DEF SlotInv, CallInv, InProgress
  <2> QED BY <2>9, <2>10 DEF SlotInv
<1> QED BY <1>1, <1>2, <1>3 DEF ServerStep, Register, Touch, Take, Complete, serverVars

\* One call goes on, and the slots stay.
LEMMA SlotCall ==
    ASSUME Types, SlotInv, NEW c \in Calls, pending' = pending, NEW st, call' = [call EXCEPT ![c].state = st],
           st \in {"answered", "busy", "expired"},
           st = "answered" => call[c].state = "waiting" /\ call[c].result # None,
           st = "busy" => call[c].state = "resolved",
           st = "expired" => call[c].state = "waiting"
    PROVE  SlotInv'
<1>1. \A d \in Calls : /\ call'[d].tab = call[d].tab /\ call'[d].result = call[d].result /\ call'[d].delivered = call[d].delivered
                       /\ d # c => call'[d].state = call[d].state
  BY DEF Types, Slots, Call
<1>2. call'[c].state = st
  BY DEF Types, Slots, Call
<1>3. \A t \in Tabs : pending[t] # None => pending[t] \in Calls
  BY DEF Types, Slots
<1>4. SlotBelongsToCaller'
  BY <1>1, <1>2, <1>3 DEF SlotInv, SlotBelongsToCaller
<1>5. CallInv'
  BY <1>1, <1>2 DEF SlotInv, CallInv, InProgress
<1> QED BY <1>4, <1>5 DEF SlotInv

LEMMA SlotHandler ==
    ASSUME Types, SlotInv, NEW c \in Calls, HandlerStep(c) \/ \E a \in Apps, t \in Tabs : Resolve(c, a, t)
    PROVE  SlotInv'
<1>0. \A t \in Tabs : pending[t] # None => pending[t] \in Calls
  BY DEF Types, Slots
<1>1. ASSUME NEW a \in Apps, NEW t \in Tabs, Resolve(c, a, t) PROVE SlotInv'
  <2>1. /\ call[c].state = "new" /\ pending' = pending
        /\ call' = [call EXCEPT ![c] = Unsent("resolved", a, t)]
    BY <1>1 DEF Resolve, serverVars
  <2>2. /\ call'[c].state = "resolved" /\ call'[c].tab = t /\ call'[c].result = None /\ ~call'[c].delivered
        /\ \A d \in Calls \ {c} : call'[d] = call[d]
    BY <2>1 DEF Unsent, Types, Slots
  <2>3. SlotBelongsToCaller'
    BY <1>0, <2>1, <2>2 DEF SlotInv, SlotBelongsToCaller
  <2>4. CallInv'
    BY <2>2 DEF SlotInv, CallInv, InProgress
  <2> QED BY <2>3, <2>4 DEF SlotInv
<1>2. CASE Enqueue(c) /\ SlotFree(call[c].tab)
  <2>1. /\ call[c].state = "resolved" /\ call[c].result = None /\ call[c].tab \in Tabs
        /\ pending' = [pending EXCEPT ![call[c].tab] = c] /\ call' = [call EXCEPT ![c].state = "waiting"]
    BY <1>2 DEF Enqueue, SlotInv, CallInv, InProgress
  <2>2. /\ call'[c].state = "waiting" /\ call'[c].tab = call[c].tab /\ call'[c].result = None
        /\ \A d \in Calls \ {c} : call'[d] = call[d]
    BY <2>1 DEF Types, Slots, Call
  <2>3. pending'[call[c].tab] = c /\ \A t \in Tabs : t # call[c].tab => pending'[t] = pending[t]
    BY <2>1 DEF Types, Slots
  <2>4. \A t \in Tabs : pending[t] # c
    BY <2>1, ChannelAssumption DEF SlotInv, SlotBelongsToCaller
  <2>5. \A d \in Calls \ {c} : call[d].state = "waiting" /\ call[d].result = None => call[d].tab \in Tabs /\ call[d].tab # call[c].tab
    BY <1>2, ChannelAssumption DEF SlotFree, SlotInv, SlotBelongsToCaller, CallInv, InProgress
  <2>6. SlotBelongsToCaller'
    BY <1>0, <2>1, <2>2, <2>3, <2>4, <2>5 DEF SlotInv, SlotBelongsToCaller
  <2>7. CallInv'
    BY <2>1, <2>2 DEF SlotInv, CallInv, InProgress
  <2> QED BY <2>6, <2>7 DEF SlotInv
<1>3. CASE Enqueue(c) /\ ~SlotFree(call[c].tab)
  BY <1>3, SlotCall DEF Enqueue
<1>4. CASE Return(c)
  BY <1>4, SlotCall DEF Return, serverVars
<1>5. CASE Expire(c)
  BY <1>5, SlotCall DEF Expire, serverVars
<1>6. CASE GiveUp(c)
  <2>1. /\ call[c].state = "expired" /\ call[c].tab \in Tabs
        /\ pending' = SlotAfter(c) /\ call' = [call EXCEPT ![c].state = "timedOut"]
    BY <1>6 DEF GiveUp, SlotInv, CallInv, InProgress
  <2>2. /\ call'[c].state = "timedOut" /\ \A d \in Calls \ {c} : call'[d] = call[d]
    BY <2>1 DEF Types, Slots, Call
  <2>3. \A t \in Tabs : pending'[t] # c /\ (pending[t] # c => pending'[t] = pending[t]) /\ (pending'[t] # None => pending'[t] = pending[t])
    BY <2>1, ChannelAssumption DEF SlotAfter, Types, Slots, SlotInv, SlotBelongsToCaller
  <2>4. SlotBelongsToCaller'
    BY <1>0, <2>2, <2>3 DEF SlotInv, SlotBelongsToCaller, CallInv, InProgress
  <2>5. CallInv'
    BY <2>1, <2>2 DEF SlotInv, CallInv, InProgress
  <2> QED BY <2>4, <2>5 DEF SlotInv
<1> QED BY <1>1, <1>2, <1>3, <1>4, <1>5, <1>6 DEF HandlerStep

LEMMA SlotRestart == ASSUME Types, SlotInv, Restart PROVE SlotInv'
<1>1. /\ \A t \in Tabs : pending'[t] = None
      /\ \A c \in Calls : call'[c] = IF InProgress(c) THEN [call[c] EXCEPT !.state = "lost"] ELSE call[c]
  BY DEF Restart
<1>2. \A c \in Calls : IF InProgress(c) THEN call'[c].state = "lost" ELSE call'[c] = call[c]
  BY <1>1 DEF Types, Slots, Call
<1> QED BY <1>1, <1>2 DEF SlotInv, SlotBelongsToCaller, CallInv, InProgress

LEMMA SlotStep == Types /\ SlotInv /\ [Next]_vars => SlotInv'
<1> SUFFICES ASSUME Types, SlotInv, [Next]_vars PROVE SlotInv'
  OBVIOUS
<1>1. ASSUME pending' = pending, call' = call PROVE SlotInv'
  BY <1>1, SlotSame
<1>2. ASSUME NEW t \in Tabs, PageStep(t) \/ GoStale(t) \/ \E a \in Apps : Load(t, a) PROVE pending' = pending /\ call' = call
  BY <1>2 DEF PageStep, Tick, Finish, Hear, GoStale, Load, serverVars
<1>3. ASSUME NEW m \in net, Lose(m) PROVE pending' = pending /\ call' = call
  BY <1>3 DEF Lose, serverVars
<1>4. CASE UNCHANGED vars
  BY <1>1, <1>4 DEF vars, serverVars
<1> QED BY <1>1, <1>2, <1>3, <1>4, SlotServer, SlotHandler, SlotRestart DEF Next

-----------------------------------------------------------------------------
(* The code of a call. *)

\* A command is given to one page, and once; only what ran in a page has a result.
RunInv ==
    /\ \A c \in Calls : /\ ran[c] <= 1
                        /\ ran[c] > 0 => call[c].delivered
                        /\ call[c].result # None => ran[c] > 0
    /\ \A m \in net : /\ m.kind = "command" => call[m.call].delivered /\ ran[m.call] = 0
                      /\ m.kind = "result" => ran[m.call] > 0
    /\ \A m, n \in net : m.kind = "command" /\ n.kind = "command" /\ m.call = n.call => m = n
    /\ \A t \in Tabs : page[t].doing = "running" => ran[page[t].call] > 0

\* No code starts, and no command or result is sent or taken in.
Quiet ==
    /\ ran' = ran
    /\ \A c \in Calls : call'[c].delivered = call[c].delivered /\ call'[c].result = call[c].result
    /\ \A n \in net' : n \in net \/ n.kind \notin {"command", "result"}
    /\ \A t \in Tabs : page'[t].doing = "running" => page'[t] = page[t]

LEMMA QuietKeeps == ASSUME Types, RunInv, Quiet PROVE RunInv'
<1>1. \A m \in net : m.kind \in {"command", "result"} => m.call \in Calls
  BY DEF Types, Messages, MsgOK
<1> QED BY <1>1 DEF RunInv, Quiet

LEMMA LoadQuiet == ASSUME Types, NEW t \in Tabs, NEW a \in Apps, Load(t, a) PROVE Quiet
<1>1. page' = [page EXCEPT ![t] = Shown(page[t].load + 1, a, FALSE, "idle", None)]
  BY DEF Load
<1>2. \A u \in Tabs : page'[u].doing = "running" => page'[u] = page[u]
  BY <1>1 DEF Types, Pages, Shown
<1> QED BY <1>2 DEF Load, Quiet, serverVars

LEMMA TickQuiet == ASSUME Types, NEW t \in Tabs, Tick(t) PROVE Quiet
<1>1. \A u \in Tabs : page'[u].doing = "running" => page'[u] = page[u]
  BY DEF Tick, Types, Pages, PageOK, Page
<1>2. \A n \in net' : n \in net \/ n.kind \notin {"command", "result"}
  BY DEF Tick, Msg
<1> QED BY <1>1, <1>2 DEF Tick, Quiet, serverVars

LEMMA HearQuiet == ASSUME Types, NEW m \in net, Hear(m), m.kind # "command" PROVE Quiet
<1>1. m.tab \in Tabs /\ Heard(page[m.tab], m).doing # "running"
  BY HeardOK DEF Hear, HeardAs
<1>2. \A u \in Tabs : page'[u].doing = "running" => page'[u] = page[u]
  BY <1>1 DEF Hear, Types, Pages
<1>3. \A n \in net' : n \in net \/ n.kind \notin {"command", "result"}
  BY DEF Hear, Msg
<1> QED BY <1>2, <1>3 DEF Hear, Quiet, serverVars

LEMMA LoseQuiet == ASSUME Types, NEW m \in net, Lose(m) PROVE Quiet
<1>1. \A u \in Tabs : page'[u].doing = "running" => page'[u] = page[u]
  <2>1. CASE m.load = page[m.tab].load
    <3>1. m.tab \in Tabs /\ PageOK(page[m.tab]) /\ page[m.tab].load # 0
      BY <2>1 DEF Types, Pages, Messages, MsgOK, Message
    <3> QED BY <2>1, <3>1, FailedOK DEF Lose, Types, Pages
  <2>2. CASE m.load # page[m.tab].load
    BY <2>2 DEF Lose
  <2> QED BY <2>1, <2>2
<1>2. \A n \in net' : n \in net \/ n.kind \notin {"command", "result"}
  BY DEF Lose, Msg
<1> QED BY <1>1, <1>2 DEF Lose, Quiet, serverVars

LEMMA HandlerQuiet ==
    ASSUME Types, SlotInv, NEW c \in Calls, HandlerStep(c) \/ \E a \in Apps, t \in Tabs : Resolve(c, a, t)
    PROVE  Quiet
<1>1. page' = page /\ net' = net /\ ran' = ran
  BY DEF HandlerStep, Enqueue, Return, Expire, GiveUp, Resolve
<1>2. \A d \in Calls : call'[d].delivered = call[d].delivered /\ call'[d].result = call[d].result
  <2>1. ASSUME NEW st, call' = [call EXCEPT ![c].state = st] PROVE <1>2!:
    BY <2>1 DEF Types, Slots, Call
  <2>2. ASSUME NEW a \in Apps, NEW t \in Tabs, Resolve(c, a, t) PROVE <1>2!:
    <3>1. call[c].result = None /\ call[c].delivered = FALSE
      BY <2>2 DEF Resolve, SlotInv, CallInv, Types, Slots, Call
    <3>2. Unsent("resolved", a, t).result = None /\ Unsent("resolved", a, t).delivered = FALSE
      BY DEF Unsent
    <3> QED BY <2>2, <3>1, <3>2 DEF Resolve, Types, Slots
  <2> QED BY <2>1, <2>2 DEF HandlerStep, Enqueue, Return, Expire, GiveUp
<1> QED BY <1>1, <1>2 DEF Quiet

LEMMA RestartQuiet == ASSUME Types, Restart PROVE Quiet
<1>1. \A c \in Calls : call'[c].delivered = call[c].delivered /\ call'[c].result = call[c].result
  BY DEF Restart, Types, Slots, Call
<1>2. ASSUME NEW u \in Tabs, page'[u].doing = "running" PROVE page'[u] = page[u]
  <2>1. CASE \E m \in net : m.kind = "touched" /\ m.tab = u /\ m.load = page[u].load
    <3>1. PageOK(page[u]) /\ page[u].load # 0 /\ page'[u] = Failed(page[u])
      BY <2>1 DEF Restart, Types, Pages, Messages, MsgOK, Message
    <3> QED BY <1>2, <3>1, FailedOK
  <2>2. CASE ~\E m \in net : m.kind = "touched" /\ m.tab = u /\ m.load = page[u].load
    BY <2>2 DEF Restart
  <2> QED BY <2>1, <2>2
<1> QED BY <1>1, <1>2 DEF Restart, Quiet

LEMMA FinishRun == ASSUME Types, RunInv, NEW t \in Tabs, Finish(t) PROVE RunInv'
<1>1. ran[page[t].call] > 0 /\ ran' = ran /\ call' = call
  BY DEF Finish, RunInv, serverVars
<1>2. \A n \in net' : n \in net \/ (n.kind = "result" /\ n.call = page[t].call)
  BY DEF Finish, Msg
<1>3. \A u \in Tabs : page'[u].doing = "running" => page'[u] = page[u]
  BY DEF Finish, Types, Pages, PageOK, Page
<1> QED BY <1>1, <1>2, <1>3 DEF RunInv

LEMMA CommandRun == ASSUME Types, RunInv, NEW m \in net, Hear(m), m.kind = "command" PROVE RunInv'
<1>1. m.call \in Calls /\ ran[m.call] = 0 /\ call[m.call].delivered
  BY DEF Types, Messages, MsgOK, RunInv
<1>2. ran' = [ran EXCEPT ![m.call] = 1] /\ net' = net \ {m} /\ call' = call
  BY <1>1 DEF Hear, serverVars
<1>3. \A c \in Calls : ran'[c] = IF c = m.call THEN 1 ELSE ran[c]
  BY <1>2 DEF Types, Runs
<1>4. \A n \in net' : n.kind = "command" => n.call \in Calls /\ n.call # m.call
  BY <1>2 DEF RunInv, Types, Messages, MsgOK
<1>5. \A n \in net' : n.kind = "result" => n.call \in Calls
  BY <1>2 DEF Types, Messages, MsgOK
<1>6. \A u \in Tabs : page'[u].doing = "running" => page'[u] = page[u] \/ page'[u].call = m.call
  BY HeardOK DEF Hear, HeardAs, Types, Pages
<1>7. \A u \in Tabs : page[u].doing = "running" => page[u].call \in Calls
  BY DEF Types, Pages, PageOK
<1> QED BY <1>1, <1>2, <1>3, <1>4, <1>5, <1>6, <1>7 DEF RunInv

LEMMA TakeRun == ASSUME Types, SlotInv, RunInv, NEW m \in net, Take(m) PROVE RunInv'
<1> DEFINE c == pending[m.tab]
<1>0. m.tab \in Tabs /\ c \in Calls \cup {None}
  BY DEF Types, Slots, Messages, MsgOK, Message
<1>1. CASE ~Deliverable(c)
  <2>1. net' = Answered(m, "nothing", None) /\ call' = call /\ ran' = ran /\ page' = page
    BY <1>1 DEF Take
  <2> QED BY <2>1, QuietKeeps DEF Quiet, Answered, Reply
<1>2. CASE Deliverable(c)
  <2>1. /\ c \in Calls /\ ~call[c].delivered /\ ran' = ran /\ page' = page
        /\ call' = [call EXCEPT ![c].delivered = TRUE] /\ net' = Answered(m, "command", c)
    BY <1>0, <1>2 DEF Deliverable, Take
  <2>2. /\ call'[c].delivered /\ \A d \in Calls \ {c} : call'[d] = call[d]
        /\ call'[c].result = call[c].result
    BY <2>1 DEF Types, Slots, Call
  <2>3. ran[c] = 0
    BY <2>1 DEF RunInv, Types, Runs
  <2>4. \A n \in net : n.kind = "command" => n.call \in Calls /\ n.call # c
    BY <2>1 DEF RunInv, Types, Messages, MsgOK
  <2>5. \A n \in net' : n \in net \/ (n = Reply(m, "command", c) /\ n.kind = "command" /\ n.call = c)
    BY <2>1 DEF Answered, Reply
  <2> HIDE DEF c
  <2>6. \A d \in Calls : /\ ran[d] <= 1 /\ (ran[d] > 0 => call'[d].delivered) /\ (call'[d].result # None => ran[d] > 0)
    BY <2>1, <2>2 DEF RunInv
  <2>7. \A n \in net' : /\ n.kind = "command" => call'[n.call].delivered /\ ran[n.call] = 0
                        /\ n.kind = "result" => ran[n.call] > 0
    BY <2>2, <2>3, <2>4, <2>5 DEF RunInv
  <2>8. \A n, o \in net' : n.kind = "command" /\ o.kind = "command" /\ n.call = o.call => n = o
    BY <2>4, <2>5 DEF RunInv
  <2> QED BY <2>1, <2>6, <2>7, <2>8 DEF RunInv
<1> QED BY <1>1, <1>2

LEMMA CompleteRun == ASSUME Types, RunInv, NEW m \in net, Complete(m) PROVE RunInv'
<1>1. \A n \in net' : n \in net \/ n.kind \notin {"command", "result"}
  BY DEF Complete, Answered, Reply
<1>2. CASE ~Expected(m)
  BY <1>1, <1>2, QuietKeeps DEF Complete, Quiet
<1>3. CASE Expected(m)
  <2>1. m.call \in Calls /\ ran[m.call] > 0 /\ call' = [call EXCEPT ![m.call].result = m.app] /\ ran' = ran /\ page' = page
    BY <1>3 DEF Complete, Expected, Types, Messages, MsgOK, RunInv
  <2>2. \A c \in Calls : call'[c].delivered = call[c].delivered /\ (c # m.call => call'[c].result = call[c].result)
    BY <2>1 DEF Types, Slots, Call
  <2>3. \A n \in net : n.kind \in {"command", "result"} => n.call \in Calls
    BY DEF Types, Messages, MsgOK
  <2> QED BY <1>1, <2>1, <2>2, <2>3 DEF RunInv
<1> QED BY <1>2, <1>3

LEMMA RunStep == Types /\ SlotInv /\ RunInv /\ [Next]_vars => RunInv'
<1> SUFFICES ASSUME Types, SlotInv, RunInv, [Next]_vars PROVE RunInv'
  OBVIOUS
<1>1. ASSUME NEW t \in Tabs, PageStep(t) PROVE RunInv'
  BY <1>1, TickQuiet, HearQuiet, QuietKeeps, FinishRun, CommandRun DEF PageStep
<1>2. ASSUME NEW t \in Tabs, GoStale(t) PROVE RunInv'
  BY <1>2, QuietKeeps DEF GoStale, Quiet
<1>3. ASSUME NEW t \in Tabs, NEW a \in Apps, Load(t, a) PROVE RunInv'
  BY <1>3, LoadQuiet, QuietKeeps
<1>4. ASSUME NEW m \in net, Register(m) \/ Touch(m) PROVE RunInv'
  <2>1. call' = call /\ page' = page /\ ran' = ran
    BY <1>4 DEF Register, Touch
  <2>2. \A n \in net' : n \in net \/ n.kind \notin {"command", "result"}
    BY <1>4 DEF Register, Touch, Answered, Reply
  <2> QED BY <2>1, <2>2, QuietKeeps DEF Quiet
<1>5. ASSUME NEW m \in net, Take(m) \/ Complete(m) PROVE RunInv'
  BY <1>5, TakeRun, CompleteRun
<1>6. ASSUME NEW m \in net, Lose(m) PROVE RunInv'
  BY <1>6, LoseQuiet, QuietKeeps
<1>7. ASSUME NEW c \in Calls, HandlerStep(c) \/ \E a \in Apps, t \in Tabs : Resolve(c, a, t) PROVE RunInv'
  BY <1>7, HandlerQuiet, QuietKeeps
<1>8. CASE Restart
  BY <1>8, RestartQuiet, QuietKeeps
<1>9. CASE UNCHANGED vars
  BY <1>9, QuietKeeps DEF vars, serverVars, Quiet
<1> QED BY <1>1, <1>2, <1>3, <1>4, <1>5, <1>6, <1>7, <1>8, <1>9 DEF Next, ServerStep

-----------------------------------------------------------------------------
(* The promise. *)

Started == {c \in Calls : ran[c] > 0}
Outcomes == [c \in Calls |-> Outcome(c)]

\* A call whose state is not of another kind has the outcome it had.
LEMMA OutcomesSame ==
    ASSUME \A c \in Calls : Outcome(c)' = Outcome(c), ran' = ran
    PROVE  Started' = Started /\ Outcomes' = Outcomes
  BY DEF Started, Outcomes

\* Some open calls fail.
LEMMA OutcomesFail ==
    ASSUME ran' = ran, NEW S \in SUBSET Calls, \A c \in S : Outcome(c) = "open" /\ Outcome(c)' = "failed",
           \A c \in Calls \ S : Outcome(c)' = Outcome(c)
    PROVE  Promise!Fail
<1>1. Started' = Started
  BY DEF Started
<1>2. S \in SUBSET {c \in Calls : Outcomes[c] = "open"}
  BY DEF Outcomes
<1>3. Outcomes' = [c \in Calls |-> IF c \in S THEN "failed" ELSE Outcomes[c]]
  BY DEF Outcomes
<1> QED BY <1>1, <1>2, <1>3 DEF Promise!Fail, Started, Outcomes

LEMMA PromiseStep ==
    ASSUME Types, SlotInv, RunInv, [Next]_vars
    PROVE  [Promise!PromiseNext]_<<Started, Outcomes>>
<1> DEFINE G == Promise!PromiseNext \/ (Started' = Started /\ Outcomes' = Outcomes)
<1>1. ASSUME ran' = ran, \A c \in Calls : call'[c].state = call[c].state PROVE G
  BY <1>1, OutcomesSame DEF Outcome
<1>2. ASSUME NEW t \in Tabs, PageStep(t) PROVE G
  <2>1. CASE Tick(t) \/ Finish(t)
    BY <1>1, <2>1 DEF Tick, Finish, serverVars
  <2>2. ASSUME NEW m \in net, Hear(m), m.kind # "command" PROVE G
    BY <1>1, <2>2 DEF Hear, serverVars
  <2>3. ASSUME NEW m \in net, Hear(m), m.kind = "command" PROVE G
    <3>1. m.call \in Calls /\ ran[m.call] = 0
      BY <2>3 DEF Types, Messages, MsgOK, RunInv
    <3>2. ran' = [ran EXCEPT ![m.call] = 1] /\ call' = call
      BY <2>3, <3>1 DEF Hear, serverVars
    <3>3. m.call \notin Started /\ Started' = Started \cup {m.call}
      BY <3>1, <3>2 DEF Started, Types, Runs
    <3>4. Outcomes' = Outcomes
      BY <3>2 DEF Outcomes, Outcome
    <3>5. Promise!Run(m.call)
      BY <3>3, <3>4 DEF Promise!Run, Started, Outcomes
    <3> QED BY <3>1, <3>5 DEF Promise!PromiseNext
  <2> QED BY <1>2, <2>1, <2>2, <2>3 DEF PageStep
<1>3. ASSUME NEW t \in Tabs, GoStale(t) \/ \E a \in Apps : Load(t, a) PROVE G
  BY <1>1, <1>3 DEF GoStale, Load, serverVars
<1>4. ASSUME NEW m \in net, ServerStep(m) PROVE G
  <2>1. ran' = ran
    BY <1>4 DEF ServerStep, Register, Touch, Take, Complete
  <2>2. \A c \in Calls : call'[c].state = call[c].state
    BY <1>4 DEF ServerStep, Register, Touch, Take, Complete, Types, Slots, Call
  <2> QED BY <1>1, <2>1, <2>2
<1>5. ASSUME NEW m \in net, Lose(m) PROVE G
  BY <1>1, <1>5 DEF Lose, serverVars
<1>6. ASSUME NEW c \in Calls, NEW a \in Apps, NEW t \in Tabs, Resolve(c, a, t) PROVE G
  <2>1. call[c].state = "new" /\ call' = [call EXCEPT ![c] = Unsent("resolved", a, t)] /\ ran' = ran
    BY <1>6 DEF Resolve
  <2>2. call'[c].state = "resolved" /\ \A d \in Calls \ {c} : call'[d] = call[d]
    BY <2>1 DEF Unsent, Types, Slots
  <2> QED BY <2>1, <2>2, OutcomesSame DEF Outcome
<1>7. ASSUME NEW c \in Calls, HandlerStep(c) PROVE G
  <2>1. \E st : call' = [call EXCEPT ![c].state = st]
    BY <1>7 DEF HandlerStep, Enqueue, Return, Expire, GiveUp
  <2>2. ran' = ran /\ \A d \in Calls \ {c} : Outcome(d)' = Outcome(d)
    BY <1>7, <2>1 DEF HandlerStep, Enqueue, Return, Expire, GiveUp, Outcome, Types, Slots
  <2>3. CASE Expire(c) \/ (Enqueue(c) /\ SlotFree(call[c].tab))
    <3>1. Outcome(c)' = Outcome(c)
      BY <2>3 DEF Expire, Enqueue, Outcome, Types, Slots, Call
    <3> QED BY <2>2, <3>1, OutcomesSame
  <2>4. CASE GiveUp(c) \/ (Enqueue(c) /\ ~SlotFree(call[c].tab))
    <3>1. Outcome(c) = "open" /\ Outcome(c)' = "failed"
      BY <2>4 DEF GiveUp, Enqueue, Outcome, Types, Slots, Call
    <3> QED BY <2>2, <3>1, OutcomesFail DEF Promise!PromiseNext
  <2>5. CASE Return(c)
    <3>1. ran[c] > 0 /\ call[c].state = "waiting" /\ call' = [call EXCEPT ![c].state = "answered"]
      BY <2>5 DEF Return, RunInv
    <3>2. Outcome(c) = "open" /\ Outcome(c)' = "answered"
      BY <3>1 DEF Outcome, Types, Slots, Call
    <3>3. Outcomes' = [Outcomes EXCEPT ![c] = "answered"]
      BY <2>2, <3>2 DEF Outcomes
    <3>4. c \in Started /\ Started' = Started /\ Outcomes[c] = "open"
      BY <2>2, <3>1, <3>2 DEF Started, Outcomes
    <3>5. Promise!Answer(c)
      BY <3>3, <3>4 DEF Promise!Answer, Started, Outcomes
    <3> QED BY <3>5 DEF Promise!PromiseNext
  <2> QED BY <1>7, <2>3, <2>4, <2>5 DEF HandlerStep
<1>8. CASE Restart
  <2>1. \A c \in Calls : /\ InProgress(c) => call'[c].state = "lost" /\ Outcome(c) = "open"
                         /\ ~InProgress(c) => call'[c] = call[c]
    BY <1>8 DEF Restart, InProgress, Outcome, Types, Slots, Call
  <2>2. \A c \in {d \in Calls : InProgress(d)} : Outcome(c) = "open" /\ Outcome(c)' = "failed"
    BY <2>1 DEF Outcome
  <2>3. \A c \in Calls \ {d \in Calls : InProgress(d)} : Outcome(c)' = Outcome(c)
    BY <2>1 DEF Outcome
  <2>4. PICK S \in SUBSET Calls : S = {d \in Calls : InProgress(d)}
    OBVIOUS
  <2>5. Promise!Fail
    BY <1>8, <2>2, <2>3, <2>4, OutcomesFail DEF Restart
  <2> QED BY <2>5 DEF Promise!PromiseNext
<1>9. CASE UNCHANGED vars
  BY <1>1, <1>9 DEF vars, serverVars
<1> QED BY <1>2, <1>3, <1>4, <1>5, <1>6, <1>7, <1>8, <1>9 DEF Next

-----------------------------------------------------------------------------

IInv == Types /\ SlotInv /\ RunInv

LEMMA IInvInit == Init => IInv /\ Promise!PromiseInit
<1> SUFFICES ASSUME Init PROVE IInv /\ Promise!PromiseInit
  OBVIOUS
<1>1. Types
  BY TypesInit
<1>2. \A c \in Calls : call[c].state = "new" /\ call[c].result = None /\ ran[c] = 0
  BY DEF Init, NewCall, Unsent
<1>3. \A c \in Calls : ~call[c].delivered
  BY DEF Init, NewCall, Unsent
<1>4. \A t \in Tabs : page[t].doing = "closed" /\ pending[t] = None
  BY DEF Init, Closed, Shown
<1>5. net = {}
  BY DEF Init
<1>6. SlotInv
  BY <1>2, <1>3, <1>4 DEF SlotInv, SlotBelongsToCaller, CallInv, InProgress
<1>7. RunInv
  BY <1>2, <1>4, <1>5 DEF RunInv
<1>8. Started = {} /\ Outcomes = [c \in Calls |-> "open"]
  BY <1>2 DEF Started, Outcomes, Outcome
<1> QED BY <1>1, <1>6, <1>7, <1>8 DEF IInv, Promise!PromiseInit, Started, Outcomes

LEMMA IInvStep == IInv /\ [Next]_vars => IInv'
  BY TypesStep, SlotStep, RunStep DEF IInv

\* Every variable keeps its type; the registry has every session once, and no more of them
\* than max_sessions.
THEOREM ChannelTypeCorrect == Spec => []TypeOK
<1>1. IInv /\ Registry => TypeOK
  BY DEF IInv, Types, Pages, Messages, MsgOK, Slots, Runs, RunInv, Registry, TypeOK
<1> QED BY <1>1, IInvInit, IInvStep, RegistryInit, RegistryStep, PTL DEF Spec, IInv

\* Registering a tab evicts nobody who polled after somebody that stays, so tabs that keep
\* polling are the last to go (SessionRegistry._evict_if_needed).
THEOREM EvictionsAreOldest == Spec => EvictsOldest
<1>1. IInv /\ Registry /\ [Next]_vars =>
        [\A t, u \in Tabs : Registered(t) /\ ~Registered(t)' /\ Registered(u) /\ Registered(u)'
                            => Position(t) < Position(u)]_vars
  BY EvictionStep DEF IInv
<1> QED BY <1>1, IInvInit, IInvStep, RegistryInit, RegistryStep, PTL DEF Spec, IInv, EvictsOldest

\* For any tabs, calls, reloads, evictions, timeouts and restarts: a slot holds the command of
\* a handler that has to give it up, and a handler without its answer owns its slot.
THEOREM SlotIsCallers == Spec => []SlotBelongsToCaller
<1>1. IInv => SlotBelongsToCaller
  BY DEF IInv, SlotInv
<1> QED BY <1>1, IInvInit, IInvStep, PTL DEF Spec

\* The code of a call starts in one page, once.
THEOREM CodeStartsOnce == Spec => []DeliveredOnce
<1>1. IInv => DeliveredOnce
  BY DEF IInv, RunInv, DeliveredOnce
<1> QED BY <1>1, IInvInit, IInvStep, PTL DEF Spec

\* The channel implements SessionPromise: an answered call ran its code, and no outcome that
\* a caller was given changes.
THEOREM ChannelKeepsPromise == Spec => KeepsPromise
<1>1. IInv /\ [Next]_vars => [Promise!PromiseNext]_<<Started, Outcomes>>
  BY PromiseStep DEF IInv
<1> QED BY <1>1, IInvInit, IInvStep, PTL DEF Spec, KeepsPromise, Promise!PromiseSpec, Started, Outcomes
=============================================================================
