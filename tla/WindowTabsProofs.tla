-------------------------- MODULE WindowTabsProofs --------------------------
(***************************************************************************)
(* What holds of a window whatever its workspaces, tabs and requests are.   *)
(* The operations of the main process change either the queue and its calls *)
(* or the views, so the lemmas come in these two groups, and the parts of   *)
(* the invariant are operators on the main process m and the backend d.     *)
(***************************************************************************)
EXTENDS WindowTabs, SequenceTheorems, WellFoundedInduction, TLAPS

\* What the loop of the queue leaves alone, what the views leave alone, and what both do.
SameViews(m, n) ==
  n.views = m.views /\ n.shown = m.shown /\ n.loaded = m.loaded /\ n.cache = m.cache
SameLoop(m, n) == n.queue = m.queue /\ n.calls = m.calls
SameRest(m, n) == n.open = m.open /\ n.workspace = m.workspace /\ n.forget = m.forget

\* An entry whose tab is shown without asking the backend.
Direct(entry) == entry.op = "switchtab" /\ ~entry.setInBackend

BusyIn(m) == {k \in Calls : m.calls[k] # Idle}

OneServes(m) ==
  /\ Len(m.queue) <= 2
  /\ \A j, k \in BusyIn(m) : j = k
  /\ \A k \in BusyIn(m) : m.queue # <<>> /\ m.calls[k].entry = Head(m.queue)

CallOk(call) ==
  /\ call.at = "idle" => call = Idle
  /\ call.at \in {"view", "config", "init"} => call.tab \in Tabs
  /\ call.reply = "closewindow" => call.entry.op = "closetab"
CallsOk(m) == \A k \in Calls : CallOk(m.calls[k])

OwnViews(m) ==
  /\ \A t \in Tabs : m.loaded[t] # NoView => m.views[m.loaded[t]].tab = t
  /\ \A t \in Tabs : m.cache[t] # NoView => m.views[m.cache[t]] = [tab |-> t, state |-> "live"]
  /\ \A v \in Views : m.views[v].state = "unmade" => m.views[v].tab = None

LeavingIn(m) ==
  \E k \in BusyIn(m) : m.calls[k].entry.op = "switchworkspace" /\ m.calls[k].at \in {"view", "config"}

\* The window and the backend agree on the workspace and the tab.
Agreed(m, d) == m.workspace = d.window /\ ShownTab(m) = d.active[d.window]

\* How far a call has come with what the backend said.
CallAgrees(call, m, d) ==
  /\ call.at \in {"call", "init"} => Agreed(m, d)
  /\ call.at \in {"view", "config"} => m.workspace = d.window /\ call.tab = d.active[d.window]
  /\ call.at = "answered" /\ call.reply \in {"error", None} => Agreed(m, d)
  /\ call.at = "answered" /\ call.reply \in Tabs =>
       /\ d.active[d.window] = call.reply
       /\ d.window = IF call.entry.op = "switchworkspace" THEN call.entry.ws ELSE m.workspace
  /\ call.at = "answered" => call.reply # "closewindow"

\* Every live workspace has an active tab; the tab shown at first is the only one that
\* is shown without the backend, and an empty queue means agreement.
Agrees(m, d) ==
  /\ d.window # None
  /\ \A ws \in d.live : d.active[ws] # None
  /\ m.queue = <<>> => Agreed(m, d)
  /\ \A k \in BusyIn(m) : CallAgrees(m.calls[k], m, d)
  /\ \A i \in DOMAIN m.queue : Direct(m.queue[i]) => i = 1 /\ BusyIn(m) # {}

\* A window that is forgotten is closed; without updates the backend only tells it to close.
Closing(m, e, c) ==
  /\ m.forget => ~m.open
  /\ c.updates = 0 => \A i \in DOMAIN e : e[i].op = "closewindow"

Loop(m) == OneServes(m) /\ CallsOk(m)

ShownLive(m, c) ==
  m.open /\ m.shown # NoView /\ ~LeavingIn(m) /\ c.failures = 0 => Live(m, m.shown)

Calm(m, e, c) == c.updates = 0 /\ c.failures = 0 /\ e = <<>> /\ m.open

\* The inductive invariant.
Typed(m, d, e, c) ==
  /\ d \in Databases /\ m \in Mains /\ e \in Seq(Events)
  /\ c \in [requests : Nat, updates : Nat, failures : Nat]
Holds(m, d, e, c) ==
  /\ Typed(m, d, e, c) /\ Closing(m, e, c) /\ Loop(m) /\ OwnViews(m)
  /\ ShownLive(m, c)
  /\ Calm(m, e, c) => Agrees(m, d)
TabsInv == Holds(main, db, events, counts)

-----------------------------------------------------------------------------
(* The index of a tab, and what its removal leaves.                         *)

LEMMA LeastIndex ==
  ASSUME NEW S \in SUBSET Nat, S # {}
  PROVE  Min(S) \in S
<1> DEFINE R == OpToRel(<, Nat)
<1>1. IsWellFoundedOn(R, Nat)
  BY NatLessThanWellFounded
<1>2. PICK x \in S : \A y \in S : <<y, x>> \notin R
  BY <1>1, WFMin
<1>3. \A y \in S : x <= y
  <2> TAKE y \in S
  <2>1. x \in Nat /\ y \in Nat
    BY <1>2
  <2>2. ~(y < x)
    BY <1>2, <2>1 DEF OpToRel
  <2> QED BY <2>1, <2>2
<1> QED BY <1>3 DEF Min

LEMMA TabIdxIs ==
  ASSUME NEW tabs \in Seq(Tabs), NEW tab \in ToSet(tabs)
  PROVE  TabIdx(tabs, tab) \in 1 .. Len(tabs)
<1> DEFINE I == {i \in 1 .. Len(tabs) : tabs[i] = tab}
<1>1. I \in SUBSET Nat /\ I # {} /\ I \subseteq 1 .. Len(tabs)
  BY LenProperties DEF ToSet
<1>2. Min(I) \in I
  BY <1>1, LeastIndex
<1>3. TabIdx(tabs, tab) = Min(I)
  BY <1>1 DEF TabIdx, SelectInSeq
<1> QED BY <1>1, <1>2, <1>3

LEMMA RemovedTab ==
  ASSUME NEW tabs \in Seq(Tabs), NEW tab \in ToSet(tabs)
  PROVE  /\ RemoveAt(tabs, TabIdx(tabs, tab)) \in Seq(Tabs)
         /\ Len(RemoveAt(tabs, TabIdx(tabs, tab))) = Len(tabs) - 1
<1> DEFINE i == TabIdx(tabs, tab)
           before == SubSeq(tabs, 1, i - 1)
           after == SubSeq(tabs, i + 1, Len(tabs))
<1>1. i \in 1 .. Len(tabs) /\ Len(tabs) \in Nat
  BY TabIdxIs
<1> HIDE DEF i
<1>2. before \in Seq(Tabs) /\ Len(before) = i - 1
  BY <1>1, SubSeqProperties
<1>3. after \in Seq(Tabs) /\ Len(after) = Len(tabs) - i
  BY <1>1, SubSeqProperties
<1>4. RemoveAt(tabs, i) = before \o after
  BY DEF RemoveAt
<1> HIDE DEF before, after
<1>5. before \o after \in Seq(Tabs) /\ Len(before \o after) = Len(before) + Len(after)
  BY <1>2, <1>3, ConcatProperties
<1> QED BY <1>1, <1>2, <1>3, <1>4, <1>5 DEF i

-----------------------------------------------------------------------------
(* The loop of the queue.  At its head the queue has one entry at most.     *)

Taken(entry) ==
  [at |-> IF Direct(entry) THEN "view" ELSE "call", entry |-> entry,
   tab |-> IF Direct(entry) THEN entry.tab ELSE None, reply |-> None]

\* The main process n after call k has come to the head of the loop with queue q.
Turn(m, n, k, q) ==
  /\ n \in Mains /\ SameViews(m, n) /\ SameRest(m, n)
  /\ \A j \in Calls \ {k} : n.calls[j] = m.calls[j]
  /\ \/ n.queue = <<>> /\ n.calls[k] = Idle
        /\ (q = <<>> \/ ~m.open \/ AlreadyShown(m, Head(q)))
     \/ n.queue = q /\ q # <<>> /\ n.calls[k] = Taken(Head(q))

LEMMA RemainingIs ==
  ASSUME NEW m, NEW queue \in Seq(Entries), Len(queue) <= 1
  PROVE  Remaining(queue, m) = IF queue # <<>> /\ ~AlreadyShown(m, Head(queue)) THEN queue ELSE <<>>
<1> DEFINE I == {i \in 1 .. Len(queue) : ~AlreadyShown(m, queue[i])}
           first == IF I # {} THEN Min(I) ELSE 0
<1>1. Remaining(queue, m) = IF first = 0 THEN <<>> ELSE SubSeq(queue, first, Len(queue))
  BY DEF Remaining, SelectInSeq
<1>2. Len(queue) \in Nat /\ (queue = <<>> <=> Len(queue) = 0) /\ (queue # <<>> => Len(queue) = 1)
  <2>1. Len(queue) \in Nat
    BY LenProperties
  <2>2. queue = <<>> <=> Len(queue) = 0
    BY EmptySeq
  <2> DEFINE l == Len(queue)
  <2>3. l \in Nat /\ l <= 1
    BY <2>1
  <2> HIDE DEF l
  <2>4. l = 0 \/ l = 1
    BY <2>3
  <2> QED BY <2>1, <2>2, <2>4 DEF l
<1>3. CASE queue = <<>>
  <2>1. I = {}
    BY <1>2, <1>3
  <2> QED BY <1>1, <1>3, <2>1
<1>4. CASE queue # <<>>
  <2>1. Len(queue) = 1 /\ Head(queue) = queue[1]
    BY <1>2, <1>4
  <2>2. CASE AlreadyShown(m, Head(queue))
    <3>1. I = {}
      BY <2>1, <2>2
    <3> QED BY <1>1, <2>2, <3>1
  <2>3. CASE ~AlreadyShown(m, Head(queue))
    <3>1. I \in SUBSET Nat /\ I = {1}
      BY <2>1, <2>3
    <3>2. Min(I) = 1
      BY <3>1, LeastIndex
    <3>3. first = 1
      BY <3>1, <3>2
    <3>4. SubSeq(queue, 1, Len(queue)) = queue
      BY SubSeqFull
    <3> HIDE DEF first
    <3>5. Remaining(queue, m) = SubSeq(queue, 1, Len(queue))
      BY <1>1, <3>3
    <3> QED BY <1>4, <2>3, <3>4, <3>5
  <2> QED BY <2>2, <2>3
<1> QED BY <1>3, <1>4

LEMMA TakenType ==
  ASSUME NEW entry \in Entries
  PROVE  /\ Taken(entry) \in CallStates /\ Taken(entry) # Idle /\ CallOk(Taken(entry))
         /\ Taken(entry).entry = entry
         /\ Taken(entry).at = IF Direct(entry) THEN "view" ELSE "call"
         /\ Taken(entry).tab = IF Direct(entry) THEN entry.tab ELSE None
         /\ Taken(entry).reply = None
<1>1. entry.tab \in Tabs \cup {None} /\ (Direct(entry) => entry.tab \in Tabs)
  BY DEF Entries, Direct
<1>2. Taken(entry) # Idle
  BY DEF Taken, Idle
<1>3. Taken(entry) \in CallStates
  BY <1>1 DEF Taken, CallStates, None
<1> QED BY <1>1, <1>2, <1>3 DEF Taken, CallOk, None

LEMMA IdleType == Idle \in CallStates /\ CallOk(Idle)
  BY DEF Idle, CallStates, CallOk, NoEntry, Entry, None

LEMMA TakenIs ==
  ASSUME NEW entry
  PROVE  /\ Direct(entry) =>
              Taken(entry) = [Idle EXCEPT !.at = "view", !.entry = entry, !.tab = entry.tab]
         /\ ~Direct(entry) => Taken(entry) = [Idle EXCEPT !.at = "call", !.entry = entry]
<1>1. /\ [Idle EXCEPT !.at = "view", !.entry = entry, !.tab = entry.tab]
         = [at |-> "view", entry |-> entry, tab |-> entry.tab, reply |-> None]
      /\ [Idle EXCEPT !.at = "call", !.entry = entry]
         = [at |-> "call", entry |-> entry, tab |-> None, reply |-> None]
  <2>1. /\ [Idle EXCEPT !.at = "view"] = [at |-> "view", entry |-> NoEntry, tab |-> None, reply |-> None]
        /\ [Idle EXCEPT !.at = "call"] = [at |-> "call", entry |-> NoEntry, tab |-> None, reply |-> None]
    BY DEF Idle
  <2>2. \A x : [[at |-> x, entry |-> NoEntry, tab |-> None, reply |-> None] EXCEPT !.entry = entry]
                = [at |-> x, entry |-> entry, tab |-> None, reply |-> None]
    OBVIOUS
  <2>3. [[at |-> "view", entry |-> entry, tab |-> None, reply |-> None] EXCEPT !.tab = entry.tab]
          = [at |-> "view", entry |-> entry, tab |-> entry.tab, reply |-> None]
    OBVIOUS
  <2> QED BY <2>1, <2>2, <2>3
<1>2. /\ Direct(entry) =>
           Taken(entry) = [at |-> "view", entry |-> entry, tab |-> entry.tab, reply |-> None]
      /\ ~Direct(entry) => Taken(entry) = [at |-> "call", entry |-> entry, tab |-> None, reply |-> None]
  BY DEF Taken
<1> QED BY <1>1, <1>2

\* Nothing but call k and the queue changes.
CallSet(m, r, k, q, c) ==
  /\ r \in Mains /\ SameViews(m, r) /\ SameRest(m, r) /\ r.queue = q /\ r.calls[k] = c
  /\ \A j \in Calls \ {k} : r.calls[j] = m.calls[j]

LEMMA CallAtIs ==
  ASSUME NEW m \in Mains, NEW k \in Calls, NEW c \in CallStates
  PROVE  CallSet(m, CallAt(m, k, c), k, m.queue, c)
<1>1. m.calls \in [Calls -> CallStates]
  BY DEF Mains
<1> DEFINE calls == [m.calls EXCEPT ![k] = c]
           r == [m EXCEPT !.calls = calls]
<1>2. calls \in [Calls -> CallStates] /\ calls[k] = c /\ \A j \in Calls \ {k} : calls[j] = m.calls[j]
  BY <1>1
<1>3. r = CallAt(m, k, c)
  BY DEF CallAt
<1> HIDE DEF calls
<1>4. r \in Mains
  BY <1>2 DEF Mains
<1>5. r.queue = m.queue /\ r.calls = calls
  BY DEF Mains
<1>6. SameViews(m, r) /\ SameRest(m, r)
  BY DEF Mains, SameViews, SameRest
<1> HIDE DEF r
<1> QED BY <1>2, <1>3, <1>4, <1>5, <1>6 DEF CallSet

LEMMA QueueIs ==
  ASSUME NEW m \in Mains, NEW q \in Seq(Entries), NEW r, r = [m EXCEPT !.queue = q]
  PROVE  /\ r \in Mains /\ SameViews(m, r) /\ SameRest(m, r) /\ r.queue = q /\ r.calls = m.calls
<1>1. r \in Mains
  BY DEF Mains
<1>2. r.queue = q /\ r.calls = m.calls
  BY DEF Mains
<1>3. SameViews(m, r) /\ SameRest(m, r)
  BY DEF Mains, SameViews, SameRest
<1> QED BY <1>1, <1>2, <1>3

LEMMA QueueAndCall ==
  ASSUME NEW m \in Mains, NEW k \in Calls, NEW q \in Seq(Entries), NEW c \in CallStates
  PROVE  CallSet(m, CallAt([m EXCEPT !.queue = q], k, c), k, q, c)
<1> DEFINE b == [m EXCEPT !.queue = q]
           r == CallAt(b, k, c)
<1>1. b \in Mains /\ SameViews(m, b) /\ SameRest(m, b) /\ b.queue = q /\ b.calls = m.calls
  <2>1. b = [m EXCEPT !.queue = q]
    OBVIOUS
  <2> HIDE DEF b
  <2> QED BY <2>1, QueueIs
<1> HIDE DEF b
<1>2. CallSet(b, r, k, b.queue, c)
  BY <1>1, CallAtIs
<1> HIDE DEF r
<1>3. CallSet(m, r, k, q, c)
  BY <1>1, <1>2 DEF CallSet, SameViews, SameRest
<1> QED BY <1>3 DEF r, b

LEMMA LoopHeadIs ==
  ASSUME NEW m \in Mains, NEW k \in Calls, Len(m.queue) <= 1
  PROVE  Turn(m, LoopHead(m, k), k, m.queue)
<1> DEFINE queue == IF m.open THEN Remaining(m.queue, m) ELSE m.queue
           entry == Head(queue)
           n == [m EXCEPT !.queue = queue]
<1>1. m.queue \in Seq(Entries)
  BY DEF Mains
<1>2. /\ queue \in Seq(Entries)
      /\ queue = IF m.open /\ (m.queue = <<>> \/ AlreadyShown(m, Head(m.queue))) THEN <<>> ELSE m.queue
  <2>1. Remaining(m.queue, m) = IF m.queue # <<>> /\ ~AlreadyShown(m, Head(m.queue)) THEN m.queue ELSE <<>>
    BY <1>1, RemainingIs
  <2>2. <<>> \in Seq(Entries)
    BY EmptySeq
  <2> QED BY <1>1, <2>1, <2>2
<1>3. LoopHead(m, k) = CASE queue = <<>> -> CallAt(n, k, Idle)
        [] queue # <<>> /\ ~m.open -> CallAt([m EXCEPT !.queue = Tail(@)], k, Idle)
        [] queue # <<>> /\ m.open /\ entry.op = "switchtab" /\ ~entry.setInBackend ->
             CallAt(n, k, [Idle EXCEPT !.at = "view", !.entry = entry, !.tab = entry.tab])
        [] OTHER -> CallAt(n, k, [Idle EXCEPT !.at = "call", !.entry = entry])
  BY DEF LoopHead
<1> HIDE DEF queue
<1>4. CASE queue = <<>>
  <2>1. LoopHead(m, k) = CallAt([m EXCEPT !.queue = queue], k, Idle)
    BY <1>3, <1>4
  <2>2. m.queue = <<>> \/ ~m.open \/ AlreadyShown(m, Head(m.queue))
    BY <1>2, <1>4
  <2> DEFINE r == LoopHead(m, k)
  <2>3. r = CallAt([m EXCEPT !.queue = queue], k, Idle) /\ queue \in Seq(Entries)
    BY <1>2, <2>1
  <2> HIDE DEF r
  <2>6. CallSet(m, r, k, queue, Idle)
    BY <2>3, IdleType, QueueAndCall
  <2> QED BY <1>4, <2>2, <2>6 DEF Turn, CallSet, r
<1>5. CASE queue # <<>> /\ ~m.open
  <2>1. LoopHead(m, k) = CallAt([m EXCEPT !.queue = Tail(m.queue)], k, Idle)
    BY <1>3, <1>5
  <2>2. queue = m.queue
    BY <1>2, <1>5
  <2>3. Tail(m.queue) \in Seq(Entries) /\ Tail(m.queue) = <<>>
    BY <1>1, <1>5, <2>2, HeadTailProperties, LenProperties, EmptySeq
  <2> DEFINE r == LoopHead(m, k)
  <2>4. r = CallAt([m EXCEPT !.queue = <<>>], k, Idle) /\ <<>> \in Seq(Entries)
    BY <1>2, <2>1, <2>3
  <2> HIDE DEF r
  <2>6. CallSet(m, r, k, <<>>, Idle)
    BY <2>4, IdleType, QueueAndCall
  <2> QED BY <1>5, <2>6 DEF Turn, CallSet, r
<1>6. CASE queue # <<>> /\ m.open
  <2>1. queue = m.queue /\ entry \in Entries
    BY <1>1, <1>2, <1>6, HeadTailProperties
  <2>2. LoopHead(m, k) = CallAt([m EXCEPT !.queue = queue], k, Taken(entry))
    <3>1. CASE Direct(entry)
      BY <1>3, <1>6, <3>1, TakenIs DEF Direct
    <3>2. CASE ~Direct(entry)
      BY <1>3, <1>6, <3>2, TakenIs DEF Direct
    <3> QED BY <3>1, <3>2
  <2>3. Taken(entry) \in CallStates
    BY <2>1, TakenType
  <2> HIDE DEF entry
  <2>4. entry = Head(m.queue)
    BY <2>1 DEF entry
  <2> DEFINE r == LoopHead(m, k)
  <2>5. r = CallAt([m EXCEPT !.queue = queue], k, Taken(entry)) /\ queue \in Seq(Entries)
    BY <1>2, <2>2
  <2> HIDE DEF r
  <2>6. CallSet(m, r, k, queue, Taken(entry))
    BY <2>5, <2>3, QueueAndCall
  <2> QED BY <1>6, <2>1, <2>4, <2>6 DEF Turn, CallSet, r
<1> QED BY <1>4, <1>5, <1>6

\* After call k has come to the head with queue q, or has left the loop with it.
Goes(m, n, k, q) ==
  /\ n \in Mains /\ SameViews(m, n) /\ SameRest(m, n)
  /\ \A j \in Calls \ {k} : n.calls[j] = m.calls[j]
  /\ \/ n.queue \in {<<>>, q} /\ n.calls[k] = Idle
     \/ n.queue = q /\ q # <<>> /\ n.calls[k] = Taken(Head(q))

LEMMA TurnGoes ==
  ASSUME NEW m, NEW n, NEW k, NEW q, Turn(m, n, k, q)
  PROVE  Goes(m, n, k, q)
BY DEF Turn, Goes

LEMMA ShiftIs ==
  ASSUME NEW m \in Mains, m.queue # <<>>, Len(m.queue) <= 2
  PROVE  /\ Tail(m.queue) \in Seq(Entries) /\ Len(Tail(m.queue)) <= 1
         /\ \A i \in DOMAIN Tail(m.queue) : i + 1 \in DOMAIN m.queue /\ Tail(m.queue)[i] = m.queue[i + 1]
         /\ Shift(m) \in Mains /\ SameViews(m, Shift(m)) /\ SameRest(m, Shift(m))
         /\ Shift(m).queue = Tail(m.queue) /\ Shift(m).calls = m.calls
<1>1. m.queue \in Seq(Entries)
  BY DEF Mains
<1> DEFINE q == Tail(m.queue)
<1>2. /\ q \in Seq(Entries) /\ Len(q) = Len(m.queue) - 1
      /\ \A i \in 1 .. Len(q) : q[i] = m.queue[i + 1]
  BY <1>1, HeadTailProperties
<1>3. Len(m.queue) \in Nat /\ Len(q) \in Nat /\ DOMAIN q = 1 .. Len(q) /\ DOMAIN m.queue = 1 .. Len(m.queue)
  BY <1>1, <1>2, LenProperties
<1>4. Shift(m) = [m EXCEPT !.queue = q]
  BY DEF Shift, Mains
<1> HIDE DEF q
<1>5. Len(q) <= 1 /\ \A i \in DOMAIN q : i + 1 \in DOMAIN m.queue /\ q[i] = m.queue[i + 1]
  BY <1>2, <1>3
<1> DEFINE r == Shift(m)
<1>6. r = [m EXCEPT !.queue = q]
  BY <1>4
<1> HIDE DEF r
<1>7. r \in Mains /\ SameViews(m, r) /\ SameRest(m, r) /\ r.queue = q /\ r.calls = m.calls
  BY <1>2, <1>6, QueueIs
<1> QED BY <1>2, <1>5, <1>7 DEF q, r

LEMMA NextTurnIs ==
  ASSUME NEW m \in Mains, NEW k \in Calls, m.queue # <<>>, Len(m.queue) <= 2
  PROVE  Turn(m, NextTurn(m, k), k, Tail(m.queue))
<1> DEFINE b == Shift(m)
<1>1. /\ b \in Mains /\ SameViews(m, b) /\ SameRest(m, b) /\ b.calls = m.calls
      /\ b.queue = Tail(m.queue) /\ Len(Tail(m.queue)) <= 1
  BY ShiftIs
<1>2. NextTurn(m, k) = LoopHead(b, k)
  BY DEF NextTurn
<1> HIDE DEF b
<1>3. Turn(b, NextTurn(m, k), k, Tail(m.queue))
  BY <1>1, <1>2, LoopHeadIs
<1>4. ASSUME NEW e PROVE AlreadyShown(b, e) <=> AlreadyShown(m, e)
  BY <1>1 DEF AlreadyShown, ShownTab, SameViews
<1> QED BY <1>1, <1>3, <1>4 DEF Turn, SameViews, SameRest

LEMMA LeaveLoopIs ==
  ASSUME NEW m \in Mains, NEW k \in Calls, m.queue # <<>>, Len(m.queue) <= 2
  PROVE  CallSet(m, LeaveLoop(m, k), k, Tail(m.queue), Idle)
<1> DEFINE b == Shift(m)
<1>1. /\ b \in Mains /\ SameViews(m, b) /\ SameRest(m, b) /\ b.calls = m.calls
      /\ b.queue = Tail(m.queue)
  BY ShiftIs
<1>2. LeaveLoop(m, k) = CallAt(b, k, Idle)
  BY DEF LeaveLoop
<1> HIDE DEF b
<1>3. CallSet(b, LeaveLoop(m, k), k, Tail(m.queue), Idle)
  BY <1>1, <1>2, CallAtIs, IdleType
<1> QED BY <1>1, <1>3 DEF CallSet, SameViews, SameRest

\* The queue when a request has found another one before it.
Waits(m, n, entry) ==
  /\ n \in Mains /\ SameViews(m, n) /\ SameRest(m, n) /\ n.calls = m.calls
  /\ m.queue # <<>> /\ DOMAIN n.queue = {1, 2} /\ Len(n.queue) = 2
  /\ n.queue[1] = m.queue[1] /\ n.queue[2] = entry

LEMMA QueueActionIs ==
  ASSUME NEW m \in Mains, OneServes(m), NEW entry \in Entries
  PROVE  LET n == QueueAction(m, entry)
         IN  \/ m.queue = <<>> /\ BusyIn(m) = {} /\ \E k \in Calls : Turn(m, n, k, <<entry>>)
             \/ Waits(m, n, entry)
<1> DEFINE n == QueueAction(m, entry)
           k == CHOOSE k \in Calls : m.calls[k] = Idle
           more == Append(m.queue, entry)
<1>1. m.queue \in Seq(Entries) /\ Len(m.queue) \in Nat /\ DOMAIN m.queue = 1 .. Len(m.queue)
  <2>1. m.queue \in Seq(Entries)
    BY DEF Mains
  <2> QED BY <2>1, LenProperties
<1>2. n = CASE Len(m.queue) >= 2 -> [m EXCEPT !.queue[2] = entry]
        [] Len(m.queue) < 2 /\ StartsCall(m) /\ (\E c \in Calls : m.calls[c] = Idle) ->
             LoopHead([m EXCEPT !.queue = Append(@, entry)], k)
        [] OTHER -> [m EXCEPT !.queue = Append(@, entry)]
  BY DEF QueueAction
<1>3. /\ more \in Seq(Entries) /\ Len(more) = Len(m.queue) + 1
      /\ \A i \in 1 .. Len(m.queue) : more[i] = m.queue[i]
      /\ more[Len(m.queue) + 1] = entry
  BY <1>1, AppendProperties
<1>4. [m EXCEPT !.queue = Append(@, entry)] = [m EXCEPT !.queue = more]
  BY DEF Mains
<1> HIDE DEF n, more
<1>5. CASE m.queue = <<>>
  <2>1. BusyIn(m) = {} /\ k \in Calls /\ \E c \in Calls : m.calls[c] = Idle
    <3>1. BusyIn(m) = {}
      BY <1>5 DEF OneServes
    <3>2. 1 \in Calls /\ m.calls[1] = Idle
      BY <3>1 DEF BusyIn, Calls
    <3> QED BY <3>1, <3>2
  <2>2. Len(m.queue) = 0
    BY <1>5
  <2> HIDE DEF k
  <2> DEFINE b == [m EXCEPT !.queue = more]
  <2>3. n = LoopHead(b, k)
    BY <1>2, <1>4, <1>5, <2>1, <2>2 DEF StartsCall
  <2>4. b \in Mains /\ SameViews(m, b) /\ SameRest(m, b) /\ b.queue = more /\ b.calls = m.calls
    <3>1. b = [m EXCEPT !.queue = more]
      OBVIOUS
    <3> HIDE DEF b
    <3> QED BY <1>3, <3>1, QueueIs
  <2> HIDE DEF b
  <2>5. more = <<entry>> /\ Len(more) = 1
    BY <1>3, <1>5, <2>2 DEF more
  <2>6. Turn(b, n, k, <<entry>>)
    <3>1. Len(b.queue) <= 1
      BY <2>4, <2>5
    <3>2. Turn(b, LoopHead(b, k), k, b.queue)
      BY <2>1, <2>4, <3>1, LoopHeadIs
    <3> QED BY <2>3, <2>4, <2>5, <3>2
  <2>7. ASSUME NEW e PROVE AlreadyShown(b, e) <=> AlreadyShown(m, e)
    BY <2>4 DEF AlreadyShown, ShownTab, SameViews
  <2>8. Turn(m, n, k, <<entry>>)
    BY <2>4, <2>6, <2>7 DEF Turn, SameViews, SameRest
  <2> QED BY <1>5, <2>1, <2>8 DEF n
<1>6. CASE m.queue # <<>>
  <2>1. Len(m.queue) \in {1, 2}
    <3>1. Len(m.queue) # 0
      BY <1>1, <1>6, EmptySeq
    <3>2. Len(m.queue) <= 2
      BY DEF OneServes
    <3> DEFINE l == Len(m.queue)
    <3>3. l \in Nat /\ l # 0 /\ l <= 2
      BY <1>1, <3>1, <3>2
    <3> HIDE DEF l
    <3>4. l \in {1, 2}
      BY <3>3
    <3> QED BY <3>4 DEF l
  <2>2. CASE Len(m.queue) = 2
    <3> DEFINE put == [m.queue EXCEPT ![2] = entry]
    <3>1. n = [m EXCEPT !.queue[2] = entry]
      BY <1>2, <2>2
    <3>2. n = [m EXCEPT !.queue = put]
      BY <3>1 DEF Mains
    <3>3. put \in Seq(Entries) /\ Len(put) = 2 /\ put[1] = m.queue[1] /\ put[2] = entry
      BY <1>1, <2>2, ExceptSeq
    <3>4. DOMAIN put = {1, 2}
      BY <1>1, <2>2
    <3> HIDE DEF put
    <3>5. n \in Mains /\ SameViews(m, n) /\ SameRest(m, n) /\ n.queue = put /\ n.calls = m.calls
      BY <3>2, <3>3, QueueIs
    <3> QED BY <1>6, <3>3, <3>4, <3>5 DEF Waits, n
  <2>3. CASE Len(m.queue) = 1
    <3>1. n = [m EXCEPT !.queue = more]
      BY <1>2, <1>4, <1>6, <2>3 DEF StartsCall
    <3>2. more[1] = m.queue[1] /\ more[2] = entry /\ Len(more) = 2
      BY <1>3, <2>3
    <3>3. DOMAIN more = {1, 2}
      BY <1>3, <3>2, LenProperties
    <3>4. n \in Mains /\ SameViews(m, n) /\ SameRest(m, n) /\ n.queue = more /\ n.calls = m.calls
      BY <1>3, <3>1, QueueIs
    <3> QED BY <1>6, <3>2, <3>3, <3>4 DEF Waits, n
  <2> QED BY <2>1, <2>2, <2>3
<1> QED BY <1>5, <1>6

-----------------------------------------------------------------------------
(* What the loop keeps of its own invariant.                                *)

LEMMA GoesKeepsLoop ==
  ASSUME NEW m \in Mains, NEW n, NEW k \in Calls, NEW q \in Seq(Entries), Len(q) <= 1,
         BusyIn(m) \subseteq {k}, CallsOk(m), Goes(m, n, k, q)
  PROVE  OneServes(n) /\ CallsOk(n) /\ BusyIn(n) \subseteq {k}
<1>1. q # <<>> => Head(q) \in Entries
  BY HeadTailProperties
<1>2. /\ q # <<>> => /\ CallOk(Taken(Head(q))) /\ Taken(Head(q)) # Idle
                     /\ Taken(Head(q)).entry = Head(q)
  BY <1>1, TakenType
<1>3. BusyIn(n) \subseteq {k}
  BY DEF Goes, BusyIn
<1>4. CallsOk(n)
  BY <1>2, IdleType DEF Goes, CallsOk
<1>5. Len(n.queue) <= 2
  <2>1. n.queue = <<>> \/ n.queue = q
    BY DEF Goes
  <2>2. Len(q) \in Nat /\ Len(<<>>) = 0
    BY LenProperties, EmptySeq
  <2>3. Len(q) <= 2
    BY <2>2
  <2> QED BY <2>1, <2>2, <2>3
<1>6. \A j \in BusyIn(n) : n.queue # <<>> /\ n.calls[j].entry = Head(n.queue)
  BY <1>2, <1>3 DEF Goes, BusyIn
<1> QED BY <1>3, <1>4, <1>5, <1>6 DEF OneServes

LEMMA WaitsKeepsLoop ==
  ASSUME NEW m \in Mains, NEW n, NEW entry \in Entries, OneServes(m), CallsOk(m),
         Waits(m, n, entry)
  PROVE  OneServes(n) /\ CallsOk(n) /\ BusyIn(n) = BusyIn(m)
<1>1. CallsOk(n) /\ BusyIn(n) = BusyIn(m) /\ n.calls = m.calls /\ Len(n.queue) = 2
  BY DEF Waits, CallsOk, BusyIn
<1>2. n.queue # <<>>
  BY EmptySeq DEF Waits
<1>3. Head(n.queue) = n.queue[1] /\ Head(m.queue) = m.queue[1]
  BY DEF Waits, Mains
<1>4. Head(n.queue) = Head(m.queue)
  BY <1>3 DEF Waits
<1> QED BY <1>1, <1>2, <1>4 DEF OneServes

-----------------------------------------------------------------------------
(* The views.  They are taken out of the cache before they close.           *)

\* Views close and are gone, entries of the cache and the window are dropped.
Loses(m, n) ==
  /\ n \in Mains /\ SameLoop(m, n)
  /\ \A v \in Views :
       /\ n.views[v].tab = m.views[v].tab
       /\ n.views[v].state = "unmade" => m.views[v].state = "unmade"
       /\ \/ n.views[v] = m.views[v]
          \/ m.views[v].state # "live"
          \/ m.views[v].tab \in Tabs => n.cache[m.views[v].tab] = NoView
  /\ \A t \in Tabs : n.cache[t] \in {NoView, m.cache[t]} /\ n.loaded[t] \in {NoView, m.loaded[t]}

\* The view that is shown stays so.
KeepsShown(m, n) ==
  n.shown = m.shown /\ (Live(m, m.shown) => Live(n, m.shown))

LEMMA ViewTypes ==
  ASSUME NEW m \in Mains
  PROVE  /\ \A t \in Tabs : m.loaded[t] \in Views \cup {NoView} /\ m.cache[t] \in Views \cup {NoView}
         /\ m.shown \in Views \cup {NoView} /\ NoView \notin Views
         /\ \A v \in Views : /\ m.views[v].tab \in Tabs \cup {None}
                             /\ m.views[v] = [tab |-> m.views[v].tab, state |-> m.views[v].state]
<1>1. m.shown \in Views \cup {NoView} /\ m.views \in [Views -> [tab : Tabs \cup {None}, state : {"unmade", "live", "closing", "gone"}]]
  BY DEF Mains
<1>2. m.loaded \in [Tabs -> Views \cup {NoView}] /\ m.cache \in [Tabs -> Views \cup {NoView}]
  BY DEF Mains
<1>3. NoView \notin Views
  BY WindowBoundsAssumption DEF Views, NoView
<1> QED BY <1>1, <1>2, <1>3

LEMMA LosesKeepsOwn ==
  ASSUME NEW m \in Mains, NEW n, OwnViews(m), Loses(m, n)
  PROVE  OwnViews(n)
<1>1. ASSUME NEW t \in Tabs, n.loaded[t] # NoView PROVE n.views[n.loaded[t]].tab = t
  BY <1>1, ViewTypes DEF Loses, OwnViews
<1>2. ASSUME NEW t \in Tabs, n.cache[t] # NoView
      PROVE  n.views[n.cache[t]] = [tab |-> t, state |-> "live"]
  <2> DEFINE v == m.cache[t]
  <2>1. n.cache[t] = v /\ v \in Views /\ m.views[v] = [tab |-> t, state |-> "live"]
    BY <1>2, ViewTypes DEF Loses, OwnViews
  <2> HIDE DEF v
  <2>2. n.views[v] = m.views[v]
    BY <1>2, <2>1 DEF Loses
  <2> QED BY <2>1, <2>2
<1>3. \A v \in Views : n.views[v].state = "unmade" => n.views[v].tab = None
  BY DEF Loses, OwnViews
<1> QED BY <1>1, <1>2, <1>3 DEF OwnViews

LEMMA DestroyIs ==
  ASSUME NEW m \in Mains, NEW v \in Views, NEW t \in Tabs, m.views[v].tab = t
  PROVE  LET n == DestroyView(m, v)
         IN  /\ Loses(m, n) /\ n.shown = m.shown /\ SameRest(m, n)
             /\ n.loaded = m.loaded
             /\ \A w \in Views \ {v} : n.views[w] = m.views[w]
<1> DEFINE state == IF m.views[v].state = "live" THEN "closing" ELSE m.views[v].state
           views == [m.views EXCEPT ![v].state = state]
           cache == [m.cache EXCEPT ![t] = NoView]
           n == [m EXCEPT !.cache = cache, !.views = views]
<1>1. /\ m.views \in [Views -> [tab : Tabs \cup {None}, state : {"unmade", "live", "closing", "gone"}]]
      /\ m.cache \in [Tabs -> Views \cup {NoView}]
  BY DEF Mains
<1>2. DestroyView(m, v) = n
  BY DEF DestroyView, Uncached, Mains
<1>3. state \in {"unmade", "live", "closing", "gone"}
  BY <1>1
<1> HIDE DEF state
<1>4. /\ views \in [Views -> [tab : Tabs \cup {None}, state : {"unmade", "live", "closing", "gone"}]]
      /\ \A w \in Views \ {v} : views[w] = m.views[w]
      /\ views[v].tab = t /\ views[v].state = state
  BY <1>1, <1>3
<1>5. /\ cache \in [Tabs -> Views \cup {NoView}] /\ cache[t] = NoView
      /\ \A u \in Tabs : cache[u] \in {NoView, m.cache[u]}
  BY <1>1
<1> HIDE DEF views, cache
<1>6. n \in Mains
  BY <1>4, <1>5 DEF Mains
<1>7. n.views = views /\ n.cache = cache /\ n.loaded = m.loaded /\ n.shown = m.shown
  BY DEF Mains
<1>8. SameLoop(m, n) /\ SameRest(m, n)
  BY DEF Mains, SameLoop, SameRest
<1> HIDE DEF n
<1>9. state = "unmade" => m.views[v].state = "unmade"
  BY DEF state
<1>10. Loses(m, n)
  BY <1>4, <1>5, <1>6, <1>7, <1>8, <1>9 DEF Loses
<1> QED BY <1>2, <1>4, <1>7, <1>8, <1>10

LEMMA LosesItself ==
  ASSUME NEW m \in Mains
  PROVE  Loses(m, m) /\ KeepsShown(m, m) /\ SameRest(m, m)
BY DEF Loses, KeepsShown, SameRest, SameLoop

\* The window forgets a view, which closes.
LEMMA UnloadIs ==
  ASSUME NEW m \in Mains, OwnViews(m), NEW t \in Tabs, m.loaded[t] # NoView
  PROVE  LET n == DestroyView([m EXCEPT !.loaded[t] = NoView], m.loaded[t])
         IN  /\ Loses(m, n) /\ n.shown = m.shown /\ SameRest(m, n)
             /\ \A w \in Views \ {m.loaded[t]} : n.views[w] = m.views[w]
<1> DEFINE v == m.loaded[t]
           loaded == [m.loaded EXCEPT ![t] = NoView]
           b == [m EXCEPT !.loaded = loaded]
           n == DestroyView(b, v)
<1>1. v \in Views /\ m.views[v].tab = t
  BY ViewTypes DEF OwnViews
<1>2. loaded \in [Tabs -> Views \cup {NoView}] /\ \A u \in Tabs : loaded[u] \in {NoView, m.loaded[u]}
  BY DEF Mains
<1>3. [m EXCEPT !.loaded[t] = NoView] = b
  BY DEF Mains
<1> HIDE DEF loaded, v
<1>4. b \in Mains
  BY <1>2 DEF Mains
<1>5. b.views = m.views /\ b.cache = m.cache /\ b.loaded = loaded /\ b.shown = m.shown
  BY DEF Mains
<1>6. SameLoop(m, b) /\ SameRest(m, b)
  BY DEF Mains, SameLoop, SameRest
<1> HIDE DEF b
<1>7. /\ Loses(b, n) /\ n.shown = b.shown /\ SameRest(b, n) /\ n.loaded = b.loaded
      /\ \A w \in Views \ {v} : n.views[w] = b.views[w]
  BY <1>1, <1>4, <1>5, DestroyIs
<1> HIDE DEF n
<1>8. Loses(m, n)
  BY <1>2, <1>5, <1>6, <1>7 DEF Loses, SameLoop
<1>9. n.shown = m.shown /\ SameRest(m, n) /\ \A w \in Views \ {v} : n.views[w] = m.views[w]
  BY <1>5, <1>6, <1>7 DEF SameRest
<1>10. DestroyView([m EXCEPT !.loaded[t] = NoView], m.loaded[t]) = n
  BY <1>3 DEF n, v
<1> QED BY <1>8, <1>9, <1>10 DEF v

LEMMA RemoveTabIs ==
  ASSUME NEW m \in Mains, OwnViews(m), NEW t \in Tabs
  PROVE  LET n == removeTabView(m, t, FALSE)
         IN  Loses(m, n) /\ KeepsShown(m, n) /\ SameRest(m, n)
<1> DEFINE n == removeTabView(m, t, FALSE)
<1>1. CASE ShownTab(m) = t \/ m.loaded[t] = NoView
  <2>1. n = m
    BY <1>1 DEF removeTabView
  <2> QED BY <2>1, LosesItself
<1>2. CASE ShownTab(m) # t /\ m.loaded[t] # NoView
  <2>1. n = DestroyView([m EXCEPT !.loaded[t] = NoView], m.loaded[t])
    BY <1>2 DEF removeTabView
  <2>2. /\ Loses(m, n) /\ n.shown = m.shown /\ SameRest(m, n)
        /\ \A w \in Views \ {m.loaded[t]} : n.views[w] = m.views[w]
    BY <1>2, <2>1, UnloadIs
  <2> HIDE DEF n
  <2>3. m.loaded[t] \in Views /\ m.views[m.loaded[t]].tab = t
    BY <1>2, ViewTypes DEF OwnViews
  <2>4. m.shown # NoView => m.shown \in Views \ {m.loaded[t]}
    BY <1>2, <2>3, ViewTypes DEF ShownTab
  <2>5. KeepsShown(m, n)
    BY <2>2, <2>4 DEF KeepsShown, Live
  <2> QED BY <2>2, <2>5 DEF n
<1> QED BY <1>1, <1>2

LEMMA EvictEntryIs ==
  ASSUME NEW m \in Mains, OwnViews(m), NEW t \in Tabs
  PROVE  LET n == tryEvictEntry(m, t)
         IN  Loses(m, n) /\ (m.open => KeepsShown(m, n)) /\ SameRest(m, n) /\ n.shown = m.shown
<1> DEFINE n == tryEvictEntry(m, t)
<1>1. CASE m.cache[t] = NoView \/ m.cache[t] = m.shown
  <2>1. n = m
    BY <1>1 DEF tryEvictEntry
  <2> QED BY <2>1, LosesItself
<1>2. CASE m.cache[t] \notin {NoView, m.shown} /\ ~m.open
  <2>1. n = DestroyView(m, m.cache[t])
    BY <1>2 DEF tryEvictEntry
  <2>2. m.cache[t] \in Views
    BY <1>2, ViewTypes
  <2>3. m.views[m.cache[t]] = [tab |-> t, state |-> "live"]
    BY <1>2 DEF OwnViews
  <2>4. m.views[m.cache[t]].tab = t
    BY <2>3
  <2> QED BY <1>2, <2>1, <2>2, <2>4, DestroyIs
<1>3. CASE m.cache[t] \notin {NoView, m.shown} /\ m.open
  <2>1. n = removeTabView(m, t, FALSE)
    BY <1>3 DEF tryEvictEntry
  <2> QED BY <2>1, RemoveTabIs DEF KeepsShown
<1> QED BY <1>1, <1>2, <1>3

LEMMA EvictedIs ==
  ASSUME NEW m \in Mains, OwnViews(m), NEW old \in SUBSET Tabs
  PROVE  LET n == Evicted(m, old)
         IN  /\ Loses(m, n) /\ (m.open => KeepsShown(m, n)) /\ SameRest(m, n)
             /\ n.shown = m.shown
             /\ \A v \in Views : m.views[v].tab \notin old => n.views[v] = m.views[v]
<1> DEFINE e(t) == tryEvictEntry(m, t)
           loaded == [t \in Tabs |-> IF t \in old THEN e(t).loaded[t] ELSE m.loaded[t]]
           cache == [t \in Tabs |-> IF t \in old THEN e(t).cache[t] ELSE m.cache[t]]
           views == [v \in Views |-> IF m.views[v].tab \in old THEN e(m.views[v].tab).views[v]
                                     ELSE m.views[v]]
           n == [m EXCEPT !.loaded = loaded, !.cache = cache, !.views = views]
<1>1. Evicted(m, old) = n
  BY DEF Evicted, Mains
<1>2. \A t \in Tabs : Loses(m, e(t)) /\ (m.open => KeepsShown(m, e(t))) /\ e(t).shown = m.shown
  BY EvictEntryIs
<1> HIDE DEF e
<1>3. \A t \in Tabs : /\ e(t).loaded \in [Tabs -> Views \cup {NoView}]
                      /\ e(t).cache \in [Tabs -> Views \cup {NoView}]
                      /\ e(t).views \in [Views -> [tab : Tabs \cup {None}, state : {"unmade", "live", "closing", "gone"}]]
  BY <1>2 DEF Loses, Mains
<1>4. loaded \in [Tabs -> Views \cup {NoView}] /\ \A t \in Tabs : loaded[t] \in {NoView, m.loaded[t]}
  <2>1. m.loaded \in [Tabs -> Views \cup {NoView}]
    BY DEF Mains
  <2> QED BY <1>2, <1>3, <2>1 DEF Loses
<1>5. /\ cache \in [Tabs -> Views \cup {NoView}] /\ \A t \in Tabs : cache[t] \in {NoView, m.cache[t]}
      /\ \A t \in old : cache[t] = e(t).cache[t]
  <2>1. m.cache \in [Tabs -> Views \cup {NoView}]
    BY DEF Mains
  <2> QED BY <1>2, <1>3, <2>1 DEF Loses
<1>6. /\ views \in [Views -> [tab : Tabs \cup {None}, state : {"unmade", "live", "closing", "gone"}]]
      /\ \A v \in Views : m.views[v].tab \notin old => views[v] = m.views[v]
      /\ \A v \in Views : m.views[v].tab \in old => views[v] = e(m.views[v].tab).views[v]
  <2>1. m.views \in [Views -> [tab : Tabs \cup {None}, state : {"unmade", "live", "closing", "gone"}]]
    BY DEF Mains
  <2> QED BY <1>3, <2>1
<1> HIDE DEF loaded, cache, views
<1>7. n \in Mains
  BY <1>4, <1>5, <1>6 DEF Mains
<1>8. n.views = views /\ n.cache = cache /\ n.loaded = loaded /\ n.shown = m.shown
  BY DEF Mains
<1>9. SameLoop(m, n) /\ SameRest(m, n)
  BY DEF Mains, SameLoop, SameRest
<1> HIDE DEF n
<1>10. ASSUME NEW v \in Views
       PROVE  /\ n.views[v].tab = m.views[v].tab
              /\ n.views[v].state = "unmade" => m.views[v].state = "unmade"
              /\ \/ n.views[v] = m.views[v]
                 \/ m.views[v].state # "live"
                 \/ m.views[v].tab \in Tabs => n.cache[m.views[v].tab] = NoView
  <2> DEFINE t == m.views[v].tab
  <2>1. CASE t \notin old
    BY <1>6, <1>8, <2>1
  <2>2. CASE t \in old
    <3>1. n.views[v] = e(t).views[v] /\ n.cache[t] = e(t).cache[t] /\ t \in Tabs
      BY <1>5, <1>6, <1>8, <2>2
    <3>2. Loses(m, e(t))
      BY <1>2, <3>1
    <3> QED BY <3>1, <3>2 DEF Loses
  <2> QED BY <2>1, <2>2
<1>11. Loses(m, n)
  BY <1>4, <1>5, <1>7, <1>8, <1>9, <1>10 DEF Loses
<1>12. ASSUME m.open PROVE KeepsShown(m, n)
  <2> SUFFICES ASSUME Live(m, m.shown) PROVE Live(n, m.shown)
    BY <1>8 DEF KeepsShown
  <2> DEFINE v == m.shown
             t == m.views[v].tab
  <2>1. v \in Views /\ v # NoView
    BY ViewTypes DEF Live
  <2>2. CASE t \notin old
    BY <1>6, <1>8, <2>1, <2>2 DEF Live
  <2>3. CASE t \in old
    <3>1. KeepsShown(m, e(t))
      BY <1>2, <1>12, <2>3
    <3>2. views[v] = e(t).views[v]
      BY <1>6, <2>1, <2>3
    <3> QED BY <1>8, <2>1, <3>1, <3>2 DEF KeepsShown, Live
  <2> QED BY <2>2, <2>3
<1> QED BY <1>1, <1>6, <1>8, <1>9, <1>11, <1>12

LEMMA RemoveAllIs ==
  ASSUME NEW m \in Mains, OwnViews(m)
  PROVE  LET n == removeAllChildViews(m)
         IN  Loses(m, n) /\ SameRest(m, n) /\ n.shown = m.shown
<1> DEFINE mine == {m.loaded[t] : t \in Tabs} \ {NoView}
           theirs == {m.views[v].tab : v \in mine}
           views == [v \in Views |-> IF v \in mine /\ m.views[v].state = "live"
                                     THEN [tab |-> m.views[v].tab, state |-> "closing"] ELSE m.views[v]]
           cache == [t \in Tabs |-> IF t \in theirs THEN NoView ELSE m.cache[t]]
           n == [m EXCEPT !.views = views, !.cache = cache]
<1>1. removeAllChildViews(m) = n
  BY DEF removeAllChildViews, Mains
<1>2. /\ m.views \in [Views -> [tab : Tabs \cup {None}, state : {"unmade", "live", "closing", "gone"}]]
      /\ m.cache \in [Tabs -> Views \cup {NoView}]
  BY DEF Mains
<1> HIDE DEF mine
<1>3. /\ views \in [Views -> [tab : Tabs \cup {None}, state : {"unmade", "live", "closing", "gone"}]]
      /\ \A v \in Views : views[v].tab = m.views[v].tab
      /\ \A v \in Views : views[v].state = "unmade" => m.views[v].state = "unmade"
      /\ \A v \in Views : v \notin mine => views[v] = m.views[v]
  BY <1>2
<1>4. /\ cache \in [Tabs -> Views \cup {NoView}] /\ \A t \in Tabs : cache[t] \in {NoView, m.cache[t]}
      /\ \A v \in mine : m.views[v].tab \in Tabs => cache[m.views[v].tab] = NoView
  BY <1>2
<1> HIDE DEF views, cache
<1>5. n \in Mains
  BY <1>3, <1>4 DEF Mains
<1>6. n.views = views /\ n.cache = cache /\ n.loaded = m.loaded /\ n.shown = m.shown
  BY DEF Mains
<1>7. SameLoop(m, n) /\ SameRest(m, n)
  BY DEF Mains, SameLoop, SameRest
<1> HIDE DEF n
<1>8. Loses(m, n)
  BY <1>3, <1>4, <1>5, <1>6, <1>7 DEF Loses
<1> QED BY <1>1, <1>6, <1>7, <1>8

-----------------------------------------------------------------------------
(* The backend.                                                             *)

LEMMA DatabaseTypes ==
  ASSUME NEW d \in Databases
  PROVE  /\ d.live \in SUBSET Workspaces /\ d.tabs \in [Workspaces -> Seq(Tabs)]
         /\ d.window \in Workspaces \cup {None} /\ d.elsewhere \in SUBSET Workspaces
         /\ d.active \in [Workspaces -> Tabs \cup {None}] /\ d.used \in SUBSET Tabs
BY DEF Databases

\* A workspace is gone, or it stays as it is.
LEMMA DeleteWorkspaceIs ==
  ASSUME NEW d \in Databases, NEW ws \in Workspaces
  PROVE  LET n == DeleteWorkspace(d, ws)
         IN  /\ n \in Databases /\ n.used = d.used /\ n.window = d.window /\ n.live \subseteq d.live
             /\ \A w \in Workspaces \ {ws} : n.active[w] = d.active[w]
             /\ \A w \in n.live : n.active[w] = d.active[w]
<1> DEFINE tabs == [d.tabs EXCEPT ![ws] = <<>>]
           active == [d.active EXCEPT ![ws] = None]
           live == d.live \ {ws}
           n == [d EXCEPT !.live = live, !.tabs = tabs, !.active = active]
<1>1. n = Deleted(d, ws)
  BY DEF Deleted, Databases
<1>2. tabs \in [Workspaces -> Seq(Tabs)]
  BY DatabaseTypes, EmptySeq
<1>3. /\ active \in [Workspaces -> Tabs \cup {None}]
      /\ \A w \in Workspaces \ {ws} : active[w] = d.active[w]
  BY DatabaseTypes
<1>4. live \in SUBSET Workspaces /\ live \subseteq d.live /\ ws \notin live
  BY DatabaseTypes
<1> HIDE DEF tabs, active, live
<1>5. n \in Databases
  BY <1>2, <1>3, <1>4 DEF Databases
<1>6. n.used = d.used /\ n.window = d.window /\ n.live = live /\ n.active = active
  BY DEF Databases
<1> HIDE DEF n
<1>7. \A w \in n.live : n.active[w] = d.active[w]
  BY <1>3, <1>4, <1>6
<1> DEFINE r == DeleteWorkspace(d, ws)
<1>8. r = d \/ r = n
  BY <1>1 DEF DeleteWorkspace
<1> HIDE DEF r
<1>9. /\ r \in Databases /\ r.used = d.used /\ r.window = d.window /\ r.live \subseteq d.live
      /\ \A w \in Workspaces \ {ws} : r.active[w] = d.active[w]
      /\ \A w \in r.live : r.active[w] = d.active[w]
  BY <1>3, <1>4, <1>5, <1>6, <1>7, <1>8
<1> QED BY <1>9 DEF r

LEMMA CloseWindowIs ==
  ASSUME NEW d \in Databases
  PROVE  CloseWindow(d) \in Databases /\ CloseWindow(d).used = d.used /\ CloseWindow(d).window = None
<1>1. CASE d.window = None
  BY <1>1 DEF CloseWindow
<1>2. CASE d.window # None
  <2> DEFINE b == DeleteWorkspace(d, d.window)
             n == [b EXCEPT !.window = None]
  <2>1. b \in Databases /\ b.used = d.used
    BY <1>2, DatabaseTypes, DeleteWorkspaceIs
  <2>2. CloseWindow(d) = n
    BY <1>2 DEF CloseWindow
  <2> HIDE DEF b
  <2>3. n \in Databases /\ n.used = b.used /\ n.window = None
    BY <2>1 DEF Databases
  <2> QED BY <2>1, <2>2, <2>3
<1> QED BY <1>1, <1>2

\* This window is closed when the workspace is its own.
LEMMA CloseOwnerIs ==
  ASSUME NEW d \in Databases, NEW ws \in Workspaces
  PROVE  LET n == CloseOwner(d, ws)
         IN  n \in Databases /\ n.used = d.used /\ (ws = d.window => n.window = None)
<1> DEFINE b == DeleteWorkspace(d, ws)
           elsewhere == b.elsewhere \ {ws}
           n == [b EXCEPT !.elsewhere = elsewhere]
<1>1. b \in Databases /\ b.used = d.used
  BY DeleteWorkspaceIs
<1>2. [DeleteWorkspace(d, ws) EXCEPT !.elsewhere = @ \ {ws}] = n
  BY <1>1 DEF Databases
<1>3. CloseOwner(d, ws) = CASE ws = d.window -> CloseWindow(d)
                            [] ws # d.window /\ ws \in d.elsewhere -> n
                            [] OTHER -> d
  BY <1>2 DEF CloseOwner
<1> HIDE DEF b
<1>4. elsewhere \in SUBSET Workspaces
  BY <1>1, DatabaseTypes
<1> HIDE DEF elsewhere
<1>5. n \in Databases /\ n.used = b.used
  BY <1>1, <1>4 DEF Databases
<1> HIDE DEF n
<1>6. CASE ws = d.window
  BY <1>3, <1>6, CloseWindowIs
<1>7. CASE ws # d.window
  BY <1>1, <1>3, <1>5, <1>7
<1> QED BY <1>6, <1>7

LEMMA NewActiveIs ==
  ASSUME NEW d \in Databases, NEW ws \in Workspaces, NEW tab \in TabsOf(d, ws)
  PROVE  NewActive(d, ws, tab) \in Tabs \cup {None}
<1> DEFINE tabs == d.tabs[ws]
           i == TabIdx(tabs, tab)
           rest == RemoveAt(tabs, i)
           j == IF i > 1 THEN i - 1 ELSE 1
<1>1. tabs \in Seq(Tabs) /\ tab \in ToSet(tabs) /\ d.active[ws] \in Tabs \cup {None}
  BY DatabaseTypes DEF TabsOf
<1>2. NewActive(d, ws, tab) = CASE d.active[ws] # tab -> d.active[ws]
        [] d.active[ws] = tab /\ rest = <<>> -> None
        [] OTHER -> rest[j]
  BY DEF NewActive
<1>3. i \in 1 .. Len(tabs) /\ rest \in Seq(Tabs) /\ Len(rest) = Len(tabs) - 1 /\ Len(tabs) \in Nat
  BY <1>1, TabIdxIs, RemovedTab, LenProperties
<1> HIDE DEF tabs, rest
<1>4. ASSUME rest # <<>> PROVE rest[j] \in Tabs
  <2> HIDE DEF i
  <2> DEFINE l == Len(rest)
  <2>1. l \in Nat /\ l # 0
    BY <1>3, <1>4, LenProperties, EmptySeq
  <2>2. i \in 1 .. l + 1
    BY <1>3
  <2> HIDE DEF l
  <2>3. j \in 1 .. l
    BY <2>1, <2>2
  <2> HIDE DEF j
  <2> QED BY <1>3, <2>3, ElementOfSeq DEF l
<1> HIDE DEF j
<1> QED BY <1>1, <1>2, <1>4

LEMMA DeleteTabIs ==
  ASSUME NEW d \in Databases, NEW ws \in Workspaces, NEW tab \in TabsOf(d, ws)
  PROVE  LET n == DeleteTab(d, ws, tab)
             a == NewActive(d, ws, tab)
         IN  /\ n \in Databases /\ n.used = d.used
             /\ a = None /\ ws = d.window => n.window = None
             /\ a # None => /\ n.window = d.window /\ n.live = d.live
                            /\ n.active = [d.active EXCEPT ![ws] = a] /\ n.active[ws] = a
<1> DEFINE a == NewActive(d, ws, tab)
           tabs == [d.tabs EXCEPT ![ws] = RemoveAt(d.tabs[ws], TabIdx(d.tabs[ws], tab))]
           active == [d.active EXCEPT ![ws] = a]
           left == [d EXCEPT !.tabs = tabs, !.active = active]
<1>1. a \in Tabs \cup {None}
  BY NewActiveIs
<1>2. tabs \in [Workspaces -> Seq(Tabs)]
  <2>1. d.tabs \in [Workspaces -> Seq(Tabs)] /\ tab \in ToSet(d.tabs[ws])
    BY DatabaseTypes DEF TabsOf
  <2>2. RemoveAt(d.tabs[ws], TabIdx(d.tabs[ws], tab)) \in Seq(Tabs)
    BY <2>1, RemovedTab
  <2> QED BY <2>1, <2>2
<1>3. [d EXCEPT !.tabs[ws] = RemoveAt(@, TabIdx(@, tab)), !.active[ws] = NewActive(d, ws, tab)] = left
  BY DEF Databases
<1>4. DeleteTab(d, ws, tab) = IF left.active[ws] = None THEN CloseOwner(left, ws) ELSE left
  BY <1>3 DEF DeleteTab
<1> HIDE DEF a, tabs
<1>5. active \in [Workspaces -> Tabs \cup {None}] /\ active[ws] = a
  BY <1>1, DatabaseTypes
<1>6. left \in Databases
  BY <1>2, <1>5 DEF Databases
<1>7. left.used = d.used /\ left.window = d.window /\ left.live = d.live /\ left.active = active
  BY DEF Databases
<1> HIDE DEF left
<1>8. CASE a = None
  BY <1>4, <1>5, <1>6, <1>7, <1>8, CloseOwnerIs DEF a
<1>9. CASE a # None
  BY <1>4, <1>5, <1>6, <1>7, <1>9 DEF a
<1> QED BY <1>8, <1>9

\* The workspace keeps its window and gets the tab of the reply as its active one.
Moves(d, ws, s) ==
  \/ s.db = d /\ s.reply = "error"
  \/ /\ s.reply \in Tabs /\ s.db.window = d.window /\ s.db.live = d.live
     /\ s.db.active \in [Workspaces -> Tabs \cup {None}] /\ s.db.active[ws] = s.reply
     /\ \A w \in Workspaces \ {ws} : s.db.active[w] = d.active[w]

\* The window moves to another workspace and the one it leaves may be deleted.
Switches(d, ws, s) ==
  \/ s.db = d /\ s.reply \in {"error", None}
  \/ /\ ws \in d.live /\ d.window # None
     /\ s.db.window = ws /\ s.reply = d.active[ws] /\ s.db.active[ws] = d.active[ws]
     /\ s.db.live \subseteq d.live /\ \A w \in s.db.live : s.db.active[w] = d.active[w]

LEMMA CreateTabIs ==
  ASSUME NEW d \in Databases, NEW ws \in Workspaces
  PROVE  CreateTab(d, ws).db \in Databases /\ Moves(d, ws, CreateTab(d, ws))
<1> DEFINE new == CHOOSE t \in Tabs : t \notin d.used
           tabs == [d.tabs EXCEPT ![ws] = Append(d.tabs[ws], new)]
           active == [d.active EXCEPT ![ws] = new]
           used == d.used \cup {new}
           n == [d EXCEPT !.tabs = tabs, !.active = active, !.used = used]
<1>0. CASE ws \notin d.live \/ d.used = Tabs
  BY <1>0 DEF CreateTab, Moves
<1> SUFFICES ASSUME ws \in d.live, d.used # Tabs
             PROVE  CreateTab(d, ws).db \in Databases /\ Moves(d, ws, CreateTab(d, ws))
  BY <1>0
<1>1. new \in Tabs
  BY DatabaseTypes
<1>2. [d EXCEPT !.tabs[ws] = Append(@, new), !.active[ws] = new, !.used = @ \cup {new}] = n
  BY DEF Databases
<1>3. CreateTab(d, ws) = [db |-> n, reply |-> new]
  BY <1>2 DEF CreateTab
<1> HIDE DEF new
<1>4. tabs \in [Workspaces -> Seq(Tabs)]
  <2>1. d.tabs \in [Workspaces -> Seq(Tabs)]
    BY DatabaseTypes
  <2>2. Append(d.tabs[ws], new) \in Seq(Tabs)
    BY <1>1, <2>1, AppendProperties
  <2> QED BY <2>1, <2>2
<1>5. /\ active \in [Workspaces -> Tabs \cup {None}] /\ active[ws] = new
      /\ \A w \in Workspaces \ {ws} : active[w] = d.active[w]
  BY <1>1, DatabaseTypes
<1>6. used \in SUBSET Tabs
  BY <1>1, DatabaseTypes
<1> HIDE DEF tabs, active, used
<1>7. n \in Databases
  BY <1>4, <1>5, <1>6 DEF Databases
<1>8. n.window = d.window /\ n.live = d.live /\ n.active = active
  BY DEF Databases
<1> HIDE DEF n
<1> QED BY <1>1, <1>3, <1>5, <1>7, <1>8 DEF Moves

LEMMA SetActiveTabIs ==
  ASSUME NEW d \in Databases, NEW ws \in Workspaces, NEW tab \in Tabs
  PROVE  LET s == SetActiveTab(d, ws, tab)
         IN  s.db \in Databases /\ s.db.used = d.used /\ Moves(d, ws, s)
<1> DEFINE active == [d.active EXCEPT ![ws] = tab]
           n == [d EXCEPT !.active = active]
<1>1. [d EXCEPT !.active[ws] = tab] = n
  BY DEF Databases
<1>2. \/ SetActiveTab(d, ws, tab) = [db |-> d, reply |-> "error"]
      \/ SetActiveTab(d, ws, tab) = [db |-> n, reply |-> tab]
  BY <1>1 DEF SetActiveTab
<1>3. /\ active \in [Workspaces -> Tabs \cup {None}] /\ active[ws] = tab
      /\ \A w \in Workspaces \ {ws} : active[w] = d.active[w]
  BY DatabaseTypes
<1> HIDE DEF active
<1>4. n \in Databases
  BY <1>3 DEF Databases
<1>5. n.window = d.window /\ n.live = d.live /\ n.active = active /\ n.used = d.used
  BY DEF Databases
<1> HIDE DEF n
<1>6. [db |-> n, reply |-> tab].db = n /\ [db |-> n, reply |-> tab].reply = tab
  OBVIOUS
<1>7. [db |-> d, reply |-> "error"].db = d /\ [db |-> d, reply |-> "error"].reply = "error"
  OBVIOUS
<1> DEFINE s == SetActiveTab(d, ws, tab)
<1>8. (s.db = d /\ s.reply = "error") \/ (s.db = n /\ s.reply = tab)
  BY <1>2, <1>6, <1>7
<1> HIDE DEF s
<1>9. s.db \in Databases /\ s.db.used = d.used /\ Moves(d, ws, s)
  BY <1>3, <1>4, <1>5, <1>8 DEF Moves
<1> QED BY <1>9 DEF s

LEMMA CloseTabIs ==
  ASSUME NEW d \in Databases, NEW ws \in Workspaces, NEW tab \in Tabs
  PROVE  LET s == CloseTab(d, ws, tab)
         IN  /\ s.db \in Databases /\ s.db.used = d.used
             /\ \/ Moves(d, ws, s)
                \/ s.reply = "closewindow" /\ (ws = d.window => s.db.window = None)
<1> DEFINE a == NewActive(d, ws, tab)
           n == DeleteTab(d, ws, tab)
           s == CloseTab(d, ws, tab)
           r == IF a = None THEN "closewindow" ELSE a
<1>1. CASE ws \notin d.live \/ tab \notin TabsOf(d, ws)
  <2>1. s = [db |-> d, reply |-> "error"]
    BY <1>1 DEF CloseTab
  <2>2. s.db = d /\ s.reply = "error"
    BY <2>1
  <2> HIDE DEF s
  <2>3. s.db \in Databases /\ s.db.used = d.used /\ Moves(d, ws, s)
    BY <2>2 DEF Moves
  <2> QED BY <2>3 DEF s
<1>2. CASE ws \in d.live /\ tab \in TabsOf(d, ws)
  <2>1. s = [db |-> n, reply |-> r]
    BY <1>2 DEF CloseTab
  <2>2. s.db = n /\ s.reply = r
    BY <2>1
  <2>3. /\ n \in Databases /\ n.used = d.used
        /\ a = None /\ ws = d.window => n.window = None
        /\ a # None => /\ n.window = d.window /\ n.live = d.live
                       /\ n.active = [d.active EXCEPT ![ws] = a] /\ n.active[ws] = a
    BY <1>2, DeleteTabIs
  <2>4. a \in Tabs \cup {None}
    BY <1>2, NewActiveIs
  <2> HIDE DEF s, n, a
  <2>5. CASE a = None
    BY <2>2, <2>3, <2>5 DEF s
  <2>6. CASE a # None
    <3>1. /\ n.active \in [Workspaces -> Tabs \cup {None}]
          /\ \A w \in Workspaces \ {ws} : n.active[w] = d.active[w]
      BY <2>3, <2>4, <2>6, DatabaseTypes
    <3>2. Moves(d, ws, s)
      BY <2>2, <2>3, <2>4, <2>6, <3>1 DEF Moves
    <3> QED BY <2>2, <2>3, <3>2 DEF s
  <2> QED BY <2>5, <2>6
<1> QED BY <1>1, <1>2

LEMMA SwitchIs ==
  ASSUME NEW d \in Databases, NEW ws \in Workspaces
  PROVE  LET s == SwitchWorkspace(d, ws)
         IN  /\ s.db \in Databases /\ s.db.used = d.used /\ Switches(d, ws, s)
             /\ s.reply \in Tabs \cup {None, "error"}
<1> DEFINE s == SwitchWorkspace(d, ws)
           b == [d EXCEPT !.window = ws]
           n == DeleteWorkspace(b, d.window)
<1>1. CASE ws \notin d.live \/ d.window = None
  <2>1. s = [db |-> d, reply |-> "error"]
    BY <1>1 DEF SwitchWorkspace
  <2>2. s.db = d /\ s.reply = "error"
    BY <2>1
  <2> HIDE DEF s
  <2>3. s.db \in Databases /\ s.db.used = d.used /\ Switches(d, ws, s)
    BY <2>2 DEF Switches
  <2> QED BY <2>2, <2>3 DEF s
<1>2. CASE ws \in d.live /\ d.window # None /\ (d.window = ws \/ ws \in d.elsewhere)
  <2>1. s = [db |-> d, reply |-> None]
    BY <1>2 DEF SwitchWorkspace
  <2>2. s.db = d /\ s.reply = None
    BY <2>1
  <2> HIDE DEF s
  <2>3. s.db \in Databases /\ s.db.used = d.used /\ Switches(d, ws, s)
    BY <2>2 DEF Switches
  <2> QED BY <2>2, <2>3 DEF s
<1>3. CASE ws \in d.live /\ d.window # None /\ ~(d.window = ws \/ ws \in d.elsewhere)
  <2>1. s = [db |-> n, reply |-> d.active[ws]]
    BY <1>3 DEF SwitchWorkspace
  <2>2. s.db = n /\ s.reply = d.active[ws]
    BY <2>1
  <2>3. b \in Databases /\ b.used = d.used /\ b.window = ws /\ b.live = d.live /\ b.active = d.active
    BY DEF Databases
  <2>4. d.window \in Workspaces /\ d.active[ws] \in Tabs \cup {None}
    BY <1>3, DatabaseTypes
  <2> HIDE DEF s, b
  <2>5. /\ n \in Databases /\ n.used = b.used /\ n.window = b.window /\ n.live \subseteq b.live
        /\ \A w \in Workspaces \ {d.window} : n.active[w] = b.active[w]
        /\ \A w \in n.live : n.active[w] = b.active[w]
    BY <2>3, <2>4, DeleteWorkspaceIs
  <2> HIDE DEF n
  <2>6. n.active[ws] = d.active[ws]
    BY <1>3, <2>3, <2>5
  <2>7. s.db \in Databases /\ s.db.used = d.used /\ Switches(d, ws, s)
    BY <1>3, <2>2, <2>3, <2>5, <2>6 DEF Switches
  <2> QED BY <2>2, <2>4, <2>7 DEF s
<1> QED BY <1>1, <1>2, <1>3

LEMMA ServedIs ==
  ASSUME NEW d \in Databases, NEW entry \in Entries, NEW ws \in Workspaces
  PROVE  LET s == Served(d, entry, ws)
         IN  /\ s.db \in Databases /\ s.reply \in Tabs \cup {None, "error", "closewindow"}
             /\ entry.op # "switchworkspace" =>
                  \/ Moves(d, ws, s)
                  \/ /\ entry.op = "closetab" /\ s.reply = "closewindow"
                     /\ ws = d.window => s.db.window = None
             /\ entry.op = "switchworkspace" =>
                  Switches(d, entry.ws, s) /\ s.reply \in Tabs \cup {None, "error"}
<1> DEFINE s == Served(d, entry, ws)
<1>1. /\ entry.op \in {"createtab", "switchtab", "closetab", "switchworkspace"}
      /\ entry.op \in {"switchtab", "closetab"} => entry.tab \in Tabs
      /\ entry.op = "switchworkspace" => entry.ws \in Workspaces
  BY DEF Entries
<1>2. CASE entry.op = "createtab"
  <2>1. s = CreateTab(d, ws)
    BY <1>2 DEF Served
  <2>2. s.db \in Databases /\ Moves(d, ws, s)
    BY <1>2, <2>1, CreateTabIs
  <2> HIDE DEF s
  <2>3. s.reply \in Tabs \cup {"error"}
    BY <2>2 DEF Moves
  <2> QED BY <1>2, <2>2, <2>3 DEF s
<1>3. CASE entry.op = "switchtab"
  <2>1. s = SetActiveTab(d, ws, entry.tab)
    BY <1>3 DEF Served
  <2>2. s.db \in Databases /\ s.db.used = d.used /\ Moves(d, ws, s)
    BY <1>1, <1>3, <2>1, SetActiveTabIs
  <2> HIDE DEF s
  <2>3. s.reply \in Tabs \cup {"error"}
    BY <2>2 DEF Moves
  <2> QED BY <1>3, <2>2, <2>3 DEF s
<1>4. CASE entry.op = "closetab"
  <2>1. s = CloseTab(d, ws, entry.tab)
    BY <1>4 DEF Served
  <2>2. /\ s.db \in Databases /\ s.db.used = d.used
        /\ \/ Moves(d, ws, s)
           \/ s.reply = "closewindow" /\ (ws = d.window => s.db.window = None)
    BY <1>1, <1>4, <2>1, CloseTabIs
  <2> HIDE DEF s
  <2>3. s.reply \in Tabs \cup {"error", "closewindow"}
    BY <2>2 DEF Moves
  <2> QED BY <1>4, <2>2, <2>3 DEF s
<1>5. CASE entry.op = "switchworkspace"
  <2>1. s = SwitchWorkspace(d, entry.ws)
    BY <1>5 DEF Served
  <2>2. /\ s.db \in Databases /\ s.db.used = d.used /\ Switches(d, entry.ws, s)
        /\ s.reply \in Tabs \cup {None, "error"}
    BY <1>1, <1>5, <2>1, SwitchIs
  <2> HIDE DEF s
  <2> QED BY <1>5, <2>2 DEF s
<1> QED BY <1>1, <1>2, <1>3, <1>4, <1>5

-----------------------------------------------------------------------------
(* The invariant says what the properties say.                              *)

LEMMA InvariantImplies ==
  TabsInv => WindowInv /\ ShownIsLive /\ ShownIsActiveTab
<1> SUFFICES ASSUME TabsInv PROVE WindowInv /\ ShownIsLive /\ ShownIsActiveTab
  OBVIOUS
<1>1. Busy = BusyIn(main)
  BY DEF Busy, BusyIn
<1>2. TypeOK /\ ViewsAreOwn /\ OneCallServes
  BY <1>1 DEF TabsInv, Holds, Typed, TypeOK, OwnViews, ViewsAreOwn, Loop, OneServes, OneCallServes
<1>3. ShownIsLive
  BY <1>1 DEF TabsInv, Holds, ShownLive, ShownIsLive, LeavingIn, Leaving
<1>4. ShownIsActiveTab
  BY DEF TabsInv, Holds, Calm, Undisturbed, ShownIsActiveTab, Agrees, Agreed
<1> QED BY <1>2, <1>3, <1>4 DEF WindowInv

LEMMA NextInvariant ==
  Holds(main', db', events', counts') => TabsInv'
  BY DEF TabsInv

-----------------------------------------------------------------------------
(* What the operations keep of the agreement with the backend.              *)

LEMMA SameAgreed ==
  ASSUME NEW m \in Mains, NEW n, NEW d, n.workspace = m.workspace, n.shown = m.shown,
         \A v \in Views : n.views[v].tab = m.views[v].tab
  PROVE  /\ ShownTab(n) = ShownTab(m) /\ (Agreed(n, d) <=> Agreed(m, d))
         /\ \A call : CallAgrees(call, n, d) <=> CallAgrees(call, m, d)
<1>1. ShownTab(n) = ShownTab(m)
  BY ViewTypes DEF ShownTab
<1> QED BY <1>1 DEF Agreed, CallAgrees

\* A call goes on or leaves when window and backend agree.
LEMMA GoesAgrees ==
  ASSUME NEW m \in Mains, NEW n, NEW d, NEW k \in Calls, NEW q \in Seq(Entries),
         BusyIn(m) \subseteq {k}, Goes(m, n, k, q), Agreed(m, d),
         d.window # None, \A ws \in d.live : d.active[ws] # None,
         \A i \in DOMAIN q : ~Direct(q[i])
  PROVE  Agrees(n, d)
<1>1. Agreed(n, d)
  BY SameAgreed DEF Goes, SameViews, SameRest
<1>2. \A j \in BusyIn(n) : j = k
  BY DEF Goes, BusyIn
<1>3. ASSUME NEW j \in BusyIn(n) PROVE CallAgrees(n.calls[j], n, d)
  <2>1. q # <<>> /\ n.calls[j] = Taken(Head(q))
    BY <1>2 DEF Goes, BusyIn
  <2>2. Head(q) = q[1] /\ 1 \in DOMAIN q
    BY <2>1, LenProperties, EmptySeq
  <2>3. n.calls[j].at = "call"
    BY <2>1, <2>2 DEF Taken
  <2> QED BY <1>1, <2>3 DEF CallAgrees
<1>4. \A i \in DOMAIN n.queue : ~Direct(n.queue[i])
  <2>1. DOMAIN <<>> = {}
    OBVIOUS
  <2> QED BY <2>1 DEF Goes
<1> QED BY <1>1, <1>3, <1>4 DEF Agrees

LEMMA WaitsAgrees ==
  ASSUME NEW m \in Mains, NEW n, NEW d, NEW entry, Agrees(m, d), Waits(m, n, entry), ~Direct(entry)
  PROVE  Agrees(n, d)
<1>1. \A call : CallAgrees(call, n, d) <=> CallAgrees(call, m, d)
  BY SameAgreed DEF Waits, SameViews, SameRest
<1>2. BusyIn(n) = BusyIn(m) /\ n.calls = m.calls
  BY DEF Waits, BusyIn
<1>3. n.queue # <<>> /\ 1 \in DOMAIN m.queue
  BY EmptySeq, LenProperties DEF Waits, Mains
<1>4. \A i \in DOMAIN n.queue : Direct(n.queue[i]) => i = 1 /\ Direct(m.queue[1])
  BY DEF Waits
<1>5. \A i \in DOMAIN n.queue : Direct(n.queue[i]) => i = 1 /\ BusyIn(n) # {}
  BY <1>2, <1>3, <1>4 DEF Agrees
<1>6. \A k \in BusyIn(n) : CallAgrees(n.calls[k], n, d)
  BY <1>1, <1>2 DEF Agrees
<1> QED BY <1>3, <1>5, <1>6 DEF Agrees

LEMMA LosesAgrees ==
  ASSUME NEW m \in Mains, NEW n, NEW d, Agrees(m, d), Loses(m, n), SameRest(m, n),
         n.shown = m.shown
  PROVE  Agrees(n, d)
<1>1. /\ Agreed(n, d) <=> Agreed(m, d)
      /\ \A call : CallAgrees(call, n, d) <=> CallAgrees(call, m, d)
  BY SameAgreed DEF Loses, SameRest
<1>2. n.queue = m.queue /\ n.calls = m.calls /\ BusyIn(n) = BusyIn(m)
  BY DEF Loses, SameLoop, BusyIn
<1> QED BY <1>1, <1>2 DEF Agrees

-----------------------------------------------------------------------------
(* A request comes to the queue.                                            *)

LEMMA QueueActionKeeps ==
  ASSUME NEW m \in Mains, NEW d \in Databases, Loop(m), NEW entry \in Entries,
         NEW n, n = QueueAction(m, entry)
  PROVE  /\ n \in Mains /\ SameViews(m, n) /\ SameRest(m, n) /\ Loop(n)
         /\ LeavingIn(m) => LeavingIn(n)
         /\ Agrees(m, d) /\ ~Direct(entry) => Agrees(n, d)
<1>1. OneServes(m) /\ CallsOk(m)
  BY DEF Loop
<1>2. \/ m.queue = <<>> /\ BusyIn(m) = {} /\ \E k \in Calls : Turn(m, n, k, <<entry>>)
      \/ Waits(m, n, entry)
  BY <1>1, QueueActionIs
<1>3. CASE m.queue = <<>> /\ BusyIn(m) = {} /\ \E k \in Calls : Turn(m, n, k, <<entry>>)
  <2>1. PICK k \in Calls : Turn(m, n, k, <<entry>>)
    BY <1>3
  <2> DEFINE q == <<entry>>
  <2>2. q \in Seq(Entries) /\ Len(q) <= 1 /\ DOMAIN q = {1} /\ q[1] = entry
    OBVIOUS
  <2>3. Goes(m, n, k, q)
    BY <2>1, TurnGoes
  <2> HIDE DEF q
  <2>5. OneServes(n) /\ CallsOk(n)
    BY <1>1, <1>3, <2>2, <2>3, GoesKeepsLoop
  <2>6. ASSUME Agrees(m, d), ~Direct(entry) PROVE Agrees(n, d)
    <3>1. Agreed(m, d) /\ d.window # None /\ \A ws \in d.live : d.active[ws] # None
      BY <1>3, <2>6 DEF Agrees
    <3>2. \A i \in DOMAIN q : ~Direct(q[i])
      BY <2>2, <2>6
    <3> QED BY <1>3, <2>2, <2>3, <3>1, <3>2, GoesAgrees
  <2>7. n \in Mains /\ SameViews(m, n) /\ SameRest(m, n)
    BY <2>3 DEF Goes
  <2> QED BY <1>3, <2>5, <2>6, <2>7 DEF Loop, LeavingIn
<1>4. CASE Waits(m, n, entry)
  <2>1. OneServes(n) /\ CallsOk(n) /\ BusyIn(n) = BusyIn(m)
    BY <1>1, <1>4, WaitsKeepsLoop
  <2>3. Agrees(m, d) /\ ~Direct(entry) => Agrees(n, d)
    BY <1>4, WaitsAgrees
  <2>4. n \in Mains /\ SameViews(m, n) /\ SameRest(m, n) /\ n.calls = m.calls
    BY <1>4 DEF Waits
  <2> QED BY <2>1, <2>3, <2>4 DEF Loop, LeavingIn
<1> QED BY <1>2, <1>3, <1>4

\* The views are as they were.
LEMMA SameViewsKeep ==
  ASSUME NEW m, NEW n, SameViews(m, n), SameRest(m, n)
  PROVE  /\ OwnViews(m) => OwnViews(n)
         /\ n.shown = m.shown /\ (Live(n, n.shown) <=> Live(m, m.shown))
BY DEF SameViews, SameRest, OwnViews, Live

\* A step of the main process that queues a request, or none at all.
LEMMA RequestKeeps ==
  ASSUME NEW m, NEW d, NEW e, NEW c, Holds(m, d, e, c),
         NEW n, NEW b, NEW entry \in Entries,
         b \in Mains, SameViews(m, b), SameLoop(m, b), SameRest(m, b),
         n = b \/ n = QueueAction(b, entry)
  PROVE  /\ n \in Mains /\ Loop(n) /\ OwnViews(n) /\ ShownLive(n, c) /\ SameRest(m, n)
         /\ Calm(m, e, c) /\ ~Direct(entry) => Agrees(n, d)
<1>1. m \in Mains /\ d \in Databases /\ Loop(m) /\ OwnViews(m) /\ ShownLive(m, c)
  BY DEF Holds, Typed
<1>2. Loop(b) /\ LeavingIn(b) = LeavingIn(m)
  <2>1. b.queue = m.queue /\ b.calls = m.calls /\ BusyIn(b) = BusyIn(m)
    BY DEF SameLoop, BusyIn
  <2> QED BY <1>1, <2>1 DEF Loop, OneServes, CallsOk, LeavingIn
<1>3. Agrees(m, d) => Agrees(b, d)
  <2>1. /\ Agreed(b, d) <=> Agreed(m, d)
        /\ \A call : CallAgrees(call, b, d) <=> CallAgrees(call, m, d)
    BY <1>1, SameAgreed DEF SameViews, SameRest
  <2>2. b.queue = m.queue /\ b.calls = m.calls /\ BusyIn(b) = BusyIn(m)
    BY DEF SameLoop, BusyIn
  <2> QED BY <2>1, <2>2 DEF Agrees
<1>5. /\ n \in Mains /\ SameViews(b, n) /\ SameRest(b, n) /\ Loop(n)
      /\ LeavingIn(b) => LeavingIn(n)
      /\ Agrees(b, d) /\ ~Direct(entry) => Agrees(n, d)
  <2>1. CASE n = b
    BY <1>2, <2>1 DEF SameViews, SameRest
  <2>2. CASE n = QueueAction(b, entry)
    BY <1>1, <1>2, <2>2, QueueActionKeeps
  <2> QED BY <2>1, <2>2
<1>6. SameViews(m, n) /\ SameRest(m, n)
  BY <1>5 DEF SameViews, SameRest
<1>7. OwnViews(n) /\ n.shown = m.shown /\ (Live(n, n.shown) <=> Live(m, m.shown))
  BY <1>1, <1>6, SameViewsKeep
<1>8. ShownLive(n, c)
  BY <1>1, <1>2, <1>5, <1>6, <1>7 DEF ShownLive, SameRest
<1>9. Calm(m, e, c) => Agrees(m, d)
  BY DEF Holds
<1> QED BY <1>3, <1>5, <1>6, <1>7, <1>8, <1>9

-----------------------------------------------------------------------------
(* A call goes on.                                                          *)

\* At the end of a turn, or when the loop is left.
LEMMA TurnKeeps ==
  ASSUME NEW m \in Mains, NEW d \in Databases, Loop(m), NEW k \in BusyIn(m),
         NEW n, n = NextTurn(m, k) \/ n = LeaveLoop(m, k)
  PROVE  /\ n \in Mains /\ SameViews(m, n) /\ SameRest(m, n) /\ Loop(n) /\ ~LeavingIn(n)
         /\ (/\ Agreed(m, d) /\ d.window # None /\ \A ws \in d.live : d.active[ws] # None
             /\ \A i \in DOMAIN m.queue : Direct(m.queue[i]) => i = 1) => Agrees(n, d)
<1> DEFINE q == Tail(m.queue)
<1>1. /\ OneServes(m) /\ CallsOk(m) /\ k \in Calls /\ BusyIn(m) \subseteq {k}
      /\ m.queue # <<>> /\ Len(m.queue) <= 2
  BY DEF Loop, OneServes, BusyIn
<1>2. /\ q \in Seq(Entries) /\ Len(q) <= 1
      /\ \A i \in DOMAIN q : i + 1 \in DOMAIN m.queue /\ q[i] = m.queue[i + 1]
  BY <1>1, ShiftIs
<1>3. Goes(m, n, k, q)
  <2>1. CASE n = NextTurn(m, k)
    BY <1>1, <2>1, NextTurnIs, TurnGoes
  <2>2. CASE n = LeaveLoop(m, k)
    BY <1>1, <2>2, LeaveLoopIs DEF CallSet, Goes
  <2> QED BY <2>1, <2>2
<1> HIDE DEF q
<1>5. OneServes(n) /\ CallsOk(n) /\ BusyIn(n) \subseteq {k}
  BY <1>1, <1>2, <1>3, GoesKeepsLoop
<1>6. ~LeavingIn(n)
  <2> SUFFICES ASSUME k \in BusyIn(n), n.calls[k].at \in {"view", "config"}
               PROVE  n.calls[k].entry.op # "switchworkspace"
    BY <1>5 DEF LeavingIn
  <2>1. q # <<>> /\ n.calls[k] = Taken(Head(q))
    BY <1>3 DEF Goes, BusyIn
  <2>2. Direct(Head(q)) /\ n.calls[k].entry = Head(q)
    BY <2>1 DEF Taken
  <2> QED BY <2>2 DEF Direct
<1>7. ASSUME Agreed(m, d), d.window # None, \A ws \in d.live : d.active[ws] # None,
             \A i \in DOMAIN m.queue : Direct(m.queue[i]) => i = 1
      PROVE  Agrees(n, d)
  <2>1. \A i \in DOMAIN q : ~Direct(q[i])
    <3> TAKE i \in DOMAIN q
    <3>1. i \in Nat /\ i >= 1
      BY <1>2, LenProperties
    <3>2. i + 1 # 1
      BY <3>1
    <3> QED BY <1>2, <1>7, <3>2
  <2> QED BY <1>1, <1>2, <1>3, <1>7, <2>1, GoesAgrees
<1> QED BY <1>3, <1>5, <1>6, <1>7 DEF Loop, Goes

\* A call goes on with the entry it serves.
LEMMA AdvanceKeeps ==
  ASSUME NEW m \in Mains, NEW d, Loop(m), NEW k \in BusyIn(m),
         NEW call \in CallStates, CallOk(call), call.entry = m.calls[k].entry,
         call.at \notin {"idle", "call"},
         NEW n, n = CallAt(m, k, call)
  PROVE  /\ n \in Mains /\ SameViews(m, n) /\ SameRest(m, n) /\ Loop(n)
         /\ n.queue = m.queue /\ n.calls[k] = call /\ BusyIn(n) = {k} /\ BusyIn(m) = {k}
<1>1. OneServes(m) /\ CallsOk(m) /\ k \in Calls /\ BusyIn(m) = {k}
  BY DEF Loop, OneServes, BusyIn
<1>2. CallSet(m, n, k, m.queue, call)
  BY <1>1, CallAtIs
<1>3. call # Idle
  BY DEF Idle
<1>4. BusyIn(n) = {k}
  BY <1>1, <1>2, <1>3 DEF BusyIn, CallSet
<1>5. OneServes(n)
  BY <1>1, <1>2, <1>4 DEF OneServes, CallSet
<1>6. CallsOk(n)
  BY <1>1, <1>2 DEF CallsOk, CallSet
<1> QED BY <1>1, <1>2, <1>4, <1>5, <1>6 DEF Loop, CallSet

\* Agreement while a call goes on.
LEMMA AdvanceAgrees ==
  ASSUME NEW m, NEW n, NEW d, NEW k \in BusyIn(m), BusyIn(m) = {k}, BusyIn(n) = {k},
         n.queue = m.queue, m.queue # <<>>,
         d.window # None, \A ws \in d.live : d.active[ws] # None,
         CallAgrees(n.calls[k], n, d),
         \A i \in DOMAIN m.queue : Direct(m.queue[i]) => i = 1
  PROVE  Agrees(n, d)
BY DEF Agrees

\* Views close, apart from the one that is shown.
LEMMA ViewsClose ==
  ASSUME NEW m, NEW d, NEW e, NEW c, Holds(m, d, e, c),
         NEW b, b \in Mains, SameViews(m, b), SameLoop(m, b), SameRest(m, b),
         NEW n, Loses(b, n), b.open => KeepsShown(b, n), SameRest(b, n), n.shown = b.shown
  PROVE  /\ n \in Mains /\ Loop(n) /\ OwnViews(n) /\ ShownLive(n, c) /\ SameRest(m, n)
         /\ Calm(m, e, c) => Agrees(n, d)
<1>1. m \in Mains /\ d \in Databases /\ Loop(m) /\ OwnViews(m) /\ ShownLive(m, c)
  BY DEF Holds, Typed
<1>2. OwnViews(b)
  BY <1>1 DEF OwnViews, SameViews
<1>3. OwnViews(n) /\ n \in Mains /\ SameLoop(b, n)
  BY <1>2, LosesKeepsOwn DEF Loses
<1>4. n.queue = m.queue /\ n.calls = m.calls /\ BusyIn(n) = BusyIn(m)
  BY <1>3 DEF SameLoop, BusyIn
<1>5. Loop(n) /\ LeavingIn(n) = LeavingIn(m)
  BY <1>1, <1>4 DEF Loop, OneServes, CallsOk, LeavingIn
<1>6. SameRest(m, n) /\ Loses(m, n) /\ n.shown = m.shown
  BY <1>4 DEF SameRest, Loses, SameViews, SameLoop
<1>7. ShownLive(n, c)
  <2>1. m.open => (Live(m, m.shown) => Live(n, n.shown))
    BY <1>6 DEF SameViews, SameRest, KeepsShown, Live
  <2> QED BY <1>1, <1>5, <1>6, <2>1 DEF ShownLive, SameRest
<1>8. Calm(m, e, c) => Agrees(n, d)
  BY <1>1, <1>6, LosesAgrees DEF Holds
<1> QED BY <1>3, <1>5, <1>6, <1>7, <1>8

\* The window closes.
LEMMA ClosedHandlerKeeps ==
  ASSUME NEW m, NEW d, NEW e, NEW c, Holds(m, d, e, c), NEW deleteAllowed \in BOOLEAN,
         NEW n, n = ClosedHandler(m, deleteAllowed)
  PROVE  n \in Mains /\ Loop(n) /\ OwnViews(n) /\ ~n.open
<1>1. m \in Mains /\ Loop(m) /\ OwnViews(m)
  BY DEF Holds, Typed
<1> DEFINE b == removeAllChildViews(m)
<1>2. Loses(m, b)
  BY <1>1, RemoveAllIs
<1>3. b \in Mains /\ OwnViews(b) /\ SameLoop(m, b)
  BY <1>1, <1>2, LosesKeepsOwn DEF Loses
<1>4. n = [b EXCEPT !.open = FALSE, !.closePending = FALSE, !.forget = deleteAllowed]
  BY DEF ClosedHandler
<1> HIDE DEF b
<1>5. n \in Mains
  BY <1>3, <1>4 DEF Mains
<1>6. SameViews(b, n) /\ SameLoop(b, n) /\ ~n.open
  BY <1>3, <1>4 DEF SameViews, SameLoop, Mains
<1>7. n.queue = m.queue /\ n.calls = m.calls /\ BusyIn(n) = BusyIn(m)
  BY <1>3, <1>6 DEF SameLoop, BusyIn
<1>8. Loop(n)
  BY <1>1, <1>7 DEF Loop, OneServes, CallsOk
<1>9. OwnViews(n)
  BY <1>3, <1>6 DEF OwnViews, SameViews
<1> QED BY <1>5, <1>6, <1>8, <1>9

-----------------------------------------------------------------------------
(* A view comes into the window.                                            *)

LEMMA SameLoopKeeps ==
  ASSUME NEW m, NEW b, SameLoop(m, b), NEW d
  PROVE  /\ BusyIn(b) = BusyIn(m) /\ (Loop(m) => Loop(b))
         /\ (LeavingIn(b) <=> LeavingIn(m))
<1>1. b.queue = m.queue /\ b.calls = m.calls /\ BusyIn(b) = BusyIn(m)
  BY DEF SameLoop, BusyIn
<1> QED BY <1>1 DEF Loop, OneServes, CallsOk, LeavingIn

LEMMA ShowViewIs ==
  ASSUME NEW m \in Mains, OwnViews(m), NEW v \in Views, NEW t \in Tabs,
         m.views[v] = [tab |-> t, state |-> "live"], NEW b, b = ShowView(m, v)
  PROVE  /\ b \in Mains /\ SameLoop(m, b) /\ SameRest(m, b) /\ OwnViews(b)
         /\ b.shown = v /\ Live(b, b.shown) /\ ShownTab(b) = t
<1> DEFINE loaded == [m.loaded EXCEPT ![t] = v]
<1>1. m.views[v].tab = t /\ m.views[v].state = "live"
  OBVIOUS
<1>2. b = [m EXCEPT !.shown = v, !.loaded = loaded]
  BY <1>1 DEF ShowView, Mains
<1>3. /\ loaded \in [Tabs -> Views \cup {NoView}] /\ loaded[t] = v
      /\ \A u \in Tabs \ {t} : loaded[u] = m.loaded[u]
  BY DEF Mains
<1> HIDE DEF loaded
<1>4. b \in Mains
  BY <1>2, <1>3 DEF Mains
<1>5. b.shown = v /\ b.loaded = loaded /\ b.views = m.views /\ b.cache = m.cache
  BY <1>2 DEF Mains
<1>6. SameLoop(m, b) /\ SameRest(m, b)
  BY <1>2 DEF Mains, SameLoop, SameRest
<1>7. OwnViews(b)
  BY <1>1, <1>3, <1>5 DEF OwnViews
<1>8. v # NoView
  BY ViewTypes
<1> QED BY <1>1, <1>4, <1>5, <1>6, <1>7, <1>8 DEF Live, ShownTab

WithView(m, v, t) == [m EXCEPT !.views[v] = [tab |-> t, state |-> "live"], !.cache[t] = v]
LEMMA NewViewIs ==
  ASSUME NEW m \in Mains, OwnViews(m), NEW v \in Views, m.views[v].state = "unmade", NEW t \in Tabs,
         NEW b, b = WithView(m, v, t)
  PROVE  /\ b \in Mains /\ SameLoop(m, b) /\ SameRest(m, b) /\ OwnViews(b)
         /\ b.views[v] = [tab |-> t, state |-> "live"]
<1> DEFINE new == [tab |-> t, state |-> "live"]
           views == [m.views EXCEPT ![v] = new]
           cache == [m.cache EXCEPT ![t] = v]
<1>1. b = [m EXCEPT !.views = views, !.cache = cache]
  BY DEF Mains, WithView
<1>2. new \in [tab : Tabs \cup {None}, state : {"unmade", "live", "closing", "gone"}]
      /\ new.state = "live"
  OBVIOUS
<1> HIDE DEF new
<1>3. /\ views \in [Views -> [tab : Tabs \cup {None}, state : {"unmade", "live", "closing", "gone"}]]
      /\ views[v] = new /\ \A w \in Views \ {v} : views[w] = m.views[w]
  BY <1>2 DEF Mains
<1>4. /\ cache \in [Tabs -> Views \cup {NoView}] /\ cache[t] = v
      /\ \A u \in Tabs \ {t} : cache[u] = m.cache[u]
  BY DEF Mains
<1> HIDE DEF views, cache
<1>5. b \in Mains
  BY <1>1, <1>3, <1>4 DEF Mains
<1>6. b.views = views /\ b.cache = cache /\ b.loaded = m.loaded
  BY <1>1 DEF Mains
<1>7. SameLoop(m, b) /\ SameRest(m, b)
  BY <1>1 DEF Mains, SameLoop, SameRest
<1>8. m.views[v].tab = None
  BY DEF OwnViews
<1>9. ASSUME NEW u \in Tabs, b.loaded[u] # NoView PROVE b.views[b.loaded[u]].tab = u
  <2>1. m.views[m.loaded[u]].tab = u /\ m.loaded[u] \in Views
    BY <1>6, <1>9, ViewTypes DEF OwnViews
  <2>2. m.loaded[u] # v
    BY <1>8, <2>1, WorkspaceAssumption
  <2> QED BY <1>3, <1>6, <2>1, <2>2
<1>10. ASSUME NEW u \in Tabs, b.cache[u] # NoView
       PROVE  b.views[b.cache[u]] = [tab |-> u, state |-> "live"]
  <2>1. CASE u = t
    BY <1>3, <1>4, <1>6, <2>1 DEF new
  <2>2. CASE u # t
    <3>1. m.cache[u] \in Views /\ m.views[m.cache[u]] = [tab |-> u, state |-> "live"] /\ b.cache[u] = m.cache[u]
      BY <1>4, <1>6, <1>10, <2>2, ViewTypes DEF OwnViews
    <3>2. m.views[m.cache[u]].state = "live"
      BY <3>1
    <3>3. m.cache[u] # v
      BY <3>2
    <3> QED BY <1>3, <1>6, <3>1, <3>3
  <2> QED BY <2>1, <2>2
<1>11. \A w \in Views : b.views[w].state = "unmade" => b.views[w].tab = None
  BY <1>2, <1>3, <1>6 DEF OwnViews
<1>12. OwnViews(b)
  BY <1>9, <1>10, <1>11 DEF OwnViews
<1> QED BY <1>3, <1>5, <1>6, <1>7, <1>12 DEF new

\* The views of the old workspace close, and the window is on the new one.
Moved(m, ws) == [removeAllChildViews(m) EXCEPT !.workspace = ws, !.loaded = [t \in Tabs |-> NoView]]
LEMMA MovedIs ==
  ASSUME NEW m \in Mains, OwnViews(m), NEW ws \in Workspaces,
         NEW b, b = Moved(m, ws)
  PROVE  /\ b \in Mains /\ SameLoop(m, b) /\ OwnViews(b)
         /\ b.workspace = ws /\ b.open = m.open /\ b.forget = m.forget
<1> DEFINE r == removeAllChildViews(m)
           loaded == [t \in Tabs |-> NoView]
<1>1. Loses(m, r) /\ SameRest(m, r)
  BY RemoveAllIs
<1>2. r \in Mains /\ OwnViews(r) /\ SameLoop(m, r)
  BY <1>1, LosesKeepsOwn DEF Loses
<1>3. loaded \in [Tabs -> Views \cup {NoView}] /\ \A t \in Tabs : loaded[t] = NoView
  OBVIOUS
<1>4. b = [r EXCEPT !.workspace = ws, !.loaded = loaded]
  BY DEF Moved
<1> HIDE DEF r, loaded
<1>5. b \in Mains
  BY <1>2, <1>3, <1>4 DEF Mains
<1>6. /\ b.workspace = ws /\ b.loaded = loaded /\ b.views = r.views /\ b.cache = r.cache
      /\ b.open = r.open /\ b.forget = r.forget
  BY <1>2, <1>4 DEF Mains
<1>7. SameLoop(m, b)
  BY <1>2, <1>4 DEF Mains, SameLoop
<1>8. OwnViews(b)
  BY <1>2, <1>3, <1>6 DEF OwnViews
<1> QED BY <1>1, <1>5, <1>6, <1>7, <1>8 DEF SameRest

-----------------------------------------------------------------------------
(* The steps.                                                               *)

\* A step that neither asks the backend nor has it change, and closes no window.
LEMMA QuietStep ==
  ASSUME TabsInv, main' \in Mains, SameRest(main, main'), UNCHANGED <<db, events>>,
         counts' \in [requests : Nat, updates : Nat, failures : Nat],
         counts'.updates >= counts.updates, counts'.failures >= counts.failures,
         Loop(main'), OwnViews(main'),
         ShownLive(main, counts) => ShownLive(main', counts'),
         Calm(main, events, counts) /\ Agrees(main, db) => Agrees(main', db)
  PROVE  TabsInv'
<1>1. Holds(main, db, events, counts)
  BY DEF TabsInv
<1>2. Typed(main', db', events', counts')
  BY <1>1 DEF Holds, Typed
<1>3. counts.updates \in Nat /\ counts.failures \in Nat /\ counts'.updates \in Nat /\ counts'.failures \in Nat
  BY <1>1 DEF Holds, Typed
<1>4. (counts'.updates = 0 => counts.updates = 0) /\ (counts'.failures = 0 => counts.failures = 0)
  BY <1>3
<1>5. Closing(main', events', counts')
  BY <1>1, <1>4 DEF Holds, Closing, SameRest
<1>6. Calm(main', events', counts') => Agrees(main', db')
  BY <1>1, <1>4 DEF Holds, Calm, SameRest
<1>7. Holds(main', db', events', counts')
  BY <1>1, <1>2, <1>5, <1>6 DEF Holds
<1> QED BY <1>7, NextInvariant

LEMMA CountTypes ==
  ASSUME TabsInv
  PROVE  /\ counts \in [requests : Nat, updates : Nat, failures : Nat]
         /\ counts.updates >= counts.updates /\ counts.failures >= counts.failures
         /\ \A c : c = [counts EXCEPT !.requests = @ + 1] =>
              /\ c \in [requests : Nat, updates : Nat, failures : Nat]
              /\ c.updates = counts.updates /\ c.failures = counts.failures
<1>1. counts \in [requests : Nat, updates : Nat, failures : Nat]
  BY DEF TabsInv, Holds, Typed
<1>2. counts.requests + 1 \in Nat /\ counts.updates \in Nat /\ counts.failures \in Nat
  BY <1>1
<1> QED BY <1>1, <1>2

LEMMA UserStep ==
  ASSUME TabsInv, NEW entry \in Entries, ~Direct(entry),
         Requested, main' = QueueAction(main, entry), UNCHANGED <<db, events>>
  PROVE  TabsInv'
<1>1. Holds(main, db, events, counts) /\ main \in Mains
  BY DEF TabsInv, Holds, Typed
<1>2. /\ counts' \in [requests : Nat, updates : Nat, failures : Nat]
      /\ counts'.updates = counts.updates /\ counts'.failures = counts.failures
      /\ counts'.updates >= counts.updates /\ counts'.failures >= counts.failures
  BY CountTypes DEF Requested
<1>3. /\ main' \in Mains /\ Loop(main') /\ OwnViews(main') /\ ShownLive(main', counts)
      /\ SameRest(main, main') /\ (Calm(main, events, counts) => Agrees(main', db))
  <2>1. SameViews(main, main) /\ SameLoop(main, main) /\ SameRest(main, main)
    BY DEF SameViews, SameLoop, SameRest
  <2> QED BY <1>1, <2>1, RequestKeeps
<1>4. ShownLive(main', counts')
  BY <1>2, <1>3 DEF ShownLive
<1> QED BY <1>2, <1>3, <1>4, QuietStep

LEMMA EntryTypes ==
  /\ \A tab \in Tabs : /\ Entry("switchtab", tab, None, TRUE) \in Entries
                       /\ ~Direct(Entry("switchtab", tab, None, TRUE))
                       /\ Entry("switchtab", tab, None, TRUE).op = "switchtab"
                       /\ Entry("switchtab", tab, None, FALSE) \in Entries
                       /\ Direct(Entry("switchtab", tab, None, FALSE))
                       /\ Entry("switchtab", tab, None, FALSE).op = "switchtab"
                       /\ Entry("switchtab", tab, None, FALSE).tab = tab
                       /\ Entry("closetab", tab, None, FALSE) \in Entries
                       /\ ~Direct(Entry("closetab", tab, None, FALSE))
                       /\ Entry("closetab", tab, None, FALSE).op = "closetab"
  /\ Entry("createtab", None, None, FALSE) \in Entries
  /\ ~Direct(Entry("createtab", None, None, FALSE))
  /\ \A ws \in Workspaces : /\ Entry("switchworkspace", None, ws, FALSE) \in Entries
                            /\ ~Direct(Entry("switchworkspace", None, ws, FALSE))
                            /\ Entry("switchworkspace", None, ws, FALSE).op = "switchworkspace"
BY DEF Entry, Entries, Direct, None

LEMMA WorkspaceTabs ==
  ASSUME TabsInv
  PROVE  /\ main \in Mains /\ db \in Databases /\ main.workspace \in Workspaces
         /\ TabsOf(db, main.workspace) \subseteq Tabs
<1>1. main \in Mains /\ db \in Databases
  BY DEF TabsInv, Holds, Typed
<1>2. main.workspace \in Workspaces
  BY <1>1 DEF Mains
<1>3. db.tabs[main.workspace] \in Seq(Tabs)
  BY <1>1, <1>2, DatabaseTypes
<1>4. TabsOf(db, main.workspace) \subseteq Tabs
  BY <1>3 DEF TabsOf, ToSet
<1> QED BY <1>1, <1>2, <1>4

LEMMA RequestSteps ==
  ASSUME TabsInv, setActiveTab \/ queueCreateTab \/ queueCloseTab
  PROVE  TabsInv'
<1>1. CASE setActiveTab
  <2>1. Requested /\ UNCHANGED <<db, events>>
    BY <1>1 DEF setActiveTab
  <2>2. PICK tab \in Tabs : main' = QueueAction(main, Entry("switchtab", tab, None, TRUE))
    BY <1>1, WorkspaceTabs DEF setActiveTab
  <2> QED BY <2>1, <2>2, EntryTypes, UserStep
<1>2. CASE queueCreateTab
  BY <1>2, EntryTypes, UserStep DEF queueCreateTab
<1>3. CASE queueCloseTab
  <2>1. Requested /\ UNCHANGED <<db, events>>
    BY <1>3 DEF queueCloseTab
  <2>2. PICK tab \in Tabs : main' = QueueAction(main, Entry("closetab", tab, None, FALSE))
    BY <1>3, WorkspaceTabs DEF queueCloseTab
  <2> QED BY <2>1, <2>2, EntryTypes, UserStep
<1> QED BY <1>1, <1>2, <1>3

\* What is asked, or about to be closed, is beside the loop and the views.
LEMMA AsideStep ==
  ASSUME TabsInv, main' \in Mains, SameViews(main, main'), SameLoop(main, main'), SameRest(main, main'),
         UNCHANGED <<db, events>>, counts' = counts \/ Requested
  PROVE  TabsInv'
<1>1. Holds(main, db, events, counts) /\ main \in Mains
  BY DEF TabsInv, Holds, Typed
<1>2. /\ counts' \in [requests : Nat, updates : Nat, failures : Nat]
      /\ counts'.updates = counts.updates /\ counts'.failures = counts.failures
      /\ counts'.updates >= counts.updates /\ counts'.failures >= counts.failures
  BY CountTypes DEF Requested
<1>3. /\ Loop(main') /\ OwnViews(main') /\ ShownLive(main', counts)
      /\ (Calm(main, events, counts) => Agrees(main', db))
  <2>1. Loses(main', main') /\ KeepsShown(main', main') /\ SameRest(main', main')
    BY LosesItself
  <2> QED BY <1>1, <2>1, ViewsClose
<1>4. ShownLive(main', counts')
  BY <1>2, <1>3 DEF ShownLive
<1> QED BY <1>2, <1>3, <1>4, QuietStep

LEMMA TailElements ==
  ASSUME NEW S, NEW s \in Seq(S), s # <<>>
  PROVE  /\ Tail(s) \in Seq(S)
         /\ \A i \in DOMAIN Tail(s) : i + 1 \in DOMAIN s /\ Tail(s)[i] = s[i + 1]
<1> DEFINE q == Tail(s)
<1>1. q \in Seq(S) /\ Len(q) = Len(s) - 1 /\ \A i \in 1 .. Len(q) : q[i] = s[i + 1]
  BY HeadTailProperties
<1>2. Len(s) \in Nat /\ Len(q) \in Nat /\ DOMAIN q = 1 .. Len(q) /\ DOMAIN s = 1 .. Len(s)
  BY <1>1, LenProperties
<1> HIDE DEF q
<1>3. \A i \in DOMAIN q : i + 1 \in DOMAIN s /\ q[i] = s[i + 1]
  BY <1>1, <1>2
<1> QED BY <1>1, <1>3 DEF q

LEMMA AskStep ==
  ASSUME TabsInv, switchWorkspace
  PROVE  TabsInv'
<1>1. main \in Mains /\ db \in Databases
  BY DEF TabsInv, Holds, Typed
<1>2. PICK ws \in db.live : main' = [main EXCEPT !.asked = @ \cup {ws}]
  BY DEF switchWorkspace
<1>3. main' = [main EXCEPT !.asked = main.asked \cup {ws}] /\ main.asked \cup {ws} \in SUBSET Workspaces
  BY <1>1, <1>2, DatabaseTypes DEF Mains
<1>4. main' \in Mains /\ SameViews(main, main') /\ SameLoop(main, main') /\ SameRest(main, main')
  BY <1>1, <1>3 DEF Mains, SameViews, SameLoop, SameRest
<1> QED BY <1>4, AsideStep DEF switchWorkspace

LEMMA PendingStep ==
  ASSUME TabsInv, NEW pending \in BOOLEAN, main' = [main EXCEPT !.closePending = pending],
         UNCHANGED <<db, events>>, counts' = counts \/ Requested
  PROVE  TabsInv'
<1>1. main \in Mains
  BY DEF TabsInv, Holds, Typed
<1>2. main' \in Mains /\ SameViews(main, main') /\ SameLoop(main, main') /\ SameRest(main, main')
  BY <1>1 DEF Mains, SameViews, SameLoop, SameRest
<1> QED BY <1>2, AsideStep

LEMMA CloseRequestedStep ==
  ASSUME TabsInv, CloseRequested
  PROVE  TabsInv'
<1>1. main.open /\ Requested /\ UNCHANGED <<db, events>>
  BY DEF CloseRequested, Requested
<1>2. main' = [main EXCEPT !.closePending = TRUE]
  BY <1>1 DEF CloseRequested, CloseEvent
<1> QED BY <1>1, <1>2, PendingStep

\* The window closes; an event may have said so.
LEMMA ClosedStep ==
  ASSUME TabsInv, NEW deleteAllowed \in BOOLEAN, main' = ClosedHandler(main, deleteAllowed),
         UNCHANGED <<db, counts>>, events' = events \/ (events # <<>> /\ events' = Tail(events))
  PROVE  TabsInv'
<1>1. Holds(main, db, events, counts) /\ Typed(main, db, events, counts)
  BY DEF TabsInv, Holds
<1>2. main' \in Mains /\ Loop(main') /\ OwnViews(main') /\ ~main'.open
  BY <1>1, ClosedHandlerKeeps
<1>3. /\ events' \in Seq(Events)
      /\ \A i \in DOMAIN events' : \E j \in DOMAIN events : events'[i] = events[j]
  <2>1. events \in Seq(Events)
    BY <1>1 DEF Typed
  <2>2. CASE events' = events
    BY <2>1, <2>2
  <2>3. CASE events # <<>> /\ events' = Tail(events)
    BY <2>1, <2>3, TailElements
  <2> QED BY <2>2, <2>3
<1>4. Typed(main', db', events', counts')
  BY <1>1, <1>2, <1>3 DEF Typed
<1>5. Closing(main', events', counts')
  BY <1>1, <1>2, <1>3 DEF Holds, Closing
<1>6. ShownLive(main', counts') /\ ~Calm(main', events', counts')
  BY <1>2 DEF ShownLive, Calm
<1>7. Holds(main', db', events', counts')
  BY <1>2, <1>4, <1>5, <1>6 DEF Holds
<1> QED BY <1>7, NextInvariant

LEMMA CloseDecidedStep ==
  ASSUME TabsInv, CloseDecided
  PROVE  TabsInv'
<1>1. CASE main' = [main EXCEPT !.closePending = FALSE]
  BY <1>1, PendingStep DEF CloseDecided
<1>2. CASE \E deleteOnClose \in BOOLEAN : main' = ClosedHandler(main, deleteOnClose)
  BY <1>2, ClosedStep DEF CloseDecided
<1> QED BY <1>1, <1>2 DEF CloseDecided

\* A database that differs in what the window's invariant does not speak of.
LEMMA SameDatabase ==
  ASSUME NEW m, NEW d, NEW f, f.window = d.window, f.live = d.live, f.active = d.active
  PROVE  Agrees(m, d) => Agrees(m, f)
BY DEF Agrees, Agreed, CallAgrees

LEMMA SwitchAskedStep ==
  ASSUME TabsInv, switchWorkspaceReturns
  PROVE  TabsInv'
<1>1. Holds(main, db, events, counts) /\ main \in Mains /\ db \in Databases
  BY DEF TabsInv, Holds, Typed
<1>2. PICK ws \in main.asked :
        LET m == [main EXCEPT !.asked = @ \ {ws}]
            elsewhere == /\ db.window # ws /\ ws \notin db.elsewhere
                         /\ isNonEmptyUnsavedWorkspace(main.workspace)
        IN  /\ main' = IF elsewhere THEN m ELSE QueueAction(m, Entry("switchworkspace", None, ws, FALSE))
            /\ db' = IF elsewhere /\ ws \in db.live
                     THEN [db EXCEPT !.elsewhere = @ \cup {ws}] ELSE db
            /\ UNCHANGED <<events, counts>>
  BY DEF switchWorkspaceReturns
<1> DEFINE m == [main EXCEPT !.asked = main.asked \ {ws}]
           entry == Entry("switchworkspace", None, ws, FALSE)
<1>3. /\ ws \in Workspaces
      /\ main' = m \/ main' = QueueAction(m, entry)
      /\ db' = db \/ db' = [db EXCEPT !.elsewhere = db.elsewhere \cup {ws}]
      /\ UNCHANGED <<events, counts>>
  BY <1>1, <1>2 DEF Mains
<1>4. m \in Mains /\ SameViews(main, m) /\ SameLoop(main, m) /\ SameRest(main, m)
  BY <1>1 DEF Mains, SameViews, SameLoop, SameRest
<1>5. entry \in Entries /\ ~Direct(entry)
  BY <1>3, EntryTypes
<1> HIDE DEF m, entry
<1>6. /\ main' \in Mains /\ Loop(main') /\ OwnViews(main') /\ ShownLive(main', counts)
      /\ SameRest(main, main') /\ (Calm(main, events, counts) => Agrees(main', db))
  BY <1>1, <1>3, <1>4, <1>5, RequestKeeps
<1>7. /\ db' \in Databases /\ db'.used = db.used /\ db'.window = db.window /\ db'.live = db.live
      /\ db'.active = db.active
  BY Zenon, <1>1, <1>3 DEF Databases
<1>8. Agrees(main', db) => Agrees(main', db')
  BY <1>7, SameDatabase
<1>9. Typed(main', db', events', counts') /\ Closing(main', events', counts')
  BY <1>1, <1>3, <1>6, <1>7 DEF Holds, Typed, Closing, SameRest
<1>10. Calm(main', events', counts') => Agrees(main', db')
  BY <1>3, <1>6, <1>8 DEF Calm, SameRest
<1>11. Holds(main', db', events', counts')
  BY <1>3, <1>6, <1>8, <1>9, <1>10 DEF Holds
<1> QED BY <1>11, NextInvariant

\* A view closes, is gone, or is evicted.
LEMMA ViewStep ==
  ASSUME TabsInv, NEW b, b \in Mains, SameViews(main, b), SameLoop(main, b), SameRest(main, b),
         Loses(b, main'), b.open => KeepsShown(b, main'), SameRest(b, main'), main'.shown = b.shown,
         UNCHANGED <<db, events>>,
         counts' = counts \/ counts' = [counts EXCEPT !.updates = @ + 1]
  PROVE  TabsInv'
<1>1. Holds(main, db, events, counts) /\ counts \in [requests : Nat, updates : Nat, failures : Nat]
  BY DEF TabsInv, Holds, Typed
<1>2. /\ main' \in Mains /\ Loop(main') /\ OwnViews(main') /\ ShownLive(main', counts)
      /\ SameRest(main, main') /\ (Calm(main, events, counts) => Agrees(main', db))
  BY <1>1, ViewsClose
<1>3. /\ counts' \in [requests : Nat, updates : Nat, failures : Nat]
      /\ counts'.updates >= counts.updates /\ counts'.failures = counts.failures
      /\ counts'.failures >= counts.failures
  <2>1. counts.updates \in Nat /\ counts.failures \in Nat
    BY <1>1
  <2>2. CASE counts' = counts
    BY <1>1, <2>1, <2>2
  <2>3. CASE counts' = [counts EXCEPT !.updates = @ + 1]
    <3>1. counts'.updates = counts.updates + 1 /\ counts'.failures = counts.failures
      BY <1>1, <2>3
    <3>2. counts' \in [requests : Nat, updates : Nat, failures : Nat]
      BY <1>1, <2>1, <2>3
    <3> QED BY <2>1, <3>1, <3>2
  <2> QED BY <2>2, <2>3
<1>4. ShownLive(main', counts')
  BY <1>2, <1>3 DEF ShownLive
<1> QED BY <1>2, <1>3, <1>4, QuietStep

LEMMA GoneIs ==
  ASSUME NEW m \in Mains, NEW v \in Views, m.views[v].state = "closing",
         NEW n, n = [Uncached(m, m.views[v].tab) EXCEPT !.views[v].state = "gone"]
  PROVE  Loses(m, n) /\ KeepsShown(m, n) /\ SameRest(m, n) /\ n.shown = m.shown
<1> DEFINE t == m.views[v].tab
           views == [m.views EXCEPT ![v].state = "gone"]
           cache == [m.cache EXCEPT ![t] = NoView]
<1>1. n = [m EXCEPT !.cache = cache, !.views = views]
  BY DEF Uncached, Mains
<1>2. /\ views \in [Views -> [tab : Tabs \cup {None}, state : {"unmade", "live", "closing", "gone"}]]
      /\ views[v].tab = t /\ views[v].state = "gone" /\ \A w \in Views \ {v} : views[w] = m.views[w]
  BY DEF Mains
<1>3. /\ cache \in [Tabs -> Views \cup {NoView}]
      /\ \A u \in Tabs : cache[u] \in {NoView, m.cache[u]}
  BY Zenon DEF Mains
<1> HIDE DEF views, cache
<1>4. n \in Mains
  BY <1>1, <1>2, <1>3 DEF Mains
<1>5. n.views = views /\ n.cache = cache /\ n.loaded = m.loaded /\ n.shown = m.shown
  BY <1>1 DEF Mains
<1>6. SameLoop(m, n) /\ SameRest(m, n)
  BY <1>1 DEF Mains, SameLoop, SameRest
<1>7. Loses(m, n)
  BY <1>2, <1>3, <1>4, <1>5, <1>6 DEF Loses
<1>8. KeepsShown(m, n)
  BY <1>2, <1>5, ViewTypes DEF KeepsShown, Live
<1> QED BY <1>5, <1>6, <1>7, <1>8

LEMMA ViewSteps ==
  ASSUME TabsInv, TimerFires \/ ViewGone \/ clearTabCache
  PROVE  TabsInv'
<1>1. main \in Mains /\ OwnViews(main) /\ SameViews(main, main) /\ SameLoop(main, main) /\ SameRest(main, main)
  BY DEF TabsInv, Holds, Typed, SameViews, SameLoop, SameRest
<1>2. CASE TimerFires
  <2>1. PICK tab \in main.timers :
          /\ main' = removeTabView([main EXCEPT !.timers = @ \ {tab}], tab, FALSE)
          /\ UNCHANGED <<db, events, counts>>
    BY <1>2 DEF TimerFires
  <2> DEFINE b == [main EXCEPT !.timers = main.timers \ {tab}]
  <2>2. main' = removeTabView(b, tab, FALSE) /\ tab \in Tabs
    BY <1>1, <2>1 DEF Mains
  <2>3. b \in Mains /\ SameViews(main, b) /\ SameLoop(main, b) /\ SameRest(main, b)
    BY <1>1 DEF Mains, SameViews, SameLoop, SameRest
  <2> HIDE DEF b
  <2>4. OwnViews(b)
    BY <1>1, <2>3 DEF OwnViews, SameViews
  <2>5. Loses(b, main') /\ KeepsShown(b, main') /\ SameRest(b, main')
    BY <2>2, <2>3, <2>4, RemoveTabIs, Zenon
  <2> QED BY <2>1, <2>3, <2>5, ViewStep DEF KeepsShown
<1>3. CASE ViewGone
  <2>1. PICK v \in Views : /\ main.views[v].state = "closing"
                           /\ main' = [Uncached(main, main.views[v].tab) EXCEPT !.views[v].state = "gone"]
                           /\ UNCHANGED <<db, events, counts>>
    BY <1>3 DEF ViewGone
  <2>2. Loses(main, main') /\ KeepsShown(main, main') /\ SameRest(main, main') /\ main'.shown = main.shown
    BY <1>1, <2>1, GoneIs
  <2> QED BY <1>1, <2>1, <2>2, ViewStep
<1>4. CASE clearTabCache
  <2>1. PICK old \in SUBSET Cached(main) :
          /\ counts' = [counts EXCEPT !.updates = @ + 1] /\ main' = Evicted(main, old)
          /\ UNCHANGED <<db, events>>
    BY <1>4 DEF clearTabCache
  <2>2. old \in SUBSET Tabs
    BY <2>1 DEF Cached
  <2>3. /\ Loses(main, main') /\ (main.open => KeepsShown(main, main')) /\ SameRest(main, main')
        /\ main'.shown = main.shown
    BY <1>1, <2>1, <2>2, EvictedIs
  <2> QED BY <1>1, <2>1, <2>3, ViewStep
<1> QED BY <1>2, <1>3, <1>4

-----------------------------------------------------------------------------
(* The calls.  What the steps of a call need of the invariant, together.    *)

Steady(m, d) ==
  /\ d.window # None /\ (\A ws \in d.live : d.active[ws] # None)
  /\ \A i \in DOMAIN m.queue : Direct(m.queue[i]) => i = 1

LEMMA CallFacts ==
  ASSUME TabsInv, NEW k \in Calls, main.calls[k].at # "idle"
  PROVE  /\ Holds(main, db, events, counts) /\ main \in Mains /\ db \in Databases
         /\ counts \in [requests : Nat, updates : Nat, failures : Nat]
         /\ Loop(main) /\ OwnViews(main) /\ ShownLive(main, counts)
         /\ k \in BusyIn(main) /\ BusyIn(main) = {k} /\ main.queue # <<>>
         /\ main.calls[k] \in CallStates /\ CallOk(main.calls[k])
         /\ main.calls[k].entry = Head(main.queue) /\ main.calls[k].entry \in Entries
         /\ Calm(main, events, counts) =>
              Agrees(main, db) /\ CallAgrees(main.calls[k], main, db) /\ Steady(main, db)
<1>1. /\ Holds(main, db, events, counts) /\ main \in Mains /\ db \in Databases
      /\ counts \in [requests : Nat, updates : Nat, failures : Nat]
      /\ Loop(main) /\ OwnViews(main) /\ ShownLive(main, counts)
  BY DEF TabsInv, Holds, Typed
<1>2. k \in BusyIn(main)
  BY DEF BusyIn, Idle
<1>3. /\ BusyIn(main) = {k} /\ main.queue # <<>> /\ CallOk(main.calls[k])
      /\ main.calls[k].entry = Head(main.queue)
  BY <1>1, <1>2 DEF Loop, OneServes, CallsOk
<1>4. main.calls[k] \in CallStates /\ Head(main.queue) \in Entries
  BY <1>1, <1>3, HeadTailProperties DEF Mains
<1>5. Calm(main, events, counts) =>
        Agrees(main, db) /\ CallAgrees(main.calls[k], main, db) /\ Steady(main, db)
  <2>1. Calm(main, events, counts) => Agrees(main, db)
    BY <1>1 DEF Holds
  <2> QED BY <1>2, <2>1 DEF Agrees, Steady
<1> QED BY <1>1, <1>2, <1>3, <1>4, <1>5

LEMMA FailsStep ==
  ASSUME TabsInv, NEW k \in Calls, CallFails(k)
  PROVE  TabsInv'
<1>1. /\ main.calls[k].at # "idle" /\ main' = NextTurn(main, k) /\ UNCHANGED <<db, events>>
      /\ counts' = [counts EXCEPT !.failures = @ + 1]
  BY DEF CallFails
<1>2. /\ main' \in Mains /\ SameViews(main, main') /\ SameRest(main, main') /\ Loop(main')
      /\ OwnViews(main')
  <2>1. /\ main' \in Mains /\ SameViews(main, main') /\ SameRest(main, main') /\ Loop(main')
    BY <1>1, CallFacts, TurnKeeps
  <2> QED BY <1>1, <2>1, CallFacts, SameViewsKeep
<1>3. /\ counts' \in [requests : Nat, updates : Nat, failures : Nat]
      /\ counts'.updates = counts.updates /\ counts'.failures = counts.failures + 1
      /\ counts.updates \in Nat /\ counts.failures \in Nat
  <2>1. counts \in [requests : Nat, updates : Nat, failures : Nat]
    BY <1>1, CallFacts
  <2>2. counts.failures + 1 \in Nat /\ counts.failures \in Nat /\ counts.updates \in Nat
    BY <2>1
  <2> QED BY <1>1, <2>1, <2>2
<1>4. counts'.failures # 0
  BY <1>3
<1>5. Holds(main, db, events, counts)
  BY <1>1, CallFacts
<1>6. Typed(main', db', events', counts') /\ Closing(main', events', counts')
  BY <1>1, <1>2, <1>3, <1>5 DEF Holds, Typed, Closing, SameRest
<1>7. Holds(main', db', events', counts')
  BY <1>1, <1>2, <1>4, <1>6 DEF Holds, ShownLive, Calm
<1> QED BY <1>7, NextInvariant

\* A call takes its next turn in a main process that shows what the backend says.
LEMMA TurnStep ==
  ASSUME TabsInv, NEW k \in Calls, main.calls[k].at # "idle",
         NEW b \in Mains, SameLoop(main, b), SameRest(main, b), OwnViews(b),
         main' = NextTurn(b, k) \/ main' = LeaveLoop(b, k), UNCHANGED <<db, events, counts>>,
         b.open /\ b.shown # NoView /\ counts.failures = 0 => Live(b, b.shown),
         Calm(main, events, counts) => Agreed(b, db)
  PROVE  TabsInv'
<1>1. Loop(b) /\ k \in BusyIn(b) /\ b.queue = main.queue
  BY CallFacts, SameLoopKeeps DEF SameLoop
<1>2. /\ main' \in Mains /\ SameViews(b, main') /\ SameRest(b, main') /\ Loop(main')
      /\ (/\ Agreed(b, db) /\ db.window # None /\ (\A ws \in db.live : db.active[ws] # None)
          /\ \A i \in DOMAIN b.queue : Direct(b.queue[i]) => i = 1) => Agrees(main', db)
  BY <1>1, CallFacts, TurnKeeps
<1>3. Calm(main, events, counts) => Agrees(main', db)
  BY <1>1, <1>2, CallFacts DEF Steady
<1>4. OwnViews(main') /\ SameRest(main, main') /\ ShownLive(main', counts')
  BY <1>2, SameViewsKeep DEF SameRest, ShownLive
<1>5. /\ counts' \in [requests : Nat, updates : Nat, failures : Nat]
      /\ counts'.updates >= counts.updates /\ counts'.failures >= counts.failures
  BY CountTypes
<1> QED BY <1>2, <1>3, <1>4, <1>5, QuietStep

LEMMA ReadyStep ==
  ASSUME TabsInv, NEW k \in Calls, ViewReady(k)
  PROVE  TabsInv'
<1>1. /\ main.calls[k].at = "init" /\ main' = NextTurn(main, k) /\ UNCHANGED <<db, events, counts>>
      /\ main.open => Live(main, main.shown)
  BY DEF ViewReady
<1>2. Calm(main, events, counts) => Agreed(main, db)
  BY <1>1, CallFacts DEF CallAgrees
<1>3. SameLoop(main, main) /\ SameRest(main, main)
  BY DEF SameLoop, SameRest
<1> QED BY <1>1, <1>2, <1>3, CallFacts, TurnStep

\* A call goes on, in a main process that differs in its views at most, or in its workspace.
LEMMA AdvanceStep ==
  ASSUME TabsInv, NEW k \in Calls, main.calls[k].at # "idle",
         NEW b \in Mains, SameLoop(main, b), OwnViews(b), b.open = main.open, b.forget = main.forget,
         NEW call \in CallStates, CallOk(call), call.entry = main.calls[k].entry,
         call.at \notin {"idle", "call"},
         main' = CallAt(b, k, call), UNCHANGED <<db, events, counts>>,
         (call.entry.op = "switchworkspace" /\ call.at \in {"view", "config"})
           \/ (b.open /\ b.shown # NoView /\ counts.failures = 0 => Live(b, b.shown)),
         Calm(main, events, counts) => CallAgrees(call, b, db)
  PROVE  TabsInv'
<1>1. Loop(b) /\ k \in BusyIn(b) /\ BusyIn(b) = {k} /\ b.queue = main.queue /\ b.calls = main.calls
  BY CallFacts, SameLoopKeeps DEF SameLoop
<1>2. /\ main' \in Mains /\ SameViews(b, main') /\ SameRest(b, main') /\ Loop(main')
      /\ main'.queue = b.queue /\ main'.calls[k] = call /\ BusyIn(main') = {k}
  BY <1>1, AdvanceKeeps
<1>3. OwnViews(main') /\ main'.shown = b.shown /\ (Live(main', main'.shown) <=> Live(b, b.shown))
  BY <1>2, SameViewsKeep
<1>4. ShownLive(main', counts')
  <2>1. call.entry.op = "switchworkspace" /\ call.at \in {"view", "config"} => LeavingIn(main')
    BY <1>2 DEF LeavingIn
  <2> QED BY <1>2, <1>3, <2>1 DEF ShownLive, SameRest
<1>5. Calm(main', events', counts') => Agrees(main', db')
  <2>1. Calm(main', events', counts') => Calm(main, events, counts)
    BY <1>2 DEF Calm, SameRest
  <2>2. CallAgrees(call, main', db) <=> CallAgrees(call, b, db)
    BY <1>2, SameAgreed DEF SameViews, SameRest
  <2>3. ASSUME Calm(main, events, counts) PROVE Agrees(main', db)
    <3>1. Steady(main, db) /\ main.queue # <<>>
      BY <2>3, CallFacts
    <3>2. CallAgrees(main'.calls[k], main', db)
      BY <1>2, <2>2, <2>3
    <3> QED BY <1>1, <1>2, <3>1, <3>2, AdvanceAgrees DEF Steady
  <2> QED BY <2>1, <2>3
<1>6. Holds(main, db, events, counts)
  BY CallFacts
<1>7. Typed(main', db', events', counts') /\ Closing(main', events', counts')
  BY <1>2, <1>6 DEF Holds, Typed, Closing, SameRest
<1>8. Holds(main', db', events', counts')
  BY <1>2, <1>3, <1>4, <1>5, <1>7 DEF Holds
<1> QED BY <1>8, NextInvariant

LEMMA FoundStep ==
  ASSUME TabsInv, NEW k \in Calls, ViewFound(k)
  PROVE  TabsInv'
<1> DEFINE call == main.calls[k]
           v == main.cache[call.tab]
           b == ShowView(main, v)
<1>1. /\ call.at = "view" /\ UNCHANGED <<db, events, counts>>
      /\ main' = IF v # NoView THEN NextTurn(b, k) ELSE CallAt(main, k, [call EXCEPT !.at = "config"])
  BY DEF ViewFound
<1>2. /\ main \in Mains /\ OwnViews(main) /\ ShownLive(main, counts) /\ call \in CallStates
      /\ CallOk(call) /\ BusyIn(main) = {k}
      /\ (Calm(main, events, counts) => CallAgrees(call, main, db))
  BY <1>1, CallFacts
<1>3. call.tab \in Tabs
  BY <1>1, <1>2 DEF CallOk
<1>4. CASE v # NoView
  <2>1. v \in Views /\ main.views[v] = [tab |-> call.tab, state |-> "live"]
    BY <1>2, <1>3, <1>4, ViewTypes DEF OwnViews
  <2>2. /\ b \in Mains /\ SameLoop(main, b) /\ SameRest(main, b) /\ OwnViews(b)
        /\ Live(b, b.shown) /\ ShownTab(b) = call.tab
    BY <1>2, <1>3, <2>1, ShowViewIs
  <2>3. main' = NextTurn(b, k)
    BY <1>1, <1>4
  <2> HIDE DEF b
  <2>4. Calm(main, events, counts) => Agreed(b, db)
    BY <1>1, <1>2, <2>2 DEF CallAgrees, Agreed, SameRest
  <2> QED BY <1>1, <2>2, <2>3, <2>4, TurnStep
<1>5. CASE v = NoView
  <2> DEFINE n == [call EXCEPT !.at = "config"]
  <2>1. /\ n \in CallStates /\ n.at = "config" /\ n.entry = call.entry /\ n.tab = call.tab
        /\ n.reply = call.reply
    BY <1>2 DEF CallStates
  <2>2. main' = CallAt(main, k, n)
    BY <1>1, <1>5
  <2> HIDE DEF n
  <2>3. CallOk(n)
    BY <1>2, <1>3, <2>1 DEF CallOk
  <2>4. Calm(main, events, counts) => CallAgrees(n, main, db)
    BY <1>1, <1>2, <2>1 DEF CallAgrees
  <2>5. call.entry.op = "switchworkspace"
          \/ (main.open /\ main.shown # NoView /\ counts.failures = 0 => Live(main, main.shown))
    BY <1>1, <1>2 DEF ShownLive, LeavingIn
  <2>6. SameLoop(main, main)
    BY DEF SameLoop
  <2> QED BY <1>1, <1>2, <2>1, <2>2, <2>3, <2>4, <2>5, <2>6, AdvanceStep
<1> QED BY <1>4, <1>5

LEMMA MadeStep ==
  ASSUME TabsInv, NEW k \in Calls, ViewMade(k)
  PROVE  TabsInv'
<1> DEFINE call == main.calls[k]
           v == CHOOSE v \in Views : main.views[v].state = "unmade"
           m == [main EXCEPT !.views[v] = [tab |-> call.tab, state |-> "live"], !.cache[call.tab] = v]
<1>1. /\ call.at = "config" /\ UNCHANGED <<db, events, counts>>
      /\ v \in Views /\ main.views[v].state = "unmade"
  <2>1. /\ call.at = "config" /\ UNCHANGED <<db, events, counts>>
        /\ \E w \in Views : main.views[w].state = "unmade"
    BY Zenon DEF ViewMade
  <2> QED BY <2>1
<1>2. PICK old \in checkAndEvictCache(m, call.tab) :
        main' = CallAt(ShowView(Evicted(m, old), v), k, [call EXCEPT !.at = "init"])
  BY Zenon DEF ViewMade
<1>3. /\ main \in Mains /\ OwnViews(main) /\ call \in CallStates /\ CallOk(call)
      /\ (Calm(main, events, counts) => CallAgrees(call, main, db))
  BY <1>1, CallFacts
<1>4. call.tab \in Tabs
  BY <1>1, <1>3 DEF CallOk
<1> HIDE DEF v
<1>15. m = WithView(main, v, call.tab)
  BY DEF WithView
<1> HIDE DEF m
<1>5. /\ m \in Mains /\ SameLoop(main, m) /\ SameRest(main, m) /\ OwnViews(m)
      /\ m.views[v] = [tab |-> call.tab, state |-> "live"]
  BY <1>1, <1>3, <1>4, <1>15, NewViewIs
<1>6. old \in SUBSET Tabs /\ call.tab \notin old
  BY <1>2 DEF checkAndEvictCache, Cached
<1> DEFINE n == Evicted(m, old)
           b == ShowView(n, v)
<1>7. /\ Loses(m, n) /\ SameRest(m, n)
      /\ \A w \in Views : m.views[w].tab \notin old => n.views[w] = m.views[w]
  BY <1>5, <1>6, EvictedIs
<1> HIDE DEF n
<1>8. n \in Mains /\ OwnViews(n) /\ SameLoop(m, n) /\ n.views[v] = [tab |-> call.tab, state |-> "live"]
  BY <1>1, <1>5, <1>6, <1>7, LosesKeepsOwn DEF Loses
<1>9. /\ b \in Mains /\ SameLoop(n, b) /\ SameRest(n, b) /\ OwnViews(b)
      /\ Live(b, b.shown) /\ ShownTab(b) = call.tab
  BY <1>1, <1>4, <1>8, ShowViewIs
<1> DEFINE next == [call EXCEPT !.at = "init"]
<1>10. main' = CallAt(b, k, next)
  BY <1>2 DEF n
<1>11. /\ next \in CallStates /\ next.at = "init" /\ next.entry = call.entry /\ next.tab = call.tab
       /\ next.reply = call.reply
  BY <1>3 DEF CallStates
<1> HIDE DEF b, next
<1>12. SameLoop(main, b) /\ SameRest(main, b)
  BY <1>5, <1>7, <1>8, <1>9 DEF SameLoop, SameRest
<1>13. CallOk(next)
  BY <1>3, <1>4, <1>11 DEF CallOk
<1>14. Calm(main, events, counts) => CallAgrees(next, b, db)
  BY <1>1, <1>3, <1>9, <1>11, <1>12 DEF CallAgrees, Agreed, SameRest
<1> QED BY <1>1, <1>9, <1>10, <1>11, <1>12, <1>13, <1>14, AdvanceStep DEF SameRest

\* The answer of the backend, and what is done with it.
LEMMA ReturnsStep ==
  ASSUME TabsInv, NEW k \in Calls, CallReturns(k)
  PROVE  TabsInv'
<1> DEFINE call == main.calls[k]
           entry == call.entry
           closing == [main EXCEPT !.timers = main.timers \cup {entry.tab}]
           next == [call EXCEPT !.at = "view", !.tab = call.reply]
<1>1. call.at = "answered" /\ main' = ReplyReturns(main, k) /\ UNCHANGED <<db, events, counts>>
  BY DEF CallReturns
<1>2. main' =
        CASE call.reply = "error" -> NextTurn(main, k)
          [] call.reply = None -> LeaveLoop(main, k)
          [] call.reply = "closewindow" -> LeaveLoop(CloseEvent(closing), k)
          [] call.reply \in Tabs /\ entry.op = "switchworkspace" -> SwitchReturns(main, k, call.reply)
          [] call.reply \in Tabs /\ entry.op = "closetab" -> CallAt(closing, k, next)
          [] OTHER -> CallAt(main, k, next)
  BY <1>1 DEF ReplyReturns
<1>3. /\ main \in Mains /\ OwnViews(main) /\ ShownLive(main, counts) /\ call \in CallStates
      /\ CallOk(call) /\ BusyIn(main) = {k} /\ entry \in Entries
      /\ (Calm(main, events, counts) => CallAgrees(call, main, db))
  BY <1>1, CallFacts
<1>4. /\ call.reply \in Tabs \cup {None, "error", "closewindow"}
      /\ None \notin Tabs /\ "error" \notin Tabs /\ "closewindow" \notin Tabs
      /\ None # "error" /\ None # "closewindow"
  BY <1>3, WorkspaceAssumption DEF CallStates, None
<1>5. ~LeavingIn(main)
  BY <1>1, <1>3 DEF LeavingIn
<1>6. main.open /\ main.shown # NoView /\ counts.failures = 0 => Live(main, main.shown)
  BY <1>3, <1>5 DEF ShownLive
<1>7. SameLoop(main, main) /\ SameRest(main, main) /\ SameViews(main, main)
  BY DEF SameLoop, SameRest, SameViews
<1>8. entry.op = "closetab" => entry.tab \in Tabs
  BY <1>3 DEF Entries
<1>9. entry.op = "closetab" =>
        closing \in Mains /\ SameLoop(main, closing) /\ SameRest(main, closing) /\ SameViews(main, closing)
  BY <1>3, <1>8 DEF Mains, SameLoop, SameRest, SameViews
<1> HIDE DEF closing, next
<1>10. CASE call.reply = "error"
  <2>1. main' = NextTurn(main, k)
    BY <1>2, <1>4, <1>10
  <2>2. Calm(main, events, counts) => Agreed(main, db)
    BY <1>1, <1>3, <1>10 DEF CallAgrees
  <2> QED BY <1>1, <1>3, <1>6, <1>7, <2>1, <2>2, TurnStep
<1>11. CASE call.reply = None
  <2>1. main' = LeaveLoop(main, k)
    BY <1>2, <1>4, <1>11
  <2>2. Calm(main, events, counts) => Agreed(main, db)
    BY <1>1, <1>3, <1>11 DEF CallAgrees
  <2> QED BY <1>1, <1>3, <1>6, <1>7, <2>1, <2>2, TurnStep
<1>12. CASE call.reply = "closewindow"
  <2> DEFINE b == CloseEvent(closing)
  <2>1. main' = LeaveLoop(b, k)
    BY <1>2, <1>4, <1>12
  <2>2. entry.op = "closetab"
    BY <1>3, <1>12 DEF CallOk
  <2>3. b \in Mains /\ SameLoop(closing, b) /\ SameRest(closing, b) /\ SameViews(closing, b)
    BY <1>9, <2>2 DEF CloseEvent, Mains, SameLoop, SameRest, SameViews
  <2> HIDE DEF b
  <2>4. SameLoop(main, b) /\ SameRest(main, b) /\ SameViews(main, b)
    BY <1>9, <2>2, <2>3 DEF SameLoop, SameRest, SameViews
  <2>5. ~Calm(main, events, counts)
    BY <1>1, <1>3, <1>12 DEF CallAgrees
  <2>6. OwnViews(b) /\ (b.open /\ b.shown # NoView /\ counts.failures = 0 => Live(b, b.shown))
    BY <1>3, <1>6, <2>4, SameViewsKeep DEF SameRest
  <2> QED BY <1>1, <2>1, <2>3, <2>4, <2>5, <2>6, TurnStep
<1>13. CASE call.reply \in Tabs
  <2>1. /\ next \in CallStates /\ next.at = "view" /\ next.entry = entry /\ next.tab = call.reply
        /\ next.reply = call.reply
    BY <1>3, <1>13 DEF CallStates, next
  <2>2. CallOk(next)
    BY <1>3, <1>13, <2>1 DEF CallOk
  <2>3. call.reply # "error" /\ call.reply # None /\ call.reply # "closewindow"
    BY <1>4, <1>13
  <2>4. CASE entry.op = "switchworkspace"
    <3> DEFINE ws == entry.ws
               b == [removeAllChildViews(main) EXCEPT !.workspace = ws,
                                                      !.loaded = [t \in Tabs |-> NoView]]
    <3>1. main' = CallAt(b, k, next)
      BY <1>2, <1>13, <2>3, <2>4 DEF SwitchReturns, next
    <3>2. ws \in Workspaces
      BY <1>3, <2>4 DEF Entries
    <3>5. b = Moved(main, ws)
      BY DEF Moved
    <3> HIDE DEF b, ws
    <3>3. /\ b \in Mains /\ SameLoop(main, b) /\ OwnViews(b)
          /\ b.workspace = ws /\ b.open = main.open /\ b.forget = main.forget
      BY <1>3, <3>2, <3>5, MovedIs
    <3>4. Calm(main, events, counts) => CallAgrees(next, b, db)
      BY <1>1, <1>3, <1>13, <2>1, <2>4, <3>3 DEF CallAgrees, ws
    <3> QED BY <1>1, <2>1, <2>2, <2>4, <3>1, <3>3, <3>4, AdvanceStep
  <2>5. CASE entry.op # "switchworkspace"
    <3>1. PICK b \in {main, closing} :
            /\ main' = CallAt(b, k, next)
            /\ b \in Mains /\ SameLoop(main, b) /\ SameRest(main, b) /\ SameViews(main, b)
      <4>1. CASE entry.op = "closetab"
        <5>1. main' = CallAt(closing, k, next)
          BY <1>2, <1>13, <2>3, <4>1
        <5> QED BY <1>9, <4>1, <5>1
      <4>2. CASE entry.op # "closetab"
        <5>1. main' = CallAt(main, k, next)
          BY <1>2, <1>13, <2>3, <2>5, <4>2
        <5> QED BY <1>3, <1>7, <5>1
      <4> QED BY <4>1, <4>2
    <3>2. OwnViews(b) /\ (b.open /\ b.shown # NoView /\ counts.failures = 0 => Live(b, b.shown))
      BY <1>3, <1>6, <3>1, SameViewsKeep DEF SameRest
    <3>3. Calm(main, events, counts) => CallAgrees(next, b, db)
      BY <1>1, <1>3, <1>13, <2>1, <2>5, <3>1 DEF CallAgrees, SameRest
    <3> QED BY <1>1, <2>1, <2>2, <3>1, <3>2, <3>3, AdvanceStep DEF SameRest
  <2> QED BY <2>4, <2>5
<1> QED BY <1>4, <1>10, <1>11, <1>12, <1>13

LEMMA AppendElements ==
  ASSUME NEW S, NEW s \in Seq(S), NEW x \in S
  PROVE  /\ Append(s, x) \in Seq(S) /\ Append(s, x) # <<>>
         /\ \A i \in DOMAIN Append(s, x) : Append(s, x)[i] = x \/ (i \in DOMAIN s /\ Append(s, x)[i] = s[i])
<1> DEFINE q == Append(s, x)
           l == Len(s)
<1>1. /\ q \in Seq(S) /\ q # <<>> /\ Len(q) = l + 1
      /\ (\A i \in 1 .. l : q[i] = s[i]) /\ q[l + 1] = x
  BY AppendProperties
<1>2. l \in Nat /\ DOMAIN s = 1 .. l /\ DOMAIN q = 1 .. l + 1
  BY <1>1, LenProperties
<1> HIDE DEF q, l
<1>3. \A i \in 1 .. l + 1 : i \in 1 .. l \/ i = l + 1
  BY <1>2
<1>4. ASSUME NEW i \in DOMAIN q PROVE q[i] = x \/ (i \in DOMAIN s /\ q[i] = s[i])
  <2>1. CASE i \in 1 .. l
    BY <1>1, <1>2, <2>1
  <2>2. CASE i = l + 1
    BY <1>1, <2>2
  <2> QED BY <1>2, <1>3, <2>1, <2>2
<1> QED BY <1>1, <1>4 DEF q

\* The backend has served a call whose window agreed with it, and has not closed it.
LEMMA ServedAgrees ==
  ASSUME NEW m \in Mains, NEW d \in Databases, NEW entry \in Entries, NEW s,
         Agreed(m, d), d.window # None, \A ws \in d.live : d.active[ws] # None,
         s.db \in Databases, s.db.window # None,
         entry.op # "switchworkspace" =>
           Moves(d, m.workspace, s),
         entry.op = "switchworkspace" => Switches(d, entry.ws, s) /\ s.reply \in Tabs \cup {None, "error"},
         NEW call \in CallStates, call.at = "answered", call.entry = entry, call.reply = s.reply
  PROVE  /\ \A ws \in s.db.live : s.db.active[ws] # None
         /\ CallAgrees(call, m, s.db)
<1>1. /\ None \notin Tabs /\ "error" \notin Tabs /\ "closewindow" \notin Tabs /\ None \notin Workspaces
      /\ None # "error" /\ None # "closewindow"
  BY WorkspaceAssumption DEF None
<1>2. m.workspace = d.window /\ m.workspace \in Workspaces
  BY DEF Agreed, Mains
<1>3. d.live \in SUBSET Workspaces /\ s.db.live \in SUBSET Workspaces
      /\ d.active \in [Workspaces -> Tabs \cup {None}]
  BY DatabaseTypes
<1>4. CASE s.db = d /\ s.reply \in {"error", None}
  <2>1. CallAgrees(call, m, d)
    BY <1>1, <1>4 DEF CallAgrees
  <2> QED BY <1>4, <2>1
<1>5. CASE entry.op # "switchworkspace" /\ ~(s.db = d /\ s.reply \in {"error", None})
  <2>1. /\ s.reply \in Tabs /\ s.db.window = d.window /\ s.db.live = d.live
        /\ s.db.active[m.workspace] = s.reply
        /\ \A w \in Workspaces \ {m.workspace} : s.db.active[w] = d.active[w]
    BY <1>5 DEF Moves
  <2>2. \A ws \in s.db.live : s.db.active[ws] # None
    <3> TAKE ws \in s.db.live
    <3>1. CASE ws = m.workspace
      BY <1>1, <2>1, <3>1
    <3>2. CASE ws # m.workspace
      BY <1>3, <2>1, <3>2
    <3> QED BY <3>1, <3>2
  <2>3. CallAgrees(call, m, s.db)
    BY <1>1, <1>2, <1>5, <2>1 DEF CallAgrees
  <2> QED BY <2>2, <2>3
<1>6. CASE entry.op = "switchworkspace" /\ ~(s.db = d /\ s.reply \in {"error", None})
  <2>1. /\ entry.ws \in d.live /\ s.db.window = entry.ws /\ s.reply = d.active[entry.ws]
        /\ s.db.active[entry.ws] = d.active[entry.ws] /\ s.db.live \subseteq d.live
        /\ \A w \in s.db.live : s.db.active[w] = d.active[w]
    BY <1>6 DEF Switches
  <2>2. s.reply \in Tabs
    BY <1>3, <2>1
  <2>3. \A ws \in s.db.live : s.db.active[ws] # None
    BY <2>1
  <2>4. CallAgrees(call, m, s.db)
    BY <1>1, <1>6, <2>1, <2>2 DEF CallAgrees
  <2> QED BY <2>3, <2>4
<1> QED BY <1>4, <1>5, <1>6

LEMMA ServedStep ==
  ASSUME TabsInv, NEW k \in Calls, CallServed(k)
  PROVE  TabsInv'
<1> DEFINE call == main.calls[k]
           entry == call.entry
           s == Served(db, entry, main.workspace)
           next == [call EXCEPT !.at = "answered", !.reply = s.reply]
           close == WindowClosed
<1>1. /\ call.at = "call" /\ db' = s.db /\ UNCHANGED counts
      /\ main' = [main EXCEPT !.calls[k].at = "answered", !.calls[k].reply = s.reply]
      /\ events' = IF db.window # None /\ s.db.window = None THEN Append(events, close) ELSE events
  BY DEF CallServed
<1>2. /\ Holds(main, db, events, counts) /\ main \in Mains /\ db \in Databases
      /\ Loop(main) /\ OwnViews(main) /\ ShownLive(main, counts) /\ call \in CallStates
      /\ CallOk(call) /\ BusyIn(main) = {k} /\ entry \in Entries
      /\ entry = Head(main.queue) /\ main.queue # <<>>
      /\ (Calm(main, events, counts) =>
            Agrees(main, db) /\ CallAgrees(call, main, db) /\ Steady(main, db))
  BY <1>1, CallFacts
<1>3. 1 \in DOMAIN main.queue /\ entry = main.queue[1] /\ main.workspace \in Workspaces
  <2>1. main.queue \in Seq(Entries) /\ main.workspace \in Workspaces
    BY <1>2 DEF Mains
  <2>2. Head(main.queue) = main.queue[1] /\ Len(main.queue) \in Nat /\ Len(main.queue) # 0
        /\ DOMAIN main.queue = 1 .. Len(main.queue)
    BY <1>2, <2>1, HeadTailProperties, LenProperties, EmptySeq
  <2> DEFINE l == Len(main.queue)
  <2>3. l \in Nat /\ l # 0
    BY <2>2
  <2> HIDE DEF l
  <2>4. 1 \in 1 .. l
    BY <2>3
  <2> QED BY <1>2, <2>1, <2>2, <2>4 DEF l
<1> HIDE DEF entry
<1>5. /\ s.db \in Databases /\ s.reply \in Tabs \cup {None, "error", "closewindow"}
      /\ entry.op # "switchworkspace" =>
           \/ Moves(db, main.workspace, s)
           \/ /\ entry.op = "closetab" /\ s.reply = "closewindow"
              /\ main.workspace = db.window => s.db.window = None
      /\ entry.op = "switchworkspace" =>
           Switches(db, entry.ws, s) /\ s.reply \in Tabs \cup {None, "error"}
  BY <1>2, <1>3, ServedIs
<1> HIDE DEF s
<1>6. /\ next \in CallStates /\ next.at = "answered" /\ next.entry = entry /\ next.reply = s.reply
  BY <1>2, <1>5 DEF CallStates, entry
<1>7. main' = CallAt(main, k, next)
  BY <1>1, <1>2 DEF CallAt, Mains
<1> HIDE DEF next
<1>8. CallOk(next)
  <2>1. s.reply = "closewindow" => entry.op = "closetab"
    BY <1>5, WorkspaceAssumption DEF Moves, Switches, None
  <2> QED BY <1>6, <2>1 DEF CallOk
<1>9. /\ main' \in Mains /\ SameViews(main, main') /\ SameRest(main, main') /\ Loop(main')
      /\ main'.queue = main.queue /\ main'.calls[k] = next /\ BusyIn(main') = {k}
  BY <1>2, <1>6, <1>7, <1>8, AdvanceKeeps DEF entry
<1>10. OwnViews(main') /\ main'.shown = main.shown /\ (Live(main', main'.shown) <=> Live(main, main.shown))
  BY <1>2, <1>9, SameViewsKeep
<1>12. ShownLive(main', counts')
  <2>1. ~LeavingIn(main)
    BY <1>1, <1>2 DEF LeavingIn
  <2> QED BY <1>1, <1>2, <1>9, <1>10, <2>1 DEF ShownLive, SameRest
<1>13. /\ events' \in Seq(Events)
       /\ \A i \in DOMAIN events' : events'[i] = close \/ (i \in DOMAIN events /\ events'[i] = events[i])
       /\ events' = <<>> => events = <<>> /\ (db.window # None => s.db.window # None)
  <2>1. events \in Seq(Events) /\ close \in Events
    BY <1>2 DEF Holds, Typed, Events, WindowClosed
  <2>2. CASE events' = events /\ (db.window # None => s.db.window # None)
    BY <2>1, <2>2
  <2>3. CASE events' = Append(events, close)
    BY <2>1, <2>3, AppendElements
  <2> QED BY <1>1, <2>2, <2>3
<1>14. Typed(main', db', events', counts')
  BY <1>1, <1>2, <1>5, <1>9, <1>13 DEF Holds, Typed
<1>15. Closing(main', events', counts')
  <2>1. close.op = "closewindow"
    BY DEF WindowClosed
  <2> QED BY <1>1, <1>2, <1>9, <1>13, <2>1 DEF Holds, Closing, SameRest
<1>16. ASSUME Calm(main', events', counts') PROVE Agrees(main', db')
  <2>1. Calm(main, events, counts) /\ (db.window # None => s.db.window # None)
    BY <1>1, <1>9, <1>13, <1>16 DEF Calm, SameRest
  <2>2. Steady(main, db) /\ Agreed(main, db) /\ s.db.window # None
    BY <1>1, <1>2, <2>1 DEF CallAgrees, Steady
  <2>5. entry.op # "switchworkspace" => Moves(db, main.workspace, s)
    BY <1>5, <2>2 DEF Agreed
  <2>3. (\A ws \in s.db.live : s.db.active[ws] # None) /\ CallAgrees(next, main, s.db)
    BY <1>2, <1>5, <1>6, <2>2, <2>5, ServedAgrees DEF Steady
  <2>4. CallAgrees(main'.calls[k], main', db')
    BY <1>1, <1>2, <1>9, <2>3, SameAgreed DEF SameViews, SameRest
  <2> QED BY <1>1, <1>2, <1>9, <2>2, <2>3, <2>4, AdvanceAgrees DEF Steady
<1>17. Holds(main', db', events', counts')
  BY <1>9, <1>10, <1>12, <1>14, <1>15, <1>16 DEF Holds
<1> QED BY <1>17, NextInvariant

\* An event tells the window of its workspace, or that it is closed.
LEMMA EventStep ==
  ASSUME TabsInv, handleWSEvent
  PROVE  TabsInv'
<1> DEFINE event == Head(events)
           entry == Entry("switchtab", event.tab, None, FALSE)
<1>1. /\ events # <<>> /\ events' = Tail(events) /\ UNCHANGED <<db, counts>>
      /\ main' = CASE main.open /\ event = WindowClosed -> ClosedHandler(main, TRUE)
                   [] main.open /\ event # WindowClosed /\ event.ws = main.workspace ->
                        QueueAction(main, entry)
                   [] OTHER -> main
  BY DEF handleWSEvent
<1>2. /\ Holds(main, db, events, counts) /\ Typed(main, db, events, counts)
      /\ main \in Mains /\ db \in Databases /\ Loop(main) /\ OwnViews(main)
      /\ ShownLive(main, counts) /\ events \in Seq(Events)
  BY DEF TabsInv, Holds, Typed
<1>3. /\ event \in Events /\ 1 \in DOMAIN events /\ event = events[1] /\ events' \in Seq(Events)
      /\ \A i \in DOMAIN events' : \E j \in DOMAIN events : events'[i] = events[j]
  <2>1. /\ event \in Events /\ event = events[1] /\ Len(events) \in Nat /\ Len(events) # 0
        /\ DOMAIN events = 1 .. Len(events)
    BY <1>1, <1>2, HeadTailProperties, LenProperties, EmptySeq
  <2> DEFINE l == Len(events)
  <2>2. l \in Nat /\ l # 0
    BY <2>1
  <2> HIDE DEF l
  <2>3. 1 \in 1 .. l
    BY <2>2
  <2>4. 1 \in DOMAIN events
    BY <2>1, <2>3 DEF l
  <2> QED BY <1>1, <1>2, <2>1, <2>4, TailElements
<1> HIDE DEF event
<1>4. Closing(main, events', counts')
  BY <1>1, <1>2, <1>3 DEF Holds, Closing
<1>8. event # WindowClosed => event.tab \in Tabs /\ event.op = "updateactivetab"
  BY <1>3 DEF Events, ActiveTabUpdate
<1>9. event # WindowClosed => counts'.updates # 0
  BY <1>1, <1>2, <1>3, <1>8 DEF Holds, Closing
<1>5. CASE ~main.open \/ (event # WindowClosed /\ event.ws # main.workspace)
  <2>1. main' = main
    BY <1>1, <1>5
  <2>2. Typed(main', db', events', counts')
    BY <1>1, <1>2, <1>3, <2>1 DEF Typed
  <2>4. ~Calm(main', events', counts')
    BY <1>5, <1>9, <2>1 DEF Calm
  <2>3. Holds(main', db', events', counts')
    BY <1>1, <1>2, <1>4, <2>1, <2>2, <2>4 DEF Holds
  <2> QED BY <2>3, NextInvariant
<1>6. CASE main.open /\ event = WindowClosed
  <2>1. main' = ClosedHandler(main, TRUE)
    BY <1>1, <1>6
  <2> QED BY <1>1, <2>1, ClosedStep
<1>7. CASE main.open /\ event # WindowClosed /\ event.ws = main.workspace
  <2>1. main' = QueueAction(main, entry)
    BY <1>1, <1>7
  <2>2. event.tab \in Tabs
    BY <1>7, <1>8
  <2>3. entry \in Entries
    BY <2>2, EntryTypes
  <2> HIDE DEF entry
  <2>4. SameViews(main, main) /\ SameLoop(main, main) /\ SameRest(main, main)
    BY DEF SameViews, SameLoop, SameRest
  <2>5. /\ main' \in Mains /\ Loop(main') /\ OwnViews(main') /\ ShownLive(main', counts)
        /\ SameRest(main, main')
    BY <1>2, <2>1, <2>3, <2>4, RequestKeeps
  <2>6. counts'.updates # 0
    BY <1>7, <1>9
  <2>7. Typed(main', db', events', counts')
    BY <1>1, <1>2, <1>3, <2>5 DEF Typed
  <2>8. Closing(main', events', counts')
    BY <1>4, <2>5 DEF Closing, SameRest
  <2>9. Holds(main', db', events', counts')
    BY <1>1, <2>5, <2>6, <2>7, <2>8 DEF Holds, Calm
  <2> QED BY <2>9, NextInvariant
<1> QED BY <1>5, <1>6, <1>7

LEMMA BlockStep ==
  ASSUME TabsInv, DeleteBlock
  PROVE  TabsInv'
<1> DEFINE next(ws, tab) == DeleteTab(db, ws, tab)
           Deletes(ws, tab) ==
             /\ counts' = [counts EXCEPT !.updates = @ + 1]
             /\ db' = next(ws, tab)
             /\ events' = CASE next(ws, tab).active[ws] # None ->
                                  Append(events, ActiveTabUpdate(ws, next(ws, tab).active[ws]))
                            [] next(ws, tab).active[ws] = None /\ ws = db.window ->
                                  Append(events, WindowClosed)
                            [] OTHER -> events
             /\ UNCHANGED main
<1>1. PICK ws \in db.live : \E tab \in TabsOf(db, ws) : Deletes(ws, tab)
  BY Zenon DEF DeleteBlock
<1>3. PICK tab \in TabsOf(db, ws) : Deletes(ws, tab)
  BY <1>1
<1>2. /\ Holds(main, db, events, counts) /\ Typed(main, db, events, counts)
      /\ main \in Mains /\ db \in Databases /\ events \in Seq(Events)
      /\ counts \in [requests : Nat, updates : Nat, failures : Nat]
  BY DEF TabsInv, Holds, Typed
<1>4. ws \in Workspaces
  BY <1>2, DatabaseTypes
<1>5. db' \in Databases
  BY <1>2, <1>3, <1>4, DeleteTabIs
<1>6. db'.active[ws] \in Tabs \cup {None}
  BY <1>4, <1>5, DatabaseTypes
<1>7. \/ events' = Append(events, ActiveTabUpdate(ws, db'.active[ws])) /\ db'.active[ws] # None
      \/ events' = Append(events, WindowClosed)
      \/ events' = events
  BY <1>3
<1>8. events' \in Seq(Events)
  <2>1. WindowClosed \in Events /\ (db'.active[ws] # None => ActiveTabUpdate(ws, db'.active[ws]) \in Events)
    BY <1>4, <1>6 DEF Events
  <2>2. events \in Seq(Events) /\ \A x \in Events : Append(events, x) \in Seq(Events)
    BY <1>2, AppendProperties
  <2>3. CASE events' = Append(events, ActiveTabUpdate(ws, db'.active[ws])) /\ db'.active[ws] # None
    BY <2>1, <2>2, <2>3
  <2>4. CASE events' = Append(events, WindowClosed)
    BY <2>1, <2>2, <2>4
  <2>5. CASE events' = events
    BY <2>2, <2>5
  <2> QED BY <1>7, <2>3, <2>4, <2>5
<1>9. counts' \in [requests : Nat, updates : Nat, failures : Nat] /\ counts'.updates # 0
      /\ counts'.failures = counts.failures
  <2>1. counts.updates + 1 \in Nat /\ counts.updates + 1 # 0
    BY <1>2
  <2> QED BY <1>2, <1>3, <2>1
<1>10. Typed(main', db', events', counts')
  BY <1>2, <1>3, <1>5, <1>8, <1>9 DEF Typed
<1>11. Closing(main', events', counts')
  BY <1>2, <1>3, <1>9 DEF Holds, Closing
<1>12. Loop(main')
  BY <1>2, <1>3 DEF Holds
<1>13. OwnViews(main') /\ ShownLive(main', counts')
  BY <1>2, <1>3, <1>9 DEF Holds, ShownLive
<1>14. Holds(main', db', events', counts')
  BY <1>9, <1>10, <1>11, <1>12, <1>13 DEF Holds, Calm
<1> QED BY <1>14, NextInvariant

LEMMA ForgottenStep ==
  ASSUME TabsInv, WindowForgotten
  PROVE  TabsInv'
<1>1. /\ main.forget /\ main' = [main EXCEPT !.forget = FALSE] /\ db' = CloseWindow(db)
      /\ UNCHANGED <<events, counts>>
  BY DEF WindowForgotten
<1>2. /\ Holds(main, db, events, counts) /\ Typed(main, db, events, counts)
      /\ main \in Mains /\ db \in Databases /\ ~main.open
  BY <1>1 DEF TabsInv, Holds, Typed, Closing
<1>3. db' \in Databases /\ db'.used = db.used
  BY <1>1, <1>2, CloseWindowIs
<1>4. /\ main' \in Mains /\ SameViews(main, main') /\ SameLoop(main, main')
      /\ ~main'.open /\ ~main'.forget
  BY <1>1, <1>2 DEF Mains, SameViews, SameLoop
<1>5. Loop(main')
  BY <1>2, <1>4, SameLoopKeeps DEF Holds
<1>6. OwnViews(main')
  BY <1>2, <1>4 DEF Holds, OwnViews, SameViews
<1>7. Typed(main', db', events', counts') /\ Closing(main', events', counts')
  BY <1>1, <1>2, <1>3, <1>4 DEF Holds, Typed, Closing
<1>8. Holds(main', db', events', counts')
  BY <1>4, <1>5, <1>6, <1>7 DEF Holds, ShownLive, Calm
<1> QED BY <1>8, NextInvariant

-----------------------------------------------------------------------------
(* The window opens with the active tab of its workspace as its first request. *)

LEMMA NewMainIs ==
  /\ NewMain \in Mains /\ NewMain.queue = <<>> /\ NewMain.shown = NoView /\ NewMain.open
  /\ ~NewMain.forget /\ NewMain.workspace = HomeWorkspace
  /\ OneServes(NewMain) /\ CallsOk(NewMain) /\ OwnViews(NewMain)
<1> DEFINE calls == [k \in Calls |-> Idle]
           none == [t \in Tabs |-> NoView]
           views == [v \in Views |-> [tab |-> None, state |-> "unmade"]]
<1>1. /\ calls \in [Calls -> CallStates] /\ (\A k \in Calls : calls[k] = Idle)
      /\ none \in [Tabs -> Views \cup {NoView}] /\ (\A t \in Tabs : none[t] = NoView)
      /\ views \in [Views -> [tab : Tabs \cup {None}, state : {"unmade", "live", "closing", "gone"}]]
      /\ (\A v \in Views : views[v].tab = None)
  BY IdleType
<1>2. HomeWorkspace \in Workspaces /\ <<>> \in Seq(Entries) /\ Len(<<>>) = 0
  BY WorkspaceAssumption, EmptySeq
<1>3. NewMain = [open |-> TRUE, workspace |-> HomeWorkspace, shown |-> NoView, loaded |-> none,
                 queue |-> <<>>, calls |-> calls, closePending |-> FALSE, forget |-> FALSE,
                 asked |-> {}, timers |-> {}, cache |-> none, views |-> views]
  BY DEF NewMain
<1> HIDE DEF calls, none, views
<1>4. NewMain \in Mains
  BY <1>1, <1>2, <1>3 DEF Mains
<1>5. /\ NewMain.queue = <<>> /\ NewMain.shown = NoView /\ NewMain.open /\ ~NewMain.forget
      /\ NewMain.workspace = HomeWorkspace /\ NewMain.calls = calls /\ NewMain.loaded = none
      /\ NewMain.cache = none /\ NewMain.views = views
  BY <1>3
<1>6. OneServes(NewMain) /\ CallsOk(NewMain)
  BY <1>1, <1>2, <1>5, IdleType DEF OneServes, CallsOk, BusyIn
<1>7. OwnViews(NewMain)
  BY <1>1, <1>5 DEF OwnViews
<1> QED BY <1>4, <1>5, <1>6, <1>7

LEMMA FirstDatabase ==
  ASSUME Init
  PROVE  /\ db \in Databases /\ db.window = HomeWorkspace
         /\ \A ws \in Workspaces : db.active[ws] = Head(InitialTabs[ws]) /\ db.active[ws] \in Tabs
<1> DEFINE active == [ws \in Workspaces |-> Head(InitialTabs[ws])]
           used == UNION {ToSet(InitialTabs[ws]) : ws \in Workspaces}
<1>1. db = [live |-> Workspaces, tabs |-> InitialTabs, window |-> HomeWorkspace, elsewhere |-> {},
            active |-> active, used |-> used]
  BY DEF Init
<1>2. \A ws \in Workspaces : InitialTabs[ws] \in Seq(Tabs) /\ InitialTabs[ws] # <<>>
  BY WorkspaceAssumption
<1>3. \A ws \in Workspaces : active[ws] = Head(InitialTabs[ws]) /\ active[ws] \in Tabs
  BY <1>2, HeadTailProperties
<1>4. active \in [Workspaces -> Tabs \cup {None}]
  BY <1>3
<1>5. used \in SUBSET Tabs
  <2>1. \A ws \in Workspaces : ToSet(InitialTabs[ws]) \subseteq Tabs
    <3> TAKE ws \in Workspaces
    <3>1. InitialTabs[ws] \in Seq(Tabs)
      BY <1>2
    <3> QED BY <3>1 DEF ToSet
  <2> QED BY <2>1
<1> HIDE DEF active, used
<1>6. db \in Databases
  <2>1. InitialTabs \in [Workspaces -> Seq(Tabs)] /\ HomeWorkspace \in Workspaces
    BY <1>2, WorkspaceAssumption
  <2> QED BY <1>1, <1>4, <1>5, <2>1 DEF Databases
<1> QED BY <1>1, <1>3, <1>6

LEMMA InitHolds ==
  ASSUME Init
  PROVE  TabsInv
<1> DEFINE tab == Head(InitialTabs[HomeWorkspace])
           entry == Entry("switchtab", tab, None, FALSE)
<1>1. main = QueueAction(NewMain, entry) /\ events = <<>>
      /\ counts = [requests |-> 0, updates |-> 0, failures |-> 0]
  BY DEF Init
<1>2. /\ tab \in Tabs /\ db.active[db.window] = tab /\ db \in Databases /\ db.window = HomeWorkspace
      /\ HomeWorkspace \in Workspaces /\ None \notin Tabs \cup Workspaces
      /\ \A ws \in db.live : db.active[ws] # None
  <2>1. HomeWorkspace \in Workspaces /\ None \notin Tabs \cup Workspaces
    BY WorkspaceAssumption
  <2>2. db.live \in SUBSET Workspaces
    BY FirstDatabase, DatabaseTypes
  <2> QED BY <2>1, <2>2, FirstDatabase
<1> HIDE DEF tab
<1>3. entry \in Entries /\ Direct(entry) /\ entry.op = "switchtab" /\ entry.tab = tab
  BY <1>2, EntryTypes
<1> HIDE DEF entry
<1>4. PICK k \in Calls : Turn(NewMain, main, k, <<entry>>)
  BY <1>1, <1>3, NewMainIs, QueueActionIs DEF Waits
<1>5. BusyIn(NewMain) = {} /\ OneServes(NewMain) /\ CallsOk(NewMain)
  BY NewMainIs DEF OneServes
<1>6. <<entry>> \in Seq(Entries) /\ Len(<<entry>>) = 1 /\ Head(<<entry>>) = entry /\ <<entry>> # <<>>
  BY <1>3
<1>7. Goes(NewMain, main, k, <<entry>>)
  BY <1>4, TurnGoes
<1>8. /\ main \in Mains /\ SameViews(NewMain, main) /\ SameRest(NewMain, main)
      /\ OneServes(main) /\ CallsOk(main)
  <2>1. main \in Mains /\ SameViews(NewMain, main) /\ SameRest(NewMain, main)
    BY <1>7 DEF Goes
  <2>2. BusyIn(NewMain) \subseteq {k} /\ Len(<<entry>>) <= 1
    BY <1>5, <1>6
  <2>3. OneServes(main) /\ CallsOk(main)
    BY <1>5, <1>6, <1>7, <2>2, NewMainIs, GoesKeepsLoop
  <2> QED BY <2>1, <2>3
<1>9. OwnViews(main) /\ main.shown = NoView /\ main.workspace = HomeWorkspace /\ ~main.forget
  BY <1>8, NewMainIs, SameViewsKeep DEF SameViews, SameRest
<1>10. main.queue = <<entry>> /\ main.calls[k] = Taken(entry)
  <2>1. ShownTab(NewMain) = None
    BY NewMainIs DEF ShownTab
  <2>2. ~AlreadyShown(NewMain, entry)
    BY <1>2, <1>3, <2>1 DEF AlreadyShown
  <2> QED BY <1>4, <1>6, <2>2, NewMainIs DEF Turn
<1>11. Agrees(main, db)
  <2>1. /\ main.calls[k].at = "view" /\ main.calls[k].tab = tab /\ k \in BusyIn(main)
        /\ \A j \in BusyIn(main) : j = k
    BY <1>3, <1>8, <1>10, TakenType DEF BusyIn, OneServes
  <2>2. CallAgrees(main.calls[k], main, db)
    BY <1>2, <1>9, <2>1 DEF CallAgrees
  <2>3. \A i \in DOMAIN main.queue : i = 1
    BY <1>10
  <2> QED BY <1>2, <1>6, <1>10, <2>1, <2>2, <2>3 DEF Agrees
<1>12. Typed(main, db, events, counts)
  <2>1. <<>> \in Seq(Events)
    BY EmptySeq
  <2> QED BY <1>1, <1>2, <1>8, <2>1 DEF Typed
<1>13. Closing(main, events, counts) /\ ShownLive(main, counts)
  BY <1>1, <1>9 DEF Closing, ShownLive
<1> QED BY <1>8, <1>9, <1>11, <1>12, <1>13 DEF TabsInv, Holds, Loop

-----------------------------------------------------------------------------
LEMMA UnchangedStep ==
  ASSUME TabsInv, UNCHANGED vars
  PROVE  TabsInv'
<1>1. Holds(main, db, events, counts)
  BY DEF TabsInv
<1>2. Holds(main', db', events', counts')
  BY <1>1 DEF vars
<1> QED BY <1>2, NextInvariant

\* The inductive invariant of the window, for any workspaces, tabs, bounds and number of
\* requests: the loop of processActionQueue serves one entry, the views are the tabs' own,
\* and a call knows what the backend has agreed to.
THEOREM TabsInvariant == Spec => []TabsInv
<1>1. Init => TabsInv
  BY InitHolds
<1>2. TabsInv /\ [Next]_vars => TabsInv'
  <2> SUFFICES ASSUME TabsInv, [Next]_vars PROVE TabsInv'
    OBVIOUS
  <2>1. CASE setActiveTab \/ queueCreateTab \/ queueCloseTab
    BY <2>1, RequestSteps
  <2>2. CASE switchWorkspace
    BY <2>2, AskStep
  <2>3. CASE CloseRequested
    BY <2>3, CloseRequestedStep
  <2>4. CASE switchWorkspaceReturns
    BY <2>4, SwitchAskedStep
  <2>5. CASE TimerFires \/ ViewGone \/ clearTabCache
    BY <2>5, ViewSteps
  <2>6. CASE DeleteBlock
    BY <2>6, BlockStep
  <2>7. CASE handleWSEvent
    BY <2>7, EventStep
  <2>8. CASE CloseDecided
    BY <2>8, CloseDecidedStep
  <2>9. CASE WindowForgotten
    BY <2>9, ForgottenStep
  <2>10. ASSUME NEW k \in Calls, CallServed(k) PROVE TabsInv'
    BY <2>10, ServedStep
  <2>11. ASSUME NEW k \in Calls, CallReturns(k) PROVE TabsInv'
    BY <2>11, ReturnsStep
  <2>12. ASSUME NEW k \in Calls, CallFails(k) PROVE TabsInv'
    BY <2>12, FailsStep
  <2>13. ASSUME NEW k \in Calls, ViewFound(k) PROVE TabsInv'
    BY <2>13, FoundStep
  <2>14. ASSUME NEW k \in Calls, ViewMade(k) PROVE TabsInv'
    BY <2>14, MadeStep
  <2>15. ASSUME NEW k \in Calls, ViewReady(k) PROVE TabsInv'
    BY <2>15, ReadyStep
  <2>16. CASE UNCHANGED vars
    BY <2>16, UnchangedStep
  <2> QED BY <2>1, <2>2, <2>3, <2>4, <2>5, <2>6, <2>7, <2>8, <2>9, <2>10, <2>11, <2>12, <2>13,
             <2>14, <2>15, <2>16 DEF Next
<1> QED BY <1>1, <1>2, PTL DEF Spec

\* The types, the views of the right tabs, and one call at the head of the queue
\* ("[0] is in process"), whatever is queued, replaced, skipped or fails.
THEOREM WindowInvariant == Spec => []WindowInv
BY TabsInvariant, InvariantImplies, PTL

\* However the requests raced: when the queue of an undisturbed window has run empty, the
\* window is on its workspace and shows the tab that the backend calls active.
THEOREM ShownTabIsActive == Spec => []ShownIsActiveTab
BY TabsInvariant, InvariantImplies, PTL

\* Neither the cache, nor a timer, nor a late event takes the view that an open window shows.
THEOREM ShownViewIsLive == Spec => []ShownIsLive
BY TabsInvariant, InvariantImplies, PTL

=============================================================================
