----------------------------- MODULE WindowTabs -----------------------------
(***************************************************************************)
(* One window of the Electron main process (emain-window.ts), the views of  *)
(* its tabs (emain-tabview.ts) and what the backend keeps of its workspace  *)
(* (wcore/workspace.go, wcore/window.go).  Requests that change the content *)
(* of the window wait in a queue of two; a call of processActionQueue       *)
(* serves them one by one, awaiting the backend and the new view.  Views    *)
(* are kept in a cache that is shared by all windows and evicted from it.   *)
(*                                                                         *)
(* What the main process runs until its next await is one step.  Other      *)
(* windows are what the backend knows of them: workspaces they own.         *)
(***************************************************************************)
EXTENDS Integers, Sequences, FiniteSets, SequencesExt

CONSTANTS
  Workspaces, Tabs,   \* ids
  HomeWorkspace,      \* the workspace the window opens with
  InitialTabs,        \* the tabs of each workspace, never none
  Named,              \* workspaces with a name and an icon
  MaxCacheSize,       \* emain-tabview.ts
  MaxViews,           \* bound: views made
  MaxRequests,        \* bound: requests of the user
  MaxUpdates,         \* bound: tabs the backend deletes with their last block
  MaxFailures         \* bound: calls that fail

None == "none"
NoView == 0

ASSUME WorkspaceAssumption ==
  /\ HomeWorkspace \in Workspaces /\ Named \subseteq Workspaces
  /\ InitialTabs \in [Workspaces -> Seq(Tabs) \ {<<>>}]
  /\ None \notin Workspaces \cup Tabs /\ {"error", "closewindow"} \cap Tabs = {}
ASSUME WindowBoundsAssumption ==
  {MaxCacheSize, MaxViews, MaxRequests, MaxUpdates, MaxFailures} \subseteq Nat

VARIABLES
  db,      \* the backend: tabs, active tab and owner of each workspace
  main,    \* the main process: WaveBrowserWindow, its queue and calls, the views
  events,  \* events on their way from the backend to the main process
  counts   \* requests, updates and failures so far

vars == <<db, main, events, counts>>

Views == 1..MaxViews
Calls == 1..2

\* What the backend tells the main process of its own accord.
WindowClosed == [op |-> "closewindow", ws |-> None, tab |-> None]
ActiveTabUpdate(ws, tab) == [op |-> "updateactivetab", ws |-> ws, tab |-> tab]

Entry(op, tab, ws, setInBackend) ==
  [op |-> op, tab |-> tab, ws |-> ws, setInBackend |-> setInBackend]
NoEntry == Entry(None, None, None, FALSE)
Idle == [at |-> "idle", entry |-> NoEntry, tab |-> None, reply |-> None]

-----------------------------------------------------------------------------
(* The backend.  A reply is a tab, or one of "error", "closewindow" and none. *)

TabsOf(d, ws) == ToSet(d.tabs[ws])
AllTabs(d) == UNION {TabsOf(d, ws) : ws \in d.live}

\* The last part of DeleteWorkspace and CloseWindow for a workspace without tabs.
Deleted(d, ws) ==
  [d EXCEPT !.live = @ \ {ws}, !.tabs[ws] = <<>>, !.active[ws] = None]

\* DeleteWorkspace, not forced: a named one that has tabs stays.
DeleteWorkspace(d, ws) == IF ws \in Named /\ d.tabs[ws] # <<>> THEN d ELSE Deleted(d, ws)

CloseWindow(d) ==
  IF d.window = None THEN d ELSE [DeleteWorkspace(d, d.window) EXCEPT !.window = None]

\* FindStringInSlice; whoever asks has seen that the workspace has the tab.
TabIdx(tabs, tab) == SelectInSeq(tabs, LAMBDA t : t = tab)

NewActive(d, ws, tab) ==
  LET i == TabIdx(d.tabs[ws], tab)
      rest == RemoveAt(d.tabs[ws], i)
  IN  CASE d.active[ws] # tab -> d.active[ws]
        [] d.active[ws] = tab /\ rest = <<>> -> None
        [] OTHER -> rest[IF i > 1 THEN i - 1 ELSE 1]

\* CloseWindow of the window that owns ws, this one or another; there may be none.
CloseOwner(d, ws) ==
  CASE ws = d.window -> CloseWindow(d)
    [] ws # d.window /\ ws \in d.elsewhere -> [DeleteWorkspace(d, ws) EXCEPT !.elsewhere = @ \ {ws}]
    [] OTHER -> d

\* DeleteTab, recursive: the window of a workspace without tabs is closed.
DeleteTab(d, ws, tab) ==
  LET left == [d EXCEPT !.tabs[ws] = RemoveAt(@, TabIdx(@, tab)),
                        !.active[ws] = NewActive(d, ws, tab)]
  IN  IF left.active[ws] = None THEN CloseOwner(left, ws) ELSE left

\* What the backend does for an entry: the new db and the reply.  The ids of new tabs
\* are a bound: when there is none left the call fails.
CreateTab(d, ws) ==
  LET new == CHOOSE t \in Tabs : t \notin d.used
  IN  IF ws \notin d.live \/ d.used = Tabs THEN [db |-> d, reply |-> "error"]
      ELSE [db |-> [d EXCEPT !.tabs[ws] = Append(@, new), !.active[ws] = new, !.used = @ \cup {new}],
            reply |-> new]
SetActiveTab(d, ws, tab) ==
  IF ws \notin d.live \/ tab \notin AllTabs(d) THEN [db |-> d, reply |-> "error"]
  ELSE [db |-> [d EXCEPT !.active[ws] = tab], reply |-> tab]
CloseTab(d, ws, tab) ==
  IF ws \notin d.live \/ tab \notin TabsOf(d, ws) THEN [db |-> d, reply |-> "error"]
  ELSE LET next == NewActive(d, ws, tab)
       IN  [db |-> DeleteTab(d, ws, tab), reply |-> IF next = None THEN "closewindow" ELSE next]
SwitchWorkspace(d, ws) ==
  CASE ws \notin d.live \/ d.window = None -> [db |-> d, reply |-> "error"]
    [] ws \in d.live /\ d.window # None /\ (d.window = ws \/ ws \in d.elsewhere) ->
         [db |-> d, reply |-> None]
    [] OTHER -> [db |-> DeleteWorkspace([d EXCEPT !.window = ws], d.window), reply |-> d.active[ws]]

Served(d, entry, ws) ==
  CASE entry.op = "createtab" -> CreateTab(d, ws)
    [] entry.op = "switchtab" -> SetActiveTab(d, ws, entry.tab)
    [] entry.op = "closetab" -> CloseTab(d, ws, entry.tab)
    [] entry.op = "switchworkspace" -> SwitchWorkspace(d, entry.ws)

-----------------------------------------------------------------------------
(* Views of tabs; m is the main process. *)

Live(m, v) == v # NoView /\ m.views[v].state = "live"
ShownTab(m) == IF m.shown = NoView THEN None ELSE m.views[m.shown].tab
Uncached(m, tab) == [m EXCEPT !.cache[tab] = NoView]

\* WaveTabView.destroy: the web contents close, their event comes later.
DestroyView(m, v) ==
  [Uncached(m, m.views[v].tab) EXCEPT !.views[v].state = IF @ = "live" THEN "closing" ELSE @]

\* Mutant: the tab that is shown is removed like any other.
removeTabViewAlways(m, tab, force) ==
  IF m.loaded[tab] = NoView THEN m
  ELSE DestroyView([m EXCEPT !.loaded[tab] = NoView], m.loaded[tab])

\* removeTabView; the active tab is not removed, nor one that was never loaded.
removeTabView(m, tab, force) ==
  IF (~force /\ ShownTab(m) = tab) \/ m.loaded[tab] = NoView THEN m
  ELSE DestroyView([m EXCEPT !.loaded[tab] = NoView], m.loaded[tab])

removeAllChildViews(m) ==
  LET mine == {m.loaded[t] : t \in Tabs} \ {NoView}
      theirs == {m.views[v].tab : v \in mine}
  IN  [m EXCEPT !.views = [v \in Views |-> IF v \in mine /\ @[v].state = "live"
                                           THEN [tab |-> @[v].tab, state |-> "closing"] ELSE @[v]],
                !.cache = [t \in Tabs |-> IF t \in theirs THEN NoView ELSE @[t]]]

\* tryEvictEntry, for a view that was not used in the last second.
tryEvictEntry(m, tab) ==
  CASE m.cache[tab] = NoView \/ m.cache[tab] = m.shown -> m
    [] m.cache[tab] \notin {NoView, m.shown} /\ ~m.open -> DestroyView(m, m.cache[tab])
    [] OTHER -> removeTabView(m, tab, FALSE)

\* checkAndEvictCache; "old" are the tabs it comes to whose view was not used lately.
Cached(m) == {t \in Tabs : m.cache[t] # NoView}
checkAndEvictCache(m, new) ==
  {old \in SUBSET (Cached(m) \ {new}) :
     Cardinality(old) <= Cardinality(Cached(m)) - MaxCacheSize}

\* An eviction touches the view and the entries of its own tab, so they come in any order.
Evicted(m, old) ==
  [m EXCEPT !.loaded = [t \in Tabs |-> IF t \in old THEN tryEvictEntry(m, t).loaded[t] ELSE @[t]],
            !.cache = [t \in Tabs |-> IF t \in old THEN tryEvictEntry(m, t).cache[t] ELSE @[t]],
            !.views = [v \in Views |-> IF @[v].tab \in old THEN tryEvictEntry(m, @[v].tab).views[v]
                                       ELSE @[v]]]

-----------------------------------------------------------------------------
(* The queue of the window; k is a call of processActionQueue. *)

CallAt(m, k, call) == [m EXCEPT !.calls[k] = call]

\* Mutant: a call is started beside the one that serves the head.
StartsCallAlways(m) == Len(m.queue) <= 1
StartsCall(m) == m.queue = <<>>

\* A request for the tab that is shown is passed over.
AlreadyShown(m, entry) == entry.op = "switchtab" /\ entry.tab = ShownTab(m)
Remaining(queue, m) ==
  LET first == SelectInSeq(queue, LAMBDA entry : ~AlreadyShown(m, entry))
  IN  IF first = 0 THEN <<>> ELSE SubSeq(queue, first, Len(queue))

\* setTabViewIntoWindow: a view that was made before needs no initialization.
ShowView(m, v) == [m EXCEPT !.shown = v, !.loaded[m.views[v].tab] = v]

\* The head of the loop.  A closed window leaves the rest of its queue.
LoopHead(m, k) ==
  LET queue == IF m.open THEN Remaining(m.queue, m) ELSE m.queue
      entry == Head(queue)
      n == [m EXCEPT !.queue = queue]
  IN  CASE queue = <<>> -> CallAt(n, k, Idle)
        [] queue # <<>> /\ ~m.open -> CallAt([m EXCEPT !.queue = Tail(@)], k, Idle)
        [] queue # <<>> /\ m.open /\ entry.op = "switchtab" /\ ~entry.setInBackend ->
             CallAt(n, k, [Idle EXCEPT !.at = "view", !.entry = entry, !.tab = entry.tab])
        [] OTHER -> CallAt(n, k, [Idle EXCEPT !.at = "call", !.entry = entry])

Shift(m) == [m EXCEPT !.queue = Tail(@)]
NextTurn(m, k) == LoopHead(Shift(m), k)

\* A return from the loop shifts the queue, but nobody serves what is left of it.
LeaveLoop(m, k) == CallAt(Shift(m), k, Idle)

\* _queueActionInternal
QueueAction(m, entry) ==
  LET k == CHOOSE k \in Calls : m.calls[k] = Idle
  IN  CASE Len(m.queue) >= 2 -> [m EXCEPT !.queue[2] = entry]
        [] Len(m.queue) < 2 /\ StartsCall(m) /\ (\E c \in Calls : m.calls[c] = Idle) ->
             LoopHead([m EXCEPT !.queue = Append(@, entry)], k)
        [] OTHER -> [m EXCEPT !.queue = Append(@, entry)]

\* Mutant: the window keeps the workspace it had.
SwitchReturnsStaying(m, k, reply) ==
  CallAt([removeAllChildViews(m) EXCEPT !.loaded = [t \in Tabs |-> NoView]],
         k, [m.calls[k] EXCEPT !.at = "view", !.tab = reply])

SwitchReturns(m, k, reply) ==
  CallAt([removeAllChildViews(m) EXCEPT !.workspace = m.calls[k].entry.ws,
                                        !.loaded = [t \in Tabs |-> NoView]],
         k, [m.calls[k] EXCEPT !.at = "view", !.tab = reply])

\* The close handler; one question at a time.
CloseEvent(m) == IF m.open THEN [m EXCEPT !.closePending = TRUE] ELSE m

\* The answer of the backend, up to the next await.
ReplyReturns(m, k) ==
  LET call == m.calls[k]
      closing == [m EXCEPT !.timers = @ \cup {call.entry.tab}]
      show(n) == CallAt(n, k, [call EXCEPT !.at = "view", !.tab = call.reply])
  IN  CASE call.reply = "error" -> NextTurn(m, k)
        [] call.reply = None -> LeaveLoop(m, k)
        [] call.reply = "closewindow" -> LeaveLoop(CloseEvent(closing), k)
        [] call.reply \in Tabs /\ call.entry.op = "switchworkspace" -> SwitchReturns(m, k, call.reply)
        [] call.reply \in Tabs /\ call.entry.op = "closetab" -> show(closing)
        [] OTHER -> show(m)

\* The closed handler; the window is forgotten in the backend when it may be deleted.
ClosedHandler(m, deleteAllowed) ==
  [removeAllChildViews(m) EXCEPT !.open = FALSE, !.closePending = FALSE, !.forget = deleteAllowed]

NewMain ==
  [open |-> TRUE, workspace |-> HomeWorkspace, shown |-> NoView, loaded |-> [t \in Tabs |-> NoView],
   queue |-> <<>>, calls |-> [k \in Calls |-> Idle], closePending |-> FALSE, forget |-> FALSE,
   asked |-> {}, timers |-> {}, cache |-> [t \in Tabs |-> NoView],
   views |-> [v \in Views |-> [tab |-> None, state |-> "unmade"]]]

-----------------------------------------------------------------------------
\* createBrowserWindow: the active tab of the workspace is the first request.
Init ==
  /\ db = [live |-> Workspaces, tabs |-> InitialTabs, window |-> HomeWorkspace, elsewhere |-> {},
           active |-> [ws \in Workspaces |-> Head(InitialTabs[ws])],
           used |-> UNION {ToSet(InitialTabs[ws]) : ws \in Workspaces}]
  /\ main = QueueAction(NewMain, Entry("switchtab", Head(InitialTabs[HomeWorkspace]), None, FALSE))
  /\ events = <<>>
  /\ counts = [requests |-> 0, updates |-> 0, failures |-> 0]

\* Requests come from the view the window shows, about the workspace it is on.
Requested ==
  /\ main.open /\ main.shown # NoView
  /\ counts.requests < MaxRequests
  /\ counts' = [counts EXCEPT !.requests = @ + 1]

\* set-active-tab
setActiveTab ==
  /\ Requested
  /\ \E tab \in TabsOf(db, main.workspace) :
       main' = QueueAction(main, Entry("switchtab", tab, None, TRUE))
  /\ UNCHANGED <<db, events>>

\* create-tab
queueCreateTab ==
  /\ Requested
  /\ db.used # Tabs
  /\ main' = QueueAction(main, Entry("createtab", None, None, FALSE))
  /\ UNCHANGED <<db, events>>

\* close-tab
queueCloseTab ==
  /\ Requested
  /\ \E tab \in TabsOf(db, main.workspace) :
       main' = QueueAction(main, Entry("closetab", tab, None, FALSE))
  /\ UNCHANGED <<db, events>>

\* switch-workspace: the backend is asked before the request is queued.  Workspaces that
\* have lost both window and tabs are left out.
switchWorkspace ==
  /\ Requested
  /\ \E ws \in db.live \ {main.workspace} :
       /\ db.tabs[ws] # <<>>
       /\ main' = [main EXCEPT !.asked = @ \cup {ws}]
  /\ UNCHANGED <<db, events>>

\* ListWorkspaces and GetWorkspace; an unsaved workspace with tabs keeps its window.
isNonEmptyUnsavedWorkspace(ws) == ws \in db.live \ Named /\ Len(db.tabs[ws]) > 1
switchWorkspaceReturns ==
  \E ws \in main.asked :
    LET m == [main EXCEPT !.asked = @ \ {ws}]
        elsewhere == /\ db.window # ws /\ ws \notin db.elsewhere
                     /\ isNonEmptyUnsavedWorkspace(main.workspace)
    IN  /\ main' = IF elsewhere THEN m ELSE QueueAction(m, Entry("switchworkspace", None, ws, FALSE))
        /\ db' = IF elsewhere /\ ws \in db.live
                 THEN [db EXCEPT !.elsewhere = @ \cup {ws}] ELSE db
        /\ UNCHANGED <<events, counts>>

\* The backend serves what a call of processActionQueue asks.
CallServed(k) ==
  LET call == main.calls[k]
      served == Served(db, call.entry, main.workspace)
  IN  /\ call.at = "call"
      /\ db' = served.db
      /\ main' = [main EXCEPT !.calls[k].at = "answered", !.calls[k].reply = served.reply]
      /\ events' = IF db.window # None /\ served.db.window = None
                   THEN Append(events, WindowClosed) ELSE events
      /\ UNCHANGED counts

CallReturns(k) ==
  /\ main.calls[k].at = "answered"
  /\ main' = ReplyReturns(main, k)
  /\ UNCHANGED <<db, events, counts>>

\* A call fails on its way there or back, or the config does: caught, next turn.
CallFails(k) ==
  /\ main.calls[k].at \in {"call", "answered", "config"}
  /\ counts.failures < MaxFailures
  /\ counts' = [counts EXCEPT !.failures = @ + 1]
  /\ main' = NextTurn(main, k)
  /\ UNCHANGED <<db, events>>

\* getOrCreateWebViewForTab finds the view, or asks for the config to make one.
ViewFound(k) ==
  LET call == main.calls[k]
      v == main.cache[call.tab]
  IN  /\ call.at = "view"
      /\ main' = IF v # NoView THEN NextTurn(ShowView(main, v), k)
                 ELSE CallAt(main, k, [call EXCEPT !.at = "config"])
      /\ UNCHANGED <<db, events, counts>>

\* The config has come: a view is made, cached and put into the window.
ViewMade(k) ==
  LET call == main.calls[k]
      v == CHOOSE v \in Views : main.views[v].state = "unmade"
      m == [main EXCEPT !.views[v] = [tab |-> call.tab, state |-> "live"],
                        !.cache[call.tab] = v]
  IN  /\ call.at = "config"
      /\ \E w \in Views : main.views[w].state = "unmade"
      /\ \E old \in checkAndEvictCache(m, call.tab) :
           main' = CallAt(ShowView(Evicted(m, old), v), k, [call EXCEPT !.at = "init"])
      /\ UNCHANGED <<db, events, counts>>

\* initializeTab: the new view is ready; the content of a closed window cannot be asked for.
ViewReady(k) ==
  /\ main.calls[k].at = "init"
  /\ main.open => Live(main, main.shown)
  /\ main' = NextTurn(main, k)
  /\ UNCHANGED <<db, events, counts>>

\* removeTabViewLater
TimerFires ==
  \E tab \in main.timers :
    /\ main' = removeTabView([main EXCEPT !.timers = @ \ {tab}], tab, FALSE)
    /\ UNCHANGED <<db, events, counts>>

\* The web contents of a view are gone: its tab leaves the cache, whatever view it has.
ViewGone ==
  \E v \in Views :
    /\ main.views[v].state = "closing"
    /\ main' = [Uncached(main, main.views[v].tab) EXCEPT !.views[v].state = "gone"]
    /\ UNCHANGED <<db, events, counts>>

\* clearTabCache
clearTabCache ==
  \E old \in SUBSET Cached(main) :
    /\ counts.updates < MaxUpdates /\ old # {}
    /\ counts' = [counts EXCEPT !.updates = @ + 1]
    /\ main' = Evicted(main, old)
    /\ UNCHANGED <<db, events>>

\* The last block of a tab of any workspace ends: the backend deletes the tab and tells the
\* main process which tab of the workspace is active now, or to close its window.  The last
\* tab of a workspace without a window is left out.
DeleteBlock ==
  \E ws \in db.live : \E tab \in TabsOf(db, ws) :
    LET next == DeleteTab(db, ws, tab)
    IN  /\ Len(db.tabs[ws]) > 1 \/ ws \in db.elsewhere \cup {db.window}
        /\ counts.updates < MaxUpdates
        /\ counts' = [counts EXCEPT !.updates = @ + 1]
        /\ db' = next
        /\ events' = CASE next.active[ws] # None -> Append(events, ActiveTabUpdate(ws, next.active[ws]))
                       [] next.active[ws] = None /\ ws = db.window -> Append(events, WindowClosed)
                       [] OTHER -> events
        /\ UNCHANGED main

\* handleWSEvent: the window of an update is the one that is on its workspace.
handleWSEvent ==
  LET event == Head(events)
  IN  /\ events # <<>>
      /\ events' = Tail(events)
      /\ main' = CASE main.open /\ event = WindowClosed -> ClosedHandler(main, TRUE)
                   [] main.open /\ event # WindowClosed /\ event.ws = main.workspace ->
                        QueueAction(main, Entry("switchtab", event.tab, None, FALSE))
                   [] OTHER -> main
      /\ UNCHANGED <<db, counts>>

CloseRequested ==
  /\ Requested
  /\ main' = CloseEvent(main)
  /\ UNCHANGED <<db, events>>

\* The answers of the close handler: kept (cancelled, or hidden to the tray), or closed.
CloseDecided ==
  /\ main.closePending
  /\ \/ main' = [main EXCEPT !.closePending = FALSE]
     \/ \E deleteOnClose \in BOOLEAN : main' = ClosedHandler(main, deleteOnClose)
  /\ UNCHANGED <<db, events, counts>>

\* WindowService.CloseWindow, from the closed handler.
WindowForgotten ==
  /\ main.forget
  /\ main' = [main EXCEPT !.forget = FALSE]
  /\ db' = CloseWindow(db)
  /\ UNCHANGED <<events, counts>>

Next ==
  \/ setActiveTab \/ queueCreateTab \/ queueCloseTab \/ switchWorkspace \/ CloseRequested
  \/ switchWorkspaceReturns \/ TimerFires \/ ViewGone \/ clearTabCache
  \/ DeleteBlock \/ handleWSEvent \/ CloseDecided \/ WindowForgotten
  \/ \E k \in Calls : \/ CallServed(k) \/ CallReturns(k) \/ CallFails(k)
                      \/ ViewFound(k) \/ ViewMade(k) \/ ViewReady(k)

Spec == Init /\ [][Next]_vars

-----------------------------------------------------------------------------
Entries ==
  {e \in [op : {"createtab", "switchtab", "closetab", "switchworkspace"}, tab : Tabs \cup {None},
           ws : Workspaces \cup {None}, setInBackend : BOOLEAN] :
     /\ e.op \in {"switchtab", "closetab"} => e.tab \in Tabs
     /\ e.op = "switchworkspace" => e.ws \in Workspaces}

Databases ==
  [live : SUBSET Workspaces, tabs : [Workspaces -> Seq(Tabs)], window : Workspaces \cup {None},
   elsewhere : SUBSET Workspaces, active : [Workspaces -> Tabs \cup {None}], used : SUBSET Tabs]

CallStates ==
  [at : {"idle", "call", "answered", "view", "config", "init"}, entry : Entries \cup {NoEntry},
   tab : Tabs \cup {None}, reply : Tabs \cup {None, "error", "closewindow"}]

Mains ==
  [open : BOOLEAN, workspace : Workspaces, shown : Views \cup {NoView},
   loaded : [Tabs -> Views \cup {NoView}], queue : Seq(Entries), calls : [Calls -> CallStates],
   closePending : BOOLEAN, forget : BOOLEAN, asked : SUBSET Workspaces, timers : SUBSET Tabs,
   cache : [Tabs -> Views \cup {NoView}],
   views : [Views -> [tab : Tabs \cup {None}, state : {"unmade", "live", "closing", "gone"}]]]

Events == {WindowClosed} \cup {ActiveTabUpdate(ws, tab) : ws \in Workspaces, tab \in Tabs}

TypeOK ==
  /\ db \in Databases
  /\ main \in Mains
  /\ events \in Seq(Events)
  /\ counts \in [requests : Nat, updates : Nat, failures : Nat]

\* The views a window and the cache keep for a tab were made for it; a cached one is alive.
ViewsAreOwn ==
  /\ \A t \in Tabs : main.loaded[t] # NoView => main.views[main.loaded[t]].tab = t
  /\ \A t \in Tabs : main.cache[t] # NoView =>
       main.views[main.cache[t]] = [tab |-> t, state |-> "live"]
  /\ \A v \in Views : main.views[v].state = "unmade" => main.views[v].tab = None

Busy == {k \in Calls : main.calls[k] # Idle}

\* One call of processActionQueue at a time serves the queue, and what it serves is the
\* head, whatever was queued, replaced or skipped while it waited ("[0] is in process").
OneCallServes ==
  /\ Len(main.queue) <= 2
  /\ \A j, k \in Busy : j = k
  /\ \A k \in Busy : main.queue # <<>> /\ main.calls[k].entry = Head(main.queue)

WindowInv == TypeOK /\ ViewsAreOwn /\ OneCallServes

\* Nothing but the user's requests has happened.
Undisturbed == counts.updates = 0 /\ counts.failures = 0 /\ events = <<>> /\ main.open

\* When the queue is empty, the window is on the workspace the backend gives it and shows
\* the tab the backend calls active there, however the requests raced.
ShownIsActiveTab ==
  Undisturbed /\ Busy = {} /\ main.queue = <<>> /\ db.window # None =>
    main.workspace = db.window /\ ShownTab(main) = db.active[db.window]

\* While it waits for the view of another workspace, the window has given up its own.
Leaving == \E k \in Busy : main.calls[k].entry.op = "switchworkspace" /\ main.calls[k].at \in {"view", "config"}

\* The view a window shows is alive: neither the cache, nor a timer, nor a late event of
\* another view takes it, until the window closes or leaves for another workspace.
ShownIsLive ==
  main.open /\ main.shown # NoView /\ ~Leaving /\ counts.failures = 0 => Live(main, main.shown)

\* "[0] ... is in process": in a window the backend keeps, an entry that waits is served
\* by somebody (emain-window.ts).
HeadIsInProcess == main.open /\ db.window # None /\ main.queue # <<>> => Busy # {}

=============================================================================
