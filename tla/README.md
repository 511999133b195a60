# A verification project for windows-block-terminal

windows-block-terminal (WBT) is a fork of the Wave terminal: an Electron
frontend, a Go server (`wavesrv`) that owns blocks, shells and a command
history, and a helper (`wsh`) that runs on remote machines and keeps durable
sessions alive.  This directory holds TLA+ models of the parts that carry state
under concurrency and failure, the TLC configurations that check them and the
proofs that TLAPS checks.  All paths below are relative to the root of the
repository, with the prefix `src/`.

## Inventory

### The command journal (`src/pkg/commandjournal`)

| part | state | operations |
|---|---|---|
| `Journal` (journal.go) | per block: the active record, the completed records, the id that waits for output (`pending`), the visibility generation, the authority latch, the block gate | `Apply` (output segment, start, finish, abort, prompt), `MarkOutputIncomplete`, `AbortActive`, `ClearVisualHistory`, `DeleteHistory`, `SetVisibilityGeneration` |
| `Store` (persistence/store.go) | the FIFO, its byte count, `degraded`, `failedCommands`, `closed`; in SQLite the records, the output chunks, the generation of each block | the `Record*` calls, `AppendOutput`, the two visibility transactions, the writer `run`, `Close`, `Open` |
| `HostedRuntimeConsumer` (hosted_runtime.go), `RuntimeObserver` | the active command of the sidechannel, hook sequence, closed flag | messages of the hosted runtime, chunks of the PTY tap |
| `VisualAnchorRegistry` (visual_anchor.go) | the marks the server has parsed and bound | bind, publish, invalidate |
| `CommandJournalService` | none | Clear, Delete, read views |

Interaction: the PTY tap and the sidechannel feed `Journal.Apply`; the journal
sends an event per change to the store's FIFO; one writer goroutine applies
events to SQLite, one transaction each.  Clear and Delete go through the same
FIFO and wait for the writer's answer while holding the block gate.  The service
calls the journal when the block has one and the store itself when it has none.
The frontend reads records and offers "copy output" when `canCopyOutput` holds.

What makes it hard: producers, users, the writer and the controller run
concurrently; a fault or an overflow loses single events of a command; the
process can die with events queued; output and lifecycle of a command end at
different times.  What makes it correct: the history shows the commands that
happened after the last Clear and only those; a record has one outcome; output
that is presented as exact is exact; Clear returns.

### The pane of a terminal (`src/frontend/app/view/term`)

| part | state | operations |
|---|---|---|
| `TermWrap` (termwrap.ts), `drainTerminalIngress` (terminal-ingress.ts) | ingress state and generation, file offset, held notifications, the presentation lane, the drain promise | `initTerminal`, file events, catching up, truncation, the product clear, `dispose` |
| `VisualAnchorRegistry` (visual-anchor.ts) | session, highest number, four bounded maps: anchors, confirmations, bindings, quarantine; tombstones | `observeAnchor`, `confirm`, `resetSessionForEpoch`, `prune`, `remove`, `invalidate` |
| cues and markers of `TermWrap`, the command rail | for each nonce its xterm marker; subscribers | marks parsed, markers disposed, snapshot, region of a command |

Interaction: the backend appends to a block's file and publishes an event per
append; the pane takes the event as a notification and reads the file.  A command's
mark comes in the bytes, its confirmation as another event.  Clear asks the journal
while it holds the presentation lane.  Hard: every function is a chain of awaits, and
reads, writes, events, clears and the disposal interleave at each of them.  Correct
when the screen is the file, once and in order, and a mark is taken for a command's
only when that command's confirmation says the same.

### The layout of a tab (`src/frontend/layout/lib`, `src/frontend/app/workspace`)

| part | state | operations |
|---|---|---|
| layoutTree.ts, layoutNode.ts | a tree of panes and groups | insert, delete, move, swap, split, replace, magnify, focus, balance |
| `LayoutModel` | tree, focus stack, magnified and ephemeral pane, leaf order, the pending action of a drag, the backend's queue | the handlers of drags and keys, `onTreeStateAtomUpdated`, `updateTree`, `closeNode`, orphan cleanup |
| snapApply.ts, snapReclaim.ts, snapMaterialize.ts | one application of a preset: snapshot, created and reclaimed panes | apply, roll back, compensate |

Hard: a drop is computed long before it is carried out, a batch of the backend is
suspended in its middle, an application waits for the backend at every step.  Correct
when no pane is lost, doubled or left running without being shown, and focus and
magnification are on panes that exist.

### Windows and tabs (`src/emain`, `src/pkg/wcore`)

`WaveBrowserWindow` keeps a queue of at most two requests that one call of
`processActionQueue` serves, the views of its tabs, and timers that remove the views of
closed tabs; a cache of views with a limit is shared by all windows; the server keeps
workspaces, their tabs and who owns them.  Hard: every operation asks the server in its
middle.  Correct when the window ends on the tab the server calls active and never
shows a view that has been destroyed.

### The runtime decoder (`src/pkg/terminalruntime`)

An OSC decoder over arbitrarily split chunks, a bounded observer queue that
drops on overflow, and the authority rules of `types.go`.  Correct when the
events found do not depend on the chunking and a gap is never silent.

### Durable sessions (`src/pkg/jobmanager`, `streamclient`, `jobcontroller`, `utilds`)

`StreamManager` and `CirBuf` keep the output of a remote process in a ring
(blocking the process while a client is connected, overwriting the oldest bytes
while none is), a `Reader` reassembles it with a receive window, the job
controller restarts the stream after a reconnect at the position it has stored,
and the reorder queue puts input back in order.  Hard: reconnection races,
window arithmetic, stale acknowledgements, gaps.  Correct when the stored output
is the process's output with gaps only where the ring overwrote it, the window
is never exceeded, and a connected stream makes progress.

### Blocks and shells (`src/pkg/blockcontroller`)

A registry of controllers per block, and `ShellController` with its process,
status and journal attachment.  Hard: `Stop` releases its lock while it waits, a
replaced controller is stopped after its successor is registered.

### Storage (`src/pkg/filestore`, `src/pkg/wstore`)

The file store is a write-back cache with a flusher; the object store is plain
transactional CRUD.

### RPC (`src/pkg/wshutil`, `src/pkg/wps`, `src/pkg/remote/conncontroller`)

A router with an upstream and leaf routes, an RPC engine with request lifetimes
and cancellation, a publish/subscribe broker, and the connection lifecycle.

### User interface

The other views (preview, web view, process viewer, AI chat, settings), the `wsh`
commands, telemetry, code generators and the documentation site are rendering, I/O or
transformation of data, without a protocol of their own.  The object cache of the
frontend (`wos.ts`) and the server's queue of layout actions (`wcore/layout.go`) have
one, and are in the plan.

## Plan

In the order of importance; a component's module is written with its
properties, its runs and, where it is marked, its proofs.

1. `JournalStore` and `CommandJournal`, the core of this product, with proofs of
   type correctness and of the visibility properties.  **Done.**
2. `StreamManager`, `StreamReader`, `JobStream`: the flow-controlled output of a
   durable session with its reconnections, one stream shown to implement
   `ByteStream`, with liveness, and proofs of all its safety.  **Done.**
3. `LayoutTree`, `LayoutModel`: the layout of a tab.  **Done.**
4. `SnapApply`, the application of a preset, with proofs of its safety.  **Done.**
5. `VisualAnchor`: marks, confirmations and the region of a command, with proofs of all but
   the region.  **Done.**
6. `TermIngress`: from the block's file to the screen, with proofs of all its safety.  **Done.**
7. `WindowTabs`: the queue of a window, the views of its tabs, with proofs of all its
   invariants.  **Done.**
8. Proofs of `TrustedOutputIsExact`, `HistoryAgreesWithJournal` and `ClearLeavesTheLiveCommand`.
   **Done.**  Then the invariants of `JobStream` and its two refinements, and of
   the registry of `VisualAnchor`.  **Done.**
9. The object cache of the frontend with the server's queue of layout actions
   (`layout.go:76`), composed with `LayoutModel`.
10. `JobController`: starting, route events and the automatic reconnection, exit
    and termination, attachment to blocks; then `ReorderQueue`.
11. `HostedConsumer`, `OutputObserver` and `Decoder`, composed with
    `CommandJournal`; `ShellController` with the controller registry.
12. `FileStore`: the cache, the flusher and what a crash may lose; then
    `WshRouter` and `WshRpc`.

Composition: `CommandJournal` extends `JournalStore`; `JobStream` extends
`StreamManager` and `StreamReader` and implements `ByteStream` and
`StreamManagerOpen`; `LayoutModel` extends `LayoutTree`.  `SnapApply` sees the layout
as the set of blocks it shows, `LayoutModel` sees an application as the replacement of
the whole tree (`SnapCommit`).

## What is modelled

### The command journal

`JournalStore` is the durable store.  Its variables are the fields of `Store`
and the tables; `Enqueue` and `AppendOutput` are the producer side, `Process` is
the switch of `process()` with one operator per kind of event, and `Dequeue`,
`Commit`, `CommitMissing` and `CommitFault` are the writer loop: the code
releases the lock after it has taken an event, so taking and committing are two
steps and everything else may happen in between.  The queue keeps its head until
the transaction ends, with `writing` saying that the writer has it; the byte
counter is lowered when it is taken, as in the code.  A transaction is atomic; a
fault rolls it back and degrades the store.  `StoreCrash` forgets what was
queued and `Open` repairs the rows (`Reconciled`, then `Recovered`).

`CommandJournal` is one block's journal with its producers, the controller, the
service and the process, on top of the store.  A method that holds the block gate
and `j.mu` for its whole body is one action; `ClearVisualHistory` and
`DeleteHistory` hold the gate across a durable transaction and are two actions
(`ClearBegin`, `ClearCommit`, ...) between which the writer, Close and a crash
may step, and no producer.

| code | model |
|---|---|
| `Apply`, output segment | `OutputSegment` with `OutputTarget`, `AppendedRecord`, `AppendOutput` |
| `Apply`, start / finish / abort / prompt | `CommandStarted`, `CommandFinished`, `CommandAborted`, `PromptReady` |
| `finalizePendingLocked`, `abortActiveLocked` | `FinalizedRecs` and `FinalizeEvents`, `AbortActiveLocked` |
| `MarkOutputIncomplete`, `AbortActive` | the actions of these names |
| `ClearVisualHistory`, `DeleteHistory` | `ClearBegin`, `DeleteBegin`, `ClearCommit`, `DeleteCommit`, `TransactionFailed` |
| `attachCommandJournal` | `Attach` |
| service without a journal | `ServiceLookup`, `ServiceCall` |
| writer `run` | `Dequeue`, `Commit`, `CommitMissing`, `CommitFault` |
| `Close`, process death, `Open` | `CloseStore`, `Crash`, `Open` |

Abstractions: one block, because every query and every map is keyed by the
block; bytes are "text" or "ctl", what `plainTextOutput` tells apart; command
texts, times, exit codes and hook numbers are left out, the last as a Boolean
where an order is tested; a chunk of stored output is part of one sequence per
command; `validAbortReason` holds, all callers in the code pass constants it
accepts.  A command id is used once (ids are generated from the epoch and a
sequence number).  An in-band start that claims sidechannel output is among the
inputs because the journal guards against it.  A refused call that changes
nothing is not a step.

`MCCommandJournal` instantiates the modules for TLC.  Definitions such as
`AdvanceWithoutRetag`, here and in the other modules, are faulty variants, used to
show that each property can fail; they are marked "Mutant" or say what they omit.

### The output of a durable session

A byte is its position in the output of the process, so the content of the ring
is two numbers, `total` and `count`, and a packet is a position and a length.

`StreamManager` is `cirbuf.go` and `streammanager.go`: the ring with its two
modes, and the manager with its session, its terminal event and its two
goroutines.  A goroutine that waits is a variable (`blocked`, `asleep`), so that a
forgotten wake-up is visible.  The PTY reader writes a byte under the ring's lock
and signals the sender under the manager's, which is two actions (`WriteByte`,
`SignalSender`).  `SenderSleeps`, `SendData` and `SendTerminal` are the outcomes of
`prepareNextPacket`; `RecvFin`, `RecvIgnored`, `RecvOutside` and `RecvAck` those of
`RecvAck`.  `StreamManagerOpen` puts it among clients that may call anything at
any time, which is the specification the proofs are about.

`StreamReader` is the reader as operators from a record to a record; all of its
methods run under one lock.

`JobStream` composes them with the rest of the path:

| code | model |
|---|---|
| brokers, `processRecvData`, `processRecvAck`, `processSendAck` | `DataArrives`, `DataRefused`, `AckArrives`, `Answered` |
| `runOutputLoop` | `LoopReads`, then the check of the stream id (`LoopGoesOn`, `LoopSuperseded`), then `LoopStores` or `LoopEnds` |
| `doReconnectJob`, `restartStreaming` | `RestartStats` (position from the file), `RestartCalls` (new reader, new current stream, PrepareConnect), `RestartEnds` or `RestartGoesOn` (gap, StartStream), `RestartRunsLoop`, `RestartFails` |
| `PrepareConnect` | `PrepareFindsDone`, or `PrepareDisconnects`, `PrepareReadsHead`, `PrepareConsumes`, `PrepareConnects`: the ring runs on between the steps |
| `StartStream` | `StartsStream` |
| the connection, the main server's process | `LinkDrops`, `LinkComesUp`, `ServerRestarts` |

The initial state is the one `StartJob` leaves.  Packets and acknowledgements in
flight are sets: the network may reorder them, which is what the reader's
out-of-order packets and the manager's comparison of acknowledgements are for, and
what is in flight is lost with its link.  There is one reconnection at a time
(`reconnectGroup`) and it is skipped while the job counts as connected: `link`
is "routed" from the reconnection that found it to the next drop.

`ByteStream` is the promise of one stream: what is stored is a prefix of what was
written, and the end is stored after all of it; a stream that ends with an error
may be cut short.  `JobStream` with one stream implements it.
`JobStream` also implements `StreamManagerOpen`, so that what is proved of the
manager among arbitrary clients holds for the manager in this system.

### The layout of a tab

`LayoutTree` is layoutNode.ts and layoutTree.ts as operators from a tree to a tree: a
node is a record with an id, a direction, a block and its children.  The recursive
functions of the code are recursive operators here.  Sizes are left out, since no
decision reads them.  The code changes objects in place; where that matters, because a
pending action keeps a node while the tree changes, the model keeps the ids the action
looks up and the copy it falls back to.

`LayoutModel` is the model of one tab.  A handler runs without an await, so it is one
action: `Hover` (a drag computes the pending action), `Drop` (it is carried out or given
up), `UserOps` and the splits of keymodel.ts, `Mount`, `Reload`, `SnapCommit`.
`BackendOps` is `onTreeStateAtomUpdated`: a batch begins, its actions are applied one by
one, a deletion waits for the server between two of them, and only the end of the batch
balances the tree.  `Settled` says that the tree has been balanced since.

### Snap

`SnapApply` is one application of a preset, step by step: the snapshot of the panes, the
reading and judging of the facts about each pane, the confirmation just before a
removal, the creation of terminals, the commit, the deletion of what was reclaimed, and
the two ways back (`rollback`, `compensateFailedReclaim`).  `pc` names the await the
application is in; every call may fail.  Beside it the user types, closes and creates
panes, the backend inserts blocks it created, deletions of closed panes arrive late,
and orphan cleanup runs when `snapApplyDepth` lets it.  A preset is its number of slots.

### Marks of commands

`VisualAnchor` is the registry of visual-anchor.ts and what `TermWrap` keeps for it.  The
registry's maps are sequences, because their evictions go by the order of their entries.
A marker is named by the line at which it was registered and disappears by trimming
(`LineTrimmed`), by Clear or by the registry's `handle.dispose`.  `Printed` shows a line
with a frame, which is a command's own (`CommandStarts`), the same again
(`FrameReplayed`, which a drain causes), or one of another producer with the same nonce
(`ForeignFrame`).  The other channel is `Publish` and `EventDelivered`, with the history
call of the opening pane (`Open`, `HistoryAnswered`, `HistoryRead`), whose answer may come
after later events.  `Expire` is the pruning by age, for any age.
`getTerminalOutputForCommand` is the region a copy reads.

### The ingress of a pane

`TermIngress` follows one pane from its opening to its disposal.  The file is a sequence
of chunks; the bytes of a chunk are not split, because a read returns what the file
holds after an offset and events are sent per append.  The pane is one record, and the
operators from a pane to a pane are what the code runs between two awaits, under the
name of the function they belong to; `init` and `drain` say where the two asynchronous
chains are.

| code | model |
|---|---|
| `handleNewFileSubjectData` | the action of this name, `AppendArrives`, `TruncateArrives` |
| `fetchWaveFile` and its answer | `read[owner]`: asked, served (`ReadServed`), returned (`ReadReturns`) or failed (`ReadFails`) |
| `runInPresentationLane`, `doTerminalWrite` | `lane`, whose head is taken by `LaneStep` |
| `drainHeldData`, `drainTerminalIngress`, `replayMissingAnchors` | the operators of these names |
| `initTerminal` | `loadInitialTerminalData`, `AfterCatchUp`, `InitReturns`, `InitThrows` |
| `clearProductHistory`, `withProductClearBoundary` | `ClearRequested`, `ClearBegins`, `ClearCommits`, `ClearReturns`, `ClearFails`, `LateClear` |
| `dispose` | the action of this name |

### Windows and tabs

`WindowTabs` has one window.  `db` is what the server knows, with an operator per call
(`CreateTab`, `SetActiveTab`, `CloseTab`, `SwitchWorkspace`, `DeleteWorkspace`,
`CloseWindow`); `main` is the main process.  `LoopHead` is the head of the loop of
`processActionQueue`; `CallServed`, `CallReturns`, `ViewFound`, `ViewMade` and
`ViewReady` are its awaits; there may be two calls of it, so that a second one would be
seen.  `TimerFires` is `removeTabViewLater`, `Evicted` the cache's eviction with any set of
views that were not used lately, `ViewGone` the late event of a destroyed view.
`DeleteBlock` and `handleWSEvent` are the tab, of any workspace, that the server deletes when
its last block ends.  Two steps differ from the code: the await of a view that is in the cache, a
microtask in the code, is a step of its own; and the two reads before a switch of
workspace (`ListWorkspaces`, `GetWorkspace`) are one.

## The runs

| run | specification | bounds | shows |
|---|---|---|---|
| `trust` | `Spec` of `CommandJournal` | 1 command, 1 Clear or Delete, 3 bytes in segments of 1 and 2, 2 stored bytes, 2 bytes and 4 events of FIFO | `JournalInv`, `TrustedOutputIsExact`, `HistoryAgreesWithJournal`, `EndedRecordsAreStable` |
| `clear` | `Spec` | 2 commands (symmetric), 2 Clear or Delete, no output, 3 events of FIFO | `RunningRowsAreVisible`, `ClearLeavesTheLiveCommand`, `HiddenStaysHidden` |
| `live` | `ServiceLiveSpec` | 1 command, no output, 2 epochs, 2 Clear or Delete, 2 events of FIFO, and the service going to the store itself | `TransactionsEnd` |
| `manager` | `Spec` of `StreamManagerOpen` | ring of 2, 3 bytes, windows up to 2, 2 streams | `SenderMissesNothing`, `BlockedOnlyWhenFull` |
| `one` | `LiveSpec` of `JobStream` | 1 stream, 4 bytes, packets of 2, ring and window of 3 | `StreamInv`, that it implements `ByteStream` (`OneStreamKept`), and `RunningLoopReachesEnd` |
| `reconnect` | `Spec` | 2 streams, 3 bytes, ring of 2, window of 1 | `OutputContiguous`, `DroppedOnlyWhenReceived`, `ResumesAtHead`, and that `JobStream` implements `StreamManagerOpen` (`RemoteIsStreamManager`) |
| `layout` | `MCSpec` of `MCLayoutModel` | 4 blocks, groups of 2 for automatic insertion, batches of 2 | `ModelInv`, `DropsLandBeside`, `EditsKeepTheRest`, `ClosingRefocuses` |
| `snap` | `MCSpec` of `MCSnapApply` | 5 blocks, presets of 2 and 3 slots, up to 4 panes, 1 operation of the user, 1 application | `CreatedSurvive`, `ReclaimedWereUntouched`, `NoSilentLeak`, `SnapDeletesSafely`, `CommitCovers`, `ApplyEnds` |
| `anchors` | `Spec` of `VisualAnchor` | 4 commands of 2 sessions, 2 producers, maps of 1, 2 tombstones, 1 extra frame, 1 clear | `RegistryInv`, `BindingsMatch`, `RegionIsOwnWhenMarked`, `MarkersHaveCues` |
| `term` | `MCSpec` of `MCTermIngress` | 1 truncation, and 3 chunks, 2 of them marks, with 1 failure and 1 clear, or 1 chunk with 2 failures and 3 clears | `IngressInv`, `ScreenIsPrefix`, `ClearsAccounted`, `DisposedIsFinal`, `OutputArrives`, `ClearIsAlone` |
| `windows` | `MCSpec` of `MCWindowTabs` | 2 workspaces, 3 tabs and 2 more to be made, a cache of 1, 4 views, 4 requests, 1 failure or 1 deletion or eviction | `WindowInv`, `ShownIsActiveTab`, `ShownIsLive` |
| `window_queue` | `Spec` of `WindowTabs` | the same with 3 requests and no disturbance | finding, below |

Every constant starting with `Max` is a bound of the exploration, except
`MaxOutputBytes`, `MaxQueueBytes`, `MaxPacket`, `MaxPending`, `MaxBindings`,
`MaxTombstones`, `MaxCacheSize` and `MaxChildren`, which are limits of the code made small.

Journal.  Three bytes pass the output limit of two, by a segment that straddles it and
by one that lies beyond it, and the FIFO budget of two bytes overflows with one segment
queued.  With two commands one can drain or be completed while the other runs.  Two
transactions make "hidden" and "visible again" different.  Faults, Close and crashes are
possible in every state and are not counted.  Epochs matter to the latch and to the
identity of an event; `live` has two, the other runs one.

Stream.  The run `one` has more output than the ring holds, packets larger than one byte
and reads smaller than what is buffered, with up to three bytes in flight, so packets
overtake each other, are set aside, fill the window and wrap the ring; `reconnect` has
output that fits the ring, that fills it and that overwrites it, and an old loop, an old
call and an old packet that meet a new stream.  Drops of the link and restarts of the
server are not counted.  `DroppedOnlyWhenReceived` speaks of a ring that has not been
overwritten (`total <= RingSize`).  `ResumesAtHead` has no such condition: the announced
position is never past the head of the ring, and is the head unless the ring is full.  On a
full ring the byte at that position can be overwritten before the client is connected, and
the reader then waits for it; no property denies that.

Layout.  Four panes are the fewest with which a group of two sits in a group that sits in
a group.  `MCLayoutModel` runs two instances of the model side by side, told apart by a
variable: one follows the tree and the drags and disregards the focus, which no operation on
the tree reads; the other follows focus and magnification on up to three panes, without
drags, and tells trees apart by their reading order only.  In both the user does nothing else
during a drag or a batch, except the drop itself: batches still interleave with a drag,
which is the hazard.  The view names nodes by their place, because ids are random and only
compared; it keeps everything the properties and the next steps of its instance read.

Snap.  Blocks are only compared, so `MCSnapApply` numbers them in the order in which they
come up.  Three slots with up to four panes give every case of growing, fitting and
shrinking; one operation of the user can fall between any two steps.

Anchors.  A map of one evicts with its second entry, and four commands of two
sessions, of which three belong to one producer, give a successor, a refused and a
foreign one.  The published answer of the history call is the last confirmation.

Ingress.  Three chunks allow one before the pane opens, one during the load and one
while a drain reads.  A clear is not an instant: the journal commits it (`ClearCommits`), the
answer comes back (`ClearReturns`), and the call may throw before, between and after, with
the transaction refused, still to be committed (the handler of
`src/pkg/service/commandjournalservice/commandjournalservice.go:172` ignores its context, so a
server that gave up waiting commits all the same, `LateClear`), or committed with its answer
lost.  In the last two cases the journal has hidden what the screen still shows.
`ClearsAccounted` says that this is the only way the two come apart, and never the other way
round.  With one chunk of output, three clears and two failures of them meet in the lane, among
that output, a truncation and the disposal, so that a clear follows one that threw and one that
is still to be committed; with more output there is one clear and one failure (`Bounded`).  `OutputArrives` asks that neither a
truncation nor a failure nor a mark written from its notification has happened; the
safety properties do not, except that `ScreenIsPrefix` follows one origin of the file.

Windows.  Four requests besides the first one of the window fill the queue of two with
one in process and one more that replaces.  Two of them may ask for a new tab that is made;
when the ids are used up the call fails.  With a cache of one, every view beyond the shown
one is evicted.  Combinations of a failure with a deletion or an eviction are cut off
(`OneDisturbance`).

Deadlock is checked where the specification has no end.  The runs of `MCSnapApply`,
`VisualAnchor`, `TermIngress` and `WindowTabs` may end, because their inputs are bounded, and
say `CHECK_DEADLOCK FALSE`; that nothing is stuck is what `ApplyEnds`, `OutputArrives` and
`HeadIsInProcess` are about.

### Fairness

`ServiceLiveSpec` has weak fairness on the writer and on the resumption of the caller.
The writer is a goroutine that is signalled by every enqueue, whose loop has no
blocking call but SQLite's, and that drains the queue after Close (`run` returns
only when the queue is empty and the store is closed); the caller waits on a
buffered channel.  No fairness is assumed of producers, of Clear itself, or of
crashes.  `TransactionsEnd` therefore says that an answer always arrives.

`JobStream`'s `LiveSpec` has weak fairness on the goroutines of the manager, of the
output loops, of the calls and of the reconnection, because each of them is a Go
goroutine that only waits for the condition in its guard; on the delivery of what
is in flight while the link is up (the link is a TCP connection, and the
brokers' queues have one worker each); and on the end of the process's output,
without which no stream would have an end to reach.  There is none on
`LinkComesUp`, nor on a failure: a link may stay down for ever, and
`RunningLoopReachesEnd` says nothing then.

`TermIngress` (`Fairness`) has weak fairness on what JavaScript's event loop runs when its
promise is settled: the delivery of an event, the next slot of the lane (xterm's write
callback), the answer of a read and the code behind it, the answer of the journal.  Nothing
is assumed of the output itself, of clears or of failures.

`SnapApply` has weak fairness on the application as a whole (`Apply`): each of its steps is
the continuation of an awaited call, and the RPC layer answers every call, with an error
after a timeout if need be.  `ApplyEnds` holds however many calls fail.

### Findings and known disagreements

`window_queue` shows that a return from inside the loop of `processActionQueue`
(`src/emain/emain-window.ts:701`) leaves an entry in the queue that nobody serves.  The
entries of the queue are explained at line 653 with "we don't mess with [0] because it is
'in process'"; after that return [0] is not, and as the queue is never empty again, no later
request starts a call.

The following definitions state what a comment, a test or a document says and fail in the
models.  They are not part of a run; naming one in the cfg of the run given here shows
its counterexample.

- `RunningRowsAreVisible` under `ServiceSpec` (cfg of `clear` with that specification).  The
  service looks up the block's journal and, finding none, calls the store; a controller
  can attach while the transaction waits in the FIFO.  `attachCommandJournal` reads the
  generation from the tables, so the new journal is one generation behind until the next
  Clear and its commands are stored as hidden.  The comment at
  `src/pkg/commandjournal/persistence/store.go:756-759` says that a command that starts
  after the transaction belongs to the new generation.
- `BuffersWhileDisconnected` (cfg of `one`; "Buffers terminal output while disconnected",
  `docs/docs/durable-sessions.mdx`).  `handleJobDomainSocketClient` defers the
  disconnection of its client and returns as soon as it has started the goroutines of the
  socket.  A manager whose link drops later stays connected, and the process blocks when
  the window is full.
- `PicksUpWhereLeft` (cfg of `reconnect`; "picking up right where you left off", same
  document).  The size of the file is read before the new stream becomes current; an old
  loop that has passed its check appends afterwards, and the bytes come a second time.
- `RunningLoopReachesEnd` with two streams (cfg of `reconnect` with `LiveSpec`; "seamlessly
  reattach").  The end of a stream whose ring is empty is sent while the stream is corked.
  With a gap it is set aside as out of order, and `UpdateNextSeq` does not take it up.
- `ReplacedSessionsStay` (cfg of `anchors`;
  `src/frontend/app/view/term/visual-anchor-session-transition.test.ts:87`).  The answer of
  the history call is applied when it comes: an event of the next session may have been
  handled before, and the older answer brings the old session back.
- `RegionIsOwn` (cfg of `anchors`; `src/frontend/app/view/term/command-output-region.ts:14-17`).
  A command whose mark was refused, or never parsed because the pane opened later, has no
  cue, and the region of the command before it runs on over its output.
  `RegionIsOwnWhenMarked` says what does hold.
- `SuffixIsShown` (cfg of `term`; `src/frontend/app/view/term/terminal-ingress.ts:66-68`).  A
  mark that is written from its notification moves the offset past output that no read has
  returned.
- `TypedIsKept` (cfg of `snap`).  That a pane was typed in reaches the client's meta with
  a delay, and an application may remove it in between; `ReclaimedWereUntouched` speaks of
  what is known.
- `CommittedPanesAreOwned` (cfg of `snap`).  A pane whose block is deleted while the slots
  are filled is committed to the new layout.

The document on durable sessions also promises the "full scrollback buffer".  Bytes are
acknowledged, and leave the ring, when they arrive; a restart of the main server before
they are stored turns them into a gap.

## The proofs

All are checked by TLAPS for every value of the constants, from the assumptions named
with each module.

`CommandJournalProofs`, from `StoreAssumption` and `JournalAssumption` (limits are natural
numbers, the empty id and the empty epoch are not ids or epochs, segments are sequences of
bytes): `TypeCorrect`, `Spec => []TypeOK`, with one lemma per operation and per kind of event.

The same module shows why the visible history is right.  `RunningRowsAreVisible` is not inductive: a
queued start could carry an old generation, a queued finish could meet a row that was
recovered, and an advance could be overtaken.  `VisibilityInv` adds what excludes this:

- `QueueInv`: a queued start or end carries the generation the tables will have
  when it is written; a command starts once and ends once in the queue; a
  visibility transaction is the last event, and its caller still holds the gate;
- `GenerationInv`: the journal's generation is that of the tables, except
  between the commit and the caller's resumption, and then the queue is empty;
- `LifecycleInv`: rows belong to ids that were used, the active command has no
  ended row, and a journal that is not attached has nothing queued.

The argument has three lemmas for the three kinds of steps: a producer adds only
events that fit (`ProducerPreserves`), the writer's step changes at most the row
of its event or is a transaction (`CommitEffect`, `TakePreserves`,
`AnswerPreserves`), and the caller catches up (`TransactionPreserves`).
`VisibilityInductive` puts them together; `RunningVisible` and `HiddenIsHidden`
follow.

`CommandJournalProofs` also holds `BytesCounted`: the byte counter of the FIFO equals the sum
of what waits in it, over every drain, refusal, crash and failed transaction.

And it shows why output that may be copied as authoritative is exact.  `TrustedOutputIsExact` speaks of rows and what was emitted; `OutputInv` adds what
lies between the two:

- `DeliveryInv`: the output events in the FIFO are pieces of what their command emitted, in
  its order, and begin where the stored bytes end or later (`Delivers`, with the places of
  the pieces as a witness);
- `HonestyInv`: a queued event or a row that claims exclusive and complete output belongs to a
  command that no producer can add to any more, has no gap, and counts all its bytes;
- `RunningInv`, `PendingInv`, `UnusedInv`: the running record counts what was emitted and notes what
  is missing or not plain text; a pending record claims nothing; an unused id emitted nothing;
- `ClosedInv`, `ConfirmInv`: in which order claims are made.  Closed output stays closed in
  every later event, and a `finalized` event repeats the `finished` event before it, so that it
  cannot give an ended row a trust that the first one did not.

`OutputInvariant` proves it inductive; `TrustedIsExact`, `EndedAreStable` and `JournalInvariant`
follow (`PendingMakesNoClaim` is a part of the last one).

`CommandJournalAgreement`, from the same: why tables and memory agree while nothing has
failed.  `LiveInv` is about which command runs: what the tables show as running, or a queued
event will start, and no queued event ends, is the active command (`RunsInv`); a
transaction at the gate finds that command (`GateInv`), and leaves all ended rows behind
(`AgeInv`).  With the visibility invariants it is inductive and gives `ClearLeavesLive`.
`AgreementInv` is about the records: the row of a command together with the events that wait in
the FIFO is what memory holds of it.  For the counts that needs a witness again
(`TallyInv`: the total after each queued event), for state, mode and output the last event that
says something of them (`AgreeInv`).  It is relative to `LiveInv` and `OutputInv`; with an empty
FIFO it is `HistoryAgreesWithJournal` (`HistoryAgrees`).

`StreamManagerProofs`, from `ManagerAssumption` and `OpenAssumption` (ring, window
and packet sizes are positive): the invariant `Inv` adds to the two properties of the run
`manager` the type invariant and `ModeFollowsClient`.  It is inductive only as a whole: the
bound on what is in flight needs that a disconnection forgets it and that a connected ring
never overwrites, and that no goroutine sleeps through its work needs the bounds.  There is
a lemma for each of the three groups of steps (`GoroutinesKeep`, `CallsKeep`,
`AnswersKeep`) and one for the ring under a new window (`WindowSet`).  The theorems
`ManagerTypeCorrect`, `NoLostSignal` and `NoLostWriter` follow.

`JobStreamProofs`, from `ManagerAssumption`, `ReaderAssumption` and `StreamsAssumption` (sizes and
windows are positive, there is at least one stream): the whole path of a durable session's
output, for any number of reconnections.  The first step is that the remote end is a
`StreamManager` (`RemoteEndIsStreamManager`): the theorems above then hold of it here and
are used through an instance (`RemoteInv`).  None of the other properties is inductive;
what they need about everything in flight is in `IInv`:

- `IdsInv`, `RestartInv`: which stream is where.  The remote end knows the streams up to
  `streamId`; the call, its handler and the restart that made it are about the same
  stream and the same position, or the handler's answer is lost.
- `CorkedInv`, `PacketsInv`, `BoundsInv`: a stream that was never connected has received
  nothing; a packet in flight or set aside lies within what was written, and a terminal one
  ends it; the reader of the connected stream and its acknowledgements are not ahead of the
  process, those of a stream that is being prepared not ahead of the position in its call.
- `LoopsInv`, `ContiguityInv`: what a loop holds between reading and storing goes with what the
  reader holds; `OutputIsContiguous` is its part about running loops.
- `HeadInv`, `DroppedInv`: the head that a call answers is not past the ring's head when
  the client connects, and is the head as long as there is room in the ring, because a ring
  without a client moves its head only when it overwrites (`RestartResumesAtHead`); and what has left the ring is behind the
  reader (`NothingDroppedUnreceived`).
- `AcksInv`, `FlowInv`, `SenderInv`: flow control.  All positions on their way to a reader
  (`Coming`) lie below the position of its next byte to be read plus the window or, when it waits
  for bytes that were overwritten, within one window further on.  This bounds what it
  holds, together with the fact that packets on their way do not overlap
  (`AsideFits`); the sender keeps it because an acknowledgement, however old, promises
  no more than the reader has room for now (`UnreadGrows`).
- `TerminalInv`: the end is sent after everything else, so that a loop that read an "eof"
  has all there was.

`ReaderStep` says in one lemma what a step does to a reader, and the invariants are preserved
by way of it.  `processOOOPackets` is a function from the number of turns to a reader.  That
there is such a function for every number is shown with the least number that has none
(`Iterates`), and what every turn (`ProcessOne`) keeps, the whole keeps (`Drains`): the bytes
follow on those that came before, and nothing is taken that was not set aside.  `Invariance` puts
the parts together and `StreamIsSound` follows as well.

`OneStreamIsByteStream` is the refinement of `ByteStream`, under the condition that there is one
stream, as the abstract specification speaks of one.  The mapping is the identity on what was
written and on the end, and the positions of the stored bytes.  `OneInv` adds to `IInv` that
everything stored is in its place and that the open stream goes on right after it; a
`LoopStores` is then a `Store`, `LoopEnds` an `End`, `WriteByte` a `Write`, and the rest stutters.
TLC finds `IInv` and `OneInv` invariant on the constants of the runs `one` and `reconnect`
(`MCJobStream` extends the module of the proofs for this).  The proof corrected `TypeOK`,
which had allowed the main server only positions in the output.  With three streams or more
it may ask for one beyond the end: bytes that an old loop appends after `RestartStats` are
counted twice, in the size of the file and in the gap, and the next restart goes by the
size.  The manager refuses such a position (`PrepareConsumes`), so that no such stream is
ever connected.

`SnapApplyProofs`, from `BlocksAssumption` (finitely many blocks) and `BoundsAssumption`.  The
properties say what the application deletes and leaves; the invariant `Inv` says of every
block where it can still be.  `Known`: a block has been born before anything knows it;
`WaitingAreApart`: one that waits to be inserted is nowhere else, so it cannot return as a
pane the application is about to delete; `CreatedAreApart`: what the application made is
Snap's, was not there before, and is in nobody else's reach until it is shown;
`ReclaimIsSafe`, `Accounted` and `SlotsAreCounted` follow the removal, the two ways back and
the arithmetic of the slots.  The theorems are `TypeCorrect`, `CreatedTerminalsSurvive`,
`TouchedPanesAreKept`, `NothingLeaksSilently`, `CommitsCoverThePreset` and
`OnlyFillersAreDeleted`.

`TermIngressProofs`, from no assumption but the bounds'.  A step of a pane is the rest of an
asynchronous function, and that rest may call another one; so every lemma says what one such
function keeps, and the functions are gone through four times:

- `Keeps`, which is transitive, whatever the pane has become: the rest of a function does not
  touch the screen or the clears, and of a disposed pane not the offset.  With it `Safe` is
  inductive, and `ClearIsUndisturbed` and `DisposedStaysFinal` follow; so does
  `ClearsAreAccounted`, as no continuation but the clear's own touches what it counts.
- `Awake`: `HeldIsDrained` needs, besides itself, that the generations of pane and drain agree
  while there was no truncation, which holds because nothing but a truncation puts a reset
  into the lane (`NoReset`, `OnlyAppends`).  Together `Watchful`, and `NothingIsForgotten` follows.
- `Sound`: the types are not inductive without `DrainOk`.  A drain takes the head of its
  batch after an await, and that it is still there needs that the drain waits for one read
  or one slot only, however often it was asked for.
- `Flow`: `ScreenIsPrefix` holds because, while the file keeps its origin, only one of
  `initTerminal` and the drain is at work (`Actor`, `Turn`), it waits for one read or one slot
  (`Pending`), and what it waits for begins at the offset and has the length that the new
  offset says (`Follows`, `ReadOk`, `SlotOk`), the offset being the length of what is shown
  as long as no mark was written from its notification (`InOrder`).  No step checks
  this again: the slot of a write trusts the offset that was read before the await.

`IngressIInv` is their conjunction; `IngressInvariant` and `ScreenStaysPrefix` follow.

`WindowTabsProofs`, from `WorkspaceAssumption` (every workspace opens with a tab; the ids of tabs
are none of the replies `error` and `closewindow`) and `WindowBoundsAssumption`.  The parts of
the invariant are operators on the main process and the database, and the lemmas come in
two groups: what the loop of the queue does, which leaves the views alone (`LoopHeadIs`,
`QueueActionIs`, `TurnKeeps`), and what the views do, which leaves the loop alone (`Loses`: every
removal, eviction and late event only closes views and drops entries).  `WindowInv` and the two
properties of the run `windows` are not inductive.  `TabsInv` adds:

- `CallsOk`: a call that waits for a view has a tab, and only a close is answered with
  `closewindow`;
- `OwnViews`: a cached view is alive and its tab's own, and a view not yet made is nobody's; with
  it an eviction never takes the view that was made in the same step;
- `ShownLive`: as `ShownIsLive`, for every state of the calls;
- `Agrees`, while nothing but requests has happened: how far each stage of a call has come with
  what the server said.  Before the call and after the view is ready, window and server
  agree; in between the call carries the tab and the workspace they will agree on
  (`CallAgrees`).  An entry that is shown without the server is only ever the first one.

`TabsInvariant` proves it inductive, with one lemma per action; `WindowInvariant`,
`ShownTabIsActive` and `ShownViewIsLive` follow.  TLC finds `TabsInv` invariant as well, on the
constants of the run (`MCWindowTabs` extends the module of the proofs for this).

`VisualAnchorProofs`, from `BoundsAssumption`, `ProducerAssumption` (every command has a known
producer) and `EpochAssumption`.  `AnchorInv` says of which values a view consists on its
screen (`Views`: an anchor is the frame at its line, a binding one whose line shows its
command's own frame, so that `BindingsMatch` is a matter of types) and that they fit
together:

- `Fit`: a nonce has one entry in each map and is not both waiting and bound; what is kept has its
  cue, and a cue its live marker; a cue that waits was not announced; what is paired is of
  the session that is served and what is parked is not (`SessionServed`);
- `Told`: the rail holds the bound nonces.  It is told when a binding's cue is announced, so
  an eviction must not come between, and a cue that was announced must never wait again;
- `Small` and `FewTombstones`: the bounds of the maps.

While a mark is registered it has an entry but no cue: the operators of the registry are shown
to keep `Fit(v, N)`, with the nonce of that mark in `N`, and `registerVisualAnchor` closes the gap
(`RegisterFits`).  Every lemma also says that the markers without a cue (`Loose`) become no
more, except by a repeated mark whose nonce the registry has forgotten.  The folds over maps
(`rejectAll`, `disposeAll`, `adopt`, `unpark`, `ConfirmAll`) are the same argument each time: the recursion
by which the community modules define a fold has a typed solution (`FoldExists`), and what
each position keeps, the whole keeps (`Along`).  `NextFits` puts the actions together;
`RegistryIsSound`, `BindingsAreProven`, `NoMarkerIsLost` and
`SessionsAreReplacedByConfirmations` follow.  TLC finds `AnchorInv` invariant as well
(`MCVisualAnchor` extends the module of the proofs for this).

Two forms recur where an induction seems called for.  A claim about the bytes or counts along a
FIFO is stated with a function as a witness (`Delivers`, `Tallies`), which each step extends
or shortens at one end.  And the first index with a property, which the community modules
define by `CHOOSE`, is the least element of a set of numbers, from the well-foundedness of
`<` (`LeastIndex`).

Only model-checked: the properties of `LayoutModel`, whose operators are recursive, and
`RegionIsOwnWhenMarked`, for which one would have to follow every line that began through
replaced cues and parked marks.  Liveness (`TransactionsEnd`,
`RunningLoopReachesEnd`, `ApplyEnds`, `OutputArrives`) is beyond the prover, and so is what a
recursion computes for every input: that `ProcessOoo` takes up all the packets it can, the
balancing of a tree.

## Limits

Journal: several journals for one block, SQLite errors on the reads at attachment, a
journal without a store, power loss that undoes a committed transaction.

Durable sessions: faults and the write-back cache of the file store (an append is stored
when it returns), the exit report and the termination of the manager, input, undecodable
packets (data is base64 by construction), the limit of one refusal per second and stream,
route events that arrive before a reconnection has looked, and the moment between
`PrepareConnect`'s test for a finished stream and the disconnection of the old client,
which are one step.  A byte consumed and the head read again in `ClientConnected` are one
step too.

Layout: pixels and sizes, the resizing by mouse, persistence.  Outside of the properties
are: deleting the only pane leaves the focus on it; `replaceNode` leaves the old id in the
focus stack; a pending action whose parent a batch has dissolved may throw in its lookup;
an ephemeral pane asked for by the backend before the tab was mounted throws.

Ingress: search, links, selection, resize, the serialised cache (which is read, but in
practice hardly ever written) and the renderer.  Seen in the model and outside of the
properties: a truncation or a failed read while the pane drains during its opening can
leave it in that state for good; a write of the old origin sets the offset of the new one; a
truncation during the load skips content.

Anchors: the registry of the server beyond what it publishes, its resync, epochs within
one session.

Windows: the menus, quitting, relaunching, placement on screen, other windows beyond the
workspaces they own.  Seen and outside of the properties: the late event of a destroyed view
removes whatever view its tab has by then from the cache (`src/emain/emain-tabview.ts:165`),
after which the tab can get a second one; a view made while the window closes stays in the
cache; the removal timer of a tab that is shown again leaves its view loaded; a switch of
tabs that was queued for another workspace makes that workspace's tab active
(`src/pkg/wcore/workspace.go:379`).  `ShownIsLive` excludes failures
(`counts.failures = 0`), and with them this: when the config cannot be read after a switch of
workspace, the views of the old one are destroyed already and the window goes on showing
one of them.  Left out of the model: a workspace that has lost both its window and its tabs
(deleting the last tab of a workspace without a window, or switching to such a workspace).

Further hazards of the code that no module covers: the timeout of the reorder queue, a
controller that is replaced before it is stopped, the gap mark of the output observer
behind items seen after the gap, route-up events of the job controller, a failed flush of
the file store, `Stop` of the shell controller writing its status over a newer one.

The share of the repository that is modelled is small, because most of its lines are user
interface, settings and transformations of data.  What is modelled is where state is shared
across awaits, processes or restarts.
