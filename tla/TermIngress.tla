---------------------------- MODULE TermIngress ----------------------------
(***************************************************************************)
(* How the output of a block reaches the screen of its pane (termwrap.ts,   *)
(* terminal-ingress.ts).  The backend appends to the block's file and sends *)
(* an event for each append; the pane takes an event as a notification only *)
(* and reads the bytes after its own offset from the file.  Every change of *)
(* the screen takes its turn in one presentation lane.                      *)
(*                                                                         *)
(* The file is a sequence of chunks, each with an id; some are the mark of  *)
(* a command.  What the code runs until its next await is one step.         *)
(***************************************************************************)
EXTENDS Integers, Sequences, SequencesExt

CONSTANTS
  MaxChunks,     \* bound: chunks the backend writes
  MaxTruncates,  \* bound: truncations
  MaxFailures,   \* bound: reads that fail
  MaxClears,     \* bound: product clears
  Marked         \* the chunks that are a command's mark

ASSUME BoundsAssumption == {MaxChunks, MaxTruncates, MaxFailures, MaxClears} \subseteq Nat

VARIABLES
  file,     \* the block's file
  cache,    \* the file of the saved screen, a prefix of what the file was then
  events,   \* file events on their way to the pane
  journal,  \* clears the journal has committed, and those it still may with no one waiting
  pane,     \* TermWrap
  counts    \* chunks, truncations, failures, clears, and clears whose call threw

vars == <<file, cache, events, journal, pane, counts>>

Owners == {"init", "drain"}
NoRead == [stage |-> "none", from |-> 0, data |-> <<>>, size |-> 0]
IdleDrain == [on |-> FALSE, gen |-> 0, batch |-> <<>>, covered |-> {}]
NewPane ==
  [state |-> "loading", gen |-> 0, offset |-> 0, held |-> <<>>, screen |-> <<>>,
   lane |-> <<>>, init |-> "cache", drain |-> IdleDrain, clearing |-> "none", cleared |-> 0,
   read |-> [o \in Owners |-> NoRead]]

Fresh(ids) == [i \in DOMAIN ids |-> [id |-> ids[i], again |-> FALSE]]
Marks(ids) == ToSet(ids) \cap Marked

-----------------------------------------------------------------------------
(* What runs in the pane between two awaits; p is the pane. *)

\* isIngressCurrent
isIngressCurrent(p, gen) == p.gen = gen /\ p.state # "disposed"

\* runInPresentationLane
runInPresentationLane(p, operation) == [p EXCEPT !.lane = Append(@, operation)]

doTerminalWrite(p, by, ids, to) ==
  runInPresentationLane(p, [op |-> "bytes", by |-> by, data |-> ids, to |-> to])

fetchWaveFile(p, owner, from) ==
  [p EXCEPT !.read[owner] = [NoRead EXCEPT !.stage = "asked", !.from = from]]

\* The end of initTerminal; an error leaves a pane that drains as it is.
InitReturns(p) ==
  [p EXCEPT !.init = "done", !.state = IF isIngressCurrent(p, 0) THEN "live" ELSE @]
InitThrows(p) ==
  [p EXCEPT !.init = "done",
            !.state = IF isIngressCurrent(p, 0) /\ @ = "loading" THEN "live" ELSE @]

\* The end of a drain, which initTerminal may be waiting for.
DrainReturns(p) ==
  LET q == [p EXCEPT !.drain = IdleDrain]
  IN  CASE q.init = "drain1" /\ isIngressCurrent(q, 0) ->
             fetchWaveFile([q EXCEPT !.init = "catch2"], "init", q.offset)
        [] q.init = "drain2" \/ (q.init = "drain1" /\ ~isIngressCurrent(q, 0)) -> InitReturns(q)
        [] OTHER -> q
DrainThrows(p) ==
  LET q == [p EXCEPT !.drain = IdleDrain, !.held = p.drain.batch \o @]
  IN  IF q.init \in {"drain1", "drain2"} THEN InitThrows(q) ELSE q

\* drainTerminalIngress, from the head of its loops: each notification has the file
\* read once more.
drainTerminalIngress(p) ==
  LET q == IF p.drain.batch = <<>> THEN [p EXCEPT !.drain.batch = p.held, !.held = <<>>] ELSE p
  IN  IF isIngressCurrent(p, p.drain.gen) /\ q.drain.batch # <<>>
      THEN fetchWaveFile(q, "drain", q.offset)
      ELSE DrainReturns(p)

\* drainHeldData: one drain at a time, a second caller waits for the first.
drainHeldData(p, gen) ==
  IF p.drain.on THEN p
  ELSE drainTerminalIngress(
         [p EXCEPT !.drain = [on |-> TRUE, gen |-> gen, batch |-> <<>>, covered |-> {}]])

\* Mutant: what came while a batch was drained is left for later.
replayMissingAnchorsOnce(p, written) ==
  LET covered == p.drain.covered \cup Marks(written)
      q == [p EXCEPT !.drain.covered = covered, !.drain.batch = Tail(@)]
      chunk == Head(p.drain.batch)
  IN  CASE ~isIngressCurrent(p, p.drain.gen) -> DrainReturns(p)
        [] isIngressCurrent(p, p.drain.gen) /\ chunk \in Marked \ covered ->
             runInPresentationLane([q EXCEPT !.drain.batch = p.drain.batch,
                                             !.drain.covered = @ \cup {chunk}],
               [op |-> "frame", by |-> "drain", data |-> <<chunk>>, to |-> 0])
        [] OTHER -> IF q.drain.batch = <<>> THEN DrainReturns(q) ELSE drainTerminalIngress(q)

\* replayMissingAnchors: a mark that no read of this drain has covered is written from
\* its notification, and moves the offset.
replayMissingAnchors(p, written) ==
  LET covered == p.drain.covered \cup Marks(written)
      q == [p EXCEPT !.drain.covered = covered]
      chunk == Head(p.drain.batch)
  IN  CASE ~isIngressCurrent(p, p.drain.gen) -> DrainReturns(p)
        [] isIngressCurrent(p, p.drain.gen) /\ chunk \in Marked \ covered ->
             runInPresentationLane([q EXCEPT !.drain.covered = @ \cup {chunk}],
               [op |-> "frame", by |-> "drain", data |-> <<chunk>>, to |-> 0])
        [] OTHER -> drainTerminalIngress([q EXCEPT !.drain.batch = Tail(@)])

\* What initTerminal does after each of its own reads of the file.
AfterCatchUp(p) ==
  drainHeldData([p EXCEPT !.init = IF @ = "catch1" THEN "drain1" ELSE "drain2"], 0)

CatchUpReturns(p, owner, written) ==
  IF owner = "init" THEN AfterCatchUp(p) ELSE replayMissingAnchors(p, written)

\* Mutant: the offset stays where it was.
catchUpTerminalFileStaying(p, owner, answer) ==
  doTerminalWrite(p, owner, answer.data, p.offset)

\* catchUpTerminalFile, once its read has been answered.
catchUpTerminalFile(p, owner, answer) ==
  LET gen == IF owner = "init" THEN 0 ELSE p.drain.gen
  IN  CASE ~isIngressCurrent(p, gen) \/ answer.size < p.offset -> CatchUpReturns(p, owner, <<>>)
        [] isIngressCurrent(p, gen) /\ answer.size >= p.offset /\ answer.data # <<>> ->
             doTerminalWrite(p, owner, answer.data, answer.size)
        [] OTHER -> CatchUpReturns([p EXCEPT !.offset = answer.size], owner, <<>>)

\* loadInitialTerminalData, after the read of the saved screen and of the file.
loadInitialTerminalData(p, answer) ==
  CASE ~isIngressCurrent(p, 0) -> InitReturns(p)
    [] isIngressCurrent(p, 0) /\ p.init = "main" ->
         doTerminalWrite([p EXCEPT !.init = "mainwrite"], "init", answer.data, answer.size)
    [] isIngressCurrent(p, 0) /\ p.init = "cache" /\ answer.data = <<>> ->
         fetchWaveFile([p EXCEPT !.init = "main"], "init", 0)
    [] OTHER ->
         doTerminalWrite([p EXCEPT !.init = "cachewrite"], "init", answer.data, answer.size)

\* A lane write is done: its caller goes on.
WriteReturns(p, operation) ==
  CASE operation.by = "drain" -> 
         IF operation.op = "bytes" THEN replayMissingAnchors(p, operation.data)
         ELSE drainTerminalIngress([p EXCEPT !.drain.batch = Tail(@)])
    [] operation.by = "init" /\ p.init = "cachewrite" ->
         fetchWaveFile([p EXCEPT !.init = "main"], "init", operation.to)
    [] operation.by = "init" /\ p.init = "mainwrite" ->
         IF ~isIngressCurrent(p, 0) THEN InitReturns(p)
         ELSE fetchWaveFile([p EXCEPT !.init = "catch1", !.state = "draining"], "init", p.offset)
    [] OTHER -> AfterCatchUp(p)

\* resetTerminalFileOrigin, in its slot.
resetTerminalFileOrigin(p) ==
  [p EXCEPT !.screen = <<>>, !.gen = @ + 1, !.held = <<>>,
            !.state = IF @ = "loading" THEN "live" ELSE @]

\* The slot of a write, and what its caller does then.  A disposed pane shows nothing.
Written(p, operation) ==
  LET shown == [i \in DOMAIN operation.data |->
                  [id |-> operation.data[i], again |-> operation.op = "frame"]]
  IN  [p EXCEPT !.screen = @ \o shown,
                !.offset = IF operation.op = "frame" THEN @ + 1 ELSE operation.to]

-----------------------------------------------------------------------------
Init ==
  /\ \E written \in 0..1, saved \in 0..1 :
       /\ saved <= written /\ written <= MaxChunks
       /\ file = [i \in 1..written |-> i]
       /\ cache = [i \in 1..saved |-> i]
       /\ counts = [chunks |-> written, truncates |-> 0, failures |-> 0, clears |-> 0, thrown |-> 0]
  /\ events = <<>>
  /\ journal = [committed |-> 0, late |-> 0]
  /\ pane = fetchWaveFile(NewPane, "init", 0)

Event(op, id) == [op |-> op, id |-> id]

\* HandleAppendBlockFile: append, then publish.
HandleAppendBlockFile ==
  /\ counts.chunks < MaxChunks
  /\ counts' = [counts EXCEPT !.chunks = @ + 1]
  /\ file' = Append(file, counts.chunks + 1)
  /\ events' = Append(events, Event("append", counts.chunks + 1))
  /\ UNCHANGED <<cache, journal, pane>>

\* HandleTruncateBlockFile
HandleTruncateBlockFile ==
  /\ counts.truncates < MaxTruncates
  /\ counts' = [counts EXCEPT !.truncates = @ + 1]
  /\ file' = <<>>
  /\ cache' = <<>>
  /\ events' = Append(events, Event("truncate", 0))
  /\ UNCHANGED <<journal, pane>>

\* The file server reads: from an offset to the size it sees, or nothing past it.
ReadServed(owner) ==
  LET r == pane.read[owner]
      source == IF owner = "init" /\ pane.init = "cache" THEN cache ELSE file
  IN  /\ r.stage = "asked"
      /\ pane' = [pane EXCEPT !.read[owner] =
                    [r EXCEPT !.stage = "answered", !.size = Len(source),
                              !.data = SubSeq(source, r.from + 1, Len(source))]]
      /\ UNCHANGED <<file, cache, events, journal, counts>>

\* The answer of a read reaches the pane.
ReadReturns(owner) ==
  LET r == pane.read[owner]
      p == [pane EXCEPT !.read[owner] = NoRead]
  IN  /\ r.stage = "answered"
      /\ pane' = IF owner = "init" /\ p.init \in {"cache", "main"}
                 THEN loadInitialTerminalData(p, r)
                 ELSE catchUpTerminalFile(p, owner, r)
      /\ UNCHANGED <<file, cache, events, journal, counts>>

ReadFails(owner) ==
  LET p == [pane EXCEPT !.read[owner] = NoRead]
  IN  /\ pane.read[owner].stage # "none"
      /\ counts.failures < MaxFailures
      /\ counts' = [counts EXCEPT !.failures = @ + 1]
      /\ pane' = CASE owner = "init" -> InitThrows(p)
                   [] owner = "drain" /\ isIngressCurrent(p, p.drain.gen) -> DrainThrows(p)
                   [] OTHER -> DrainReturns(p)
      /\ UNCHANGED <<file, cache, events, journal>>

\* Mutant: an append is drained together with the next one.
AppendArrivesLazily(p, id) ==
  LET q == [p EXCEPT !.held = Append(@, id)]
  IN  IF p.state = "live" /\ p.held # <<>> THEN drainHeldData(q, q.gen) ELSE q

\* handleNewFileSubjectData
AppendArrives(p, id) ==
  LET q == [p EXCEPT !.held = Append(@, id)]
  IN  IF p.state = "live" THEN drainHeldData(q, q.gen) ELSE q
TruncateArrives(p) ==
  [runInPresentationLane(p, [op |-> "reset", by |-> "none", data |-> <<>>, to |-> 0])
     EXCEPT !.offset = 0]
handleNewFileSubjectData ==
  /\ events # <<>>
  /\ events' = Tail(events)
  /\ pane' = CASE pane.state = "disposed" -> pane
               [] pane.state # "disposed" /\ Head(events).op = "append" ->
                    AppendArrives(pane, Head(events).id)
               [] OTHER -> TruncateArrives(pane)
  /\ UNCHANGED <<file, cache, journal, counts>>

\* Mutant: the lane goes on while a clear waits for the backend.
LaneIsFreeAlways(p) == p.lane # <<>>

\* An operation of the lane ends before the next one begins.
LaneIsFree(p) == p.lane # <<>> /\ p.clearing = "none"

\* Mutant: a slot is not skipped when the pane is gone.
LaneStepAlways ==
  LET operation == Head(pane.lane)
      p == [pane EXCEPT !.lane = Tail(@)]
  IN  /\ LaneIsFree(pane)
      /\ operation.op # "clear"
      /\ pane' = IF operation.op = "reset" THEN resetTerminalFileOrigin(p)
                 ELSE WriteReturns(Written(p, operation), operation)
      /\ UNCHANGED <<file, cache, events, journal, counts>>

\* The next slot of the lane, a write or a reset.
LaneStep ==
  LET operation == Head(pane.lane)
      p == [pane EXCEPT !.lane = Tail(@)]
      disposed == pane.state = "disposed"
  IN  /\ LaneIsFree(pane)
      /\ operation.op # "clear"
      /\ pane' = CASE operation.op = "reset" -> IF disposed THEN p ELSE resetTerminalFileOrigin(p)
                   [] OTHER -> WriteReturns(IF disposed THEN p ELSE Written(p, operation), operation)
      /\ UNCHANGED <<file, cache, events, journal, counts>>

\* clearProductHistory: a button is pressed.  Other buttons may be, meanwhile.
ClearRequested ==
  /\ pane.state # "disposed"
  /\ counts.clears < MaxClears
  /\ counts' = [counts EXCEPT !.clears = @ + 1]
  /\ pane' = runInPresentationLane(pane, [op |-> "clear", by |-> "none", data |-> <<>>, to |-> 0])
  /\ UNCHANGED <<file, cache, events, journal>>

\* withProductClearBoundary: the clear's slot begins; the state of the buffer may refuse it.
ClearBegins ==
  /\ LaneIsFree(pane)
  /\ Head(pane.lane).op = "clear"
  /\ \/ pane' = [pane EXCEPT !.lane = Tail(@)]
     \/ pane.state # "disposed" /\ pane' = [pane EXCEPT !.lane = Tail(@), !.clearing = "asked"]
  /\ UNCHANGED <<file, cache, events, journal, counts>>

\* The journal commits the clear that waits for it; its answer is on the way.
ClearCommits ==
  /\ pane.clearing = "asked"
  /\ journal' = [journal EXCEPT !.committed = @ + 1]
  /\ pane' = [pane EXCEPT !.clearing = "answered"]
  /\ UNCHANGED <<file, cache, events, counts>>

\* The answer arrives: applyProductClear, unless there is no pane left.
ClearReturns ==
  /\ pane.clearing = "answered"
  /\ pane' = [pane EXCEPT !.clearing = "none",
                          !.cleared = IF pane.state = "disposed" THEN @ ELSE @ + 1]
  /\ UNCHANGED <<file, cache, events, journal, counts>>

\* Mutant: the screen is cleared whether or not the call threw.
ClearFailsFinally ==
  /\ pane.clearing # "none"
  /\ counts.failures < MaxFailures
  /\ counts' = [counts EXCEPT !.failures = @ + 1, !.thrown = @ + 1]
  /\ pane' = [pane EXCEPT !.clearing = "none", !.cleared = @ + 1]
  /\ UNCHANGED <<file, cache, events, journal>>

\* The call throws.  The transaction failed, or the server gave up waiting and may still
\* commit (its handler ignores the context), or it has committed and the answer is lost.
ClearFails ==
  /\ pane.clearing # "none"
  /\ counts.failures < MaxFailures
  /\ counts' = [counts EXCEPT !.failures = @ + 1, !.thrown = @ + 1]
  /\ \/ UNCHANGED journal
     \/ pane.clearing = "asked" /\ journal' = [journal EXCEPT !.late = @ + 1]
  /\ pane' = [pane EXCEPT !.clearing = "none"]
  /\ UNCHANGED <<file, cache, events>>

\* A clear that no one waits for any more is committed.
LateClear ==
  /\ journal.late > 0
  /\ journal' = [committed |-> journal.committed + 1, late |-> journal.late - 1]
  /\ UNCHANGED <<file, cache, events, pane, counts>>

dispose ==
  /\ pane.state # "disposed"
  /\ pane' = [pane EXCEPT !.state = "disposed", !.gen = @ + 1, !.held = <<>>]
  /\ UNCHANGED <<file, cache, events, journal, counts>>

Runs ==
  \/ handleNewFileSubjectData \/ LaneStep \/ ClearBegins \/ ClearCommits \/ ClearReturns
  \/ \E owner \in Owners : ReadServed(owner) \/ ReadReturns(owner)

Next ==
  \/ Runs
  \/ HandleAppendBlockFile \/ HandleTruncateBlockFile \/ ClearRequested \/ ClearFails
  \/ LateClear \/ dispose
  \/ \E owner \in Owners : ReadFails(owner)

Spec == Init /\ [][Next]_vars

\* Reads are answered, events delivered, and xterm and the journal answer.
Fairness ==
  /\ WF_vars(handleNewFileSubjectData) /\ WF_vars(LaneStep)
  /\ WF_vars(ClearBegins) /\ WF_vars(ClearCommits \/ ClearReturns \/ ClearFails)
  /\ \A owner \in Owners : WF_vars(ReadServed(owner)) /\ WF_vars(ReadReturns(owner))

LiveSpec == Spec /\ Fairness

-----------------------------------------------------------------------------
Ids == 1..MaxChunks
Events == [op : {"append"}, id : Ids] \cup [op : {"truncate"}, id : {0}]

Reads == [stage : {"none", "asked", "answered"}, from : Nat, data : Seq(Ids), size : Nat]
Drains == [on : BOOLEAN, gen : Nat, batch : Seq(Ids), covered : SUBSET Ids]
Operations == [op : {"bytes", "frame", "reset", "clear"}, by : Owners \cup {"none"},
               data : Seq(Ids), to : Nat]

Panes ==
  [state : {"loading", "draining", "live", "disposed"}, gen : Nat, offset : Nat,
   held : Seq(Ids), screen : Seq([id : Ids, again : BOOLEAN]), lane : Seq(Operations),
   init : {"cache", "cachewrite", "main", "mainwrite", "catch1", "drain1", "catch2", "drain2", "done"},
   drain : Drains, clearing : {"none", "asked", "answered"}, cleared : Nat, read : [Owners -> Reads]]

TypeOK ==
  /\ file \in Seq(Ids) /\ cache \in Seq(Ids) /\ events \in Seq(Events) 
  /\ journal \in [committed : Nat, late : Nat]
  /\ pane \in Panes
  /\ counts \in [chunks : 0..MaxChunks, truncates : 0..MaxTruncates,
                 failures : 0..MaxFailures, clears : 0..MaxClears, thrown : Nat]

Shown == SelectSeq(pane.screen, LAMBDA c : ~c.again)
ShownIds == [i \in DOMAIN Shown |-> Shown[i].id]

OneOrigin == counts.truncates = 0
Unreplayed == \A i \in DOMAIN pane.screen : ~pane.screen[i].again

\* While the file keeps its origin, no chunk is read onto the screen twice and none
\* before an earlier one, and unless a mark was written from its notification none is
\* left out, whatever fails or races (catchUpTerminalFile, ingressDrainPromise).
ScreenIsPrefix ==
  OneOrigin =>
    /\ \A i, j \in DOMAIN pane.screen :
         i < j /\ ~pane.screen[i].again /\ ~pane.screen[j].again =>
           pane.screen[i].id < pane.screen[j].id
    /\ Unreplayed => IsPrefix([i \in DOMAIN pane.screen |-> pane.screen[i].id], file)

\* Nothing has happened that the reads are not made for.
Undisturbed == OneOrigin /\ Unreplayed /\ counts.failures = 0 /\ pane.state # "disposed"

\* A live pane that holds a notification has a drain that will look at it.
HeldIsDrained ==
  OneOrigin /\ counts.failures = 0 /\ pane.state = "live" /\ pane.held # <<>> => pane.drain.on

IngressInv == TypeOK /\ HeldIsDrained

\* A clear whose answer has not reached the pane.
Unapplied == IF pane.clearing = "answered" THEN 1 ELSE 0

\* The screen never hides what the journal still shows, and where the journal has hidden,
\* or may yet hide, more than the screen, an answer is on its way or a call has thrown
\* (clearProductHistory).
ClearsAccounted ==
  /\ pane.cleared + Unapplied <= journal.committed
  /\ pane.state # "disposed" =>
       journal.committed + journal.late <= pane.cleared + Unapplied + counts.thrown

\* While a clear waits for the journal nothing is shown, reset or cleared, so it removes
\* the buffer it was prepared for (withProductClearBoundary).
ClearIsAlone ==
  [][pane.clearing # "none" =>
       /\ pane'.screen = pane.screen
       /\ pane'.cleared # pane.cleared => pane.clearing = "answered" /\ pane'.clearing = "none"]_vars

\* A disposed pane is never shown, moved or revived by what was on its way.
DisposedIsFinal ==
  [][pane.state = "disposed" =>
       /\ pane'.state = "disposed" /\ pane'.screen = pane.screen /\ pane'.offset = pane.offset
       /\ pane'.held = pane.held /\ pane'.cleared = pane.cleared]_vars

\* Undisturbed, all output is shown in the end, whether its event came before, during
\* or after the initial load.
OutputArrives == []Undisturbed => <>[](ShownIds = file)

\* "the authoritative suffix from the terminal file" is shown whatever marks it holds
\* (terminal-ingress.ts).
SuffixIsShown ==
  [](counts.truncates = 0 /\ counts.failures = 0 /\ pane.state # "disposed")
    => <>[](ToSet(file) \subseteq ToSet(ShownIds))

=============================================================================
