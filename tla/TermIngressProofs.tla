------------------------- MODULE TermIngressProofs -------------------------
(***************************************************************************)
(* What holds of a pane however its reads, its writes, the events and the   *)
(* clears are interleaved.  Almost every step of a pane is the rest of an   *)
(* asynchronous function after one of its awaits, so the lemmas say what    *)
(* each such rest keeps: what it leaves alone, that no notification is      *)
(* forgotten, the types, and, while the file keeps its origin, that what is *)
(* under way continues the screen.                                          *)
(***************************************************************************)
EXTENDS TermIngress, SequenceTheorems, TLAPS

\* A pane has the fields of one.
Fields == {"state", "gen", "offset", "held", "screen", "lane", "init", "drain", "clearing",
           "cleared", "read"}
IsPane(p) == p = [field \in Fields |-> p[field]]

Disposed(p) == p.state = "disposed"

\* What the rest of an asynchronous function leaves alone: the screen and the
\* clears, and of a disposed pane everything that was shown or held.
Keeps(p, q) ==
  /\ IsPane(q)
  /\ q.screen = p.screen /\ q.clearing = p.clearing /\ q.cleared = p.cleared
  /\ Disposed(q) <=> Disposed(p)
  /\ Disposed(p) /\ p.held = <<>> => q.offset = p.offset /\ q.held = <<>>

\* Keeping is transitive: the rest of a function may call another one.
LEMMA KeepsOn ==
  ASSUME NEW p, NEW q, NEW r, Keeps(p, q), Keeps(q, r)
  PROVE  Keeps(p, r)
  BY DEF Keeps

LEMMA FetchKeeps ==
  ASSUME NEW p, IsPane(p), NEW owner, NEW from
  PROVE  Keeps(p, fetchWaveFile(p, owner, from))
  BY DEF IsPane, Fields, Keeps, Disposed, fetchWaveFile

LEMMA LaneKeeps ==
  ASSUME NEW p, IsPane(p), NEW operation
  PROVE  Keeps(p, runInPresentationLane(p, operation))
  BY DEF IsPane, Fields, Keeps, Disposed, runInPresentationLane

LEMMA InitEndKeeps ==
  ASSUME NEW p, IsPane(p)
  PROVE  Keeps(p, InitReturns(p)) /\ Keeps(p, InitThrows(p))
<1>1. ASSUME NEW state, state = "disposed" <=> Disposed(p)
      PROVE  Keeps(p, [p EXCEPT !.init = "done", !.state = state])
  BY <1>1 DEF IsPane, Fields, Keeps, Disposed
<1>2. Keeps(p, InitReturns(p))
  <2> DEFINE s == IF isIngressCurrent(p, 0) THEN "live" ELSE p.state
  <2>1. s = "disposed" <=> Disposed(p)
    BY DEF isIngressCurrent, Disposed
  <2> HIDE DEF s
  <2>2. Keeps(p, [p EXCEPT !.init = "done", !.state = s])
    BY <1>1, <2>1
  <2>. QED BY <2>2 DEF InitReturns, s
<1>3. Keeps(p, InitThrows(p))
  <2> DEFINE s == IF isIngressCurrent(p, 0) /\ p.state = "loading" THEN "live" ELSE p.state
  <2>1. s = "disposed" <=> Disposed(p)
    BY DEF isIngressCurrent, Disposed
  <2> HIDE DEF s
  <2>2. Keeps(p, [p EXCEPT !.init = "done", !.state = s])
    BY <1>1, <2>1
  <2>. QED BY <2>2 DEF InitThrows, s
<1>. QED BY <1>2, <1>3

LEMMA DrainReturnsKeeps ==
  ASSUME NEW p, IsPane(p)
  PROVE  Keeps(p, DrainReturns(p))
<1> DEFINE q == [p EXCEPT !.drain = IdleDrain]
           r == [q EXCEPT !.init = "catch2"]
<1>1. Keeps(p, q) /\ Keeps(p, r)
  BY DEF IsPane, Fields, Keeps, Disposed
<1>2. IsPane(q) /\ IsPane(r)
  BY <1>1 DEF Keeps
<1>3. Keeps(p, InitReturns(q)) /\ Keeps(p, fetchWaveFile(r, "init", q.offset))
  BY <1>1, <1>2, InitEndKeeps, FetchKeeps, KeepsOn
<1> HIDE DEF q, r
<1>. QED BY <1>1, <1>3 DEF DrainReturns, q, r

LEMMA DrainKeeps ==
  ASSUME NEW p, IsPane(p)
  PROVE  Keeps(p, drainTerminalIngress(p))
<1> DEFINE q == IF p.drain.batch = <<>> THEN [p EXCEPT !.drain.batch = p.held, !.held = <<>>]
                ELSE p
<1>1. CASE ~isIngressCurrent(p, p.drain.gen)
  BY <1>1, DrainReturnsKeeps DEF drainTerminalIngress
<1>2. CASE isIngressCurrent(p, p.drain.gen)
  <2>1. Keeps(p, q)
    BY <1>2 DEF IsPane, Fields, Keeps, Disposed, isIngressCurrent
  <2>2. Keeps(p, fetchWaveFile(q, "drain", q.offset))
    <3> HIDE DEF q
    <3>. QED BY <2>1, FetchKeeps, KeepsOn DEF Keeps
  <2> HIDE DEF q
  <2>. QED BY <1>2, <2>2, DrainReturnsKeeps DEF drainTerminalIngress, q
<1>. QED BY <1>1, <1>2

LEMMA HeldDataKeeps ==
  ASSUME NEW p, IsPane(p), NEW gen
  PROVE  Keeps(p, drainHeldData(p, gen))
<1> DEFINE q == [p EXCEPT !.drain = [on |-> TRUE, gen |-> gen, batch |-> <<>>, covered |-> {}]]
<1>1. Keeps(p, p) /\ Keeps(p, q)
  BY DEF IsPane, Fields, Keeps, Disposed
<1> HIDE DEF q
<1>2. Keeps(p, drainTerminalIngress(q))
  BY <1>1, DrainKeeps, KeepsOn DEF Keeps
<1>. QED BY <1>1, <1>2 DEF drainHeldData, q

LEMMA ReplayKeeps ==
  ASSUME NEW p, IsPane(p), NEW written
  PROVE  Keeps(p, replayMissingAnchors(p, written))
<1> DEFINE covered == p.drain.covered \cup Marks(written)
           q == [p EXCEPT !.drain.covered = covered]
           chunk == Head(p.drain.batch)
           frame == [op |-> "frame", by |-> "drain", data |-> <<chunk>>, to |-> 0]
           marked == [q EXCEPT !.drain.covered = @ \cup {chunk}]
           rest == [q EXCEPT !.drain.batch = Tail(@)]
<1> HIDE DEF covered
<1>1. Keeps(p, q)
  BY DEF IsPane, Fields, Keeps, Disposed
<1> HIDE DEF q, chunk
<1>2. Keeps(q, marked) /\ Keeps(q, rest)
  BY <1>1 DEF IsPane, Fields, Keeps, Disposed
<1> HIDE DEF frame, marked, rest
<1>3. Keeps(p, runInPresentationLane(marked, frame)) /\ Keeps(p, drainTerminalIngress(rest))
  BY <1>1, <1>2, LaneKeeps, DrainKeeps, KeepsOn DEF Keeps
<1>. QED
  BY <1>3, DrainReturnsKeeps
     DEF replayMissingAnchors, covered, q, chunk, frame, marked, rest

LEMMA CatchUpEndKeeps ==
  ASSUME NEW p, IsPane(p), NEW owner, NEW written
  PROVE  Keeps(p, AfterCatchUp(p)) /\ Keeps(p, CatchUpReturns(p, owner, written))
<1> DEFINE next == IF p.init = "catch1" THEN "drain1" ELSE "drain2"
           q == [p EXCEPT !.init = next]
<1> HIDE DEF next
<1>1. Keeps(p, q)
  BY DEF IsPane, Fields, Keeps, Disposed
<1> HIDE DEF q
<1>2. Keeps(p, drainHeldData(q, 0))
  BY <1>1, HeldDataKeeps, KeepsOn DEF Keeps
<1>3. Keeps(p, AfterCatchUp(p))
  BY <1>2 DEF AfterCatchUp, q, next
<1>. QED BY <1>3, ReplayKeeps DEF CatchUpReturns

LEMMA CatchUpKeeps ==
  ASSUME NEW p, IsPane(p), NEW owner, NEW answer
  PROVE  Keeps(p, catchUpTerminalFile(p, owner, answer))
<1> DEFINE gen == IF owner = "init" THEN 0 ELSE p.drain.gen
           q == [p EXCEPT !.offset = answer.size]
<1>1. Keeps(p, doTerminalWrite(p, owner, answer.data, answer.size))
  BY LaneKeeps DEF doTerminalWrite
<1>2. ASSUME isIngressCurrent(p, gen)
      PROVE  Keeps(p, CatchUpReturns(q, owner, <<>>))
  <2>1. Keeps(p, q)
    BY <1>2 DEF IsPane, Fields, Keeps, Disposed, isIngressCurrent
  <2> HIDE DEF q
  <2>. QED BY <2>1, CatchUpEndKeeps, KeepsOn DEF Keeps
<1> HIDE DEF q
<1>. QED BY <1>1, <1>2, CatchUpEndKeeps DEF catchUpTerminalFile, q

LEMMA LoadKeeps ==
  ASSUME NEW p, IsPane(p), NEW answer
  PROVE  Keeps(p, loadInitialTerminalData(p, answer))
<1> DEFINE q(at) == [p EXCEPT !.init = at]
<1>1. \A at : Keeps(p, q(at))
  BY DEF IsPane, Fields, Keeps, Disposed
<1> HIDE DEF q
<1>2. \A at, by, ids, to, owner, from :
        /\ Keeps(p, doTerminalWrite(q(at), by, ids, to))
        /\ Keeps(p, fetchWaveFile(q(at), owner, from))
  BY <1>1, LaneKeeps, FetchKeeps, KeepsOn DEF Keeps, doTerminalWrite
<1>. QED BY <1>2, InitEndKeeps DEF loadInitialTerminalData, q

LEMMA WriteReturnsKeeps ==
  ASSUME NEW p, IsPane(p), NEW operation
  PROVE  Keeps(p, WriteReturns(p, operation))
<1> DEFINE rest == [p EXCEPT !.drain.batch = Tail(@)]
           main == [p EXCEPT !.init = "main"]
           draining == [p EXCEPT !.init = "catch1", !.state = "draining"]
<1>1. Keeps(p, rest) /\ Keeps(p, main) /\ (~Disposed(p) => Keeps(p, draining))
  BY DEF IsPane, Fields, Keeps, Disposed
<1> HIDE DEF rest, main, draining
<1>2. /\ Keeps(p, drainTerminalIngress(rest))
      /\ Keeps(p, fetchWaveFile(main, "init", operation.to))
      /\ ~Disposed(p) => Keeps(p, fetchWaveFile(draining, "init", p.offset))
  BY <1>1, DrainKeeps, FetchKeeps, KeepsOn DEF Keeps
<1>3. isIngressCurrent(p, 0) => ~Disposed(p)
  BY DEF isIngressCurrent, Disposed
<1>. QED
  BY <1>2, <1>3, ReplayKeeps, InitEndKeeps, CatchUpEndKeeps
     DEF WriteReturns, rest, main, draining

LEMMA DrainThrowsKeeps ==
  ASSUME NEW p, IsPane(p), ~Disposed(p)
  PROVE  Keeps(p, DrainThrows(p))
<1> DEFINE q == [p EXCEPT !.drain = IdleDrain, !.held = p.drain.batch \o @]
<1>1. Keeps(p, q)
  BY DEF IsPane, Fields, Keeps, Disposed
<1> HIDE DEF q
<1>2. Keeps(p, InitThrows(q))
  BY <1>1, InitEndKeeps, KeepsOn DEF Keeps
<1>. QED BY <1>1, <1>2 DEF DrainThrows, q

-----------------------------------------------------------------------------
(* The steps. *)

\* A disposed pane holds nothing back, which is what keeps it empty: the rest of
\* a function may still take what it holds.
Safe == /\ IsPane(pane)
        /\ Disposed(pane) => pane.held = <<>>

\* What the two action properties say of a step.
ClearStep ==
  pane.clearing # "none" =>
    /\ pane'.screen = pane.screen
    /\ pane'.cleared # pane.cleared => pane.clearing = "answered" /\ pane'.clearing = "none"
DisposedStep ==
  pane.state = "disposed" =>
    /\ pane'.state = "disposed" /\ pane'.screen = pane.screen /\ pane'.offset = pane.offset
    /\ pane'.held = pane.held /\ pane'.cleared = pane.cleared
Good == Safe' /\ ClearStep /\ DisposedStep

\* What only the steps of a clear change.
Apart == pane'.cleared = pane.cleared /\ pane'.clearing = pane.clearing

LEMMA Initially == Init => Safe
<1> SUFFICES ASSUME Init PROVE Safe
  OBVIOUS
<1>1. IsPane(NewPane) /\ NewPane.state = "loading" /\ NewPane.cleared = 0
  BY DEF NewPane, IsPane, Fields
<1>2. Keeps(NewPane, pane)
  BY <1>1, FetchKeeps DEF Init
<1>. QED BY <1>1, <1>2 DEF Init, Safe, Keeps, Disposed

LEMMA KeepingIsGood ==
  ASSUME Safe, Keeps(pane, pane')
  PROVE  Good /\ Apart
  BY DEF Safe, Keeps, Disposed, Good, ClearStep, DisposedStep, Apart

LEMMA ReadsAreGood ==
  ASSUME Safe, NEW owner \in Owners,
         ReadServed(owner) \/ ReadReturns(owner) \/ ReadFails(owner)
  PROVE  Good /\ Apart
<1> DEFINE r == pane.read[owner]
           p == [pane EXCEPT !.read[owner] = NoRead]
<1>1. \A read : Keeps(pane, [pane EXCEPT !.read[owner] = read])
  BY DEF Safe, IsPane, Fields, Keeps, Disposed
<1>2. Keeps(pane, p) /\ IsPane(p)
  BY <1>1 DEF Keeps
<1>3. CASE ReadServed(owner)
  BY <1>1, <1>3, KeepingIsGood DEF ReadServed
<1> HIDE DEF p
<1>4. CASE ReadReturns(owner)
  <2>1. Keeps(p, loadInitialTerminalData(p, r)) /\ Keeps(p, catchUpTerminalFile(p, owner, r))
    BY <1>2, LoadKeeps, CatchUpKeeps
  <2>2. Keeps(p, pane')
    BY <1>4, <2>1 DEF ReadReturns, p
  <2>. QED BY <1>2, <1>4, <2>2, KeepsOn, KeepingIsGood DEF ReadReturns
<1>5. CASE ReadFails(owner)
  <2>1. isIngressCurrent(p, p.drain.gen) => ~Disposed(p)
    BY DEF isIngressCurrent, Disposed
  <2>2. Keeps(p, InitThrows(p)) /\ Keeps(p, DrainReturns(p))
          /\ (~Disposed(p) => Keeps(p, DrainThrows(p)))
    BY <1>2, InitEndKeeps, DrainReturnsKeeps, DrainThrowsKeeps
  <2>3. Keeps(p, pane')
    BY <1>5, <2>1, <2>2 DEF ReadFails, p
  <2>. QED BY <1>2, <1>5, <2>3, KeepsOn, KeepingIsGood DEF ReadFails
<1>. QED BY <1>3, <1>4, <1>5

LEMMA EventsAreGood ==
  ASSUME Safe, handleNewFileSubjectData
  PROVE  Good /\ Apart
<1> DEFINE id == Head(events).id
           q == [pane EXCEPT !.held = Append(@, id)]
<1>1. Keeps(pane, pane)
  BY DEF Safe, Keeps
<1>2. ASSUME ~Disposed(pane)
      PROVE  Keeps(pane, AppendArrives(pane, id)) /\ Keeps(pane, TruncateArrives(pane))
  <2>1. Keeps(pane, q)
    BY <1>2 DEF Safe, IsPane, Fields, Keeps, Disposed
  <2> HIDE DEF q
  <2>2. Keeps(pane, drainHeldData(q, q.gen))
    BY <2>1, HeldDataKeeps, KeepsOn DEF Keeps
  <2>3. Keeps(pane, AppendArrives(pane, id))
    BY <2>1, <2>2 DEF AppendArrives, q
  <2>4. \A l : Keeps(l, l) => (~Disposed(l) => Keeps(l, [l EXCEPT !.offset = 0]))
    BY DEF IsPane, Fields, Keeps, Disposed
  <2>5. Keeps(pane, TruncateArrives(pane))
    BY <1>1, <1>2, <2>4, LaneKeeps, KeepsOn DEF TruncateArrives, Keeps, Safe
  <2>. QED BY <2>3, <2>5
<1>3. Keeps(pane, pane')
  BY <1>1, <1>2 DEF handleNewFileSubjectData, Disposed
<1>. QED BY <1>3, KeepingIsGood DEF handleNewFileSubjectData

LEMMA LaneIsGood ==
  ASSUME Safe, LaneStep
  PROVE  Good /\ Apart
<1> DEFINE operation == Head(pane.lane)
           p == [pane EXCEPT !.lane = Tail(@)]
<1>1. Keeps(pane, p) /\ IsPane(p) /\ pane.clearing = "none"
  BY DEF Safe, IsPane, Fields, Keeps, Disposed, LaneStep, LaneIsFree
<1> HIDE DEF p
<1>2. CASE Disposed(pane)
  <2>1. Keeps(p, WriteReturns(p, operation)) /\ Keeps(p, p)
    BY <1>1, WriteReturnsKeeps DEF Keeps
  <2>2. Keeps(p, pane')
    BY <1>2, <2>1 DEF LaneStep, Disposed, p
  <2>. QED BY <1>1, <2>2, KeepsOn, KeepingIsGood DEF LaneStep
<1>3. CASE ~Disposed(pane)
  <2> DEFINE w == Written(p, operation)
  <2>1. IsPane(w) /\ ~Disposed(w) /\ w.cleared = p.cleared /\ w.clearing = p.clearing
    BY <1>1, <1>3 DEF IsPane, Fields, Keeps, Disposed, Written
  <2>2. LET r == resetTerminalFileOrigin(p) IN
        IsPane(r) /\ ~Disposed(r) /\ r.cleared = p.cleared /\ r.clearing = p.clearing
    BY <1>1, <1>3 DEF IsPane, Fields, Keeps, Disposed, resetTerminalFileOrigin
  <2> HIDE DEF w
  <2>3. Keeps(w, WriteReturns(w, operation))
    BY <2>1, WriteReturnsKeeps
  <2>4. IsPane(pane') /\ ~Disposed(pane') /\ Apart
    BY <1>1, <1>3, <2>1, <2>2, <2>3 DEF LaneStep, Keeps, Disposed, Apart, p, w
  <2>. QED BY <1>1, <1>3, <2>4
           DEF Safe, Good, Apart, ClearStep, DisposedStep, Disposed, LaneStep
<1>. QED BY <1>2, <1>3

LEMMA ClearsAreGood ==
  ASSUME Safe, ClearRequested \/ ClearBegins \/ ClearCommits \/ ClearReturns \/ ClearFails
  PROVE  Good
<1> USE DEF Safe, IsPane, Fields, Disposed, Good, ClearStep, DisposedStep
<1>1. CASE ClearRequested
  BY <1>1 DEF ClearRequested, runInPresentationLane
<1>2. CASE ClearBegins
  BY <1>2 DEF ClearBegins, LaneIsFree
<1>3. CASE ClearCommits
  BY <1>3 DEF ClearCommits
<1>4. CASE ClearReturns
  BY <1>4 DEF ClearReturns
<1>5. CASE ClearFails
  BY <1>5 DEF ClearFails
<1>. QED BY <1>1, <1>2, <1>3, <1>4, <1>5

LEMMA StepsAreGood ==
  ASSUME Safe, [Next]_vars
  PROVE  Good
<1>1. Keeps(pane, pane)
  BY DEF Safe, Keeps
<1>2. ASSUME UNCHANGED pane PROVE Good
  BY <1>1, <1>2, KeepingIsGood
<1>3. CASE Runs
  BY <1>3, EventsAreGood, LaneIsGood, ClearsAreGood, ReadsAreGood DEF Runs
<1>4. CASE HandleAppendBlockFile \/ HandleTruncateBlockFile \/ LateClear
  BY <1>2, <1>4 DEF HandleAppendBlockFile, HandleTruncateBlockFile, LateClear
<1>5. CASE dispose
  BY <1>5 DEF dispose, Safe, IsPane, Fields, Disposed, Good, ClearStep, DisposedStep
<1>6. CASE UNCHANGED vars
  BY <1>2, <1>6 DEF vars
<1>. QED BY <1>3, <1>4, <1>5, <1>6, ClearsAreGood, ReadsAreGood DEF Next

-----------------------------------------------------------------------------
LEMMA Invariance == Spec => []Safe
<1>1. Safe /\ [Next]_vars => Safe'
  BY StepsAreGood DEF Good
<1>. QED BY <1>1, Initially, PTL DEF Spec

\* Nothing is shown, reset or cleared while a clear waits for the journal, whatever
\* reads, writes and events arrive (withProductClearBoundary).
THEOREM ClearIsUndisturbed == Spec => ClearIsAlone
<1>1. Safe /\ [Next]_vars => [ClearStep]_vars
  BY StepsAreGood DEF Good
<1>. QED BY <1>1, Invariance, PTL DEF Spec, ClearIsAlone, ClearStep

\* No read, write, event or clear that was under way when the pane was disposed changes
\* it afterwards (dispose, isIngressCurrent).
THEOREM DisposedStaysFinal == Spec => DisposedIsFinal
<1>1. Safe /\ [Next]_vars => [DisposedStep]_vars
  BY StepsAreGood DEF Good
<1>. QED BY <1>1, Invariance, PTL DEF Spec, DisposedIsFinal, DisposedStep

-----------------------------------------------------------------------------
(* No notification is forgotten.  While the file keeps its origin there is   *)
(* one generation, so every drain runs until nothing is held.                *)

NoReset(lane) == \E S : lane \in Seq(S) /\ \A operation \in S : operation.op # "reset"
IsDrain(d) == d = [field \in {"on", "gen", "batch", "covered"} |-> d[field]]

Awake(p) ==
  /\ IsPane(p) /\ IsDrain(p.drain) /\ NoReset(p.lane)
  /\ ~Disposed(p) => /\ p.gen = 0 /\ p.drain.gen = 0
                     /\ p.state = "live" /\ p.held # <<>> => p.drain.on

LEMMA NoResetAppended ==
  ASSUME NEW lane, NoReset(lane), NEW operation, operation.op # "reset"
  PROVE  NoReset(Append(lane, operation))
<1>1. PICK S : lane \in Seq(S) /\ \A o \in S : o.op # "reset"
  BY DEF NoReset
<1>2. lane \in Seq(S \cup {operation})
  BY <1>1, SeqMonotonic
<1>3. Append(lane, operation) \in Seq(S \cup {operation})
  BY <1>2
<1>. QED BY <1>1, <1>3 DEF NoReset

LEMMA NoResetTaken ==
  ASSUME NEW lane, NoReset(lane), lane # <<>>
  PROVE  NoReset(Tail(lane)) /\ Head(lane).op # "reset"
  BY HeadTailProperties DEF NoReset

LEMMA FetchAwake ==
  ASSUME NEW p, Awake(p), NEW owner, NEW from
  PROVE  Awake(fetchWaveFile(p, owner, from))
  BY DEF IsPane, Fields, Awake, Disposed, fetchWaveFile

LEMMA LaneAwake ==
  ASSUME NEW p, Awake(p), NEW operation, operation.op # "reset"
  PROVE  Awake(runInPresentationLane(p, operation))
<1> DEFINE lane == Append(p.lane, operation)
<1>1. NoReset(lane)
  BY NoResetAppended DEF Awake
<1> HIDE DEF lane
<1>2. Awake([p EXCEPT !.lane = lane])
  BY <1>1 DEF IsPane, Fields, Awake, Disposed
<1>. QED BY <1>2 DEF runInPresentationLane, lane

LEMMA BytesAwake ==
  ASSUME NEW p, Awake(p), NEW by, NEW ids, NEW to
  PROVE  Awake(doTerminalWrite(p, by, ids, to))
  BY LaneAwake DEF doTerminalWrite

LEMMA InitReturnsAwake ==
  ASSUME NEW p, Awake(p), ~Disposed(p) => p.held = <<>>
  PROVE  Awake(InitReturns(p))
<1> DEFINE s == IF isIngressCurrent(p, 0) THEN "live" ELSE p.state
<1>1. s = "disposed" <=> Disposed(p)
  BY DEF isIngressCurrent, Disposed
<1> HIDE DEF s
<1>2. Awake([p EXCEPT !.init = "done", !.state = s])
  BY <1>1 DEF IsPane, Fields, Awake, Disposed
<1>. QED BY <1>2 DEF InitReturns, s

LEMMA DrainReturnsAwake ==
  ASSUME NEW p, Awake(p), ~Disposed(p) => p.held = <<>>
  PROVE  Awake(DrainReturns(p))
<1> DEFINE q == [p EXCEPT !.drain = IdleDrain]
           r == [q EXCEPT !.init = "catch2"]
<1>1. IsDrain(IdleDrain) /\ IdleDrain.gen = 0
  BY DEF IsDrain, IdleDrain
<1>2. Awake(q) /\ q.held = p.held /\ (Disposed(q) <=> Disposed(p))
  BY <1>1 DEF IsPane, Fields, Awake, Disposed
<1>3. Awake(r)
  <2> HIDE DEF q
  <2>. QED BY <1>2 DEF IsPane, Fields, Awake, Disposed
<1> HIDE DEF q, r
<1>4. Awake(InitReturns(q)) /\ Awake(fetchWaveFile(r, "init", q.offset))
  BY <1>2, <1>3, InitReturnsAwake, FetchAwake
<1>. QED BY <1>2, <1>4 DEF DrainReturns, q, r

\* A drain ends with nothing held, or in a disposed pane.
LEMMA DrainAwake ==
  ASSUME NEW p, Awake(p)
  PROVE  Awake(drainTerminalIngress(p))
<1> DEFINE q == IF p.drain.batch = <<>> THEN [p EXCEPT !.drain.batch = p.held, !.held = <<>>]
                ELSE p
<1>1. Awake(q)
  BY DEF IsPane, Fields, Awake, Disposed, IsDrain
<1>2. q.drain.batch = <<>> => p.held = <<>>
  BY DEF Awake, IsPane, Fields, IsDrain
<1>3. isIngressCurrent(p, p.drain.gen) \/ Disposed(p)
  BY DEF Awake, isIngressCurrent, Disposed
<1> HIDE DEF q
<1>4. Awake(fetchWaveFile(q, "drain", q.offset))
  BY <1>1, FetchAwake
<1>5. ~(isIngressCurrent(p, p.drain.gen) /\ q.drain.batch # <<>>) => Awake(DrainReturns(p))
  BY <1>2, <1>3, DrainReturnsAwake
<1>. QED BY <1>4, <1>5 DEF drainTerminalIngress, q

LEMMA HeldDataAwake ==
  ASSUME NEW p, Awake(p), NEW gen, ~Disposed(p) => gen = 0
  PROVE  Awake(drainHeldData(p, gen))
<1> DEFINE d == [on |-> TRUE, gen |-> gen, batch |-> <<>>, covered |-> {}]
           q == [p EXCEPT !.drain = d]
<1>1. IsDrain(d) /\ d.gen = gen /\ d.on
  BY DEF IsDrain
<1> HIDE DEF d
<1>2. Awake(q)
  BY <1>1 DEF IsPane, Fields, Awake, Disposed
<1> HIDE DEF q
<1>3. Awake(drainTerminalIngress(q))
  BY <1>2, DrainAwake
<1>. QED BY <1>3 DEF drainHeldData, q, d

LEMMA ReplayAwake ==
  ASSUME NEW p, Awake(p), NEW written
  PROVE  Awake(replayMissingAnchors(p, written))
<1> DEFINE covered == p.drain.covered \cup Marks(written)
           q == [p EXCEPT !.drain.covered = covered]
           chunk == Head(p.drain.batch)
           frame == [op |-> "frame", by |-> "drain", data |-> <<chunk>>, to |-> 0]
           marked == [q EXCEPT !.drain.covered = @ \cup {chunk}]
           rest == [q EXCEPT !.drain.batch = Tail(@)]
<1> HIDE DEF covered
<1>1. Awake(q)
  BY DEF IsPane, Fields, Awake, Disposed, IsDrain
<1> HIDE DEF q, chunk
<1>2. Awake(marked) /\ Awake(rest)
  BY <1>1 DEF IsPane, Fields, Awake, Disposed, IsDrain
<1>3. frame.op # "reset"
  OBVIOUS
<1> HIDE DEF frame, marked, rest
<1>4. Awake(runInPresentationLane(marked, frame)) /\ Awake(drainTerminalIngress(rest))
  BY <1>2, <1>3, LaneAwake, DrainAwake
<1>5. isIngressCurrent(p, p.drain.gen) \/ Disposed(p)
  BY DEF Awake, isIngressCurrent, Disposed
<1>. QED
  BY <1>4, <1>5, DrainReturnsAwake
     DEF replayMissingAnchors, covered, q, chunk, frame, marked, rest

LEMMA CatchUpEndAwake ==
  ASSUME NEW p, Awake(p), NEW owner, NEW written
  PROVE  Awake(AfterCatchUp(p)) /\ Awake(CatchUpReturns(p, owner, written))
<1> DEFINE next == IF p.init = "catch1" THEN "drain1" ELSE "drain2"
           q == [p EXCEPT !.init = next]
<1> HIDE DEF next
<1>1. Awake(q)
  BY DEF IsPane, Fields, Awake, Disposed
<1> HIDE DEF q
<1>2. Awake(drainHeldData(q, 0))
  BY <1>1, HeldDataAwake
<1>3. Awake(AfterCatchUp(p))
  BY <1>2 DEF AfterCatchUp, q, next
<1>. QED BY <1>3, ReplayAwake DEF CatchUpReturns

LEMMA CatchUpAwake ==
  ASSUME NEW p, Awake(p), NEW owner, NEW answer
  PROVE  Awake(catchUpTerminalFile(p, owner, answer))
<1> DEFINE q == [p EXCEPT !.offset = answer.size]
<1>1. Awake(q)
  BY DEF IsPane, Fields, Awake, Disposed
<1> HIDE DEF q
<1>. QED BY <1>1, BytesAwake, CatchUpEndAwake DEF catchUpTerminalFile, q

LEMMA LoadAwake ==
  ASSUME NEW p, Awake(p), NEW answer
  PROVE  Awake(loadInitialTerminalData(p, answer))
<1> DEFINE q(at) == [p EXCEPT !.init = at]
<1>1. \A at : Awake(q(at))
  BY DEF IsPane, Fields, Awake, Disposed
<1> HIDE DEF q
<1>2. \A at, by, ids, to, owner, from :
        /\ Awake(doTerminalWrite(q(at), by, ids, to))
        /\ Awake(fetchWaveFile(q(at), owner, from))
  BY <1>1, BytesAwake, FetchAwake
<1>3. ~isIngressCurrent(p, 0) => Awake(InitReturns(p))
  BY InitReturnsAwake DEF Awake, isIngressCurrent, Disposed
<1>. QED BY <1>2, <1>3 DEF loadInitialTerminalData, q

LEMMA WriteReturnsAwake ==
  ASSUME NEW p, Awake(p), NEW operation
  PROVE  Awake(WriteReturns(p, operation))
<1> DEFINE rest == [p EXCEPT !.drain.batch = Tail(@)]
           main == [p EXCEPT !.init = "main"]
           draining == [p EXCEPT !.init = "catch1", !.state = "draining"]
<1>1. Awake(rest) /\ Awake(main) /\ (isIngressCurrent(p, 0) => Awake(draining))
  BY DEF IsPane, Fields, Awake, Disposed, IsDrain, isIngressCurrent
<1> HIDE DEF rest, main, draining
<1>2. /\ Awake(drainTerminalIngress(rest))
      /\ Awake(fetchWaveFile(main, "init", operation.to))
      /\ isIngressCurrent(p, 0) => Awake(fetchWaveFile(draining, "init", p.offset))
  BY <1>1, DrainAwake, FetchAwake
<1>3. ~isIngressCurrent(p, 0) => Awake(InitReturns(p))
  BY InitReturnsAwake DEF Awake, isIngressCurrent, Disposed
<1>. QED
  BY <1>2, <1>3, ReplayAwake, CatchUpEndAwake DEF WriteReturns, rest, main, draining

-----------------------------------------------------------------------------
OnlyAppends == \E S : events \in Seq(S) /\ \A event \in S : event.op = "append"
Counted == counts \in [{"chunks", "truncates", "failures", "clears", "thrown"} -> Nat]
Quiet == counts.truncates = 0 /\ counts.failures = 0

Watchful == Counted /\ (Quiet => OnlyAppends /\ Awake(pane))

LEMMA InitiallyWatchful == Init => Watchful
<1> SUFFICES ASSUME Init PROVE Watchful
  OBVIOUS
<1>1. IsPane(NewPane) /\ IsDrain(NewPane.drain) /\ NewPane.gen = 0 /\ NewPane.drain.gen = 0
        /\ NewPane.lane = <<>> /\ NewPane.held = <<>>
  BY DEF NewPane, IsPane, Fields, IsDrain, IdleDrain
<1>2. NoReset(<<>>)
  <2>1. <<>> \in Seq({}) /\ \A operation \in {} : operation.op # "reset"
    OBVIOUS
  <2> DEFINE S == {}
  <2>2. <<>> \in Seq(S) /\ \A operation \in S : operation.op # "reset"
    BY <2>1
  <2> HIDE DEF S
  <2>. QED BY <2>2 DEF NoReset
<1>3. Awake(NewPane)
  BY <1>1, <1>2 DEF Awake
<1>4. Awake(pane)
  BY <1>3, FetchAwake DEF Init
<1>5. OnlyAppends
  <2>1. events = <<>> /\ <<>> \in Seq({})
    BY DEF Init
  <2>. QED BY <2>1 DEF OnlyAppends
<1>6. Counted
  <2>1. PICK written \in 0..1 :
          counts = [chunks |-> written, truncates |-> 0, failures |-> 0, clears |-> 0,
                    thrown |-> 0]
    BY DEF Init
  <2>. QED BY <2>1 DEF Counted
<1>. QED BY <1>4, <1>5, <1>6 DEF Watchful

LEMMA ReadsAreWatchful ==
  ASSUME Watchful, NEW owner \in Owners,
         ReadServed(owner) \/ ReadReturns(owner) \/ ReadFails(owner)
  PROVE  Watchful'
<1> DEFINE r == pane.read[owner]
           p == [pane EXCEPT !.read[owner] = NoRead]
<1>1. CASE ReadFails(owner)
  BY <1>1 DEF ReadFails, Watchful, Counted, Quiet
<1>2. CASE ReadServed(owner) \/ ReadReturns(owner)
  <2>1. UNCHANGED <<counts, events>>
    BY <1>2 DEF ReadServed, ReadReturns
  <2>2. SUFFICES ASSUME Quiet PROVE Awake(pane')
    BY <2>1 DEF Watchful, Counted, Quiet, OnlyAppends
  <2>3. \A read : Awake([pane EXCEPT !.read[owner] = read])
    BY <2>2 DEF Watchful, IsPane, Fields, Awake, Disposed
  <2>4. Awake(p)
    BY <2>3
  <2>5. CASE ReadServed(owner)
    BY <2>3, <2>5 DEF ReadServed
  <2> HIDE DEF p
  <2>6. CASE ReadReturns(owner)
    BY <2>4, <2>6, LoadAwake, CatchUpAwake DEF ReadReturns, p
  <2>. QED BY <1>2, <2>5, <2>6
<1>. QED BY <1>1, <1>2

LEMMA EventsAreWatchful ==
  ASSUME Watchful, handleNewFileSubjectData
  PROVE  Watchful'
<1>1. Counted' /\ (Quiet' <=> Quiet)
  BY DEF Watchful, Counted, Quiet, handleNewFileSubjectData
<1> SUFFICES ASSUME Quiet PROVE OnlyAppends' /\ Awake(pane')
  BY <1>1 DEF Watchful
<1>2. PICK S : events \in Seq(S) /\ \A event \in S : event.op = "append"
  BY DEF Watchful, OnlyAppends
<1>3. Head(events).op = "append" /\ events' \in Seq(S)
  BY <1>2, HeadTailProperties DEF handleNewFileSubjectData
<1>4. OnlyAppends'
  BY <1>2, <1>3 DEF OnlyAppends
<1> DEFINE id == Head(events).id
           q == [pane EXCEPT !.held = Append(@, id)]
<1>5. ASSUME ~Disposed(pane) PROVE Awake(AppendArrives(pane, id))
  <2>1. CASE pane.state = "live"
    <3>1. drainHeldData(q, q.gen) = AppendArrives(pane, id)
      BY <2>1 DEF AppendArrives
    <3>2. CASE pane.drain.on
      <4>1. Awake(q) /\ q.drain = pane.drain
        BY <3>2 DEF Watchful, IsPane, Fields, Awake, Disposed
      <4> HIDE DEF q
      <4>. QED BY <3>1, <3>2, <4>1 DEF drainHeldData
    <3>3. CASE ~pane.drain.on
      <4> DEFINE held == Append(pane.held, id)
                 d == [on |-> TRUE, gen |-> q.gen, batch |-> <<>>, covered |-> {}]
                 s == [pane EXCEPT !.drain = d, !.held = held]
      <4>1. q.gen = 0 /\ q.drain = pane.drain /\ q.held = held
            /\ [q EXCEPT !.drain = d] = s
        BY <1>5 DEF Watchful, Awake, IsPane, Fields
      <4> HIDE DEF q, held
      <4>2. IsDrain(d) /\ d.gen = 0 /\ d.on
        BY <4>1 DEF IsDrain
      <4> HIDE DEF d
      <4>3. Awake(s)
        BY <4>2 DEF Watchful, IsPane, Fields, Awake, Disposed
      <4> HIDE DEF s
      <4>4. drainHeldData(q, q.gen) = drainTerminalIngress(s)
        BY <3>3, <4>1 DEF drainHeldData, d
      <4>. QED BY <3>1, <4>3, <4>4, DrainAwake DEF q
    <3>. QED BY <3>2, <3>3
  <2>2. CASE pane.state # "live"
    BY <2>2 DEF Watchful, IsPane, Fields, Awake, Disposed, AppendArrives
  <2>. QED BY <2>1, <2>2
<1>6. Awake(pane')
  BY <1>3, <1>5 DEF handleNewFileSubjectData, Disposed, Watchful
<1>. QED BY <1>4, <1>6

LEMMA LaneIsWatchful ==
  ASSUME Watchful, LaneStep
  PROVE  Watchful'
<1>1. UNCHANGED <<counts, events>>
  BY DEF LaneStep
<1> SUFFICES ASSUME Quiet PROVE Awake(pane')
  BY <1>1 DEF Watchful, Counted, Quiet, OnlyAppends
<1> DEFINE operation == Head(pane.lane)
           p == [pane EXCEPT !.lane = Tail(@)]
           w == Written(p, operation)
<1>2. NoReset(Tail(pane.lane)) /\ operation.op # "reset"
  BY NoResetTaken DEF LaneStep, LaneIsFree, Watchful, Awake
<1>3. Awake(p)
  BY <1>2 DEF Watchful, IsPane, Fields, Awake, Disposed
<1> HIDE DEF p
<1>4. Awake(w)
  BY <1>3 DEF IsPane, Fields, Awake, Disposed, Written
<1> HIDE DEF w
<1>5. Awake(WriteReturns(p, operation)) /\ Awake(WriteReturns(w, operation))
  BY <1>3, <1>4, WriteReturnsAwake
<1>. QED BY <1>2, <1>5 DEF LaneStep, p, w

LEMMA ClearsAreWatchful ==
  ASSUME Watchful, ClearRequested \/ ClearBegins \/ ClearCommits \/ ClearReturns \/ ClearFails
  PROVE  Watchful'
<1>1. CASE ClearRequested
  <2>1. Counted' /\ UNCHANGED events /\ (Quiet' <=> Quiet)
    BY <1>1 DEF ClearRequested, Watchful, Counted, Quiet
  <2>2. Awake(pane) => Awake(pane')
    BY <1>1, LaneAwake DEF ClearRequested
  <2>. QED BY <2>1, <2>2 DEF Watchful, OnlyAppends
<1>2. CASE ClearBegins
  <2>1. ASSUME Awake(pane) PROVE Awake(pane')
    <3>1. NoReset(Tail(pane.lane))
      BY <1>2, <2>1, NoResetTaken DEF ClearBegins, LaneIsFree, Awake
    <3>. QED BY <1>2, <2>1, <3>1 DEF ClearBegins, IsPane, Fields, Awake, Disposed
  <2>. QED BY <1>2, <2>1 DEF ClearBegins, Watchful, Counted, Quiet, OnlyAppends
<1>3. CASE ClearCommits
  <2>1. Awake(pane) => Awake(pane')
    BY <1>3 DEF ClearCommits, IsPane, Fields, Awake, Disposed
  <2>. QED BY <1>3, <2>1 DEF ClearCommits, Watchful, Counted, Quiet, OnlyAppends
<1>4. CASE ClearReturns
  <2>1. Awake(pane) => Awake(pane')
    BY <1>4 DEF ClearReturns, IsPane, Fields, Awake, Disposed
  <2>. QED BY <1>4, <2>1 DEF ClearReturns, Watchful, Counted, Quiet, OnlyAppends
<1>5. CASE ClearFails
  <2> DEFINE kinds == {"chunks", "truncates", "failures", "clears", "thrown"}
             failures == counts.failures + 1
             thrown == counts.thrown + 1
  <2>1. counts \in [kinds -> Nat]
    BY DEF Watchful, Counted
  <2>2. counts.failures \in Nat /\ failures \in Nat /\ thrown \in Nat /\ failures # 0
    BY <2>1
  <2>3. counts' = [counts EXCEPT !.failures = failures, !.thrown = thrown]
    BY <1>5 DEF ClearFails
  <2> HIDE DEF failures, thrown
  <2>4. counts' \in [kinds -> Nat] /\ counts'.failures = failures
    BY <2>1, <2>2, <2>3
  <2>. QED BY <2>2, <2>4 DEF Watchful, Counted, Quiet
<1>. QED BY <1>1, <1>2, <1>3, <1>4, <1>5

LEMMA StepsAreWatchful == Watchful /\ [Next]_vars => Watchful'
<1> SUFFICES ASSUME Watchful, [Next]_vars PROVE Watchful'
  OBVIOUS
<1>1. CASE Runs
  BY <1>1, EventsAreWatchful, LaneIsWatchful, ClearsAreWatchful, ReadsAreWatchful DEF Runs
<1>2. CASE HandleAppendBlockFile
  <2>1. Counted' /\ UNCHANGED pane /\ (Quiet' <=> Quiet)
    <3> DEFINE kinds == {"chunks", "truncates", "failures", "clears", "thrown"}
    <3>1. counts \in [kinds -> Nat] /\ counts' = [counts EXCEPT !.chunks = @ + 1]
      BY <1>2 DEF HandleAppendBlockFile, Watchful, Counted
    <3>2. counts.chunks + 1 \in Nat
      BY <3>1
    <3>3. counts' \in [kinds -> Nat]
      BY <3>1, <3>2
    <3>4. counts'.truncates = counts.truncates /\ counts'.failures = counts.failures
      BY <3>1
    <3>. QED BY <1>2, <3>3, <3>4 DEF HandleAppendBlockFile, Counted, Quiet
  <2>2. ASSUME OnlyAppends PROVE OnlyAppends'
    <3>1. PICK S : events \in Seq(S) /\ \A event \in S : event.op = "append"
      BY <2>2 DEF OnlyAppends
    <3> DEFINE e == Event("append", counts.chunks + 1)
    <3>2. e.op = "append"
      BY DEF Event
    <3> HIDE DEF e
    <3>3. events \in Seq(S \cup {e})
      BY <3>1, SeqMonotonic
    <3>4. events' \in Seq(S \cup {e})
      BY <1>2, <3>3 DEF HandleAppendBlockFile, e
    <3>. QED BY <3>1, <3>2, <3>4 DEF OnlyAppends
  <2>. QED BY <2>1, <2>2 DEF Watchful
<1>3. CASE HandleTruncateBlockFile
  BY <1>3 DEF HandleTruncateBlockFile, Watchful, Counted, Quiet
<1>4. CASE dispose
  <2>1. Awake(pane) => Awake(pane')
    BY <1>4 DEF dispose, IsPane, Fields, Awake, Disposed
  <2>. QED BY <1>4, <2>1 DEF dispose, Watchful, Counted, Quiet, OnlyAppends
<1>5. CASE LateClear \/ UNCHANGED vars
  BY <1>5 DEF LateClear, vars, Watchful, Counted, Quiet, OnlyAppends
<1>. QED BY <1>1, <1>2, <1>3, <1>4, <1>5, ClearsAreWatchful, ReadsAreWatchful DEF Next

\* A notification that a live pane holds has a drain that will look at it, however its
\* arrival raced the load and the drains before (ingressDrainPromise, drainHeldData).
THEOREM NothingIsForgotten == Spec => []HeldIsDrained
<1>1. Watchful => HeldIsDrained
  BY DEF Watchful, Quiet, HeldIsDrained, OneOrigin, Awake, Disposed
<1>. QED BY <1>1, InitiallyWatchful, StepsAreWatchful, PTL DEF Spec

-----------------------------------------------------------------------------
(* The types, and the drain.  A drain waits for one thing at a time: a read  *)
(* or a slot of the lane, and it has a notification to do it for.            *)

\* The drain waits for nothing.
Resting(p) ==
  /\ p.read["drain"].stage = "none"
  /\ \A i \in DOMAIN p.lane : p.lane[i].by # "drain"

DrainOk(p) ==
  /\ p.drain.on => p.drain.batch # <<>>
  /\ p.read["drain"].stage # "none" => p.drain.on
  /\ \A i \in DOMAIN p.lane : p.lane[i].by = "drain" =>
       p.drain.on /\ p.read["drain"].stage = "none"
  /\ \A i, j \in DOMAIN p.lane : p.lane[i].by = "drain" /\ p.lane[j].by = "drain" => i = j

Sound(p) == p \in Panes /\ DrainOk(p)

LEMMA FetchSound ==
  ASSUME NEW p, p \in Panes, NEW owner \in Owners, NEW from \in Nat,
         IF owner = "drain" THEN Resting(p) /\ p.drain.on /\ p.drain.batch # <<>>
                            ELSE DrainOk(p)
  PROVE  Sound(fetchWaveFile(p, owner, from))
<1> DEFINE r == [NoRead EXCEPT !.stage = "asked", !.from = from]
           q == [p EXCEPT !.read[owner] = r]
<1>1. r \in Reads /\ r.stage = "asked"
  BY EmptySeq DEF NoRead, Reads
<1> HIDE DEF r
<1>2. q \in Panes
  BY <1>1 DEF Panes
<1>3. DrainOk(q)
  BY <1>1 DEF Panes, DrainOk, Resting, Owners
<1>. QED BY <1>2, <1>3 DEF Sound, fetchWaveFile, r

LEMMA LaneSound ==
  ASSUME NEW p, p \in Panes, DrainOk(p), NEW operation \in Operations,
         operation.by = "drain" => Resting(p) /\ p.drain.on
  PROVE  Sound(runInPresentationLane(p, operation))
<1> DEFINE lane == Append(p.lane, operation)
           q == [p EXCEPT !.lane = lane]
<1>1. /\ lane \in Seq(Operations) /\ Len(lane) = Len(p.lane) + 1 /\ p.lane \in Seq(Operations)
      /\ \A i \in 1..Len(p.lane) : lane[i] = p.lane[i]
      /\ lane[Len(lane)] = operation
  BY AppendProperties DEF Panes
<1> HIDE DEF lane
<1>2. q \in Panes
  BY <1>1 DEF Panes
<1>3. q.lane = lane /\ q.drain = p.drain /\ q.read = p.read
  BY DEF Panes
<1> HIDE DEF q
<1>4. \A i \in DOMAIN lane : (i \in DOMAIN p.lane /\ lane[i] = p.lane[i]) \/ lane[i] = operation
  BY <1>1
<1>5. \A i, j \in DOMAIN lane : lane[i].by = "drain" /\ lane[j].by = "drain" => i = j
  <2>1. CASE operation.by = "drain"
    <3>1. \A i \in DOMAIN p.lane : lane[i].by # "drain"
      BY <1>1, <2>1 DEF Resting
    <3>. QED BY <1>1, <3>1
  <2>2. CASE operation.by # "drain"
    BY <1>1, <1>4, <2>2 DEF DrainOk
  <2>. QED BY <2>1, <2>2
<1>6. DrainOk(q)
  BY <1>3, <1>4, <1>5 DEF DrainOk, Resting
<1>. QED BY <1>2, <1>6 DEF Sound, runInPresentationLane, q, lane

LEMMA BytesSound ==
  ASSUME NEW p, p \in Panes, DrainOk(p), NEW by \in Owners, NEW ids \in Seq(Ids), NEW to \in Nat,
         by = "drain" => Resting(p) /\ p.drain.on
  PROVE  Sound(doTerminalWrite(p, by, ids, to))
<1> DEFINE operation == [op |-> "bytes", by |-> by, data |-> ids, to |-> to]
<1>1. operation \in Operations /\ operation.by = by
  BY DEF Operations
<1> HIDE DEF operation
<1>2. Sound(runInPresentationLane(p, operation))
  BY <1>1, LaneSound
<1>. QED BY <1>2 DEF doTerminalWrite, operation

LEMMA InitEndSound ==
  ASSUME NEW p, Sound(p)
  PROVE  Sound(InitReturns(p)) /\ Sound(InitThrows(p))
<1>1. ASSUME NEW state \in {"loading", "draining", "live", "disposed"}
      PROVE  Sound([p EXCEPT !.init = "done", !.state = state])
  <2> DEFINE q == [p EXCEPT !.init = "done", !.state = state]
  <2>1. q \in Panes
    BY DEF Sound, Panes
  <2>2. q.lane = p.lane /\ q.drain = p.drain /\ q.read = p.read
    BY DEF Sound, Panes
  <2> HIDE DEF q
  <2>3. Sound(q)
    BY <2>1, <2>2 DEF Sound, DrainOk
  <2>. QED BY <2>3 DEF q
<1>2. p.state \in {"loading", "draining", "live", "disposed"}
  BY DEF Sound, Panes
<1>3. Sound(InitReturns(p))
  <2> DEFINE s == IF isIngressCurrent(p, 0) THEN "live" ELSE p.state
  <2>1. s \in {"loading", "draining", "live", "disposed"}
    BY <1>2
  <2> HIDE DEF s
  <2>2. Sound([p EXCEPT !.init = "done", !.state = s])
    BY <1>1, <2>1
  <2>. QED BY <2>2 DEF InitReturns, s
<1>4. Sound(InitThrows(p))
  <2> DEFINE s == IF isIngressCurrent(p, 0) /\ p.state = "loading" THEN "live" ELSE p.state
  <2>1. s \in {"loading", "draining", "live", "disposed"}
    BY <1>2
  <2> HIDE DEF s
  <2>2. Sound([p EXCEPT !.init = "done", !.state = s])
    BY <1>1, <2>1
  <2>. QED BY <2>2 DEF InitThrows, s
<1>. QED BY <1>3, <1>4

\* A pane whose read, drain, load or held notifications are replaced keeps the rest.
LEMMA DrainReturnsSound ==
  ASSUME NEW p, p \in Panes, Resting(p)
  PROVE  Sound(DrainReturns(p))
<1> DEFINE q == [p EXCEPT !.drain = IdleDrain]
           r == [q EXCEPT !.init = "catch2"]
<1>1. IdleDrain \in Drains /\ ~IdleDrain.on
  BY EmptySeq DEF IdleDrain, Drains
<1>2. q \in Panes /\ q.drain = IdleDrain /\ q.lane = p.lane /\ q.read = p.read
  BY <1>1 DEF Panes
<1> HIDE DEF q
<1>3. r \in Panes /\ r.drain = IdleDrain /\ r.lane = p.lane /\ r.read = p.read
  BY <1>2 DEF Panes
<1> HIDE DEF r
<1>4. Sound(q) /\ Sound(r) /\ q.offset \in Nat
  BY <1>1, <1>2, <1>3 DEF Sound, DrainOk, Resting, Panes
<1>5. Sound(InitReturns(q)) /\ Sound(fetchWaveFile(r, "init", q.offset))
  BY <1>4, InitEndSound, FetchSound DEF Owners, Sound
<1>. QED BY <1>4, <1>5 DEF DrainReturns, q, r

LEMMA DrainSound ==
  ASSUME NEW p, p \in Panes, Resting(p), p.drain.on
  PROVE  Sound(drainTerminalIngress(p))
<1> DEFINE q == IF p.drain.batch = <<>> THEN [p EXCEPT !.drain.batch = p.held, !.held = <<>>]
                ELSE p
<1>1. q \in Panes /\ q.drain.on /\ q.lane = p.lane /\ q.read = p.read /\ q.offset \in Nat
  BY EmptySeq DEF Panes, Drains
<1> HIDE DEF q
<1>2. Resting(q)
  BY <1>1 DEF Resting
<1>3. q.drain.batch # <<>> => Sound(fetchWaveFile(q, "drain", q.offset))
  BY <1>1, <1>2, FetchSound DEF Owners
<1>. QED BY <1>3, DrainReturnsSound DEF drainTerminalIngress, q

LEMMA HeldDataSound ==
  ASSUME NEW p, Sound(p), NEW gen \in Nat
  PROVE  Sound(drainHeldData(p, gen))
<1> DEFINE d == [on |-> TRUE, gen |-> gen, batch |-> <<>>, covered |-> {}]
           q == [p EXCEPT !.drain = d]
<1> SUFFICES ASSUME ~p.drain.on PROVE Sound(drainHeldData(p, gen))
  BY DEF drainHeldData
<1>1. d \in Drains /\ d.on
  BY DEF Drains, Sound, Panes
<1> HIDE DEF d
<1>2. q \in Panes /\ q.drain.on /\ q.lane = p.lane /\ q.read = p.read
  BY <1>1, EmptySeq DEF Sound, Panes
<1> HIDE DEF q
<1>3. Resting(q)
  BY <1>2 DEF Resting, Sound, DrainOk
<1>4. Sound(drainTerminalIngress(q))
  BY <1>2, <1>3, DrainSound
<1>. QED BY <1>4 DEF drainHeldData, q, d

LEMMA ReplaySound ==
  ASSUME NEW p, p \in Panes, Resting(p), p.drain.on, p.drain.batch # <<>>, NEW written \in Seq(Ids)
  PROVE  Sound(replayMissingAnchors(p, written))
<1> DEFINE covered == p.drain.covered \cup Marks(written)
           q == [p EXCEPT !.drain.covered = covered]
           chunk == Head(p.drain.batch)
           frame == [op |-> "frame", by |-> "drain", data |-> <<chunk>>, to |-> 0]
           marked == [q EXCEPT !.drain.covered = @ \cup {chunk}]
           rest == [q EXCEPT !.drain.batch = Tail(@)]
<1>1. covered \in SUBSET Ids
  <2>1. ToSet(written) \subseteq Ids
    BY ElementOfSeq DEF ToSet
  <2>. QED BY <2>1 DEF Marks, Panes, Drains
<1>2. chunk \in Ids /\ p.drain.batch \in Seq(Ids) /\ Tail(p.drain.batch) \in Seq(Ids)
  BY HeadTailProperties DEF Panes, Drains
<1> HIDE DEF covered
<1>3. q \in Panes /\ q.drain.on /\ q.drain.batch = p.drain.batch /\ q.lane = p.lane /\ q.read = p.read
  BY <1>1 DEF Panes, Drains
<1> HIDE DEF q, chunk
<1>4. /\ marked \in Panes /\ marked.drain.on /\ marked.drain.batch = p.drain.batch
      /\ marked.lane = p.lane /\ marked.read = p.read
  BY <1>2, <1>3 DEF Panes, Drains
<1>5. rest \in Panes /\ rest.drain.on /\ rest.lane = p.lane /\ rest.read = p.read
  BY <1>2, <1>3 DEF Panes, Drains
<1>6. frame \in Operations
  BY <1>2 DEF Operations, Owners
<1> HIDE DEF frame, marked, rest
<1>7. Resting(marked) /\ DrainOk(marked) /\ Resting(rest)
  BY <1>4, <1>5 DEF Resting, DrainOk
<1>8. Sound(runInPresentationLane(marked, frame)) /\ Sound(drainTerminalIngress(rest))
  BY <1>4, <1>5, <1>6, <1>7, LaneSound, DrainSound
<1>. QED
  BY <1>8, DrainReturnsSound
     DEF replayMissingAnchors, covered, q, chunk, frame, marked, rest

LEMMA CatchUpEndSound ==
  ASSUME NEW p, Sound(p), NEW owner \in Owners, NEW written \in Seq(Ids),
         owner = "drain" => Resting(p) /\ p.drain.on
  PROVE  Sound(AfterCatchUp(p)) /\ Sound(CatchUpReturns(p, owner, written))
<1> DEFINE next == IF p.init = "catch1" THEN "drain1" ELSE "drain2"
           q == [p EXCEPT !.init = next]
<1>1. next \in {"drain1", "drain2"}
  OBVIOUS
<1> HIDE DEF next
<1>2. q \in Panes /\ q.drain = p.drain /\ q.lane = p.lane /\ q.read = p.read
  BY <1>1 DEF Sound, Panes
<1> HIDE DEF q
<1>3. Sound(q)
  BY <1>2 DEF Sound, DrainOk
<1>4. Sound(AfterCatchUp(p))
  BY <1>3, HeldDataSound DEF AfterCatchUp, q, next
<1>5. owner = "drain" => Sound(replayMissingAnchors(p, written))
  BY ReplaySound DEF Sound, DrainOk
<1>. QED BY <1>4, <1>5 DEF CatchUpReturns, Owners

LEMMA CatchUpSound ==
  ASSUME NEW p, Sound(p), NEW owner \in Owners, NEW answer \in Reads,
         owner = "drain" => Resting(p) /\ p.drain.on
  PROVE  Sound(catchUpTerminalFile(p, owner, answer))
<1> DEFINE q == [p EXCEPT !.offset = answer.size]
<1>1. answer.size \in Nat /\ answer.data \in Seq(Ids) /\ <<>> \in Seq(Ids)
  BY EmptySeq DEF Reads
<1>2. q \in Panes /\ q.drain = p.drain /\ q.lane = p.lane /\ q.read = p.read
  BY <1>1 DEF Sound, Panes
<1> HIDE DEF q
<1>3. Sound(q) /\ (owner = "drain" => Resting(q) /\ q.drain.on)
  BY <1>2 DEF Sound, DrainOk, Resting
<1>4. /\ Sound(CatchUpReturns(q, owner, <<>>)) /\ Sound(CatchUpReturns(p, owner, <<>>))
      /\ Sound(doTerminalWrite(p, owner, answer.data, answer.size))
  BY <1>1, <1>3, CatchUpEndSound, BytesSound DEF Sound
<1>. QED BY <1>4 DEF catchUpTerminalFile, q

LEMMA LoadSound ==
  ASSUME NEW p, Sound(p), NEW answer \in Reads
  PROVE  Sound(loadInitialTerminalData(p, answer))
<1> DEFINE q(at) == [p EXCEPT !.init = at]
           Stages == {"main", "mainwrite", "cachewrite"}
<1>1. answer.size \in Nat /\ answer.data \in Seq(Ids)
  BY DEF Reads
<1>2. \A at \in Stages : q(at) \in Panes /\ q(at).drain = p.drain /\ q(at).lane = p.lane /\ q(at).read = p.read
  BY DEF Sound, Panes
<1> HIDE DEF q
<1>3. \A at \in Stages : Sound(q(at))
  BY <1>2 DEF Sound, DrainOk
<1> HIDE DEF Stages
<1>4. \A at \in Stages :
        /\ Sound(doTerminalWrite(q(at), "init", answer.data, answer.size))
        /\ Sound(fetchWaveFile(q(at), "init", 0))
  BY <1>1, <1>3, BytesSound, FetchSound DEF Sound, Owners
<1>. QED BY <1>4, InitEndSound DEF loadInitialTerminalData, q, Stages

LEMMA WriteReturnsSound ==
  ASSUME NEW p, Sound(p), NEW operation \in Operations,
         operation.by = "drain" => Resting(p) /\ p.drain.on
  PROVE  Sound(WriteReturns(p, operation))
<1> DEFINE rest == [p EXCEPT !.drain.batch = Tail(@)]
           main == [p EXCEPT !.init = "main"]
           draining == [p EXCEPT !.init = "catch1", !.state = "draining"]
<1>1. operation.to \in Nat /\ operation.data \in Seq(Ids) /\ p.offset \in Nat
  BY DEF Operations, Sound, Panes
<1>2. /\ main \in Panes /\ main.drain = p.drain /\ main.lane = p.lane /\ main.read = p.read
      /\ draining \in Panes /\ draining.drain = p.drain /\ draining.lane = p.lane
      /\ draining.read = p.read
  BY DEF Sound, Panes
<1>3. ASSUME operation.by = "drain"
      PROVE  Sound(drainTerminalIngress(rest)) /\ Sound(replayMissingAnchors(p, operation.data))
  <2>1. p.drain.batch # <<>> /\ p.drain.batch \in Seq(Ids) /\ Tail(p.drain.batch) \in Seq(Ids)
    BY <1>3, HeadTailProperties DEF Sound, DrainOk, Panes, Drains
  <2>2. rest \in Panes /\ rest.drain.on /\ rest.lane = p.lane /\ rest.read = p.read
    BY <1>3, <2>1 DEF Sound, Panes, Drains
  <2> HIDE DEF rest
  <2>3. Resting(rest)
    BY <1>3, <2>2 DEF Resting
  <2>. QED BY <1>1, <1>3, <2>1, <2>2, <2>3, DrainSound, ReplaySound DEF Sound
<1> HIDE DEF rest, main, draining
<1>4. Sound(main) /\ Sound(draining)
  BY <1>2 DEF Sound, DrainOk
<1>5. /\ Sound(fetchWaveFile(main, "init", operation.to))
      /\ Sound(fetchWaveFile(draining, "init", p.offset))
  BY <1>1, <1>4, FetchSound DEF Sound, Owners
<1>6. Sound(AfterCatchUp(p)) /\ Sound(InitReturns(p))
  BY InitEndSound, CatchUpEndSound, EmptySeq DEF Owners
<1>. QED BY <1>3, <1>5, <1>6 DEF WriteReturns, rest, main, draining

LEMMA DrainThrowsSound ==
  ASSUME NEW p, p \in Panes, Resting(p)
  PROVE  Sound(DrainThrows(p))
<1> DEFINE held == p.drain.batch \o p.held
           q == [p EXCEPT !.drain = IdleDrain, !.held = held]
<1>1. IdleDrain \in Drains /\ ~IdleDrain.on
  BY EmptySeq DEF IdleDrain, Drains
<1>2. held \in Seq(Ids)
  BY ConcatProperties DEF Panes, Drains
<1> HIDE DEF held
<1>3. q \in Panes /\ q.drain = IdleDrain /\ q.lane = p.lane /\ q.read = p.read
  BY <1>1, <1>2 DEF Panes
<1>4. q = [p EXCEPT !.drain = IdleDrain, !.held = p.drain.batch \o @]
  BY DEF held, Panes
<1> HIDE DEF q
<1>5. Sound(q)
  BY <1>1, <1>3 DEF Sound, DrainOk, Resting
<1>6. Sound(InitThrows(q))
  BY <1>5, InitEndSound
<1>. QED BY <1>4, <1>5, <1>6 DEF DrainThrows
-----------------------------------------------------------------------------
Types == TypeOK /\ DrainOk(pane)

LEMMA InitiallyTyped == Init => Types
<1> SUFFICES ASSUME Init PROVE Types
  OBVIOUS
<1>1. PICK written \in 0..1, saved \in 0..1 :
        /\ file = [i \in 1..written |-> i]
        /\ cache = [i \in 1..saved |-> i]
        /\ counts = [chunks |-> written, truncates |-> 0, failures |-> 0, clears |-> 0,
                    thrown |-> 0]
        /\ saved <= written /\ written <= MaxChunks
  BY DEF Init
<1>2. file \in Seq(Ids) /\ cache \in Seq(Ids)
  BY <1>1 DEF Ids
<1>3. counts \in [chunks : 0..MaxChunks, truncates : 0..MaxTruncates,
                  failures : 0..MaxFailures, clears : 0..MaxClears, thrown : Nat]
  BY <1>1, BoundsAssumption
<1>4. IdleDrain \in Drains /\ NoRead \in Reads /\ ~IdleDrain.on /\ NoRead.stage = "none"
  BY EmptySeq DEF IdleDrain, Drains, NoRead, Reads
<1>5. NewPane \in Panes /\ NewPane.drain = IdleDrain /\ NewPane.lane = <<>> /\ NewPane.offset = 0
        /\ \A o \in Owners : NewPane.read[o] = NoRead
  BY <1>4, EmptySeq DEF NewPane, Panes
<1>6. DrainOk(NewPane)
  BY <1>4, <1>5, EmptySeq DEF DrainOk, Owners
<1>7. Sound(pane)
  BY <1>5, <1>6, FetchSound DEF Init, Owners
<1>. QED BY <1>2, <1>3, <1>7, EmptySeq DEF Init, Types, TypeOK, Sound

\* The bounds of the counters.
LEMMA CountsUp ==
  ASSUME TypeOK
  PROVE  /\ counts.chunks < MaxChunks =>
              [counts EXCEPT !.chunks = @ + 1] \in
                 [chunks : 0..MaxChunks, truncates : 0..MaxTruncates,
                  failures : 0..MaxFailures, clears : 0..MaxClears, thrown : Nat]
         /\ counts.truncates < MaxTruncates =>
              [counts EXCEPT !.truncates = @ + 1] \in
                 [chunks : 0..MaxChunks, truncates : 0..MaxTruncates,
                  failures : 0..MaxFailures, clears : 0..MaxClears, thrown : Nat]
         /\ counts.failures < MaxFailures =>
              [counts EXCEPT !.failures = @ + 1] \in
                 [chunks : 0..MaxChunks, truncates : 0..MaxTruncates,
                  failures : 0..MaxFailures, clears : 0..MaxClears, thrown : Nat]
         /\ counts.failures < MaxFailures =>
              [counts EXCEPT !.failures = @ + 1, !.thrown = @ + 1] \in
                 [chunks : 0..MaxChunks, truncates : 0..MaxTruncates,
                  failures : 0..MaxFailures, clears : 0..MaxClears, thrown : Nat]
         /\ counts.clears < MaxClears =>
              [counts EXCEPT !.clears = @ + 1] \in
                 [chunks : 0..MaxChunks, truncates : 0..MaxTruncates,
                  failures : 0..MaxFailures, clears : 0..MaxClears, thrown : Nat]
<1> DEFINE Counts == [chunks : 0..MaxChunks, truncates : 0..MaxTruncates,
                      failures : 0..MaxFailures, clears : 0..MaxClears, thrown : Nat]
<1>1. counts \in Counts
  BY DEF TypeOK
<1>2. \A n \in 0..MaxChunks : [counts EXCEPT !.chunks = n] \in Counts
  BY <1>1
<1>3. \A n \in 0..MaxTruncates : [counts EXCEPT !.truncates = n] \in Counts
  BY <1>1
<1>4. \A n \in 0..MaxFailures : [counts EXCEPT !.failures = n] \in Counts
  BY <1>1
<1>5. \A n \in 0..MaxClears : [counts EXCEPT !.clears = n] \in Counts
  BY <1>1
<1>8. \A n \in 0..MaxFailures, k \in Nat : [counts EXCEPT !.failures = n, !.thrown = k] \in Counts
  BY <1>1
<1>6. /\ counts.chunks \in 0..MaxChunks /\ counts.truncates \in 0..MaxTruncates
      /\ counts.failures \in 0..MaxFailures /\ counts.clears \in 0..MaxClears
      /\ counts.thrown + 1 \in Nat
  BY <1>1
<1> HIDE DEF Counts
<1>7. /\ counts.chunks < MaxChunks => counts.chunks + 1 \in 0..MaxChunks
      /\ counts.truncates < MaxTruncates => counts.truncates + 1 \in 0..MaxTruncates
      /\ counts.failures < MaxFailures => counts.failures + 1 \in 0..MaxFailures
      /\ counts.clears < MaxClears => counts.clears + 1 \in 0..MaxClears
  BY <1>6, BoundsAssumption
<1>. QED BY <1>2, <1>3, <1>4, <1>5, <1>6, <1>7, <1>8 DEF Counts

\* A pane that waits for a read no more.
Unread(p, owner) == [p EXCEPT !.read[owner] = NoRead]

LEMMA UnreadSound ==
  ASSUME NEW p, Sound(p), NEW owner \in Owners
  PROVE  /\ Sound(Unread(p, owner))
         /\ owner = "drain" /\ p.read[owner].stage # "none" =>
              Resting(Unread(p, owner)) /\ Unread(p, owner).drain.on
         /\ Unread(p, owner).drain = p.drain /\ Unread(p, owner).init = p.init
<1> DEFINE q == [p EXCEPT !.read[owner] = NoRead]
<1>1. NoRead \in Reads /\ NoRead.stage = "none"
  BY EmptySeq DEF NoRead, Reads
<1>2. /\ q \in Panes /\ q.drain = p.drain /\ q.lane = p.lane /\ q.init = p.init
      /\ \A o \in Owners : q.read[o] = IF o = owner THEN NoRead ELSE p.read[o]
  BY <1>1 DEF Sound, Panes
<1> HIDE DEF q
<1>3. Sound(q)
  BY <1>1, <1>2 DEF Sound, DrainOk, Owners
<1>4. owner = "drain" /\ p.read[owner].stage # "none" => Resting(q) /\ q.drain.on
  BY <1>1, <1>2 DEF Sound, DrainOk, Resting
<1>. QED BY <1>2, <1>3, <1>4 DEF Unread, q

LEMMA ReadsAreTyped ==
  ASSUME Types, NEW owner \in Owners,
         ReadServed(owner) \/ ReadReturns(owner) \/ ReadFails(owner)
  PROVE  Types'
<1>1. Sound(pane)
  BY DEF Types, TypeOK, Sound
<1> DEFINE r == pane.read[owner]
           p == Unread(pane, owner)
<1>2. r \in Reads
  BY <1>1 DEF Sound, Panes
<1>3. CASE ReadServed(owner)
  <2> DEFINE source == IF owner = "init" /\ pane.init = "cache" THEN cache ELSE file
             data == SubSeq(source, r.from + 1, Len(source))
             s == [r EXCEPT !.stage = "answered", !.size = Len(source), !.data = data]
  <2>1. source \in Seq(Ids) /\ r.from \in Nat
    BY <1>2 DEF Types, TypeOK, Reads
  <2> HIDE DEF source
  <2>2. Len(source) \in Nat /\ data \in Seq(Ids)
    BY <2>1, SubSeqProperties, ElementOfSeq
  <2> HIDE DEF data
  <2>3. s \in Reads /\ s.stage = "answered" /\ r.stage # "none"
    BY <1>2, <1>3, <2>2 DEF Reads, ReadServed
  <2>4. pane' = [pane EXCEPT !.read[owner] = s]
    BY <1>3 DEF ReadServed, s, data, source
  <2> HIDE DEF s
  <2>5. /\ pane' \in Panes /\ pane'.drain = pane.drain /\ pane'.lane = pane.lane
        /\ \A o \in Owners : pane'.read[o] = IF o = owner THEN s ELSE pane.read[o]
    BY <1>1, <2>3, <2>4 DEF Sound, Panes
  <2>6. DrainOk(pane')
    BY <1>1, <2>3, <2>5 DEF Sound, DrainOk, Owners
  <2>. QED BY <1>3, <2>5, <2>6 DEF ReadServed, Types, TypeOK
<1> HIDE DEF p
<1>4. Sound(p) /\ (owner = "drain" /\ r.stage # "none" => Resting(p) /\ p.drain.on)
  BY <1>1, UnreadSound DEF p
<1>5. CASE ReadReturns(owner)
  <2>1. Sound(loadInitialTerminalData(p, r))
    BY <1>2, <1>4, LoadSound
  <2>2. Sound(catchUpTerminalFile(p, owner, r))
    BY <1>2, <1>4, <1>5, CatchUpSound DEF ReadReturns
  <2>3. Sound(pane')
    BY <1>5, <2>1, <2>2 DEF ReadReturns, p, Unread
  <2>. QED BY <1>5, <2>3 DEF ReadReturns, Types, TypeOK, Sound
<1>6. CASE ReadFails(owner)
  <2>1. Sound(InitThrows(p)) /\ (owner = "drain" => Sound(DrainThrows(p)) /\ Sound(DrainReturns(p)))
    BY <1>4, <1>6, InitEndSound, DrainThrowsSound, DrainReturnsSound DEF ReadFails, Sound
  <2>2. Sound(pane')
    BY <1>6, <2>1 DEF ReadFails, p, Unread, Owners
  <2>3. /\ counts' = [counts EXCEPT !.failures = @ + 1] /\ counts.failures < MaxFailures
        /\ UNCHANGED <<file, cache, events, journal>>
    BY <1>6 DEF ReadFails
  <2>. QED BY <2>2, <2>3, CountsUp DEF Types, TypeOK, Sound
<1>. QED BY <1>3, <1>5, <1>6

LEMMA EventsAreTyped ==
  ASSUME Types, handleNewFileSubjectData
  PROVE  Types'
<1>1. Sound(pane) /\ events \in Seq(Events) /\ events # <<>>
  BY DEF Types, TypeOK, Sound, handleNewFileSubjectData
<1> DEFINE event == Head(events)
<1>2. event \in Events /\ events' \in Seq(Events)
  BY <1>1, HeadTailProperties DEF handleNewFileSubjectData
<1>3. ASSUME event.op = "append" PROVE Sound(AppendArrives(pane, event.id))
  <2> DEFINE held == Append(pane.held, event.id)
             q == [pane EXCEPT !.held = held]
  <2>1. event.id \in Ids
    BY <1>2, <1>3 DEF Events
  <2>2. held \in Seq(Ids)
    BY <1>1, <2>1, AppendProperties DEF Sound, Panes
  <2> HIDE DEF held
  <2>3. q \in Panes /\ q.drain = pane.drain /\ q.lane = pane.lane /\ q.read = pane.read
          /\ q.gen \in Nat
    BY <1>1, <2>2 DEF Sound, Panes
  <2>4. q = [pane EXCEPT !.held = Append(@, event.id)]
    BY DEF held
  <2> HIDE DEF q
  <2>5. Sound(q)
    BY <1>1, <2>3 DEF Sound, DrainOk
  <2>6. Sound(drainHeldData(q, q.gen))
    BY <2>3, <2>5, HeldDataSound
  <2>. QED BY <2>4, <2>5, <2>6 DEF AppendArrives
<1>4. Sound(TruncateArrives(pane))
  <2> DEFINE operation == [op |-> "reset", by |-> "none", data |-> <<>>, to |-> 0]
             q == runInPresentationLane(pane, operation)
             z == [q EXCEPT !.offset = 0]
  <2>1. operation \in Operations /\ operation.by # "drain"
    BY EmptySeq DEF Operations
  <2> HIDE DEF operation
  <2>2. Sound(q)
    BY <1>1, <2>1, LaneSound DEF Sound
  <2> HIDE DEF q
  <2>3. z \in Panes /\ z.drain = q.drain /\ z.lane = q.lane /\ z.read = q.read
    BY <2>2 DEF Sound, Panes
  <2>4. z = TruncateArrives(pane)
    BY DEF TruncateArrives, q, operation
  <2> HIDE DEF z
  <2>5. Sound(z)
    BY <2>2, <2>3 DEF Sound, DrainOk
  <2>. QED BY <2>4, <2>5
<1> HIDE DEF event
<1>5. Sound(pane')
  BY <1>1, <1>3, <1>4 DEF handleNewFileSubjectData, event
<1>. QED BY <1>2, <1>5 DEF handleNewFileSubjectData, Types, TypeOK, Sound

\* A pane whose lane has taken its first slot.
Slotted(p) == [p EXCEPT !.lane = Tail(@)]

LEMMA SlottedSound ==
  ASSUME NEW p, Sound(p), p.lane # <<>>
  PROVE  /\ Sound(Slotted(p)) /\ Head(p.lane) \in Operations
         /\ Head(p.lane).by = "drain" => Resting(Slotted(p)) /\ Slotted(p).drain.on
<1> DEFINE lane == Tail(p.lane)
           q == [p EXCEPT !.lane = lane]
<1>1. /\ lane \in Seq(Operations) /\ Head(p.lane) \in Operations /\ p.lane \in Seq(Operations)
      /\ Len(lane) = Len(p.lane) - 1 /\ \A i \in 1..Len(lane) : lane[i] = p.lane[i + 1]
      /\ 1 \in DOMAIN p.lane /\ Head(p.lane) = p.lane[1]
  BY HeadTailProperties DEF Sound, Panes
<1> HIDE DEF lane
<1>2. q \in Panes /\ q.drain = p.drain /\ q.lane = lane /\ q.read = p.read
  BY <1>1 DEF Sound, Panes
<1> HIDE DEF q
<1>3. \A i \in DOMAIN lane : i + 1 \in DOMAIN p.lane /\ i + 1 # 1 /\ lane[i] = p.lane[i + 1]
  <2>1. /\ DOMAIN lane = 1..Len(lane) /\ DOMAIN p.lane = 1..Len(p.lane)
        /\ Len(lane) \in Nat /\ Len(p.lane) \in Nat
    BY <1>1
  <2>2. \A i \in 1..Len(lane) : i + 1 \in 1..Len(p.lane) /\ i + 1 # 1
    BY <1>1, <2>1
  <2>. QED BY <1>1, <2>1, <2>2
<1>4. \A i, j \in DOMAIN lane : lane[i].by = "drain" /\ lane[j].by = "drain" => i = j
  <2> SUFFICES ASSUME NEW i \in DOMAIN lane, NEW j \in DOMAIN lane,
                      lane[i].by = "drain", lane[j].by = "drain"
               PROVE  i = j
    OBVIOUS
  <2>1. i + 1 = j + 1
    BY <1>3 DEF Sound, DrainOk
  <2>. QED BY <1>1, <2>1
<1>5. Sound(q)
  BY <1>2, <1>3, <1>4 DEF Sound, DrainOk
<1>6. ASSUME Head(p.lane).by = "drain" PROVE Resting(q) /\ q.drain.on
  <2>1. \A i \in DOMAIN lane : lane[i].by # "drain"
    BY <1>1, <1>3, <1>6 DEF Sound, DrainOk
  <2>. QED BY <1>1, <1>2, <1>6, <2>1 DEF Sound, DrainOk, Resting
<1>. QED BY <1>1, <1>5, <1>6 DEF Slotted, q, lane

LEMMA WrittenSound ==
  ASSUME NEW p, Sound(p), NEW operation \in Operations
  PROVE  /\ Sound(Written(p, operation))
         /\ Resting(p) => Resting(Written(p, operation))
         /\ Written(p, operation).drain = p.drain
<1> DEFINE shown == [i \in DOMAIN operation.data |->
                       [id |-> operation.data[i], again |-> operation.op = "frame"]]
           screen == p.screen \o shown
           offset == IF operation.op = "frame" THEN p.offset + 1 ELSE operation.to
           q == [p EXCEPT !.screen = screen, !.offset = offset]
<1>1. operation.data \in Seq(Ids) /\ p.offset \in Nat /\ operation.to \in Nat
  BY DEF Operations, Sound, Panes
<1>2. shown \in Seq([id : Ids, again : BOOLEAN])
  <2> DEFINE again == operation.op = "frame"
             n == Len(operation.data)
  <2>1. again \in BOOLEAN /\ n \in Nat /\ DOMAIN operation.data = 1..n
    BY <1>1
  <2>2. \A i \in 1..n : operation.data[i] \in Ids
    BY <1>1, ElementOfSeq
  <2> HIDE DEF again, n
  <2>3. \A i \in 1..n : [id |-> operation.data[i], again |-> again] \in [id : Ids, again : BOOLEAN]
    BY <2>1, <2>2
  <2>4. shown = [i \in 1..n |-> [id |-> operation.data[i], again |-> again]]
    BY <2>1 DEF again
  <2> HIDE DEF shown
  <2>. QED BY <2>1, <2>3, <2>4, IsASeq
<1> HIDE DEF shown
<1>3. screen \in Seq([id : Ids, again : BOOLEAN])
  BY <1>2, ConcatProperties DEF Sound, Panes
<1>4. offset \in Nat
  BY <1>1
<1> HIDE DEF screen, offset
<1>5. q \in Panes /\ q.drain = p.drain /\ q.lane = p.lane /\ q.read = p.read
  BY <1>3, <1>4 DEF Sound, Panes
<1>6. q = Written(p, operation)
  BY DEF Written, screen, offset, shown
<1> HIDE DEF q
<1>. QED BY <1>5, <1>6 DEF Sound, DrainOk, Resting

LEMMA LaneIsTyped ==
  ASSUME Types, LaneStep
  PROVE  Types'
<1> DEFINE operation == Head(pane.lane)
           p == Slotted(pane)
           w == Written(p, operation)
           z == resetTerminalFileOrigin(p)
<1>1. Sound(pane) /\ pane.lane # <<>>
  BY DEF Types, TypeOK, Sound, LaneStep, LaneIsFree
<1>2. /\ Sound(p) /\ operation \in Operations
      /\ operation.by = "drain" => Resting(p) /\ p.drain.on
  BY <1>1, SlottedSound
<1> HIDE DEF p, operation
<1>3. /\ Sound(w) /\ w.drain = p.drain
      /\ operation.by = "drain" => Resting(w) /\ w.drain.on
  BY <1>2, WrittenSound
<1> HIDE DEF w
<1>4. Sound(z)
  <2>1. z \in Panes /\ z.drain = p.drain /\ z.lane = p.lane /\ z.read = p.read
    <3> DEFINE gen == p.gen + 1
               state == IF p.state = "loading" THEN "live" ELSE p.state
               y == [p EXCEPT !.screen = <<>>, !.gen = gen, !.held = <<>>, !.state = state]
    <3>1. gen \in Nat /\ state \in {"loading", "draining", "live", "disposed"}
      BY <1>2 DEF Sound, Panes
    <3>2. z = y
      BY DEF resetTerminalFileOrigin
    <3> HIDE DEF gen, state
    <3>3. y \in Panes /\ y.drain = p.drain /\ y.lane = p.lane /\ y.read = p.read
      BY <1>2, <3>1, EmptySeq DEF Sound, Panes
    <3> HIDE DEF y, z
    <3>. QED BY <3>2, <3>3
  <2> HIDE DEF z
  <2>. QED BY <1>2, <2>1 DEF Sound, DrainOk
<1> HIDE DEF z
<1>5. Sound(WriteReturns(p, operation)) /\ Sound(WriteReturns(w, operation))
  BY <1>2, <1>3, WriteReturnsSound
<1>6. Sound(pane')
  BY <1>2, <1>4, <1>5 DEF LaneStep, p, operation, w, z, Slotted
<1>. QED BY <1>6 DEF LaneStep, Types, TypeOK, Sound

LEMMA ClearsAreTyped ==
  ASSUME Types, ClearRequested \/ ClearBegins \/ ClearCommits \/ ClearReturns \/ ClearFails
  PROVE  Types'
<1>1. Sound(pane)
  BY DEF Types, TypeOK, Sound
<1>2. CASE ClearRequested
  <2> DEFINE operation == [op |-> "clear", by |-> "none", data |-> <<>>, to |-> 0]
  <2>1. operation \in Operations /\ operation.by # "drain"
    BY EmptySeq DEF Operations
  <2> HIDE DEF operation
  <2>2. Sound(pane')
    BY <1>1, <1>2, <2>1, LaneSound DEF ClearRequested, operation, Sound
  <2>3. /\ counts' = [counts EXCEPT !.clears = @ + 1] /\ counts.clears < MaxClears
        /\ UNCHANGED <<file, cache, events, journal>>
    BY <1>2 DEF ClearRequested
  <2>. QED BY <2>2, <2>3, CountsUp DEF Types, TypeOK, Sound
<1>3. CASE ClearBegins
  <2> DEFINE p == Slotted(pane)
             q == [p EXCEPT !.clearing = "asked"]
  <2>1. Sound(p)
    BY <1>1, <1>3, SlottedSound DEF ClearBegins, LaneIsFree
  <2>2. pane' = p \/ pane' = q
    BY <1>1, <1>3 DEF ClearBegins, Slotted, Sound, Panes
  <2> HIDE DEF p
  <2>3. q \in Panes /\ q.drain = p.drain /\ q.lane = p.lane /\ q.read = p.read
    BY <2>1 DEF Sound, Panes
  <2> HIDE DEF q
  <2>4. Sound(pane')
    BY <2>1, <2>2, <2>3 DEF Sound, DrainOk
  <2>. QED BY <1>3, <2>4 DEF ClearBegins, Types, TypeOK, Sound
<1>4. CASE ClearReturns
  <2> DEFINE cleared == IF pane.state = "disposed" THEN pane.cleared ELSE pane.cleared + 1
             q == [pane EXCEPT !.clearing = "none", !.cleared = cleared]
  <2>1. cleared \in Nat
    BY <1>1 DEF Sound, Panes
  <2>2. pane' = q
    BY <1>4 DEF ClearReturns
  <2> HIDE DEF cleared
  <2>3. q \in Panes /\ q.drain = pane.drain /\ q.lane = pane.lane /\ q.read = pane.read
    BY <1>1, <2>1 DEF Sound, Panes
  <2> HIDE DEF q
  <2>4. Sound(pane')
    BY <1>1, <2>2, <2>3 DEF Sound, DrainOk
  <2>. QED BY <1>4, <2>4 DEF ClearReturns, Types, TypeOK, Sound
<1>5. CASE ClearCommits \/ ClearFails
  <2>1. pane' \in Panes /\ pane'.drain = pane.drain /\ pane'.lane = pane.lane /\ pane'.read = pane.read
    BY <1>1, <1>5 DEF Sound, Panes, ClearCommits, ClearFails
  <2>2. Sound(pane')
    BY <1>1, <2>1 DEF Sound, DrainOk
  <2>3. journal' \in [committed : Nat, late : Nat]
    BY <1>5 DEF ClearCommits, ClearFails, Types, TypeOK
  <2>4. /\ \/ counts' = counts
           \/ /\ counts' = [counts EXCEPT !.failures = @ + 1, !.thrown = @ + 1]
              /\ counts.failures < MaxFailures
        /\ UNCHANGED <<file, cache, events>>
    BY <1>5 DEF ClearCommits, ClearFails
  <2>. QED BY <2>2, <2>3, <2>4, CountsUp DEF Types, TypeOK, Sound
<1>. QED BY <1>2, <1>3, <1>4, <1>5

LEMMA StepsAreTyped == Types /\ [Next]_vars => Types'
<1> SUFFICES ASSUME Types, [Next]_vars PROVE Types'
  OBVIOUS
<1>1. CASE Runs
  BY <1>1, EventsAreTyped, LaneIsTyped, ClearsAreTyped, ReadsAreTyped DEF Runs
<1>2. CASE HandleAppendBlockFile
  <2>1. counts.chunks \in Nat /\ counts.chunks < MaxChunks
    BY <1>2 DEF HandleAppendBlockFile, Types, TypeOK
  <2>2. counts.chunks + 1 \in Ids
    BY <2>1, BoundsAssumption DEF Ids
  <2>3. Event("append", counts.chunks + 1) \in Events
    BY <2>2 DEF Event, Events
  <2>4. file' \in Seq(Ids) /\ events' \in Seq(Events)
    BY <1>2, <2>2, <2>3, AppendProperties DEF HandleAppendBlockFile, Types, TypeOK
  <2>5. /\ counts' = [counts EXCEPT !.chunks = @ + 1]
        /\ UNCHANGED <<cache, journal, pane>>
    BY <1>2 DEF HandleAppendBlockFile
  <2>. QED BY <2>1, <2>4, <2>5, CountsUp DEF Types, TypeOK
<1>3. CASE HandleTruncateBlockFile
  <2>1. Event("truncate", 0) \in Events
    BY DEF Event, Events
  <2>2. file' \in Seq(Ids) /\ cache' \in Seq(Ids) /\ events' \in Seq(Events)
    BY <1>3, <2>1, AppendProperties, EmptySeq DEF HandleTruncateBlockFile, Types, TypeOK
  <2>3. /\ counts' = [counts EXCEPT !.truncates = @ + 1] /\ counts.truncates < MaxTruncates
        /\ UNCHANGED <<journal, pane>>
    BY <1>3 DEF HandleTruncateBlockFile
  <2>. QED BY <2>2, <2>3, CountsUp DEF Types, TypeOK
<1>4. CASE dispose
  <2>1. pane' \in Panes /\ pane'.drain = pane.drain /\ pane'.lane = pane.lane /\ pane'.read = pane.read
    <3> DEFINE gen == pane.gen + 1
               y == [pane EXCEPT !.state = "disposed", !.gen = gen, !.held = <<>>]
    <3>1. gen \in Nat /\ pane \in Panes
      BY DEF Types, TypeOK, Panes
    <3>2. pane' = y
      BY <1>4 DEF dispose
    <3> HIDE DEF gen
    <3>3. y \in Panes /\ y.drain = pane.drain /\ y.lane = pane.lane /\ y.read = pane.read
      BY <3>1, EmptySeq DEF Panes
    <3> HIDE DEF y
    <3>. QED BY <3>2, <3>3
  <2>2. DrainOk(pane')
    BY <2>1 DEF DrainOk, Types
  <2>. QED BY <1>4, <2>1, <2>2 DEF dispose, Types, TypeOK
<1>5. CASE LateClear
  <2>1. journal' \in [committed : Nat, late : Nat]
    BY <1>5 DEF LateClear, Types, TypeOK
  <2>. QED BY <1>5, <2>1 DEF LateClear, Types, TypeOK
<1>6. CASE UNCHANGED vars
  BY <1>6 DEF vars, Types, TypeOK
<1>. QED BY <1>1, <1>2, <1>3, <1>4, <1>5, <1>6, ClearsAreTyped, ReadsAreTyped DEF Next

LEMMA TypeInvariance == Spec => []Types
<1>. QED BY InitiallyTyped, StepsAreTyped, PTL DEF Spec

-----------------------------------------------------------------------------
(* While the file keeps its origin.  Until the pane is disposed of, one of   *)
(* initTerminal and the drain is at work, it waits for one read or one slot, *)
(* and what it waits for follows what the screen shows.                      *)

Writing == {"bytes", "frame"}
Waits == {"drain1", "drain2", "done"}
Loads == {"cache", "cachewrite", "main", "mainwrite"}

\* Which of the two is at work.
Actor(p) == CASE p.init \notin Waits -> "init"
              [] p.init \in Waits /\ p.drain.on -> "drain"
              [] OTHER -> "none"

\* Data that the file holds from an offset to a size.
Follows(data, offset, size) ==
  /\ offset <= size => Len(data) = size - offset
  /\ size < offset => data = <<>>
  /\ \A i \in DOMAIN data : data[i] = offset + i

ReadOk(read, p, n) ==
  /\ read.from = p.offset
  /\ read.stage = "answered" =>
       /\ read.size <= n /\ Follows(read.data, p.offset, read.size)
       /\ p.init \in Loads => p.offset <= read.size

SlotOk(slot, p, n) ==
  /\ slot.op = "bytes" => p.offset <= slot.to /\ slot.to <= n /\ Follows(slot.data, p.offset, slot.to)
  /\ slot.op = "frame" => slot.data # <<>> /\ slot.by = "drain"
  /\ slot.by = "init" => p.init \in {"cachewrite", "mainwrite", "catch1", "catch2"}

\* What was read is on the screen once and in order, and all of the file up to the offset
\* when nothing was written from a notification.
InOrder(screen, offset, n) ==
  /\ \A i \in DOMAIN screen : ~screen[i].again => screen[i].id <= offset
  /\ \A i, j \in DOMAIN screen :
       i < j /\ ~screen[i].again /\ ~screen[j].again => screen[i].id < screen[j].id
  /\ (\A i \in DOMAIN screen : ~screen[i].again) =>
       /\ offset <= n /\ Len(screen) = offset
       /\ \A i \in DOMAIN screen : screen[i].id = i

Steady(p, n) ==
  /\ p.state # "disposed" /\ p.gen = 0 /\ p.drain.gen = 0
  /\ \A i \in DOMAIN p.lane : p.lane[i].op # "reset"
  /\ p.state = "live" => p.init = "done"
  /\ p.init \in Loads => p.offset <= n
  /\ p.init = "cache" => p.offset = 0
  /\ InOrder(p.screen, p.offset, n)

Turn(p) ==
  /\ p.init \notin Waits => ~p.drain.on
  /\ p.init \in {"drain1", "drain2"} => p.drain.on

Unwritten(p) == \A i \in DOMAIN p.lane : p.lane[i].op \notin Writing
Free(p) == Unwritten(p) /\ \A o \in Owners : p.read[o].stage = "none"

Pending(p, n) ==
  /\ \A o \in Owners : p.read[o].stage # "none" =>
       /\ o = Actor(p) /\ Unwritten(p) /\ ReadOk(p.read[o], p, n)
       /\ o = "init" => p.init \in {"cache", "main", "catch1", "catch2"}
  /\ \A i \in DOMAIN p.lane : p.lane[i].op \in Writing =>
       /\ p.lane[i].by = Actor(p) /\ p.lane[i].by \in Owners /\ SlotOk(p.lane[i], p, n)
       /\ \A o \in Owners : p.read[o].stage = "none"
       /\ \A j \in DOMAIN p.lane : p.lane[j].op \in Writing => i = j

Flow(p, n) == Steady(p, n) /\ Turn(p) /\ Pending(p, n)

\* The fields that a flow is about have their types.
Chunks == [id : Ids, again : BOOLEAN]
Shaped(p) ==
  /\ IsPane(p) /\ IsDrain(p.drain)
  /\ p.offset \in Nat /\ p.screen \in Seq(Chunks) /\ p.lane \in Seq(Operations)
  /\ p.read \in [Owners -> Reads]

Ready(p, n) == Shaped(p) /\ Steady(p, n) /\ Free(p)

LEMMA PanesAreShaped ==
  ASSUME NEW p \in Panes
  PROVE  Shaped(p)
  BY DEF Panes, Drains, Shaped, IsPane, Fields, IsDrain, Chunks

LEMMA FetchFlows ==
  ASSUME NEW p, NEW n \in Nat, Ready(p, n), Turn(p), NEW owner \in Owners, owner = Actor(p),
         owner = "init" => p.init \in {"cache", "main", "catch1", "catch2"}
  PROVE  Flow(fetchWaveFile(p, owner, p.offset), n)
<1> DEFINE r == [NoRead EXCEPT !.stage = "asked", !.from = p.offset]
           q == [p EXCEPT !.read[owner] = r]
<1>1. r.stage = "asked" /\ r.from = p.offset
  BY DEF NoRead
<1> HIDE DEF r
<1>2. /\ q.state = p.state /\ q.gen = p.gen /\ q.drain = p.drain /\ q.lane = p.lane
      /\ q.init = p.init /\ q.offset = p.offset /\ q.screen = p.screen
      /\ \A o \in Owners : q.read[o] = IF o = owner THEN r ELSE p.read[o]
  BY DEF Ready, Shaped, IsPane, Fields
<1> HIDE DEF q
<1>3. Steady(q, n) /\ Turn(q) /\ Actor(q) = Actor(p) /\ Unwritten(q)
  BY <1>2 DEF Ready, Free, Steady, Turn, Actor, Unwritten
<1>4. Pending(q, n)
  BY <1>1, <1>2, <1>3 DEF Pending, ReadOk, Ready, Free, Unwritten
<1>. QED BY <1>3, <1>4 DEF Flow, fetchWaveFile, q, r

LEMMA SlotFlows ==
  ASSUME NEW p, NEW n \in Nat, Ready(p, n), Turn(p), NEW slot \in Operations,
         slot.op \in Writing, slot.by \in Owners, slot.by = Actor(p), SlotOk(slot, p, n)
  PROVE  Flow(runInPresentationLane(p, slot), n)
<1> DEFINE lane == Append(p.lane, slot)
           q == [p EXCEPT !.lane = lane]
<1>1. \A i \in DOMAIN lane : lane[i] = slot \/ (i \in DOMAIN p.lane /\ lane[i] = p.lane[i])
  BY AppendProperties DEF Ready, Shaped
<1>2. \A i, j \in DOMAIN lane : lane[i].op \in Writing /\ lane[j].op \in Writing => i = j
  BY AppendProperties DEF Ready, Shaped, Free, Unwritten
<1> HIDE DEF lane
<1>3. /\ q.state = p.state /\ q.gen = p.gen /\ q.drain = p.drain /\ q.lane = lane
      /\ q.init = p.init /\ q.offset = p.offset /\ q.screen = p.screen /\ q.read = p.read
  BY DEF Ready, Shaped, IsPane, Fields
<1> HIDE DEF q
<1>4. Steady(q, n) /\ Turn(q) /\ Actor(q) = Actor(p)
  BY <1>1, <1>3 DEF Ready, Steady, Turn, Actor, Writing
<1>5. Pending(q, n)
  BY <1>1, <1>2, <1>3, <1>4 DEF Pending, SlotOk, Ready, Free, Unwritten
<1>. QED BY <1>4, <1>5 DEF Flow, runInPresentationLane, q, lane

LEMMA BytesFlow ==
  ASSUME NEW p, NEW n \in Nat, Ready(p, n), Turn(p), NEW by \in Owners, by = Actor(p),
         NEW ids \in Seq(Ids), NEW to \in Nat, p.offset <= to, to <= n, Follows(ids, p.offset, to),
         by = "init" => p.init \in {"cachewrite", "mainwrite", "catch1", "catch2"}
  PROVE  Flow(doTerminalWrite(p, by, ids, to), n)
<1> DEFINE slot == [op |-> "bytes", by |-> by, data |-> ids, to |-> to]
<1>1. slot \in Operations /\ slot.op \in Writing /\ slot.by = by /\ SlotOk(slot, p, n)
  BY DEF Operations, Writing, SlotOk
<1> HIDE DEF slot
<1>2. Flow(runInPresentationLane(p, slot), n)
  BY <1>1, SlotFlows
<1>. QED BY <1>2 DEF doTerminalWrite, slot

\* A free pane whose load has ended waits for nothing.
LEMMA FreeFlows ==
  ASSUME NEW p, NEW n \in Nat, Ready(p, n), Turn(p)
  PROVE  Flow(p, n)
  BY DEF Flow, Ready, Free, Pending, Unwritten

LEMMA InitEndFlows ==
  ASSUME NEW p, NEW n \in Nat, Ready(p, n)
  PROVE  Flow(InitReturns(p), n) /\ Flow(InitThrows(p), n)
<1>1. ASSUME NEW state, state # "disposed"
      PROVE  Flow([p EXCEPT !.init = "done", !.state = state], n)
  <2> DEFINE q == [p EXCEPT !.init = "done", !.state = state]
  <2>1. /\ q.state = state /\ q.gen = p.gen /\ q.drain = p.drain /\ q.lane = p.lane
        /\ q.init = "done" /\ q.offset = p.offset /\ q.screen = p.screen /\ q.read = p.read
    BY DEF Ready, Shaped, IsPane, Fields
  <2>2. Shaped(q)
    BY DEF Ready, Shaped, IsPane, Fields
  <2> HIDE DEF q
  <2>3. Steady(q, n) /\ Turn(q) /\ Free(q)
    BY <1>1, <2>1 DEF Ready, Steady, Turn, Free, Unwritten, Loads, Waits
  <2>4. Flow(q, n)
    BY <2>2, <2>3, FreeFlows DEF Ready
  <2>. QED BY <2>4 DEF q
<1>2. isIngressCurrent(p, 0) /\ p.state # "disposed"
  BY DEF Ready, Steady, isIngressCurrent
<1>3. Flow(InitReturns(p), n)
  BY <1>1, <1>2 DEF InitReturns
<1>4. Flow(InitThrows(p), n)
  <2> DEFINE s == IF isIngressCurrent(p, 0) /\ p.state = "loading" THEN "live" ELSE p.state
  <2>1. s # "disposed"
    BY <1>2
  <2> HIDE DEF s
  <2>2. Flow([p EXCEPT !.init = "done", !.state = s], n)
    BY <1>1, <2>1
  <2>. QED BY <2>2 DEF InitThrows, s
<1>. QED BY <1>3, <1>4

LEMMA DrainReturnsFlows ==
  ASSUME NEW p, NEW n \in Nat, Ready(p, n), p.init \in Waits
  PROVE  Flow(DrainReturns(p), n)
<1> DEFINE q == [p EXCEPT !.drain = IdleDrain]
           r == [q EXCEPT !.init = "catch2"]
<1>1. ~IdleDrain.on /\ IdleDrain.gen = 0 /\ IsDrain(IdleDrain)
  BY DEF IdleDrain, IsDrain
<1>2. /\ q.state = p.state /\ q.gen = p.gen /\ q.drain = IdleDrain /\ q.lane = p.lane
      /\ q.init = p.init /\ q.offset = p.offset /\ q.screen = p.screen /\ q.read = p.read
  BY DEF Ready, Shaped, IsPane, Fields
<1>3. Shaped(q)
  BY <1>1 DEF Ready, Shaped, IsPane, Fields
<1> HIDE DEF q
<1>4. /\ r.state = p.state /\ r.gen = p.gen /\ r.drain = IdleDrain /\ r.lane = p.lane
      /\ r.init = "catch2" /\ r.offset = p.offset /\ r.screen = p.screen /\ r.read = p.read
  BY <1>2, <1>3 DEF Shaped, IsPane, Fields
<1>5. Shaped(r)
  BY <1>1, <1>3 DEF Shaped, IsPane, Fields
<1> HIDE DEF r
<1>6. Ready(q, n)
  BY <1>1, <1>2, <1>3 DEF Ready, Steady, Free, Unwritten
<1>7. p.init \in {"drain1", "drain2"} => p.state # "live"
  BY DEF Ready, Steady
<1>8. p.init = "drain1" => Ready(r, n) /\ Turn(r) /\ Actor(r) = "init"
  BY <1>1, <1>4, <1>5, <1>7 DEF Ready, Steady, Free, Unwritten, Loads, Waits, Turn, Actor
<1>9. p.init = "drain1" => Flow(fetchWaveFile(r, "init", q.offset), n)
  BY <1>2, <1>4, <1>8, FetchFlows DEF Owners
<1>10. p.init = "done" => Turn(q)
  BY <1>2 DEF Turn, Waits
<1>11. isIngressCurrent(q, 0) /\ Flow(InitReturns(q), n) /\ (p.init = "done" => Flow(q, n))
  BY <1>6, <1>10, InitEndFlows, FreeFlows DEF Ready, Steady, isIngressCurrent
<1>. QED BY <1>2, <1>9, <1>11 DEF DrainReturns, q, r, Waits

LEMMA DrainFlows ==
  ASSUME NEW p, NEW n \in Nat, Ready(p, n), p.init \in Waits, p.drain.on
  PROVE  Flow(drainTerminalIngress(p), n)
<1> DEFINE q == IF p.drain.batch = <<>> THEN [p EXCEPT !.drain.batch = p.held, !.held = <<>>]
                ELSE p
<1>1. /\ q.state = p.state /\ q.gen = p.gen /\ q.drain.on /\ q.drain.gen = p.drain.gen
      /\ q.lane = p.lane /\ q.init = p.init /\ q.offset = p.offset /\ q.screen = p.screen
      /\ q.read = p.read /\ Shaped(q)
  BY DEF Ready, Shaped, IsPane, Fields, IsDrain
<1> HIDE DEF q
<1>2. Ready(q, n) /\ Turn(q) /\ Actor(q) = "drain"
  BY <1>1 DEF Ready, Steady, Free, Unwritten, Turn, Actor
<1>3. Flow(fetchWaveFile(q, "drain", q.offset), n)
  BY <1>2, FetchFlows DEF Owners
<1>. QED BY <1>3, DrainReturnsFlows DEF drainTerminalIngress, q

LEMMA HeldDataFlows ==
  ASSUME NEW p, NEW n \in Nat, Ready(p, n), p.init \in Waits, ~p.drain.on
  PROVE  Flow(drainHeldData(p, 0), n)
<1> DEFINE d == [on |-> TRUE, gen |-> 0, batch |-> <<>>, covered |-> {}]
           q == [p EXCEPT !.drain = d]
<1>1. d.on /\ d.gen = 0 /\ IsDrain(d)
  BY DEF IsDrain
<1> HIDE DEF d
<1>2. /\ q.state = p.state /\ q.gen = p.gen /\ q.drain = d /\ q.lane = p.lane
      /\ q.init = p.init /\ q.offset = p.offset /\ q.screen = p.screen /\ q.read = p.read
  BY DEF Ready, Shaped, IsPane, Fields
<1>3. Shaped(q)
  BY <1>1 DEF Ready, Shaped, IsPane, Fields
<1> HIDE DEF q
<1>4. Ready(q, n)
  BY <1>1, <1>2, <1>3 DEF Ready, Steady, Free, Unwritten
<1>5. Flow(drainTerminalIngress(q), n)
  BY <1>1, <1>2, <1>4, DrainFlows
<1>. QED BY <1>5 DEF drainHeldData, q, d

LEMMA ReplayFlows ==
  ASSUME NEW p, NEW n \in Nat, Ready(p, n), p.init \in Waits, p.drain.on, NEW written,
         Head(p.drain.batch) \in Ids
  PROVE  Flow(replayMissingAnchors(p, written), n)
<1> DEFINE covered == p.drain.covered \cup Marks(written)
           q == [p EXCEPT !.drain.covered = covered]
           chunk == Head(p.drain.batch)
           frame == [op |-> "frame", by |-> "drain", data |-> <<chunk>>, to |-> 0]
           marked == [q EXCEPT !.drain.covered = @ \cup {chunk}]
           rest == [q EXCEPT !.drain.batch = Tail(@)]
<1> HIDE DEF covered
<1>1. /\ q.state = p.state /\ q.gen = p.gen /\ q.drain.on /\ q.drain.gen = p.drain.gen
      /\ q.lane = p.lane /\ q.init = p.init /\ q.offset = p.offset /\ q.screen = p.screen
      /\ q.read = p.read /\ Shaped(q)
  BY DEF Ready, Shaped, IsPane, Fields, IsDrain
<1> HIDE DEF q
<1>2. /\ marked.state = p.state /\ marked.gen = p.gen /\ marked.drain.on
      /\ marked.drain.gen = p.drain.gen
      /\ marked.lane = p.lane /\ marked.init = p.init /\ marked.offset = p.offset
      /\ marked.screen = p.screen /\ marked.read = p.read /\ Shaped(marked)
  BY <1>1 DEF Shaped, IsPane, Fields, IsDrain
<1>3. /\ rest.state = p.state /\ rest.gen = p.gen /\ rest.drain.on
      /\ rest.drain.gen = p.drain.gen
      /\ rest.lane = p.lane /\ rest.init = p.init /\ rest.offset = p.offset
      /\ rest.screen = p.screen /\ rest.read = p.read /\ Shaped(rest)
  BY <1>1 DEF Shaped, IsPane, Fields, IsDrain
<1>4. /\ frame \in Operations /\ frame.op \in Writing /\ frame.by = "drain"
      /\ SlotOk(frame, marked, n)
  BY DEF Operations, Owners, Writing, SlotOk
<1> HIDE DEF frame, marked, rest
<1>5. Ready(marked, n) /\ Turn(marked) /\ Actor(marked) = "drain" /\ Ready(rest, n)
  BY <1>2, <1>3 DEF Ready, Steady, Free, Unwritten, Turn, Actor
<1>6. Flow(runInPresentationLane(marked, frame), n)
  BY <1>4, <1>5, SlotFlows DEF Owners
<1>7. Flow(drainTerminalIngress(rest), n)
  BY <1>3, <1>5, DrainFlows
<1>. QED
  BY <1>6, <1>7, DrainReturnsFlows
     DEF replayMissingAnchors, covered, q, chunk, frame, marked, rest

LEMMA CatchUpEndFlows ==
  ASSUME NEW p, NEW n \in Nat, Ready(p, n), ~p.drain.on, p.init \in {"catch1", "catch2"}
  PROVE  Flow(AfterCatchUp(p), n)
<1> DEFINE next == IF p.init = "catch1" THEN "drain1" ELSE "drain2"
           q == [p EXCEPT !.init = next]
<1>1. next \in Waits /\ next \notin Loads /\ p.state # "live"
  BY DEF Waits, Loads, Ready, Steady
<1> HIDE DEF next
<1>2. /\ q.state = p.state /\ q.gen = p.gen /\ q.drain = p.drain /\ q.lane = p.lane
      /\ q.init = next /\ q.offset = p.offset /\ q.screen = p.screen /\ q.read = p.read
  BY DEF Ready, Shaped, IsPane, Fields
<1>3. Shaped(q)
  BY DEF Ready, Shaped, IsPane, Fields
<1> HIDE DEF q
<1>4. Ready(q, n)
  BY <1>1, <1>2, <1>3 DEF Ready, Steady, Free, Unwritten, Loads
<1>5. Flow(drainHeldData(q, 0), n)
  BY <1>1, <1>2, <1>4, HeldDataFlows
<1>. QED BY <1>5 DEF AfterCatchUp, q, next

\* What a read brings: no more than the file has, and what follows the offset.
Brings(answer, p, n) ==
  answer \in Reads /\ answer.size <= n /\ Follows(answer.data, p.offset, answer.size)

LEMMA CatchUpFlows ==
  ASSUME NEW p, NEW n \in Nat, Ready(p, n), Turn(p), NEW owner \in Owners, owner = Actor(p),
         owner = "init" => p.init \in {"catch1", "catch2"},
         owner = "drain" => Head(p.drain.batch) \in Ids,
         NEW answer, Brings(answer, p, n)
  PROVE  Flow(catchUpTerminalFile(p, owner, answer), n)
<1> DEFINE gen == IF owner = "init" THEN 0 ELSE p.drain.gen
           q == [p EXCEPT !.offset = answer.size]
<1>1. isIngressCurrent(p, gen)
  BY DEF Ready, Steady, isIngressCurrent
<1>2. answer.size \in Nat /\ answer.data \in Seq(Ids) /\ p.offset \in Nat
  BY DEF Brings, Reads, Ready, Shaped
<1>3. Flow(CatchUpReturns(p, owner, <<>>), n)
  <2>1. CASE owner = "init"
    BY <2>1, CatchUpEndFlows DEF CatchUpReturns, Turn, Waits
  <2>2. CASE owner = "drain"
    <3>1. p.drain.on /\ p.init \in Waits
      BY <2>2 DEF Actor
    <3>. QED BY <2>2, <3>1, ReplayFlows DEF CatchUpReturns
  <2>. QED BY <2>1, <2>2 DEF Owners
<1>4. CASE answer.size < p.offset
  BY <1>2, <1>3, <1>4 DEF catchUpTerminalFile
<1>5. CASE answer.size >= p.offset /\ answer.data # <<>>
  <2>1. Flow(doTerminalWrite(p, owner, answer.data, answer.size), n)
    BY <1>2, <1>5, BytesFlow DEF Brings
  <2>. QED BY <1>1, <1>5, <2>1 DEF catchUpTerminalFile
<1>6. CASE answer.size >= p.offset /\ answer.data = <<>>
  <2>1. answer.size = p.offset
    BY <1>2, <1>6 DEF Brings, Follows
  <2>2. q = p
    BY <2>1 DEF Ready, Shaped, IsPane, Fields
  <2> HIDE DEF q
  <2>. QED BY <1>1, <1>3, <1>2, <1>6, <2>2 DEF catchUpTerminalFile, q
<1>. QED BY <1>2, <1>4, <1>5, <1>6

LEMMA LoadFlows ==
  ASSUME NEW p, NEW n \in Nat, Ready(p, n), Turn(p), p.init \in {"cache", "main"},
         NEW answer, Brings(answer, p, n), p.offset <= answer.size
  PROVE  Flow(loadInitialTerminalData(p, answer), n)
<1> DEFINE q(at) == [p EXCEPT !.init = at]
           Stages == {"main", "mainwrite", "cachewrite"}
<1>1. isIngressCurrent(p, 0) /\ ~p.drain.on /\ p.offset <= n /\ p.state # "live"
  BY DEF Ready, Steady, Turn, Loads, Waits, isIngressCurrent
<1>2. answer.size \in Nat /\ answer.data \in Seq(Ids) /\ p.offset \in Nat
  BY DEF Brings, Reads, Ready, Shaped
<1>3. ASSUME NEW at \in Stages
      PROVE  /\ Ready(q(at), n) /\ Turn(q(at)) /\ Actor(q(at)) = "init"
             /\ q(at).offset = p.offset /\ q(at).init = at
  <2> DEFINE a == q(at)
  <2>1. /\ a.state = p.state /\ a.gen = p.gen /\ a.drain = p.drain /\ a.lane = p.lane
        /\ a.init = at /\ a.offset = p.offset /\ a.screen = p.screen /\ a.read = p.read
    BY DEF Ready, Shaped, IsPane, Fields
  <2>2. Shaped(a)
    BY DEF Ready, Shaped, IsPane, Fields
  <2> HIDE DEF q
  <2>3. Ready(a, n)
    BY <1>1, <2>1, <2>2 DEF Ready, Steady, Free, Unwritten
  <2>. QED BY <1>1, <2>1, <2>3 DEF Turn, Actor, Waits
<1> HIDE DEF q
<1>4. ASSUME NEW at \in {"mainwrite", "cachewrite"}
      PROVE  Flow(doTerminalWrite(q(at), "init", answer.data, answer.size), n)
  BY <1>2, <1>3, BytesFlow DEF Brings, Owners
<1>5. Flow(fetchWaveFile(q("main"), "init", q("main").offset), n)
  BY <1>3, FetchFlows DEF Owners
<1>6. p.init = "cache" => q("main").offset = 0
  BY <1>3 DEF Ready, Steady
<1>. QED BY <1>1, <1>4, <1>5, <1>6 DEF loadInitialTerminalData, q

LEMMA WriteReturnsFlows ==
  ASSUME NEW p, NEW n \in Nat, Ready(p, n), Turn(p), NEW slot \in Operations,
         slot.by \in Owners, slot.by = Actor(p),
         slot.by = "init" => /\ p.init \in {"cachewrite", "mainwrite", "catch1", "catch2"}
                             /\ p.offset = slot.to,
         slot.by = "drain" => Head(p.drain.batch) \in Ids
  PROVE  Flow(WriteReturns(p, slot), n)
<1> DEFINE rest == [p EXCEPT !.drain.batch = Tail(@)]
           main == [p EXCEPT !.init = "main"]
           draining == [p EXCEPT !.init = "catch1", !.state = "draining"]
<1>1. CASE slot.by = "drain"
  <2>1. p.drain.on /\ p.init \in Waits
    BY <1>1 DEF Actor
  <2>2. /\ rest.state = p.state /\ rest.gen = p.gen /\ rest.drain.on
        /\ rest.drain.gen = p.drain.gen
        /\ rest.lane = p.lane /\ rest.init = p.init /\ rest.offset = p.offset
        /\ rest.screen = p.screen /\ rest.read = p.read /\ Shaped(rest)
    BY <2>1 DEF Ready, Shaped, IsPane, Fields, IsDrain
  <2> HIDE DEF rest
  <2>3. Ready(rest, n)
    BY <2>2 DEF Ready, Steady, Free, Unwritten
  <2>4. Flow(drainTerminalIngress(rest), n) /\ Flow(replayMissingAnchors(p, slot.data), n)
    BY <1>1, <2>1, <2>2, <2>3, DrainFlows, ReplayFlows
  <2>. QED BY <1>1, <2>4 DEF WriteReturns, rest
<1>2. CASE slot.by = "init"
  <2>1. ~p.drain.on /\ p.state # "live" /\ p.state # "disposed" /\ isIngressCurrent(p, 0)
    BY <1>2 DEF Turn, Waits, Ready, Steady, isIngressCurrent
  <2>2. /\ main.state = p.state /\ main.gen = p.gen /\ main.drain = p.drain /\ main.lane = p.lane
        /\ main.init = "main" /\ main.offset = p.offset /\ main.screen = p.screen
        /\ main.read = p.read /\ Shaped(main)
    BY DEF Ready, Shaped, IsPane, Fields
  <2>3. /\ draining.state = "draining" /\ draining.gen = p.gen /\ draining.drain = p.drain
        /\ draining.lane = p.lane /\ draining.init = "catch1" /\ draining.offset = p.offset
        /\ draining.screen = p.screen /\ draining.read = p.read /\ Shaped(draining)
    BY DEF Ready, Shaped, IsPane, Fields
  <2> HIDE DEF main, draining
  <2>4. CASE p.init = "cachewrite"
    <3>1. Ready(main, n) /\ Turn(main) /\ Actor(main) = "init"
      BY <2>1, <2>2, <2>4 DEF Ready, Steady, Free, Unwritten, Turn, Actor, Waits, Loads
    <3>2. Flow(fetchWaveFile(main, "init", slot.to), n)
      BY <1>2, <2>2, <3>1, FetchFlows DEF Owners
    <3>. QED BY <1>2, <2>4, <3>2 DEF WriteReturns, main
  <2>5. CASE p.init = "mainwrite"
    <3>1. Ready(draining, n) /\ Turn(draining) /\ Actor(draining) = "init"
      BY <2>1, <2>3, <2>5 DEF Ready, Steady, Free, Unwritten, Turn, Actor, Waits, Loads
    <3>2. Flow(fetchWaveFile(draining, "init", p.offset), n)
      BY <2>3, <3>1, FetchFlows DEF Owners
    <3>. QED BY <1>2, <2>1, <2>5, <3>2 DEF WriteReturns, draining
  <2>6. CASE p.init \in {"catch1", "catch2"}
    <3>1. Flow(AfterCatchUp(p), n)
      BY <2>1, <2>6, CatchUpEndFlows
    <3>. QED BY <1>2, <2>6, <3>1 DEF WriteReturns
  <2>. QED BY <1>2, <2>4, <2>5, <2>6
<1>. QED BY <1>1, <1>2 DEF Owners

LEMMA DrainThrowsFlows ==
  ASSUME NEW p, NEW n \in Nat, Ready(p, n), p.init \in Waits
  PROVE  Flow(DrainThrows(p), n)
<1> DEFINE q == [p EXCEPT !.drain = IdleDrain, !.held = p.drain.batch \o @]
<1>1. ~IdleDrain.on /\ IdleDrain.gen = 0 /\ IsDrain(IdleDrain)
  BY DEF IdleDrain, IsDrain
<1>2. /\ q.state = p.state /\ q.gen = p.gen /\ q.drain = IdleDrain /\ q.lane = p.lane
      /\ q.init = p.init /\ q.offset = p.offset /\ q.screen = p.screen /\ q.read = p.read
  BY DEF Ready, Shaped, IsPane, Fields
<1>3. Shaped(q)
  BY <1>1 DEF Ready, Shaped, IsPane, Fields
<1> HIDE DEF q
<1>4. Ready(q, n)
  BY <1>1, <1>2, <1>3 DEF Ready, Steady, Free, Unwritten
<1>5. p.init = "done" => Turn(q)
  BY <1>2 DEF Turn, Waits
<1>6. Flow(InitThrows(q), n) /\ (p.init = "done" => Flow(q, n))
  BY <1>4, <1>5, InitEndFlows, FreeFlows
<1>. QED BY <1>2, <1>6 DEF DrainThrows, q, Waits

\* The screen after a slot of bytes that follows it, or of a notification's mark.
LEMMA BytesInOrder ==
  ASSUME NEW screen \in Seq(Chunks), NEW offset \in Nat, NEW n \in Nat, NEW to \in Nat,
         NEW data \in Seq(Ids), NEW shown \in Seq(Chunks), InOrder(screen, offset, n),
         offset <= to, to <= n, Follows(data, offset, to), Len(shown) = Len(data),
         \A i \in 1..Len(data) : shown[i].id = data[i] /\ ~shown[i].again
  PROVE  InOrder(screen \o shown, to, n)
<1> DEFINE after == screen \o shown
           a == Len(screen)
           b == Len(shown)
<1>1. /\ a \in Nat /\ b \in Nat /\ Len(after) = a + b /\ DOMAIN after = 1..(a + b)
      /\ DOMAIN screen = 1..a /\ b = to - offset
      /\ \A i \in 1..(a + b) : after[i] = IF i <= a THEN screen[i] ELSE shown[i - a]
  <2>1. b = to - offset
    BY DEF Follows
  <2>2. Len(after) = a + b /\ after \in Seq(Chunks)
          /\ \A i \in 1..(a + b) : after[i] = IF i <= a THEN screen[i] ELSE shown[i - a]
    BY ConcatProperties
  <2>3. a \in Nat /\ b \in Nat /\ DOMAIN screen = 1..a
    OBVIOUS
  <2> HIDE DEF after, a, b
  <2>. QED BY <2>1, <2>2, <2>3
<1>2. \A i \in 1..b : shown[i].id = offset + i /\ ~shown[i].again
  <2>1. DOMAIN data = 1..b
    OBVIOUS
  <2>2. \A i \in 1..b : data[i] = offset + i
    BY <2>1 DEF Follows
  <2>. QED BY <2>2
<1> HIDE DEF after
<1>3. \A i \in 1..a : after[i] = screen[i] /\ i \in 1..(a + b)
  BY <1>1
<1>4. \A i \in (a + 1)..(a + b) :
         after[i].id = offset + (i - a) /\ ~after[i].again /\ i - a \in 1..b
  <2> TAKE i \in (a + 1)..(a + b)
  <2>1. i - a \in 1..b /\ i \in 1..(a + b) /\ ~(i <= a)
    BY <1>1
  <2>. QED BY <1>1, <1>2, <2>1
<1>5. \A i \in 1..(a + b) : i \in 1..a \/ i \in (a + 1)..(a + b)
  BY <1>1
<1>6. \A i \in 1..a : screen[i] \in Chunks
  BY ElementOfSeq
<1>7. \A i \in 1..a : screen[i].id \in Int
  BY <1>6 DEF Chunks, Ids
<1>8. \A i \in 1..a : ~screen[i].again => screen[i].id <= offset
  BY <1>1 DEF InOrder
<1>9. \A i \in 1..(a + b) : ~after[i].again => after[i].id <= to
  <2> SUFFICES ASSUME NEW i \in 1..(a + b), ~after[i].again PROVE after[i].id <= to
    OBVIOUS
  <2>1. CASE i \in 1..a
    BY <1>1, <1>3, <1>7, <1>8, <2>1
  <2>2. CASE i \in (a + 1)..(a + b)
    BY <1>1, <1>4, <2>2
  <2>. QED BY <1>5, <2>1, <2>2
<1>10. ASSUME NEW i \in 1..(a + b), NEW j \in 1..(a + b), i < j, ~after[i].again, ~after[j].again
       PROVE  after[i].id < after[j].id
  <2>1. CASE j \in 1..a
    <3>1. i \in 1..a
      BY <1>1, <1>10, <2>1
    <3>2. screen[i].id < screen[j].id
      BY <1>1, <1>3, <1>10, <2>1, <3>1 DEF InOrder
    <3>. QED BY <1>3, <2>1, <3>1, <3>2
  <2>2. CASE j \in (a + 1)..(a + b) /\ i \in 1..a
    <3>1. after[i].id <= offset /\ after[i].id \in Int
      BY <1>3, <1>7, <1>8, <1>10, <2>2
    <3>2. after[j].id = offset + (j - a) /\ j - a \in 1..b
      BY <1>4, <2>2
    <3>. QED BY <1>1, <3>1, <3>2
  <2>3. CASE j \in (a + 1)..(a + b) /\ i \in (a + 1)..(a + b)
    BY <1>1, <1>4, <1>10, <2>3
  <2>. QED BY <1>5, <2>1, <2>2, <2>3
<1>11. ASSUME \A i \in 1..(a + b) : ~after[i].again
       PROVE  a + b = to /\ \A i \in 1..(a + b) : after[i].id = i
  <2>1. \A i \in 1..a : ~screen[i].again
    BY <1>3, <1>11
  <2>2. a = offset /\ \A i \in 1..a : screen[i].id = i
    BY <1>1, <2>1 DEF InOrder
  <2>3. \A i \in (a + 1)..(a + b) : after[i].id = i
    BY <1>1, <1>4, <2>2
  <2>. QED BY <1>1, <1>3, <1>5, <2>2, <2>3
<1>12. InOrder(after, to, n)
  BY <1>1, <1>9, <1>10, <1>11 DEF InOrder
<1>. QED BY <1>12 DEF after

LEMMA MarkInOrder ==
  ASSUME NEW screen \in Seq(Chunks), NEW offset \in Nat, NEW n \in Nat,
         NEW shown \in Seq(Chunks), InOrder(screen, offset, n), shown # <<>>,
         \A i \in 1..Len(shown) : shown[i].again
  PROVE  InOrder(screen \o shown, offset + 1, n)
<1> DEFINE after == screen \o shown
           a == Len(screen)
           b == Len(shown)
<1>1. /\ a \in Nat /\ b \in Nat /\ b > 0 /\ DOMAIN after = 1..(a + b) /\ DOMAIN screen = 1..a
      /\ \A i \in 1..(a + b) : after[i] = IF i <= a THEN screen[i] ELSE shown[i - a]
  BY ConcatProperties
<1> HIDE DEF after
<1>2. \A i \in 1..(a + b) : ~after[i].again => i \in 1..a /\ after[i] = screen[i]
  <2> TAKE i \in 1..(a + b)
  <2>1. ~(i <= a) => i - a \in 1..b
    BY <1>1
  <2>2. ~(i <= a) => after[i].again
    BY <1>1, <2>1
  <2>. QED BY <1>1, <2>2
<1>3. a + 1 \in 1..(a + b) /\ after[a + 1].again
  <2>1. a + 1 \in 1..(a + b) /\ ~(a + 1 <= a) /\ (a + 1) - a = 1 /\ 1 \in 1..b
    BY <1>1
  <2>2. after[a + 1] = shown[1]
    BY <1>1, <2>1
  <2>. QED BY <2>1, <2>2
<1>4. \A i \in 1..a : screen[i] \in Chunks
  BY ElementOfSeq
<1>5. \A i \in 1..a : screen[i].id \in Int
  BY <1>4 DEF Chunks, Ids
<1>6. \A i \in 1..(a + b) : ~after[i].again => after[i].id <= offset + 1
  <2> SUFFICES ASSUME NEW i \in 1..(a + b), ~after[i].again PROVE after[i].id <= offset + 1
    OBVIOUS
  <2>1. after[i].id <= offset /\ after[i].id \in Int
    BY <1>1, <1>2, <1>5 DEF InOrder
  <2>. QED BY <2>1
<1>7. \A i, j \in 1..(a + b) :
        i < j /\ ~after[i].again /\ ~after[j].again => after[i].id < after[j].id
  BY <1>1, <1>2 DEF InOrder
<1>8. InOrder(after, offset + 1, n)
  BY <1>1, <1>3, <1>6, <1>7 DEF InOrder
<1>. QED BY <1>8 DEF after

-----------------------------------------------------------------------------
(* The steps of a pane that is not disposed of. *)

\* A flow is about these fields.
Agree(p, q) ==
  /\ q.state = p.state /\ q.gen = p.gen /\ q.drain = p.drain /\ q.lane = p.lane
  /\ q.init = p.init /\ q.offset = p.offset /\ q.screen = p.screen /\ q.read = p.read

LEMMA FlowAgrees ==
  ASSUME NEW p, NEW q, NEW n \in Nat, Flow(p, n), Agree(p, q)
  PROVE  Flow(q, n)
<1>1. Steady(q, n) /\ Turn(q) /\ Actor(q) = Actor(p) /\ (Unwritten(q) <=> Unwritten(p))
  BY DEF Flow, Agree, Steady, Turn, Actor, Unwritten
<1>2. Pending(q, n)
  BY <1>1 DEF Flow, Agree, Pending, ReadOk, SlotOk
<1>. QED BY <1>1, <1>2 DEF Flow

\* The file grows under a flow.
LEMMA FlowGrows ==
  ASSUME NEW p \in Panes, NEW n \in Nat, Flow(p, n)
  PROVE  Flow(p, n + 1)
<1>1. p.offset \in Nat
  BY DEF Panes
<1>2. \A m \in Nat : m <= n => m <= n + 1
  OBVIOUS
<1>3. Steady(p, n + 1)
  BY <1>1, <1>2 DEF Flow, Steady, InOrder
<1>4. \A o \in Owners : p.read[o] \in Reads /\ p.read[o].size \in Nat
  BY DEF Panes, Reads
<1>5. \A i \in DOMAIN p.lane : p.lane[i] \in Operations /\ p.lane[i].to \in Nat
  <2>1. p.lane \in Seq(Operations)
    BY DEF Panes
  <2>2. \A i \in DOMAIN p.lane : p.lane[i] \in Operations
    BY <2>1, ElementOfSeq
  <2>. QED BY <2>2 DEF Operations
<1>6. \A o \in Owners : ReadOk(p.read[o], p, n) => ReadOk(p.read[o], p, n + 1)
  BY <1>2, <1>4 DEF ReadOk
<1>7. \A i \in DOMAIN p.lane : SlotOk(p.lane[i], p, n) => SlotOk(p.lane[i], p, n + 1)
  BY <1>2, <1>5 DEF SlotOk
<1>8. Pending(p, n + 1)
  BY <1>6, <1>7 DEF Flow, Pending
<1>. QED BY <1>3, <1>8 DEF Flow

\* When the read that the pane waits for has come, it waits for nothing.
LEMMA UnreadReady ==
  ASSUME NEW p \in Panes, NEW n \in Nat, Flow(p, n), NEW owner \in Owners,
         p.read[owner].stage # "none"
  PROVE  /\ Ready(Unread(p, owner), n) /\ Turn(Unread(p, owner))
         /\ Actor(Unread(p, owner)) = owner
         /\ owner = "init" => p.init \in {"cache", "main", "catch1", "catch2"}
         /\ owner = "drain" => p.init \in Waits
         /\ Unread(p, owner).offset = p.offset /\ Unread(p, owner).init = p.init
         /\ Unread(p, owner).drain = p.drain
<1> DEFINE q == [p EXCEPT !.read[owner] = NoRead]
<1>1. NoRead \in Reads /\ NoRead.stage = "none"
  BY EmptySeq DEF NoRead, Reads
<1>2. q \in Panes
  BY <1>1 DEF Panes
<1>3. /\ q.state = p.state /\ q.gen = p.gen /\ q.drain = p.drain /\ q.lane = p.lane
      /\ q.init = p.init /\ q.offset = p.offset /\ q.screen = p.screen
      /\ \A o \in Owners : q.read[o] = IF o = owner THEN NoRead ELSE p.read[o]
  BY DEF Panes
<1> HIDE DEF q
<1>4. owner = Actor(p) /\ Unwritten(p)
        /\ (owner = "init" => p.init \in {"cache", "main", "catch1", "catch2"})
  BY DEF Flow, Pending
<1>5. \A o \in Owners : o # owner => p.read[o].stage = "none"
  BY <1>4 DEF Flow, Pending
<1>6. Steady(q, n) /\ Turn(q) /\ Actor(q) = owner /\ Free(q)
  BY <1>1, <1>3, <1>4, <1>5 DEF Flow, Steady, Turn, Actor, Free, Unwritten
<1>7. Ready(q, n)
  BY <1>2, <1>6, PanesAreShaped DEF Ready
<1>8. owner = "drain" => p.init \in Waits
  BY <1>4 DEF Actor
<1>. QED BY <1>3, <1>4, <1>6, <1>7, <1>8 DEF Unread, q

\* A drain under way has a notification.
LEMMA DrainHasChunk ==
  ASSUME NEW p, Sound(p), p.drain.on
  PROVE  Head(p.drain.batch) \in Ids
  BY HeadTailProperties DEF Sound, DrainOk, Panes, Drains

\* The slot of a write: the pane shows what follows, and waits for nothing.
LEMMA SlotReady ==
  ASSUME NEW p, Sound(p), NEW n \in Nat, Flow(p, n), p.lane # <<>>, Head(p.lane).op \in Writing
  PROVE  LET slot == Head(p.lane)
             w == Written(Slotted(p), slot)
         IN  /\ slot \in Operations
             /\ Ready(w, n) /\ Turn(w) /\ slot.by \in Owners /\ slot.by = Actor(w)
             /\ slot.by = "init" => /\ w.init \in {"cachewrite", "mainwrite", "catch1", "catch2"}
                                    /\ w.offset = slot.to
             /\ slot.by = "drain" => Head(w.drain.batch) \in Ids
<1> DEFINE slot == Head(p.lane)
           lane == Tail(p.lane)
           s == Slotted(p)
           w == Written(s, slot)
<1>1. Sound(s) /\ slot \in Operations /\ Sound(w) /\ w.drain = s.drain
  BY SlottedSound, WrittenSound
<1>2. /\ p \in Panes /\ p.lane \in Seq(Operations) /\ Len(lane) = Len(p.lane) - 1
      /\ lane \in Seq(Operations) /\ \A i \in 1..Len(lane) : lane[i] = p.lane[i + 1]
      /\ 1 \in DOMAIN p.lane /\ slot = p.lane[1]
  BY HeadTailProperties DEF Sound, Panes
<1>3. /\ slot.by = Actor(p) /\ slot.by \in Owners /\ SlotOk(slot, p, n)
      /\ \A o \in Owners : p.read[o].stage = "none"
      /\ \A j \in DOMAIN p.lane : p.lane[j].op \in Writing => 1 = j
  BY <1>2 DEF Flow, Pending
<1>4. \A i \in DOMAIN lane : i + 1 \in DOMAIN p.lane /\ i + 1 # 1 /\ lane[i] = p.lane[i + 1]
  <2>1. /\ DOMAIN lane = 1..Len(lane) /\ DOMAIN p.lane = 1..Len(p.lane)
        /\ Len(lane) \in Nat /\ Len(p.lane) \in Nat
    BY <1>2
  <2>2. \A i \in 1..Len(lane) : i + 1 \in 1..Len(p.lane) /\ i + 1 # 1
    BY <1>2, <2>1
  <2>. QED BY <1>2, <2>1, <2>2
<1>5. \A i \in DOMAIN lane : lane[i].op \notin Writing /\ lane[i].op # "reset"
  BY <1>3, <1>4 DEF Flow, Steady
<1> DEFINE shown == [i \in DOMAIN slot.data |-> [id |-> slot.data[i], again |-> slot.op = "frame"]]
           offset == IF slot.op = "frame" THEN p.offset + 1 ELSE slot.to
<1>6. /\ s.screen = p.screen /\ s.offset = p.offset
      /\ w.state = p.state /\ w.gen = p.gen /\ w.drain = p.drain /\ w.lane = lane
      /\ w.init = p.init /\ w.read = p.read /\ w.offset = offset /\ w.screen = p.screen \o shown
  BY <1>2 DEF Panes, Slotted, Written
<1>7. p.offset \in Nat /\ p.screen \in Seq(Chunks) /\ slot.to \in Nat /\ slot.data \in Seq(Ids)
  BY <1>1, <1>2 DEF Panes, Chunks, Operations
<1> HIDE DEF slot, lane, s, w
<1>8. shown \in Seq(Chunks) /\ Len(shown) = Len(slot.data)
        /\ \A i \in 1..Len(slot.data) : shown[i].id = slot.data[i] /\ shown[i].again = (slot.op = "frame")
  <2> DEFINE again == slot.op = "frame"
             m == Len(slot.data)
  <2>1. again \in BOOLEAN /\ m \in Nat /\ DOMAIN slot.data = 1..m
    BY <1>7
  <2>2. \A i \in 1..m : slot.data[i] \in Ids
    BY <1>7, ElementOfSeq
  <2>3. shown = [i \in 1..m |-> [id |-> slot.data[i], again |-> again]]
    BY <2>1
  <2> HIDE DEF again, m, shown
  <2>4. \A i \in 1..m : [id |-> slot.data[i], again |-> again] \in Chunks
    BY <2>1, <2>2 DEF Chunks
  <2>5. shown \in Seq(Chunks)
    BY <2>1, <2>3, <2>4, IsASeq
  <2>6. Len(shown) = m /\ \A i \in 1..m : shown[i].id = slot.data[i] /\ shown[i].again = again
    BY <2>1, <2>3, <2>5
  <2>. QED BY <2>5, <2>6 DEF again, m
<1> HIDE DEF shown
<1>9. InOrder(p.screen, p.offset, n)
  BY DEF Flow, Steady
<1>10. InOrder(p.screen \o shown, offset, n)
  <2>1. CASE slot.op = "bytes"
    <3>1. p.offset <= slot.to /\ slot.to <= n /\ Follows(slot.data, p.offset, slot.to)
      BY <1>3, <2>1 DEF SlotOk
    <3>2. \A i \in 1..Len(slot.data) : shown[i].id = slot.data[i] /\ ~shown[i].again
      BY <1>8, <2>1
    <3>3. InOrder(p.screen \o shown, slot.to, n)
      BY <1>7, <1>8, <1>9, <3>1, <3>2, BytesInOrder
    <3>. QED BY <2>1, <3>3
  <2>2. CASE slot.op = "frame"
    <3>1. slot.data # <<>>
      BY <1>3, <2>2 DEF SlotOk
    <3>2. shown # <<>> /\ \A i \in 1..Len(shown) : shown[i].again
      <4>1. Len(slot.data) # 0 /\ (slot.op = "frame") = TRUE
        BY <1>7, <2>2, <3>1
      <4>2. shown # <<>>
        BY <1>8, <4>1
      <4>3. \A i \in 1..Len(slot.data) : shown[i].again = TRUE
        BY <1>8, <4>1
      <4>. QED BY <1>8, <4>2, <4>3
    <3>3. InOrder(p.screen \o shown, p.offset + 1, n)
      BY <1>7, <1>8, <1>9, <3>2, MarkInOrder
    <3>. QED BY <2>2, <3>3
  <2>. QED BY <2>1, <2>2 DEF Writing, slot
<1>11. p.init \in Loads => offset <= n
  <2>1. p.init \in Loads => slot.by # "drain"
    BY <1>3 DEF Actor, Loads, Waits
  <2>. QED BY <1>3, <2>1 DEF SlotOk, Writing, slot
<1>12. p.init # "cache"
  <2>1. p.init = "cache" => slot.by = "init"
    BY <1>3 DEF Actor, Waits
  <2>. QED BY <1>3, <2>1 DEF SlotOk
<1>13. Steady(w, n) /\ Turn(w) /\ Actor(w) = Actor(p) /\ Free(w)
  BY <1>3, <1>5, <1>6, <1>10, <1>11, <1>12 DEF Flow, Steady, Turn, Actor, Free, Unwritten
<1>14. Ready(w, n)
  BY <1>1, <1>13, PanesAreShaped DEF Ready, Sound
<1>15. slot.by = "init" => /\ w.init \in {"cachewrite", "mainwrite", "catch1", "catch2"}
                           /\ w.offset = slot.to
  BY <1>3, <1>6 DEF SlotOk
<1>16. slot.by = "drain" => Head(w.drain.batch) \in Ids
  <2>1. slot.by = "drain" => w.drain.on
    BY <1>3, <1>6 DEF Actor
  <2>. QED BY <1>1, <2>1, DrainHasChunk
<1>. QED BY <1>1, <1>3, <1>13, <1>14, <1>15, <1>16 DEF slot, s, w

\* A slot that writes nothing comes and goes.
LEMMA ClearSlotFlows ==
  ASSUME NEW p \in Panes, NEW n \in Nat, Flow(p, n)
  PROVE  /\ \A slot \in Operations : slot.op = "clear" => Flow(runInPresentationLane(p, slot), n)
         /\ p.lane # <<>> /\ Head(p.lane).op \notin Writing => Flow(Slotted(p), n)
<1>1. ASSUME NEW lane, NEW back,
             \A i \in DOMAIN lane : lane[i].op = "clear" \/
                                    (back[i] \in DOMAIN p.lane /\ lane[i] = p.lane[back[i]]),
             \A i, j \in DOMAIN lane : back[i] = back[j] => i = j
      PROVE  Flow([p EXCEPT !.lane = lane], n)
  <2> DEFINE q == [p EXCEPT !.lane = lane]
  <2>1. /\ q.state = p.state /\ q.gen = p.gen /\ q.drain = p.drain /\ q.lane = lane
        /\ q.init = p.init /\ q.offset = p.offset /\ q.screen = p.screen /\ q.read = p.read
    BY DEF Panes
  <2> HIDE DEF q
  <2>2. Steady(q, n) /\ Turn(q) /\ Actor(q) = Actor(p)
    BY <1>1, <2>1 DEF Flow, Steady, Turn, Actor
  <2>3. Unwritten(p) => Unwritten(q)
    BY <1>1, <2>1 DEF Unwritten, Writing
  <2>4. \A o \in Owners : ReadOk(p.read[o], p, n) => ReadOk(q.read[o], q, n)
    BY <2>1 DEF ReadOk
  <2>5. \A i \in DOMAIN lane : lane[i].op \in Writing =>
          back[i] \in DOMAIN p.lane /\ lane[i] = p.lane[back[i]]
    BY <1>1 DEF Writing
  <2>6. \A i \in DOMAIN lane : SlotOk(lane[i], p, n) => SlotOk(lane[i], q, n)
    BY <2>1 DEF SlotOk
  <2>7. ASSUME NEW i \in DOMAIN lane, lane[i].op \in Writing
        PROVE  /\ lane[i].by = Actor(q) /\ lane[i].by \in Owners /\ SlotOk(lane[i], q, n)
               /\ \A o \in Owners : q.read[o].stage = "none"
               /\ \A j \in DOMAIN lane : lane[j].op \in Writing => i = j
    <3>1. back[i] \in DOMAIN p.lane /\ lane[i] = p.lane[back[i]]
      BY <2>5, <2>7
    <3>2. /\ lane[i].by = Actor(p) /\ lane[i].by \in Owners /\ SlotOk(lane[i], p, n)
          /\ \A o \in Owners : p.read[o].stage = "none"
          /\ \A j \in DOMAIN p.lane : p.lane[j].op \in Writing => back[i] = j
      BY <2>7, <3>1 DEF Flow, Pending
    <3>. QED BY <1>1, <2>1, <2>2, <2>5, <2>6, <3>2
  <2>8. Pending(q, n)
    BY <2>1, <2>2, <2>3, <2>4, <2>7 DEF Flow, Pending
  <2>. QED BY <2>2, <2>8 DEF Flow, q
<1>2. p.lane \in Seq(Operations)
  BY DEF Panes
<1>3. ASSUME NEW slot \in Operations, slot.op = "clear"
      PROVE  Flow(runInPresentationLane(p, slot), n)
  <2> DEFINE lane == Append(p.lane, slot)
             back == [i \in DOMAIN lane |-> i]
  <2>1. \A i \in DOMAIN lane : lane[i].op = "clear" \/
                                (back[i] \in DOMAIN p.lane /\ lane[i] = p.lane[back[i]])
    <3>1. \A i \in DOMAIN lane : lane[i] = slot \/ (i \in DOMAIN p.lane /\ lane[i] = p.lane[i])
      BY <1>2, <1>3, AppendProperties
    <3> HIDE DEF lane
    <3>. QED BY <1>3, <3>1
  <2>2. \A i, j \in DOMAIN lane : back[i] = back[j] => i = j
    <3> HIDE DEF lane
    <3>. QED OBVIOUS
  <2> HIDE DEF lane, back
  <2>3. Flow([p EXCEPT !.lane = lane], n)
    BY <1>1, <2>1, <2>2
  <2>. QED BY <2>3 DEF runInPresentationLane, lane
<1>4. ASSUME p.lane # <<>> PROVE Flow(Slotted(p), n)
  <2> DEFINE lane == Tail(p.lane)
             back == [i \in DOMAIN lane |-> i + 1]
  <2>1. /\ Len(lane) = Len(p.lane) - 1 /\ lane \in Seq(Operations)
        /\ \A i \in 1..Len(lane) : lane[i] = p.lane[i + 1]
    BY <1>2, <1>4, HeadTailProperties
  <2> HIDE DEF lane
  <2>2. /\ DOMAIN lane = 1..Len(lane) /\ DOMAIN p.lane = 1..Len(p.lane)
        /\ Len(lane) \in Nat /\ Len(p.lane) \in Nat
    BY <1>2, <2>1
  <2>3. \A i \in 1..Len(lane) : i + 1 \in 1..Len(p.lane)
    BY <2>1, <2>2
  <2>4. \A i \in DOMAIN lane : lane[i].op = "clear" \/
                                (back[i] \in DOMAIN p.lane /\ lane[i] = p.lane[back[i]])
    BY <2>1, <2>2, <2>3
  <2>5. \A i, j \in DOMAIN lane : back[i] = back[j] => i = j
    BY <2>2
  <2> HIDE DEF back
  <2>6. Flow([p EXCEPT !.lane = lane], n)
    BY <1>1, <2>4, <2>5
  <2>. QED BY <2>6 DEF Slotted, lane
<1>. QED BY <1>3, <1>4

\* An event that appends: a pane whose load has ended starts a drain unless one is on.
LEMMA AppendFlows ==
  ASSUME NEW p \in Panes, NEW n \in Nat, Flow(p, n), NEW id
  PROVE  Flow(AppendArrives(p, id), n)
<1> DEFINE q == [p EXCEPT !.held = Append(@, id)]
<1>1. Agree(p, q)
  BY DEF Panes, Agree
<1>2. Shaped(q)
  BY DEF Panes, Drains, Shaped, IsPane, Fields, IsDrain, Chunks
<1> HIDE DEF q
<1>3. Flow(q, n)
  BY <1>1, FlowAgrees
<1>4. CASE p.state = "live" /\ ~p.drain.on
  <2>1. q.init = "done" /\ ~q.drain.on /\ q.gen = 0
    BY <1>1, <1>4 DEF Flow, Steady, Agree
  <2>2. Actor(q) = "none"
    BY <2>1 DEF Actor, Waits
  <2>3. Free(q)
    BY <1>3, <2>2 DEF Flow, Pending, Free, Unwritten, Owners
  <2>4. Flow(drainHeldData(q, 0), n)
    BY <1>2, <1>3, <2>1, <2>3, HeldDataFlows DEF Ready, Flow, Waits
  <2>. QED BY <1>4, <2>1, <2>4 DEF AppendArrives, q
<1>5. CASE p.state = "live" /\ p.drain.on
  <2>1. drainHeldData(q, q.gen) = q
    BY <1>1, <1>5 DEF Agree, drainHeldData
  <2>. QED BY <1>3, <1>5, <2>1 DEF AppendArrives, q
<1>6. CASE p.state # "live"
  BY <1>3, <1>6 DEF AppendArrives, q
<1>. QED BY <1>4, <1>5, <1>6

-----------------------------------------------------------------------------
(* The file and what is on its way. *)

\* What a disposed pane shows, which is what it showed.
Shows(screen, n) ==
  /\ \A i, j \in DOMAIN screen :
       i < j /\ ~screen[i].again /\ ~screen[j].again => screen[i].id < screen[j].id
  /\ (\A i \in DOMAIN screen : ~screen[i].again) =>
       Len(screen) <= n /\ \A i \in DOMAIN screen : screen[i].id = i

Counting(sequence) == \A i \in DOMAIN sequence : sequence[i] = i

FileWhole ==
  /\ Counting(file) /\ Len(file) = counts.chunks
  /\ Counting(cache) /\ Len(cache) <= Len(file)
  /\ \A i \in DOMAIN events : events[i].op = "append"

Screened(p) == IF Disposed(p) THEN Shows(p.screen, Len(file)) ELSE Flow(p, Len(file))

Original == OneOrigin => FileWhole /\ Screened(pane)

LEMMA FlowShows ==
  ASSUME NEW p, NEW n \in Nat, Flow(p, n)
  PROVE  Shows(p.screen, n)
  BY DEF Flow, Steady, InOrder, Shows

LEMMA InitiallyOriginal == Init => Original
<1> SUFFICES ASSUME Init PROVE Original
  OBVIOUS
<1>1. PICK written \in 0..1, saved \in 0..1 :
        /\ file = [i \in 1..written |-> i]
        /\ cache = [i \in 1..saved |-> i]
        /\ counts = [chunks |-> written, truncates |-> 0, failures |-> 0, clears |-> 0,
                    thrown |-> 0]
        /\ saved <= written
  BY DEF Init
<1>2. FileWhole
  BY <1>1 DEF Init, FileWhole, Counting
<1>3. Len(file) \in Nat
  BY <1>1
<1>4. NewPane \in Panes /\ NewPane.state = "loading" /\ NewPane.gen = 0 /\ NewPane.drain = IdleDrain
        /\ NewPane.lane = <<>> /\ NewPane.init = "cache" /\ NewPane.offset = 0 /\ NewPane.screen = <<>>
        /\ \A o \in Owners : NewPane.read[o] = NoRead
  <2>1. IdleDrain \in Drains /\ NoRead \in Reads
    BY EmptySeq DEF IdleDrain, Drains, NoRead, Reads
  <2>. QED BY <2>1, EmptySeq DEF NewPane, Panes
<1>5. ~IdleDrain.on /\ IdleDrain.gen = 0 /\ NoRead.stage = "none"
  BY DEF IdleDrain, NoRead
<1>6. InOrder(<<>>, 0, Len(file))
  BY <1>3, EmptySeq DEF InOrder
<1>7. Steady(NewPane, Len(file)) /\ Turn(NewPane) /\ Free(NewPane) /\ Actor(NewPane) = "init"
  BY <1>3, <1>4, <1>5, <1>6, EmptySeq DEF Steady, Turn, Free, Unwritten, Actor, Waits
<1>8. Flow(pane, Len(file))
  BY <1>3, <1>4, <1>7, PanesAreShaped, FetchFlows DEF Init, Ready, Owners
<1>. QED BY <1>2, <1>8 DEF Original, Screened, Disposed, Flow, Steady

\* A step of the pane alone.
LEMMA PaneStep ==
  ASSUME Original, UNCHANGED <<file, cache>>, counts'.truncates = counts.truncates,
         counts'.chunks = counts.chunks,
         OneOrigin => Screened(pane') /\ \A i \in DOMAIN events' : events'[i].op = "append"
  PROVE  Original'
  BY DEF Original, OneOrigin, FileWhole, Counting, Screened

LEMMA ReadsFlow ==
  ASSUME Types, Original, OneOrigin, ~Disposed(pane), NEW owner \in Owners,
         ReadServed(owner) \/ ReadReturns(owner) \/ ReadFails(owner)
  PROVE  Flow(pane', Len(file))
<1> DEFINE n == Len(file)
           r == pane.read[owner]
           p == Unread(pane, owner)
<1>1. /\ n \in Nat /\ pane \in Panes /\ Sound(pane) /\ Flow(pane, n) /\ r \in Reads
      /\ file \in Seq(Ids) /\ cache \in Seq(Ids)
  BY DEF Types, TypeOK, Sound, Original, Screened, Panes
<1>2. Counting(file) /\ Counting(cache) /\ Len(cache) <= n
  BY DEF Original, FileWhole
<1>3. r.stage # "none"
  BY DEF ReadServed, ReadReturns, ReadFails
<1>4. /\ ReadOk(r, pane, n) /\ owner = Actor(pane) /\ Unwritten(pane)
      /\ owner = "init" => pane.init \in {"cache", "main", "catch1", "catch2"}
  BY <1>1, <1>3 DEF Flow, Pending
<1> HIDE DEF n
<1>5. CASE ReadServed(owner)
  <2> DEFINE source == IF owner = "init" /\ pane.init = "cache" THEN cache ELSE file
             data == SubSeq(source, r.from + 1, Len(source))
             size == Len(source)
             s == [r EXCEPT !.stage = "answered", !.size = size, !.data = data]
  <2>1. source \in Seq(Ids) /\ r.from = pane.offset /\ pane.offset \in Nat /\ Counting(source)
          /\ size \in Nat /\ size <= n
    BY <1>1, <1>2, <1>4 DEF ReadOk, Panes, n
  <2>2. pane.init \in Loads => pane.offset <= size
    <3>1. pane.init \in Loads => pane.offset <= n
      BY <1>1 DEF Flow, Steady
    <3>2. pane.init = "cache" => pane.offset = 0
      BY <1>1 DEF Flow, Steady
    <3>. QED BY <2>1, <3>1, <3>2 DEF n
  <2> HIDE DEF source
  <2>3. /\ data \in Seq(Ids) /\ Len(data) = IF pane.offset + 1 <= size THEN size - pane.offset ELSE 0
        /\ \A i \in 1..(size - pane.offset) : data[i] = source[pane.offset + i]
    <3>1. \A i \in (pane.offset + 1)..size : source[i] \in Ids
      BY <2>1, ElementOfSeq
    <3> DEFINE first == pane.offset + 1
    <3>2. first \in Int /\ size \in Int /\ data = SubSeq(source, first, size)
      BY <2>1 DEF data
    <3> HIDE DEF size, first
    <3>3. /\ data \in Seq(Ids) /\ Len(data) = IF first <= size THEN size - first + 1 ELSE 0
          /\ \A i \in 1..(size - first + 1) : data[i] = source[first + i - 1]
      <4>1. \A i \in first..size : source[i] \in Ids
        BY <3>1 DEF first
      <4>2. /\ SubSeq(source, first, size) \in Seq(Ids)
            /\ Len(SubSeq(source, first, size)) = IF first <= size THEN size - first + 1 ELSE 0
            /\ \A i \in 1..(size - first + 1) :
                  SubSeq(source, first, size)[i] = source[first + i - 1]
        BY <3>2, <4>1, SubSeqProperties
      <4>. QED BY <3>2, <4>2
    <3>4. size - first + 1 = size - pane.offset
      BY <2>1, <3>2 DEF first
    <3>5. \A i \in 1..(size - pane.offset) : first + i - 1 = pane.offset + i
      BY <2>1, <3>2 DEF first
    <3>. QED BY <3>3, <3>4, <3>5 DEF first
  <2> HIDE DEF data
  <2>4. Follows(data, pane.offset, size)
    <3>1. pane.offset <= size => Len(data) = size - pane.offset
      BY <2>1, <2>3
    <3>2. size < pane.offset => data = <<>>
      BY <2>1, <2>3
    <3>3. \A i \in DOMAIN data : data[i] = pane.offset + i
      <4>1. DOMAIN data = 1..Len(data)
        BY <2>3
      <4>2. \A i \in 1..Len(data) : i \in 1..(size - pane.offset) /\ pane.offset + i \in 1..size
        BY <2>1, <2>3
      <4>3. \A i \in 1..size : source[i] = i
        BY <2>1 DEF Counting
      <4>. QED BY <2>3, <4>1, <4>2, <4>3
    <3>. QED BY <3>1, <3>2, <3>3 DEF Follows
  <2>5. s.stage = "answered" /\ s.size = size /\ s.data = data /\ s.from = pane.offset
    BY <1>1, <2>1 DEF Reads
  <2>6. pane' = [pane EXCEPT !.read[owner] = s]
    BY <1>5 DEF ReadServed, s, data, source
  <2> HIDE DEF s, size
  <2>7. /\ pane'.state = pane.state /\ pane'.gen = pane.gen /\ pane'.drain = pane.drain
        /\ pane'.lane = pane.lane /\ pane'.init = pane.init /\ pane'.offset = pane.offset
        /\ pane'.screen = pane.screen
        /\ \A o \in Owners : pane'.read[o] = IF o = owner THEN s ELSE pane.read[o]
    BY <1>1, <2>6 DEF Panes
  <2>8. Steady(pane', n) /\ Turn(pane') /\ Actor(pane') = owner /\ Unwritten(pane')
    BY <1>1, <1>4, <2>7 DEF Flow, Steady, Turn, Actor, Unwritten
  <2>9. ReadOk(s, pane', n)
    BY <2>1, <2>2, <2>4, <2>5, <2>7 DEF ReadOk
  <2>10. \A o \in Owners : o # owner => pane.read[o].stage = "none"
    BY <1>1, <1>4 DEF Flow, Pending
  <2>11. Pending(pane', n)
    BY <1>4, <2>7, <2>8, <2>9, <2>10 DEF Pending, Unwritten
  <2>. QED BY <2>8, <2>11 DEF Flow, n
<1>6. /\ Ready(p, n) /\ Turn(p) /\ Actor(p) = owner /\ p.offset = pane.offset
      /\ p.init = pane.init /\ p.drain = pane.drain /\ (owner = "drain" => p.init \in Waits)
  BY <1>1, <1>3, UnreadReady
<1> HIDE DEF p
<1>7. CASE ReadReturns(owner)
  <2>1. Brings(r, p, n) /\ (p.init \in Loads => p.offset <= r.size)
    BY <1>1, <1>4, <1>6, <1>7 DEF ReadReturns, ReadOk, Brings
  <2>2. CASE owner = "init" /\ p.init \in {"cache", "main"}
    <3>1. Flow(loadInitialTerminalData(p, r), n)
      BY <1>1, <1>6, <2>1, <2>2, LoadFlows DEF Loads
    <3>. QED BY <1>7, <2>2, <3>1 DEF ReadReturns, p, Unread, n
  <2>3. CASE ~(owner = "init" /\ p.init \in {"cache", "main"})
    <3>1. owner = "drain" => Head(p.drain.batch) \in Ids
      BY <1>1, <1>3, <1>6, DrainHasChunk DEF Sound, DrainOk
    <3>2. Flow(catchUpTerminalFile(p, owner, r), n)
      BY <1>1, <1>4, <1>6, <2>1, <2>3, <3>1, CatchUpFlows
    <3>. QED BY <1>7, <2>3, <3>2 DEF ReadReturns, p, Unread, n
  <2>. QED BY <2>2, <2>3
<1>8. CASE ReadFails(owner)
  <2>1. Flow(InitThrows(p), n)
    BY <1>1, <1>6, InitEndFlows
  <2>2. owner = "drain" => Flow(DrainThrows(p), n) /\ Flow(DrainReturns(p), n)
    BY <1>1, <1>6, DrainThrowsFlows, DrainReturnsFlows
  <2>. QED BY <1>8, <2>1, <2>2 DEF ReadFails, p, Unread, n, Owners
<1>. QED BY <1>5, <1>7, <1>8

LEMMA LaneFlows ==
  ASSUME Types, Original, OneOrigin, ~Disposed(pane), LaneStep
  PROVE  Flow(pane', Len(file))
<1> DEFINE n == Len(file)
           slot == Head(pane.lane)
           s == Slotted(pane)
           w == Written(s, slot)
<1>1. /\ n \in Nat /\ Sound(pane) /\ Flow(pane, n) /\ pane.lane # <<>>
      /\ file \in Seq(Ids)
  BY DEF Types, TypeOK, Sound, Original, Screened, LaneStep, LaneIsFree
<1>2. slot.op \in Writing /\ slot.op # "reset"
  <2>1. pane.lane \in Seq(Operations)
    BY <1>1 DEF Sound, Panes
  <2>2. 1 \in DOMAIN pane.lane /\ slot = pane.lane[1] /\ slot \in Operations
    BY <1>1, <2>1, HeadTailProperties
  <2>3. slot.op # "reset" /\ slot.op # "clear"
    BY <1>1, <2>2 DEF Flow, Steady, LaneStep
  <2>. QED BY <2>2, <2>3 DEF Operations, Writing
<1>3. /\ slot \in Operations
      /\ Ready(w, n) /\ Turn(w) /\ slot.by \in Owners /\ slot.by = Actor(w)
      /\ slot.by = "init" => /\ w.init \in {"cachewrite", "mainwrite", "catch1", "catch2"}
                             /\ w.offset = slot.to
      /\ slot.by = "drain" => Head(w.drain.batch) \in Ids
  BY <1>1, <1>2, SlotReady
<1> HIDE DEF n, slot, s, w
<1>4. Flow(WriteReturns(w, slot), n)
  BY <1>1, <1>3, WriteReturnsFlows
<1>5. pane' = WriteReturns(w, slot)
  BY <1>2 DEF LaneStep, Disposed, slot, s, w, Slotted
<1>. QED BY <1>4, <1>5 DEF n

LEMMA StepsAreOriginal ==
  ASSUME Types, Safe, Original, [Next]_vars
  PROVE  Original'
<1> DEFINE n == Len(file)
<1>1. n \in Nat /\ file \in Seq(Ids) /\ pane \in Panes /\ counts.truncates \in Nat
        /\ counts.chunks \in Nat /\ events \in Seq(Events) /\ file' \in Seq(Ids)
  <2>1. Types'
    BY StepsAreTyped
  <2>. QED BY <2>1 DEF Types, TypeOK
<1>2. DisposedStep
  BY StepsAreGood DEF Good
<1>3. ASSUME UNCHANGED <<file, cache, events>>, counts'.truncates = counts.truncates,
             counts'.chunks = counts.chunks,
             OneOrigin /\ ~Disposed(pane) => Screened(pane')
      PROVE  Original'
  <2>1. OneOrigin /\ Disposed(pane) => Screened(pane')
    BY <1>2 DEF Original, Screened, Disposed, DisposedStep
  <2>2. OneOrigin => \A i \in DOMAIN events : events[i].op = "append"
    BY DEF Original, FileWhole
  <2>. QED BY <1>3, <2>1, <2>2, PaneStep
<1>4. ASSUME Flow(pane', n) PROVE Screened(pane')
  BY <1>4 DEF Screened, Disposed, Flow, Steady
<1> HIDE DEF n
<1>5. ASSUME NEW owner \in Owners, ReadServed(owner) \/ ReadReturns(owner) \/ ReadFails(owner)
      PROVE  Original'
  <2>1. /\ UNCHANGED <<file, cache, events>> /\ counts'.truncates = counts.truncates
        /\ counts'.chunks = counts.chunks
    BY <1>5 DEF ReadServed, ReadReturns, ReadFails, Types, TypeOK
  <2>. QED BY <1>3, <1>4, <1>5, <2>1, ReadsFlow DEF n
<1>6. CASE LaneStep
  <2>1. UNCHANGED <<file, cache, events, counts>>
    BY <1>6 DEF LaneStep
  <2>. QED BY <1>3, <1>4, <1>6, <2>1, LaneFlows DEF n
<1>7. CASE handleNewFileSubjectData
  <2>1. UNCHANGED <<file, cache, counts>> /\ events # <<>> /\ events' = Tail(events)
    BY <1>7 DEF handleNewFileSubjectData
  <2> SUFFICES ASSUME OneOrigin
               PROVE  Screened(pane') /\ \A i \in DOMAIN events' : events'[i].op = "append"
    BY <2>1, PaneStep
  <2>2. Head(events).op = "append" /\ \A i \in DOMAIN events' : events'[i].op = "append"
    <3>1. \A i \in DOMAIN events : events[i].op = "append"
      BY DEF Original, FileWhole
    <3>2. /\ Len(events') = Len(events) - 1 /\ events' \in Seq(Events)
          /\ \A i \in 1..Len(events') : events'[i] = events[i + 1]
          /\ 1 \in DOMAIN events /\ Head(events) = events[1]
      BY <1>1, <2>1, HeadTailProperties
    <3>3. /\ DOMAIN events' = 1..Len(events') /\ DOMAIN events = 1..Len(events)
          /\ Len(events') \in Nat /\ Len(events) \in Nat
      BY <1>1, <3>2
    <3>4. \A i \in 1..Len(events') : i + 1 \in 1..Len(events)
      BY <3>2, <3>3
    <3>. QED BY <3>1, <3>2, <3>3, <3>4
  <2>3. CASE Disposed(pane)
    BY <1>2, <2>2, <2>3 DEF Original, Screened, Disposed, DisposedStep
  <2>4. CASE ~Disposed(pane)
    <3>1. Flow(pane, n)
      BY <2>4 DEF Original, Screened, n
    <3>2. Flow(AppendArrives(pane, Head(events).id), n)
      BY <1>1, <3>1, AppendFlows
    <3>3. pane' = AppendArrives(pane, Head(events).id)
      BY <1>7, <2>2, <2>4 DEF handleNewFileSubjectData, Disposed
    <3>. QED BY <1>4, <2>2, <3>2, <3>3
  <2>. QED BY <2>3, <2>4
<1>8. CASE ClearRequested
  <2>1. /\ UNCHANGED <<file, cache, events>> /\ counts'.truncates = counts.truncates
        /\ counts'.chunks = counts.chunks
    BY <1>8 DEF ClearRequested, Types, TypeOK
  <2> DEFINE slot == [op |-> "clear", by |-> "none", data |-> <<>>, to |-> 0]
  <2>2. slot \in Operations /\ slot.op = "clear"
    BY EmptySeq DEF Operations
  <2>3. pane' = runInPresentationLane(pane, slot)
    BY <1>8 DEF ClearRequested
  <2> HIDE DEF slot
  <2>4. Flow(pane, n) => Flow(pane', n)
    BY <1>1, <2>2, <2>3, ClearSlotFlows DEF n
  <2>. QED BY <1>3, <1>4, <2>1, <2>4 DEF Original, Screened, n
<1>9. CASE ClearBegins
  <2>1. UNCHANGED <<file, cache, events, counts>>
    BY <1>9 DEF ClearBegins
  <2>2. pane.lane # <<>> /\ Head(pane.lane).op \notin Writing
    BY <1>9 DEF ClearBegins, LaneIsFree, Writing
  <2>3. Agree(Slotted(pane), pane')
    BY <1>1, <1>9 DEF ClearBegins, Slotted, Agree, Panes
  <2>4. Flow(pane, n) => Flow(pane', n)
    BY <1>1, <2>2, <2>3, ClearSlotFlows, FlowAgrees DEF n
  <2>. QED BY <1>3, <1>4, <2>1, <2>4 DEF Original, Screened, n
<1>10. CASE ClearCommits \/ ClearReturns \/ ClearFails
  <2>1. /\ UNCHANGED <<file, cache, events>> /\ counts'.truncates = counts.truncates
        /\ counts'.chunks = counts.chunks
    BY <1>10 DEF ClearCommits, ClearReturns, ClearFails, Types, TypeOK
  <2>2. Agree(pane, pane')
    BY <1>1, <1>10 DEF ClearCommits, ClearReturns, ClearFails, Agree, Panes
  <2>. QED BY <1>1, <1>3, <1>4, <2>1, <2>2, FlowAgrees DEF Original, Screened, n
<1>11. CASE dispose
  <2>1. UNCHANGED <<file, cache, events, counts>>
    BY <1>11 DEF dispose
  <2>2. pane'.screen = pane.screen /\ Disposed(pane')
    BY <1>1, <1>11 DEF dispose, Disposed, Panes
  <2>3. Flow(pane, n) => Shows(pane.screen, n)
    BY <1>1, FlowShows DEF n
  <2>. QED BY <1>3, <2>1, <2>2, <2>3 DEF Original, Screened, n
<1>12. CASE HandleAppendBlockFile
  <2>1. /\ counts' = [counts EXCEPT !.chunks = @ + 1] /\ UNCHANGED <<cache, pane>>
        /\ file' = Append(file, counts.chunks + 1)
        /\ events' = Append(events, Event("append", counts.chunks + 1))
    BY <1>12 DEF HandleAppendBlockFile
  <2>2. counts'.truncates = counts.truncates /\ counts'.chunks = counts.chunks + 1
    BY <2>1 DEF Types, TypeOK
  <2> SUFFICES ASSUME OneOrigin PROVE FileWhole' /\ Screened(pane)'
    BY <2>2 DEF Original, OneOrigin
  <2>3. FileWhole
    BY DEF Original
  <2>4. Len(file') = n + 1 /\ Counting(file')
    <3>1. /\ Len(file') = Len(file) + 1 /\ file'[Len(file) + 1] = counts.chunks + 1
          /\ \A i \in 1..Len(file) : file'[i] = file[i]
      BY <1>1, <2>1
    <3>2. DOMAIN file' = 1..(n + 1) /\ DOMAIN file = 1..n
      BY <1>1, <3>1 DEF n
    <3>3. \A i \in 1..(n + 1) : i \in 1..n \/ i = n + 1
      BY <1>1
    <3>. QED BY <2>3, <3>1, <3>2, <3>3 DEF FileWhole, Counting, n
  <2>5. \A i \in DOMAIN events' : events'[i].op = "append"
    <3>1. Event("append", counts.chunks + 1).op = "append"
      BY DEF Event
    <3>2. \A i \in DOMAIN events' : events'[i] = Event("append", counts.chunks + 1)
            \/ (i \in DOMAIN events /\ events'[i] = events[i])
      BY <1>1, <2>1
    <3>. QED BY <2>3, <3>1, <3>2 DEF FileWhole
  <2>6. Len(cache) <= n + 1
    <3>1. Len(cache) \in Nat
      BY DEF Types, TypeOK
    <3>. QED BY <1>1, <2>3, <3>1 DEF FileWhole, n
  <2>7. FileWhole'
    BY <2>1, <2>2, <2>3, <2>4, <2>5, <2>6 DEF FileWhole, n
  <2>8. Disposed(pane) => Shows(pane.screen, n + 1)
    <3>1. Len(pane.screen) \in Nat
      BY <1>1 DEF Panes
    <3>2. Len(pane.screen) <= n => Len(pane.screen) <= n + 1
      BY <1>1, <3>1
    <3>. QED BY <3>2 DEF Original, Screened, Shows, n
  <2>9. ~Disposed(pane) => Flow(pane, n + 1)
    BY <1>1, FlowGrows DEF Original, Screened, n
  <2>. QED BY <2>1, <2>4, <2>7, <2>8, <2>9 DEF Screened, Disposed
<1>13. CASE HandleTruncateBlockFile
  <2>1. counts'.truncates = counts.truncates + 1
    BY <1>13 DEF HandleTruncateBlockFile, Types, TypeOK
  <2>. QED BY <1>1, <2>1 DEF Original, OneOrigin
<1>14. CASE LateClear \/ UNCHANGED vars
  BY <1>14 DEF LateClear, vars, Original, OneOrigin, FileWhole, Counting, Screened, Disposed
<1>. QED
  BY <1>5, <1>6, <1>7, <1>8, <1>9, <1>10, <1>11, <1>12, <1>13, <1>14 DEF Next, Runs

-----------------------------------------------------------------------------
IngressIInv == Types /\ Safe /\ Watchful /\ Original

LEMMA IngressInvariance == Spec => []IngressIInv
<1>1. Init => IngressIInv
  BY InitiallyTyped, Initially, InitiallyWatchful, InitiallyOriginal DEF IngressIInv
<1>2. IngressIInv /\ [Next]_vars => IngressIInv'
  BY StepsAreTyped, StepsAreGood, StepsAreWatchful, StepsAreOriginal DEF IngressIInv, Good
<1>. QED BY <1>1, <1>2, PTL DEF Spec

\* The pane, its drain and its lane are what their types say, and no notification of a live
\* pane is forgotten (termwrap.ts).
THEOREM IngressInvariant == Spec => []IngressInv
<1>1. IngressIInv => IngressInv
  BY DEF IngressIInv, IngressInv, Types, Safe, Watchful, Quiet, HeldIsDrained, OneOrigin,
         Awake, Disposed
<1>. QED BY <1>1, IngressInvariance, PTL

LEMMA StepsAreAccounted ==
  ASSUME Types, Safe, ClearsAccounted, [Next]_vars
  PROVE  ClearsAccounted'
<1>1. /\ pane.cleared \in Nat /\ journal.committed \in Nat /\ journal.late \in Nat
      /\ counts.thrown \in Nat /\ pane.clearing \in {"none", "asked", "answered"}
  BY DEF Types, TypeOK, Panes
<1>2. pane.state = "disposed" => pane'.state = "disposed"
  BY StepsAreGood DEF Good, DisposedStep
<1>3. ASSUME Apart, UNCHANGED journal, counts'.thrown = counts.thrown
      PROVE  ClearsAccounted'
  BY <1>2, <1>3 DEF ClearsAccounted, Unapplied, Apart
<1>4. ASSUME NEW owner \in Owners, ReadServed(owner) \/ ReadReturns(owner) \/ ReadFails(owner)
      PROVE  ClearsAccounted'
  <2>1. UNCHANGED journal /\ counts'.thrown = counts.thrown
    BY <1>4 DEF ReadServed, ReadReturns, ReadFails, Types, TypeOK
  <2>. QED BY <1>3, <1>4, <2>1, ReadsAreGood
<1>5. CASE handleNewFileSubjectData \/ LaneStep
  BY <1>3, <1>5, EventsAreGood, LaneIsGood DEF handleNewFileSubjectData, LaneStep
<1>6. CASE HandleAppendBlockFile \/ HandleTruncateBlockFile \/ UNCHANGED vars
  <2>1. Apart /\ UNCHANGED journal
    BY <1>6 DEF HandleAppendBlockFile, HandleTruncateBlockFile, vars, Apart
  <2>2. counts'.thrown = counts.thrown
    BY <1>6 DEF HandleAppendBlockFile, HandleTruncateBlockFile, vars, Types, TypeOK
  <2>. QED BY <1>3, <2>1, <2>2
<1>7. CASE dispose
  <2>1. Apart /\ UNCHANGED <<journal, counts>>
    BY <1>7 DEF dispose, Apart, Safe, IsPane, Fields
  <2>. QED BY <1>3, <2>1
<1>8. CASE ClearRequested
  <2>1. Apart /\ UNCHANGED journal
    BY <1>8 DEF ClearRequested, runInPresentationLane, Apart, Safe, IsPane, Fields
  <2>2. counts'.thrown = counts.thrown
    BY <1>8 DEF ClearRequested, Types, TypeOK
  <2>. QED BY <1>3, <2>1, <2>2
<1>9. CASE ClearBegins
  <2>1. /\ pane'.cleared = pane.cleared /\ pane'.clearing # "answered" /\ pane.clearing = "none"
        /\ pane'.state = pane.state /\ UNCHANGED <<journal, counts>>
    BY <1>9 DEF ClearBegins, LaneIsFree, Safe, IsPane, Fields
  <2>. QED BY <2>1 DEF ClearsAccounted, Unapplied
<1>10. CASE ClearCommits
  <2>1. /\ pane.clearing = "asked" /\ pane'.clearing = "answered" /\ pane'.cleared = pane.cleared
        /\ pane'.state = pane.state /\ UNCHANGED counts
    BY <1>10 DEF ClearCommits, Safe, IsPane, Fields
  <2>2. journal'.committed = journal.committed + 1 /\ journal'.late = journal.late
    BY <1>10 DEF ClearCommits, Types, TypeOK
  <2>. QED BY <1>1, <2>1, <2>2 DEF ClearsAccounted, Unapplied
<1>11. CASE ClearReturns
  <2>1. /\ pane.clearing = "answered" /\ pane'.clearing = "none" /\ pane'.state = pane.state
        /\ pane'.cleared = IF pane.state = "disposed" THEN pane.cleared ELSE pane.cleared + 1
        /\ UNCHANGED <<journal, counts>>
    BY <1>11 DEF ClearReturns, Safe, IsPane, Fields
  <2>. QED BY <1>1, <2>1 DEF ClearsAccounted, Unapplied
<1>12. CASE ClearFails
  <2>1. /\ pane.clearing # "none" /\ pane'.clearing = "none" /\ pane'.state = pane.state
        /\ pane'.cleared = pane.cleared
    BY <1>12 DEF ClearFails, Safe, IsPane, Fields
  <2>2. counts'.thrown = counts.thrown + 1
    BY <1>12 DEF ClearFails, Types, TypeOK
  <2>3. /\ journal'.committed = journal.committed
        /\ \/ journal'.late = journal.late
           \/ pane.clearing = "asked" /\ journal'.late = journal.late + 1
    BY <1>12 DEF ClearFails, Types, TypeOK
  <2>. QED BY <1>1, <2>1, <2>2, <2>3 DEF ClearsAccounted, Unapplied
<1>13. CASE LateClear
  <2>1. /\ journal'.committed = journal.committed + 1 /\ journal'.late = journal.late - 1
        /\ UNCHANGED <<pane, counts>>
    BY <1>13 DEF LateClear
  <2>. QED BY <1>1, <2>1 DEF ClearsAccounted, Unapplied
<1>. QED
  BY <1>4, <1>5, <1>6, <1>7, <1>8, <1>9, <1>10, <1>11, <1>12, <1>13 DEF Next, Runs

\* The screen has never hidden what the journal shows, and each clear that the journal has
\* committed or still may and the screen has not applied is one whose answer is on its way
\* or whose call has thrown: a failed call, and nothing else, sets the two apart
\* (clearProductHistory).
THEOREM ClearsAreAccounted == Spec => []ClearsAccounted
<1>1. Init => ClearsAccounted
  <2> SUFFICES ASSUME Init PROVE ClearsAccounted
    OBVIOUS
  <2>1. Keeps(NewPane, pane)
    BY FetchKeeps DEF Init, NewPane, IsPane, Fields
  <2>2. pane.cleared = 0 /\ pane.clearing = "none"
    BY <2>1 DEF Keeps, NewPane
  <2>3. journal.committed = 0 /\ journal.late = 0 /\ counts.thrown = 0
    BY DEF Init
  <2>. QED BY <2>2, <2>3 DEF ClearsAccounted, Unapplied
<1>2. IngressIInv /\ ClearsAccounted /\ [Next]_vars => ClearsAccounted'
  BY StepsAreAccounted DEF IngressIInv
<1>. QED BY <1>1, <1>2, IngressInvariance, PTL DEF Spec

\* While the file keeps its origin, what a pane has read is on its screen once and in
\* order, and without a mark written from its notification the screen is a prefix of the
\* file, however the load, the drains, failures, clears and the end of the pane are
\* interleaved (catchUpTerminalFile, ingressDrainPromise).
THEOREM ScreenStaysPrefix == Spec => []ScreenIsPrefix
<1>1. ASSUME IngressIInv, OneOrigin
      PROVE  /\ \A i, j \in DOMAIN pane.screen :
                  i < j /\ ~pane.screen[i].again /\ ~pane.screen[j].again =>
                    pane.screen[i].id < pane.screen[j].id
             /\ Unreplayed => IsPrefix([i \in DOMAIN pane.screen |-> pane.screen[i].id], file)
  <2> DEFINE n == Len(file)
             m == Len(pane.screen)
             ids == [i \in DOMAIN pane.screen |-> pane.screen[i].id]
  <2>1. /\ file \in Seq(Ids) /\ pane.screen \in Seq(Chunks) /\ n \in Nat /\ m \in Nat
        /\ FileWhole /\ Screened(pane)
    BY <1>1 DEF IngressIInv, Types, TypeOK, Panes, Chunks, Original
  <2>2. Shows(pane.screen, n)
    BY <2>1, FlowShows DEF Screened
  <2>3. ASSUME Unreplayed PROVE IsPrefix(ids, file)
    <3>1. m <= n /\ \A i \in 1..m : pane.screen[i].id = i
      BY <2>1, <2>2, <2>3 DEF Shows, Unreplayed
    <3>2. DOMAIN pane.screen = 1..m /\ DOMAIN file = 1..n
      BY <2>1
    <3>3. \A i \in 1..m : ids[i] = i /\ file[i] = i /\ i \in Nat
      BY <2>1, <3>1, <3>2 DEF FileWhole, Counting
    <3>4. \A i \in 1..m : pane.screen[i].id \in Ids
      <4>1. \A i \in 1..m : pane.screen[i] \in Chunks
        BY <2>1, ElementOfSeq
      <4>. QED BY <4>1 DEF Chunks
    <3>5. ids \in Seq(Ids) /\ Len(ids) = m
      <4>1. ids \in [1..m -> Ids]
        BY <3>2, <3>4
      <4>2. \A f \in [1..m -> Ids] : f \in Seq(Ids) /\ Len(f) = m
        BY <2>1
      <4>. QED BY <4>1, <4>2
    <3> HIDE DEF ids, m, n
    <3>6. SubSeq(ids, 1, m) = SubSeq(file, 1, m)
      <4>1. \A i \in 1..m : ids[i] \in Ids /\ file[i] \in Ids
        <5>1. \A i \in 1..m : i \in 1..n
          BY <2>1, <3>1
        <5>2. \A i \in 1..m : file[i] \in Ids
          BY <2>1, <5>1, ElementOfSeq DEF n
        <5>3. \A i \in 1..m : ids[i] \in Ids
          BY <3>5, ElementOfSeq
        <5>. QED BY <5>2, <5>3
      <4> DEFINE a == SubSeq(ids, 1, m)
                 b == SubSeq(file, 1, m)
      <4>2. /\ a \in Seq(Ids) /\ b \in Seq(Ids) /\ Len(a) = Len(b)
            /\ \A i \in 1..(m - 1 + 1) : a[i] = ids[1 + i - 1] /\ b[i] = file[1 + i - 1]
            /\ Len(a) = IF 1 <= m THEN m - 1 + 1 ELSE 0
        BY <2>1, <4>1, SubSeqProperties
      <4>3. \A i \in 1..Len(a) : a[i] = b[i]
        BY <2>1, <3>3, <4>2
      <4> HIDE DEF a, b
      <4>4. a = b
        BY <4>2, <4>3, SeqEqual
      <4>. QED BY <4>4 DEF a, b
    <3>. QED BY <3>1, <3>5, <3>6 DEF IsPrefix, n
  <2>. QED BY <2>2, <2>3 DEF Shows
<1>2. IngressIInv => ScreenIsPrefix
  BY <1>1 DEF ScreenIsPrefix
<1>. QED BY <1>2, IngressInvariance, PTL
=============================================================================
