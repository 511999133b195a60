---------------------------- MODULE VisualAnchor ----------------------------
(***************************************************************************)
(* How a pane of the terminal finds the line on which a command began.      *)
(* The program's output carries a mark at that line (OSC 16162;B); that the *)
(* mark is a command's is known only from a confirmation, which comes as an *)
(* event on another channel.  VisualAnchorRegistry (visual-anchor.ts) pairs *)
(* the two by their nonce, TermWrap (termwrap.ts) keeps for each nonce a    *)
(* cue, with the marker that xterm moves with the line, and the command     *)
(* rail navigates to the commands whose mark is confirmed.                  *)
(*                                                                         *)
(* A command stands for its id and its nonce.  A marker is named by the     *)
(* line at which it was registered.  JavaScript's maps are sequences in the *)
(* order of their entries' times.                                           *)
(***************************************************************************)
EXTENDS Integers, Sequences, SequencesExt, FiniteSetsExt

CONSTANTS
  EpochOf,         \* for each command in the order they run, its shell session
  SequenceOf,      \* for each command, its number within that session
  Producers,       \* authorities, the hosted ones with their process and runspace
  ProducerOf,      \* for each command, the producer that started it
  NoEpoch,         \* no session yet
  MaxPending,      \* MAX_PENDING
  MaxBindings,     \* MAX_BINDINGS
  MaxTombstones,   \* MAX_TOMBSTONES
  MaxExtraFrames,  \* bound: frames shown again, or of another producer
  MaxClears        \* bound: clears

Commands == DOMAIN EpochOf

ASSUME BoundsAssumption == {MaxPending, MaxBindings, MaxTombstones} \subseteq Nat \ {0}
ASSUME ProducerAssumption == \A c \in Commands : ProducerOf[c] \in Producers
ASSUME EpochAssumption == NoEpoch \notin ToSet(EpochOf) /\ DOMAIN SequenceOf = Commands

VARIABLES
  view,        \* the pane: registry, cues, live markers and what the rail was told
  screen,      \* by line, the frame at it and whether its command began there
  opened,      \* "no", "loading", "loaded": whether marks are parsed
  published,   \* the confirmations sent, in order
  delivered,   \* how many of them have been delivered since the pane subscribed
  history,     \* EventReadHistory: its state and the confirmation it answers, if any
  counts       \* extra frames and clears so far, and the lines before the pane opened

vars == <<view, screen, opened, published, delivered, history, counts>>

\* What a mark claims, and what a confirmation states.
Frame(c, producer) ==
  [nonce |-> c, epoch |-> EpochOf[c], seq |-> SequenceOf[c], by |-> producer]
\* A frame with the marker of its line.
Anchor(f, line) ==
  [nonce |-> f.nonce, epoch |-> f.epoch, seq |-> f.seq, by |-> f.by, marker |-> line]
Confirmation(c) == Frame(c, ProducerOf[c])

EmptyView ==
  [sessionEpoch |-> NoEpoch, maxSequence |-> 0,
   anchors |-> <<>>, confirmations |-> <<>>, bindings |-> <<>>, rejected |-> <<>>,
   quarantined |-> <<>>, cues |-> {}, markers |-> {}, rail |-> {}]

-----------------------------------------------------------------------------
(* Maps of the registry: their entries have a nonce. *)

Has(map, nonce) == \E i \in DOMAIN map : map[i].nonce = nonce
Place(map, nonce) == SelectInSeq(map, LAMBDA e : e.nonce = nonce)
Get(map, nonce) == map[Place(map, nonce)]
Without(map, nonce) == IF Has(map, nonce) THEN RemoveAt(map, Place(map, nonce)) ELSE map
Newest(map, n) == IF Len(map) <= n THEN map ELSE SubSeq(map, Len(map) - n + 1, Len(map))

\* reject: a tombstone, renewed when there is one already.
reject(v, nonce) ==
  [v EXCEPT !.rejected = Newest(Append(Without(@, nonce), [nonce |-> nonce]), MaxTombstones)]

rejectAll(v, map) == FoldLeft(LAMBDA w, e : reject(w, e.nonce), v, map)

\* remove: a nonce whose mark is gone.  A parked one may come back.
remove(v, nonce) ==
  LET w == [v EXCEPT !.anchors = Without(@, nonce), !.bindings = Without(@, nonce),
                     !.confirmations = Without(@, nonce), !.quarantined = Without(@, nonce)]
  IN  IF Has(v.quarantined, nonce) THEN w ELSE reject(w, nonce)

-----------------------------------------------------------------------------
(* What the pane shows of it. *)

\* getCommandAnchorSnapshot: the commands that can be navigated to.
getCommandAnchorSnapshot(v) ==
  {cue.nonce : cue \in {c \in v.cues : /\ Has(v.bindings, c.nonce)
                                       /\ c.marker \in v.markers
                                       /\ Get(v.bindings, c.nonce).epoch = v.sessionEpoch}}

\* notifyCommandAnchorSubscribers: the rail reads the snapshot again.
notifyCommandAnchorSubscribers(v) == [v EXCEPT !.rail = getCommandAnchorSnapshot(v)]

\* A marker is disposed: by its handle in the registry, or by xterm when its line
\* goes.  The listener of its cue drops the cue and the nonce.
disposeMarker(v, marker) ==
  LET w == [v EXCEPT !.markers = @ \ {marker}]
      owner == {cue \in v.cues : cue.marker = marker}
  IN  IF marker \notin v.markers THEN v
      ELSE IF owner = {} THEN w
      ELSE notifyCommandAnchorSubscribers(
             remove([w EXCEPT !.cues = @ \ owner], (CHOOSE cue \in owner : TRUE).nonce))

disposeAll(v, map) == FoldLeft(LAMBDA w, e : disposeMarker(w, e.marker), v, map)

\* Mutant: a confirmed mark is not announced.
registerConfirmedVisualCueSilently(v, nonce) ==
  [v EXCEPT !.cues = {IF c.nonce = nonce THEN [c EXCEPT !.announced = TRUE] ELSE c : c \in @}]

\* registerConfirmedVisualCue
registerConfirmedVisualCue(v, nonce) ==
  LET cue == {c \in v.cues : c.nonce = nonce /\ c.marker \in v.markers}
  IN  IF cue = {} \/ ~Has(v.bindings, nonce) \/ (\A c \in cue : c.announced) THEN v
      ELSE notifyCommandAnchorSubscribers(
             [v EXCEPT !.cues = (@ \ cue) \cup {[c EXCEPT !.announced = TRUE] : c \in cue}])

-----------------------------------------------------------------------------
(* The registry. *)

\* evictOldest, for a map with a capacity: the entry goes, its marker stays.
evictAnchors(v) ==
  IF Len(v.anchors) <= MaxPending THEN v
  ELSE reject([v EXCEPT !.anchors = Tail(@)], Head(v.anchors).nonce)
evictConfirmations(v) ==
  IF Len(v.confirmations) <= MaxPending THEN v
  ELSE reject([v EXCEPT !.confirmations = Tail(@)], Head(v.confirmations).nonce)
evictBindings(v) ==
  IF Len(v.bindings) <= MaxBindings THEN v
  ELSE reject([v EXCEPT !.bindings = Tail(@)], Head(v.bindings).nonce)

rejectPending(v, nonce) ==
  LET w == IF Has(v.anchors, nonce) THEN disposeMarker(v, Get(v.anchors, nonce).marker) ELSE v
  IN  reject([w EXCEPT !.anchors = Without(@, nonce), !.confirmations = Without(@, nonce)], nonce)

\* acceptSequence: the first frame of all sets the session, and no frame may be
\* older than one seen before.
accepts(v, f) ==
  /\ v.sessionEpoch \in {NoEpoch, f.epoch}
  /\ \/ f.seq > v.maxSequence
     \/ f.seq = v.maxSequence /\ (Has(v.anchors, f.nonce) \/ Has(v.confirmations, f.nonce))
acceptSequence(v, f) ==
  LET w == [v EXCEPT !.sessionEpoch = IF @ = NoEpoch THEN f.epoch ELSE @]
  IN  IF accepts(v, f) /\ f.seq > v.maxSequence THEN [w EXCEPT !.maxSequence = f.seq] ELSE w

\* Mutant: the producer is not compared.
matchesAnyProducer(anchor, confirmation) ==
  anchor.epoch = confirmation.epoch /\ anchor.seq = confirmation.seq

\* matches: mark and confirmation agree on everything they name.
matches(anchor, confirmation) ==
  /\ anchor.by = confirmation.by
  /\ anchor.epoch = confirmation.epoch
  /\ anchor.seq = confirmation.seq

Binding(anchor) ==
  [nonce |-> anchor.nonce, epoch |-> anchor.epoch, by |-> anchor.by, marker |-> anchor.marker]

quarantine(v, anchor) ==
  IF Has(v.quarantined, anchor.nonce) THEN v
  ELSE LET w == [v EXCEPT !.quarantined = Append(@, anchor)]
       IN  IF Len(w.quarantined) <= MaxPending THEN w
           ELSE LET oldest == Head(w.quarantined)
                IN  [disposeMarker(w, oldest.marker) EXCEPT
                       !.quarantined = Without(@, oldest.nonce)]

\* observeAnchor: an anchor is a frame with its marker.
observeAnchor(v, anchor) ==
  LET n == anchor.nonce
      w == acceptSequence(v, anchor)
      No(u) == [accepted |-> FALSE, view |-> u]
      Yes(u) == [accepted |-> TRUE, view |-> u]
  IN  CASE Has(v.rejected, n) -> No(v)
        [] ~Has(v.rejected, n) /\ ~accepts(v, anchor) ->
             IF w.sessionEpoch # anchor.epoch THEN No(quarantine(w, anchor))
             ELSE No(rejectPending(w, n))
        [] OTHER ->
             IF Has(w.bindings, n) \/ Has(w.anchors, n) THEN No(w)
             ELSE IF ~Has(w.confirmations, n)
             THEN Yes(evictAnchors([w EXCEPT !.anchors = Append(@, anchor)]))
             ELSE LET u == [w EXCEPT !.confirmations = Without(@, n)]
                  IN  IF matches(anchor, Get(w.confirmations, n))
                      THEN Yes(evictBindings([u EXCEPT !.bindings = Append(@, Binding(anchor))]))
                      ELSE No(reject(u, n))

confirm(v, f) ==
  LET n == f.nonce
      w == acceptSequence(v, f)
  IN  CASE Has(v.rejected, n) -> v
        [] ~Has(v.rejected, n) /\ ~accepts(v, f) -> rejectPending(w, n)
        [] OTHER ->
             IF Has(w.bindings, n) \/ (~Has(w.anchors, n) /\ Has(w.confirmations, n)) THEN w
             ELSE IF ~Has(w.anchors, n)
             THEN evictConfirmations([w EXCEPT !.confirmations = Append(@, f)])
             ELSE LET anchor == Get(w.anchors, n)
                      u == [w EXCEPT !.anchors = Without(@, n)]
                  IN  IF matches(anchor, f)
                      THEN evictBindings([u EXCEPT !.bindings = Append(@, Binding(anchor))])
                      ELSE disposeMarker(reject(u, n), anchor.marker)

\* The parked marks of a session, dropped and observed again.
unpark(parked, epoch) ==
  FoldLeft(LAMBDA map, e : IF e.epoch = epoch THEN Without(map, e.nonce) ELSE map, parked, parked)
adopt(v, parked, epoch) ==
  FoldLeft(LAMBDA w, e : IF e.epoch = epoch THEN observeAnchor(w, e).view ELSE w, v, parked)

\* resetSessionForEpoch: another session's confirmation replaces the session, and
\* its parked marks are observed again.
resetSessionForEpoch(v, epoch) ==
  LET dropped == disposeAll(disposeAll(
                   rejectAll(v, v.anchors \o v.confirmations \o v.bindings), v.anchors), v.bindings)
      parked == dropped.quarantined
      fresh == [dropped EXCEPT !.anchors = <<>>, !.confirmations = <<>>, !.bindings = <<>>,
                               !.sessionEpoch = epoch, !.maxSequence = 0,
                               !.quarantined = unpark(parked, epoch)]
  IN  IF epoch = v.sessionEpoch THEN v ELSE adopt(fresh, parked, epoch)

\* prune: some of the oldest entries have outlived their time.  Their markers stay.
prune(v, anchors, confirmations, rejected) ==
  LET w == [v EXCEPT !.anchors = SubSeq(@, anchors + 1, Len(@)),
                     !.confirmations = SubSeq(@, confirmations + 1, Len(@)),
                     !.rejected = SubSeq(@, rejected + 1, Len(@))]
  IN  rejectAll(w, SubSeq(v.anchors, 1, anchors) \o SubSeq(v.confirmations, 1, confirmations))

-----------------------------------------------------------------------------
(* TermWrap. *)

\* Mutant: a mark that is parked already parks its repeat as well.
registerVisualAnchorTwice(v, f, line) ==
  LET o == observeAnchor([v EXCEPT !.markers = @ \cup {line}], Anchor(f, line))
      cue == [nonce |-> f.nonce, marker |-> line, announced |-> FALSE]
  IN  IF o.accepted \/ Has(o.view.quarantined, f.nonce)
      THEN registerConfirmedVisualCue(
             [o.view EXCEPT !.cues = {c \in @ : c.nonce # f.nonce} \cup {cue}], f.nonce)
      ELSE disposeMarker(o.view, line)

\* registerVisualAnchor: a parsed mark gets a marker at its line; one that is
\* neither accepted nor parked loses it again.
registerVisualAnchor(v, f, line) ==
  LET alreadyParked == Has(v.quarantined, f.nonce)
      o == observeAnchor([v EXCEPT !.markers = @ \cup {line}], Anchor(f, line))
      w == o.view
      cued == [w EXCEPT !.cues = {c \in @ : c.nonce # f.nonce}
                                   \cup {[nonce |-> f.nonce, marker |-> line, announced |-> FALSE]}]
  IN  CASE o.accepted -> registerConfirmedVisualCue(cued, f.nonce)
        [] ~o.accepted /\ ~alreadyParked /\ Has(w.quarantined, f.nonce) -> cued
        [] OTHER -> disposeMarker(w, line)

\* confirmVisualAnchor
confirmVisualAnchor(v, f) ==
  registerConfirmedVisualCue(confirm(resetSessionForEpoch(v, f.epoch), f), f.nonce)

\* invalidate, releasePresentationState: a clear or a new file origin drops
\* everything that pointed into the buffer; only parked marks leave no tombstone.
releasePresentationState(v) ==
  LET cued == {cue \in v.cues : ~Has(v.quarantined, cue.nonce)}
      w == rejectAll(v, v.anchors \o v.confirmations \o v.bindings \o SetToSeq(cued))
  IN  [w EXCEPT !.anchors = <<>>, !.confirmations = <<>>, !.bindings = <<>>,
                !.quarantined = <<>>, !.cues = {}, !.rail = {},
                !.markers = @ \ {e.marker : e \in v.cues \cup ToSet(v.anchors)
                                                \cup ToSet(v.bindings) \cup ToSet(v.quarantined)}]

-----------------------------------------------------------------------------
(* commandRegionBoundary: the lines of a command's output, from its mark to   *)
(* the next command's, or Unavailable when a mark in between is not proven.   *)

Unavailable == [start |-> 0, next |-> 0]
Cursor == Len(screen) + 1

\* Mutant: marks that are not proven are passed over.
getTerminalOutputPastUnproven(v, command) ==
  LET own == {c \in v.cues : c.nonce = command /\ c.marker \in v.markers /\ Has(v.bindings, command)}
      start == (CHOOSE c \in own : TRUE).marker
      later == {c \in v.cues : c.marker \in v.markers /\ c.marker > start /\ Has(v.bindings, c.nonce)}
  IN  IF own = {} THEN Unavailable
      ELSE [start |-> start, next |-> Min({c.marker : c \in later} \cup {Cursor})]

getTerminalOutputForCommand(v, command) ==
  LET own == {c \in v.cues : c.nonce = command /\ c.marker \in v.markers /\ Has(v.bindings, command)}
      start == (CHOOSE c \in own : TRUE).marker
      later == {c \in v.cues : c.marker \in v.markers /\ c.marker > start}
      Claim(n) == <<Get(v.bindings, n).by, Get(v.bindings, n).epoch>>
      confirmed == {c \in later : Has(v.bindings, c.nonce) /\ Claim(c.nonce) = Claim(command)}
      next == Min({c.marker : c \in confirmed} \cup {Cursor})
      unproven == {c \in later \ confirmed : c.marker < next}
  IN  IF own = {} \/ unproven # {} THEN Unavailable ELSE [start |-> start, next |-> next]

-----------------------------------------------------------------------------
Init ==
  /\ view = EmptyView
  /\ screen = <<>>
  /\ opened = "no"
  /\ published = <<>>
  /\ delivered = 0
  /\ history = [state |-> "none", answer |-> <<>>]
  /\ counts = [extra |-> 0, clears |-> 0, openedAt |-> 0]

Began == {screen[i].frame.nonce : i \in {j \in DOMAIN screen : screen[j].began}}
BeganAt(line) == line \in DOMAIN screen /\ screen[line].began

\* The next line shows a frame, which the parser handles once the pane is loaded.
Printed(f, began) ==
  /\ screen' = Append(screen, [frame |-> f, began |-> began])
  /\ view' = IF opened = "loaded" THEN registerVisualAnchor(view, f, Len(screen) + 1) ELSE view

\* The shell starts its next command.
CommandStarts ==
  LET c == Cardinality(Began) + 1
  IN  /\ c \in Commands
      /\ Printed(Confirmation(c), TRUE)
      /\ UNCHANGED <<opened, published, delivered, history, counts>>

\* drainHeldData writes a frame that the bytes it has read do not cover once more.
FrameReplayed ==
  /\ opened = "loaded"
  /\ counts.extra < MaxExtraFrames
  /\ \E i \in DOMAIN screen :
       i > counts.openedAt /\ screen[i].began /\ Printed(screen[i].frame, FALSE)
  /\ counts' = [counts EXCEPT !.extra = @ + 1]
  /\ UNCHANGED <<opened, published, delivered, history>>

\* A mark of another producer with the nonce of a command.
ForeignFrame ==
  /\ counts.extra < MaxExtraFrames
  /\ \E c \in Began, producer \in Producers :
       producer # ProducerOf[c] /\ Printed(Frame(c, producer), FALSE)
  /\ counts' = [counts EXCEPT !.extra = @ + 1]
  /\ UNCHANGED <<opened, published, delivered, history>>

\* The backend confirms a command that has begun (bindLocked); some never are.
Publish ==
  /\ \E c \in Began :
       /\ \A i \in DOMAIN published : published[i] < c
       /\ published' = Append(published, c)
  /\ UNCHANGED <<view, screen, opened, delivered, history, counts>>

\* initTerminal: subscribe, then ask for the history, of which the last is kept.
Open ==
  /\ opened = "no"
  /\ opened' = "loading"
  /\ history' = [history EXCEPT !.state = "asked"]
  /\ delivered' = Len(published)
  /\ counts' = [counts EXCEPT !.openedAt = Len(screen)]
  /\ UNCHANGED <<view, screen, published>>

HistoryAnswered ==
  /\ history.state = "asked"
  /\ history' = [state |-> "answered", answer |-> Newest(published, 1)]
  /\ UNCHANGED <<view, screen, opened, published, delivered, counts>>

\* The answer arrives, perhaps after events published later, or the call fails.
HistoryRead ==
  /\ history.state = "answered"
  /\ history' = [state |-> "read", answer |-> <<>>]
  /\ view' \in {view, FoldLeft(LAMBDA w, c : confirmVisualAnchor(w, Confirmation(c)),
                               view, history.answer)}
  /\ UNCHANGED <<screen, opened, published, delivered, counts>>

\* The initial content is shown; from now on marks are parsed.
Loaded ==
  /\ opened = "loading"
  /\ history.state = "read"
  /\ opened' = "loaded"
  /\ UNCHANGED <<view, screen, published, delivered, history, counts>>

\* An event of the subscription.
EventDelivered ==
  /\ opened # "no"
  /\ delivered < Len(published)
  /\ delivered' = delivered + 1
  /\ view' = confirmVisualAnchor(view, Confirmation(published[delivered + 1]))
  /\ UNCHANGED <<screen, opened, published, history, counts>>

\* Scrollback is trimmed: the oldest marker's line goes.
LineTrimmed ==
  /\ view.markers # {}
  /\ view' = disposeMarker(view, Min(view.markers))
  /\ UNCHANGED <<screen, opened, published, delivered, history, counts>>

\* The product clear, or the reset for a new file origin.
Clear ==
  /\ opened = "loaded"
  /\ counts.clears < MaxClears
  /\ view' = releasePresentationState(view)
  /\ counts' = [counts EXCEPT !.clears = @ + 1]
  /\ UNCHANGED <<screen, opened, published, delivered, history>>

\* Time passes: the oldest entry of a map expires.
Expire ==
  /\ \/ view.anchors # <<>> /\ view' = prune(view, 1, 0, 0)
     \/ view.confirmations # <<>> /\ view' = prune(view, 0, 1, 0)
     \/ view.rejected # <<>> /\ view' = prune(view, 0, 0, 1)
  /\ UNCHANGED <<screen, opened, published, delivered, history, counts>>

Next ==
  \/ CommandStarts \/ FrameReplayed \/ ForeignFrame \/ Publish
  \/ Open \/ HistoryAnswered \/ HistoryRead \/ Loaded \/ EventDelivered
  \/ LineTrimmed \/ Clear \/ Expire

Spec == Init /\ [][Next]_vars

-----------------------------------------------------------------------------
(* Types. *)

Frames == [nonce : Commands, epoch : ToSet(EpochOf), seq : ToSet(SequenceOf), by : Producers]
Lines == DOMAIN screen
Anchors == {Anchor(f, line) : f \in Frames, line \in Lines}

TypeOK ==
  /\ view.sessionEpoch \in ToSet(EpochOf) \cup {NoEpoch}
  /\ view.maxSequence \in ToSet(SequenceOf) \cup {0}
  /\ ToSet(view.anchors) \cup ToSet(view.quarantined) \subseteq Anchors
  /\ ToSet(view.confirmations) \subseteq Frames
  /\ \A m \in {Len(view.anchors), Len(view.confirmations), Len(view.quarantined)} : m <= MaxPending
  /\ Len(view.bindings) <= MaxBindings /\ Len(view.rejected) <= MaxTombstones
  /\ view.markers \subseteq Lines
  /\ view.rail \subseteq Commands
  /\ opened \in {"no", "loading", "loaded"}
  /\ delivered \in 0..Len(published)

-----------------------------------------------------------------------------
(* Safety. *)

\* A mark counts as a command's only when its own claim and the confirmation of that
\* command named the same session, number and producer, in whichever order they came.
BindingsMatch ==
  \A i \in DOMAIN view.bindings :
    LET b == view.bindings[i]
    IN  /\ [epoch |-> b.epoch, by |-> b.by] = [epoch |-> EpochOf[b.nonce], by |-> ProducerOf[b.nonce]]
        /\ screen[b.marker].frame = Confirmation(b.nonce)

\* What the registry keeps points at a live marker, the one the cue shows.
EntriesHaveMarkers ==
  \A e \in ToSet(view.anchors) \cup ToSet(view.bindings) \cup ToSet(view.quarantined) :
    e.marker \in view.markers /\ \E cue \in view.cues : cue.nonce = e.nonce /\ cue.marker = e.marker

\* Everything the registry pairs is of the session it serves (resetSessionForEpoch).
OneSession ==
  \A e \in ToSet(view.anchors) \cup ToSet(view.confirmations) \cup ToSet(view.bindings) :
    e.epoch = view.sessionEpoch

\* The rail shows exactly the commands that can be navigated to, though it reads them
\* again only when it is notified.
RailKnows ==
  view.rail = getCommandAnchorSnapshot(view)

\* What the registry, the markers and the rail know of each other.
RegistryInv == TypeOK /\ EntriesHaveMarkers /\ OneSession /\ RailKnows

\* While every command that began on a line still in the buffer has its mark there,
\* the region of a command holds its output and no other command's.
RegionIsOwnWhenMarked ==
  \A c \in Commands :
    LET r == getTerminalOutputForCommand(view, c)
        Inside == {i \in DOMAIN screen : i > r.start /\ i < r.next /\ screen[i].began}
    IN  r # Unavailable /\ Inside \subseteq view.markers => Inside = {}

-----------------------------------------------------------------------------
(* What a step may never do. *)

\* No marker is left in the buffer that nothing can reach: a new one is the cue's or is
\* gone again, and while the registry keeps a nonce its marker stays the cue's
\* (registerVisualAnchor, alreadyParked).
MarkersHaveCues ==
  [][LET Cued(v) == {cue.marker : cue \in v.cues}
         kept == ToSet(view.anchors) \cup ToSet(view.bindings) \cup ToSet(view.quarantined)
     IN  view'.markers \ Cued(view')
           \subseteq view.markers \ {e.marker : e \in kept}]_vars

\* Bytes of the terminal never replace a session: only a confirmation does, and what
\* the old session could navigate to is gone in that step (resetSessionForEpoch).
SessionsAreConfirmed ==
  [][view.sessionEpoch # NoEpoch /\ view'.sessionEpoch # view.sessionEpoch =>
       /\ screen' = screen
       /\ view'.sessionEpoch \in {EpochOf[published[i]] : i \in DOMAIN published}
       /\ view'.rail \cap view.rail = {}]_vars

-----------------------------------------------------------------------------
(* What the tests and comments say and the code does not do. *)

\* A session that has been replaced is not served again
\* (visual-anchor-session-transition.test.ts).
ReplacedSessionsStay ==
  [][view.sessionEpoch # NoEpoch /\ view'.sessionEpoch # view.sessionEpoch =>
       \A c \in Commands, d \in Commands :
         EpochOf[c] = view.sessionEpoch /\ EpochOf[d] = view'.sessionEpoch => c < d]_vars

\* The region of a command never holds another command's output
\* (command-output-region.ts).
RegionIsOwn ==
  \A c \in Commands :
    LET r == getTerminalOutputForCommand(view, c)
    IN  r # Unavailable => \A i \in DOMAIN screen : i > r.start /\ i < r.next => ~screen[i].began

=============================================================================
