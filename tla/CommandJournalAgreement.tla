----------------------- MODULE CommandJournalAgreement -----------------------
(***************************************************************************)
(* Why the tables agree with the journal as long as nothing failed: which  *)
(* command runs, which rows a visibility transaction leaves visible, and   *)
(* what a record says of its output.  From it: ClearLeavesTheLiveCommand   *)
(* and HistoryAgreesWithJournal.                                           *)
(***************************************************************************)
EXTENDS CommandJournalProofs

\* Nothing has failed since the journal was attached, and the store takes events;
\* when it is closed while a transaction holds the gate, that one still ends.
Healthy ==
  /\ attached
  /\ storeState = "open" \/ gate # FreeGate
  /\ ~degraded
  /\ failed = {}

-----------------------------------------------------------------------------
(* Which command is live.                                                   *)

\* The commands that the events of q start, and those they end.
StartedBy(q) == {q[i].id : i \in {j \in DOMAIN q : q[j].kind = "started"}}
EndedBy(q) == {q[i].id : i \in {j \in DOMAIN q : q[j].kind \in Ends}}

Starting(c) == c \in StartedBy(queue)
Ending(c) == c \in EndedBy(queue)

\* A journal that is not attached has nothing in memory, and finds no row running.
IdleInv ==
  ~attached => /\ completed = {}
               /\ storeState = "open" => \A c \in Command : rows[c].state # "running"

\* The command that runs is not among those that ended, and the gate remembers it.
GateInv ==
  /\ active \notin completed
  /\ gate # FreeGate => gate.id = active
  /\ \A i \in DOMAIN queue : /\ queue[i].kind = "advance" => gate.op = "clear"
                             /\ queue[i].kind = "delete" => gate.op = "delete"

\* No row is ahead of the tables, and a transaction leaves all ended ones behind.
AgeInv ==
  /\ \A c \in Command : rows[c].gen <= dbGeneration
  /\ reply.status = "ok" =>
       \A c \in Command : rows[c].state \in Ends => rows[c].gen < dbGeneration

\* What the tables show as running, or will, and do not end, is the active command.
RunsInv ==
  Healthy => \A c \in Command :
    c = active <=> (rows[c].state = "running" \/ Starting(c)) /\ ~Ending(c)

LiveInv == IdleInv /\ GateInv /\ AgeInv /\ RunsInv

-----------------------------------------------------------------------------
(* The steps of the journal's producers keep the live command.              *)

\* What a producer says of the life of commands: the start of the one that is active
\* from now on, the end of the one that was.
Announced(events) ==
  /\ StartedBy(events) = {active'} \ {active, NoCommand}
  /\ EndedBy(events) = {active} \ {active', NoCommand}

\* What a producer does to the rest of the state that LiveInv reads.
LiveStep ==
  /\ Ready
  /\ UNCHANGED <<storeState, reply, rows, dbGeneration, attached, gate>>
  /\ active' \notin completed'
  /\ (active' # active /\ active' # NoCommand) => active = NoCommand /\ active' \notin used

LEMMA LifeConcat ==
  ASSUME NEW s \in Seq(Event), NEW t \in Seq(Event)
  PROVE  /\ s \o t \in Seq(Event)
         /\ StartedBy(s \o t) = StartedBy(s) \cup StartedBy(t)
         /\ EndedBy(s \o t) = EndedBy(s) \cup EndedBy(t)
<1>1. /\ s \o t \in Seq(Event) /\ Len(s \o t) = Len(s) + Len(t)
      /\ \A i \in 1 .. Len(s) + Len(t) :
           (s \o t)[i] = IF i <= Len(s) THEN s[i] ELSE t[i - Len(s)]
  BY ConcatProperties
<1>2. /\ DOMAIN s = 1 .. Len(s) /\ DOMAIN t = 1 .. Len(t)
      /\ Len(s) \in Nat /\ Len(t) \in Nat /\ DOMAIN (s \o t) = 1 .. Len(s) + Len(t)
  BY <1>1, LenProperties
<1>3. \A i \in DOMAIN s : i \in DOMAIN (s \o t) /\ (s \o t)[i] = s[i]
  BY <1>1, <1>2
<1>4. \A j \in DOMAIN t : j + Len(s) \in DOMAIN (s \o t) /\ (s \o t)[j + Len(s)] = t[j]
  BY <1>1, <1>2
<1>5. \A k \in DOMAIN (s \o t) : \/ \E j \in DOMAIN s : (s \o t)[k] = s[j]
                                \/ \E j \in DOMAIN t : (s \o t)[k] = t[j]
  BY ConcatElements
<1> DEFINE st == s \o t
<1>6. /\ \A i \in DOMAIN s : \E k \in DOMAIN st : st[k] = s[i]
      /\ \A j \in DOMAIN t : \E k \in DOMAIN st : st[k] = t[j]
      /\ \A k \in DOMAIN st : (\E j \in DOMAIN s : st[k] = s[j]) \/ (\E j \in DOMAIN t : st[k] = t[j])
  BY <1>3, <1>4, <1>5
<1> HIDE DEF st
<1>7. StartedBy(st) = StartedBy(s) \cup StartedBy(t)
  BY <1>6 DEF StartedBy
<1>8. EndedBy(st) = EndedBy(s) \cup EndedBy(t)
  BY <1>6 DEF EndedBy
<1> QED BY <1>1, <1>7, <1>8 DEF st

\* A producer's step preserves the invariant.
LEMMA ProducerLive ==
  ASSUME TypeOK, TypeOK', VisibilityInv, VisibilityInv', LiveInv, LiveStep,
         NEW events \in Seq(Event), queue' \in {queue, queue \o events},
         Healthy' => Healthy /\ queue' = queue \o events,
         Announced(events)
  PROVE  LiveInv'
<1>1. /\ UNCHANGED <<storeState, reply, rows, dbGeneration, attached, gate>>
      /\ attached /\ gate = FreeGate
  BY DEF LiveStep, Ready
<1>2. queue \in Seq(Event) /\ queue' \in Seq(Event)
  BY DEF TypeOK, StoreTypeOK
<1>3. IdleInv' /\ AgeInv'
  BY <1>1 DEF LiveInv, IdleInv, AgeInv
<1>4. GateInv'
  <2>1. \A i \in DOMAIN queue' : queue'[i].kind \notin JournalKinds
    BY <1>1 DEF VisibilityInv, QueueInv
  <2> QED BY <1>1, <2>1 DEF GateInv, JournalKinds, LiveStep
<1>5. RunsInv'
  <2> SUFFICES ASSUME Healthy', NEW c \in Command
               PROVE  c = active' <=> (rows[c].state = "running" \/ Starting(c)') /\ ~Ending(c)'
    BY <1>1 DEF RunsInv
  <2>1. c = active <=> (rows[c].state = "running" \/ Starting(c)) /\ ~Ending(c)
    BY DEF LiveInv, RunsInv
  <2>2. /\ StartedBy(queue') = StartedBy(queue) \cup StartedBy(events)
        /\ EndedBy(queue') = EndedBy(queue) \cup EndedBy(events)
    BY <1>2, LifeConcat
  <2>3. c \notin used => c \notin EndedBy(queue)
    BY DEF EndedBy, VisibilityInv, QueueInv, Fits, Ends, LifecycleKinds
  <2>4. /\ c \in StartedBy(events) <=> c = active' /\ active' # active
        /\ c \in EndedBy(events) <=> c = active /\ active' # active
    BY StoreAssumption DEF Announced
  <2>5. c = active' /\ active' # active => c \notin used
    BY StoreAssumption DEF LiveStep
  <2> QED BY <2>1, <2>2, <2>3, <2>4, <2>5, StoreAssumption DEF Starting, Ending
<1> QED BY <1>3, <1>4, <1>5 DEF LiveInv

LEMMA FinalizeAnnounces ==
  ASSUME TypeOK, NEW last \in Seq(Event), Announced(last)
  PROVE  FinalizeEvents \o last \in Seq(Event) /\ Announced(FinalizeEvents \o last)
<1>1. FinalizeEvents \in Seq(Event)
  BY FinalizeTypes
<1>2. \A k \in DOMAIN FinalizeEvents : FinalizeEvents[k].kind = "finalized"
  BY DEF FinalizeEvents, RecordEvent
<1>3. StartedBy(FinalizeEvents) = {} /\ EndedBy(FinalizeEvents) = {}
  BY <1>2 DEF StartedBy, EndedBy, Ends
<1> QED BY <1>1, <1>3, LifeConcat DEF Announced

\* The events that a FIFO of one event, or of none, starts and ends.
LEMMA LifeOfOne ==
  ASSUME NEW e \in Event
  PROVE  /\ <<e>> \in Seq(Event)
         /\ e.kind = "started" => StartedBy(<<e>>) = {e.id} /\ EndedBy(<<e>>) = {}
         /\ e.kind \in Ends => StartedBy(<<e>>) = {} /\ EndedBy(<<e>>) = {e.id}
         /\ e.kind \notin Ends \cup {"started"} => StartedBy(<<e>>) = {} /\ EndedBy(<<e>>) = {}
<1> DEFINE s == <<e>>
<1>1. s \in Seq(Event) /\ DOMAIN s = {1} /\ s[1] = e
  OBVIOUS
<1> HIDE DEF s
<1>2. /\ e.kind = "started" => StartedBy(s) = {e.id} /\ EndedBy(s) = {}
      /\ e.kind \in Ends => StartedBy(s) = {} /\ EndedBy(s) = {e.id}
      /\ e.kind \notin Ends \cup {"started"} => StartedBy(s) = {} /\ EndedBy(s) = {}
  BY <1>1 DEF StartedBy, EndedBy, Ends
<1> QED BY <1>1, <1>2 DEF s

LEMMA LifeOfNone ==
  <<>> \in Seq(Event) /\ StartedBy(<<>>) = {} /\ EndedBy(<<>>) = {}
<1> DEFINE s == <<>>
<1>1. s \in Seq(Event) /\ DOMAIN s = {}
  BY EmptySeq
<1> HIDE DEF s
<1> QED BY <1>1 DEF StartedBy, EndedBy, s

LEMMA HealthyEnqueue ==
  ASSUME Ready, NEW events, Enqueue(events), UNCHANGED <<storeState, degraded, failed, attached, gate>>
  PROVE  /\ queue' \in {queue, queue \o events}
         /\ Healthy' => Healthy /\ queue' = queue \o events
BY DEF Ready, Enqueue, Healthy

LEMMA StartLive ==
  ASSUME TypeOK, TypeOK', VisibilityInv, VisibilityInv', LiveInv, NEW id \in Command,
         NEW epoch \in Epoch, NEW claim \in StartClaims, CommandStarted(id, epoch, claim)
  PROVE  LiveInv'
<1> DEFINE start == RecordEvent("started", id, StartedRecord(claim))
           last == IF AllowsOutputSource(claim.auth, claim.src) THEN <<start>> ELSE <<>>
           events == FinalizeEvents \o last
<1>1. start \in Event /\ start.kind = "started" /\ start.id = id
  BY StartedRecordType, EventTypes DEF RecordEvent, LifecycleKinds
<1>2. LiveStep
  <2>1. id \notin completed /\ NoCommand \notin completed
    BY StoreAssumption DEF CommandStarted, VisibilityInv, LifecycleInv, TypeOK
  <2> QED BY <2>1 DEF LiveStep, CommandStarted, OnlyQueue
<1> HIDE DEF start
<1>3. last \in Seq(Event) /\ Announced(last)
  <2>1. CASE AllowsOutputSource(claim.auth, claim.src)
    <3>1. last = <<start>> /\ active' = id /\ active = NoCommand /\ id # NoCommand
      BY <2>1, StoreAssumption DEF CommandStarted
    <3>2. last \in Seq(Event) /\ StartedBy(last) = {id} /\ EndedBy(last) = {}
      BY <1>1, <3>1, LifeOfOne
    <3> HIDE DEF last
    <3> QED BY <3>1, <3>2 DEF Announced
  <2>2. CASE ~AllowsOutputSource(claim.auth, claim.src)
    <3>1. last = <<>> /\ active' = active
      BY <2>2 DEF CommandStarted
    <3>2. last \in Seq(Event) /\ StartedBy(last) = {} /\ EndedBy(last) = {}
      BY <3>1, LifeOfNone
    <3> HIDE DEF last
    <3> QED BY <3>1, <3>2 DEF Announced
  <2> QED BY <2>1, <2>2
<1>4. Enqueue(events)
  <2>1. FinalizeEvents \o <<>> = FinalizeEvents
    BY FinalizeTypes, ConcatEmptySeq
  <2> QED BY <2>1 DEF CommandStarted, start
<1> HIDE DEF last
<1>5. events \in Seq(Event) /\ Announced(events)
  BY <1>3, FinalizeAnnounces
<1> HIDE DEF events
<1>6. UNCHANGED <<storeState, degraded, failed, attached, gate>> /\ Ready
  BY DEF CommandStarted, OnlyQueue
<1>7. /\ queue' \in {queue, queue \o events}
      /\ Healthy' => Healthy /\ queue' = queue \o events
  BY <1>4, <1>6, HealthyEnqueue
<1> QED BY <1>2, <1>5, <1>7, ProducerLive

LEMMA AbortLive ==
  ASSUME TypeOK, TypeOK', VisibilityInv, VisibilityInv', LiveInv, Ready,
         NEW matches \in BOOLEAN, matches => active # NoCommand, AbortActiveLocked(matches)
  PROVE  LiveInv'
<1> DEFINE abort == RecordEvent("aborted", active, AbortedRecord(recs[active]))
           last == IF matches THEN <<abort>> ELSE <<>>
           events == FinalizeEvents \o last
<1>1. matches => abort \in Event /\ abort.kind = "aborted" /\ abort.id = active
  <2>1. matches => active \in Command /\ recs[active] \in Record
    BY DEF TypeOK
  <2>2. matches => AbortedRecord(recs[active]) \in Record
    BY <2>1, RecordUpdates
  <2> QED BY <2>1, <2>2, EventTypes DEF RecordEvent, LifecycleKinds
<1>2. LiveStep
  <2>1. active \notin completed /\ NoCommand \notin completed
    BY StoreAssumption DEF LiveInv, GateInv, TypeOK
  <2>2. /\ UNCHANGED <<storeState, reply, rows, dbGeneration, attached, gate>>
        /\ completed' = IF matches THEN completed \cup {active} ELSE completed
        /\ active' = IF matches THEN NoCommand ELSE active
    BY DEF AbortActiveLocked, OnlyQueue
  <2> QED BY <2>1, <2>2 DEF LiveStep
<1>3. Enqueue(events) /\ active' = IF matches THEN NoCommand ELSE active
  BY DEF AbortActiveLocked
<1> HIDE DEF abort
<1>4. last \in Seq(Event) /\ Announced(last)
  <2>1. CASE matches
    <3>1. last = <<abort>> /\ active' = NoCommand /\ active # NoCommand
      BY <1>3, <2>1
    <3>2. last \in Seq(Event) /\ StartedBy(last) = {} /\ EndedBy(last) = {active}
      BY <1>1, <2>1, <3>1, LifeOfOne DEF Ends
    <3> HIDE DEF last
    <3> QED BY <3>1, <3>2 DEF Announced
  <2>2. CASE ~matches
    <3>1. last = <<>> /\ active' = active
      BY <1>3, <2>2
    <3>2. last \in Seq(Event) /\ StartedBy(last) = {} /\ EndedBy(last) = {}
      BY <3>1, LifeOfNone
    <3> HIDE DEF last
    <3> QED BY <3>1, <3>2 DEF Announced
  <2> QED BY <2>1, <2>2
<1> HIDE DEF last
<1>5. events \in Seq(Event) /\ Announced(events)
  BY <1>4, FinalizeAnnounces
<1> HIDE DEF events
<1>6. UNCHANGED <<storeState, degraded, failed, attached, gate>>
  BY DEF AbortActiveLocked, OnlyQueue
<1>7. /\ queue' \in {queue, queue \o events}
      /\ Healthy' => Healthy /\ queue' = queue \o events
  BY <1>3, <1>6, HealthyEnqueue
<1> QED BY <1>2, <1>5, <1>7, ProducerLive

LEMMA FinishLive ==
  ASSUME TypeOK, TypeOK', VisibilityInv, VisibilityInv', LiveInv, NEW id \in Command,
         NEW epoch \in Epoch, NEW auth \in Authorities, NEW interrupted \in BOOLEAN,
         CommandFinished(id, epoch, auth, interrupted)
  PROVE  LiveInv'
<1> DEFINE rec == FinishedRecord(recs[active], interrupted)
           fin == RecordEvent("finished", active, rec)
           closing == RecordEvent("finalized", active, rec)
           after == IF rec.ostate = "closed" THEN <<closing>> ELSE <<>>
           events == <<fin>> \o after
<1>1. active \in Command /\ active # NoCommand /\ recs[active] \in Record
  BY DEF CommandFinished, TypeOK
<1>2. rec \in Record
  BY <1>1, RecordUpdates
<1>3. LiveStep /\ active' = NoCommand
  <2>1. active \notin completed /\ NoCommand \notin completed
    BY StoreAssumption DEF LiveInv, GateInv, TypeOK
  <2>2. /\ UNCHANGED <<storeState, reply, rows, dbGeneration, attached, gate>> /\ Ready
        /\ completed' = completed \cup {active}
        /\ active' = NoCommand
    BY DEF CommandFinished, OnlyQueue
  <2> QED BY <1>1, <2>1, <2>2 DEF LiveStep
<1>4. Enqueue(events)
  BY DEF CommandFinished
<1>5. UNCHANGED <<storeState, degraded, failed, attached, gate>> /\ Ready
  BY DEF CommandFinished, OnlyQueue
<1> HIDE DEF rec
<1>6. /\ fin \in Event /\ fin.kind = "finished" /\ fin.id = active
      /\ closing \in Event /\ closing.kind = "finalized"
  BY <1>1, <1>2, EventTypes DEF RecordEvent, LifecycleKinds
<1> HIDE DEF fin, closing
<1>7. after \in Seq(Event) /\ StartedBy(after) = {} /\ EndedBy(after) = {}
  BY <1>6, LifeOfOne, LifeOfNone DEF Ends
<1> DEFINE first == <<fin>>
<1>8. first \in Seq(Event) /\ StartedBy(first) = {} /\ EndedBy(first) = {active}
  BY <1>6, LifeOfOne DEF Ends
<1>9. events = first \o after
  OBVIOUS
<1> HIDE DEF after, first, events
<1>10. /\ events \in Seq(Event)
       /\ StartedBy(events) = {} /\ EndedBy(events) = {active}
  BY <1>7, <1>8, <1>9, LifeConcat
<1>11. Announced(events)
  BY <1>1, <1>3, <1>10 DEF Announced
<1>12. /\ queue' \in {queue, queue \o events}
       /\ Healthy' => Healthy /\ queue' = queue \o events
  BY <1>4, <1>5, HealthyEnqueue
<1> QED BY <1>3, <1>10, <1>11, <1>12, ProducerLive

LEMMA OutputLive ==
  ASSUME TypeOK, TypeOK', VisibilityInv, VisibilityInv', LiveInv,
         NEW data \in Segments, NEW src \in Sources, OutputSegment(data, src)
  PROVE  LiveInv'
<1> DEFINE id == OutputTarget(src)
           event == OutputEvent(id, data)
           events == <<event>>
<1>1. data \in Seq(Byte) /\ id \in Command
  BY JournalAssumption DEF OutputSegment, OutputTarget, HasPending, TypeOK
<1>2. event \in Event /\ event.kind = "output"
  BY <1>1, EventTypes DEF OutputEvent
<1>3. AppendOutput(id, data)
  BY DEF OutputSegment
<1>4. /\ UNCHANGED <<storeState, reply, rows, dbGeneration, attached, gate>> /\ Ready
      /\ UNCHANGED <<active, completed>>
  BY DEF OutputSegment
<1> HIDE DEF id
<1>5. /\ queue' \in {queue, Append(queue, event)}
      /\ Healthy' => Healthy /\ queue' = Append(queue, event)
  <2>1. CASE AppendRefused(data)
    <3>1. storeState # "open" \/ degraded \/ Overflows(data)
      BY <2>1 DEF AppendRefused, Overflows
    <3>2. queue' = queue /\ (storeState # "open" \/ degraded')
      BY <1>3, <2>1, <3>1 DEF AppendOutput
    <3> QED BY <1>4, <3>2 DEF Healthy, Ready
  <2>2. CASE ~AppendRefused(data)
    <3>1. ~Overflows(data)
      BY <2>2 DEF AppendRefused, Overflows
    <3> QED BY <1>3, <1>4, <2>2, <3>1 DEF AppendOutput, Healthy
  <2> QED BY <2>1, <2>2
<1> HIDE DEF event
<1>6. Append(queue, event) = queue \o events
  <2>1. queue \in Seq(Event)
    BY DEF TypeOK, StoreTypeOK
  <2> QED BY <1>2, <2>1, AppendIsConcat
<1>7. events \in Seq(Event) /\ StartedBy(events) = {} /\ EndedBy(events) = {}
  BY <1>2, LifeOfOne DEF Ends
<1> HIDE DEF events
<1>8. Announced(events) /\ LiveStep
  BY <1>4, <1>7 DEF Announced, LiveStep, LiveInv, GateInv
<1> QED BY <1>5, <1>6, <1>7, <1>8, ProducerLive

LEMMA MarkLive ==
  ASSUME TypeOK, TypeOK', VisibilityInv, VisibilityInv', LiveInv, MarkOutputIncomplete
  PROVE  LiveInv'
<1> DEFINE id == IF active # NoCommand THEN active ELSE pending
           rec == [recs[id] EXCEPT !.compl = "incomplete", !.attr = "unknown",
                                   !.safety = "unknown"]
           event == RecordEvent("finalized", id, rec)
           events == IF active = NoCommand THEN <<event>> ELSE <<>>
<1>1. id \in Command /\ recs[id] \in Record
  BY DEF MarkOutputIncomplete, HasPending, TypeOK
<1>2. rec \in Record
  BY <1>1, MarkedClaims DEF Marked
<1>3. Enqueue(events)
  BY DEF MarkOutputIncomplete
<1>4. /\ UNCHANGED <<storeState, reply, rows, dbGeneration, attached, gate, degraded, failed>>
      /\ UNCHANGED <<active, completed>> /\ Ready
  BY DEF MarkOutputIncomplete, OnlyQueue
<1> HIDE DEF id, rec
<1>5. event \in Event /\ event.kind = "finalized"
  BY <1>1, <1>2, EventTypes DEF RecordEvent, LifecycleKinds
<1> HIDE DEF event
<1>6. events \in Seq(Event) /\ StartedBy(events) = {} /\ EndedBy(events) = {}
  BY <1>5, LifeOfOne, LifeOfNone DEF Ends
<1> HIDE DEF events
<1>7. Announced(events) /\ LiveStep
  BY <1>4, <1>6 DEF Announced, LiveStep, LiveInv, GateInv
<1>8. /\ queue' \in {queue, queue \o events}
      /\ Healthy' => Healthy /\ queue' = queue \o events
  BY <1>3, <1>4, HealthyEnqueue
<1> QED BY <1>6, <1>7, <1>8, ProducerLive

-----------------------------------------------------------------------------
(* What the writer leaves in the rows.                                      *)

\* What the commit of a lifecycle or output event writes into its row.
Written(e) ==
  LET old == rows[e.id]
      new == rows'[e.id]
  IN  /\ e.kind = "started" => new = e.rec
      /\ e.kind = "output" =>
           /\ new.total = old.total + Len(e.data)
           /\ new.stored = old.stored + Len(StoredPrefix(e.id, e.data))
           /\ new.truncated = (new.stored < new.total)
      /\ e.kind = "finished" =>
           /\ new.total = IF old.total > e.rec.total THEN old.total ELSE e.rec.total
           /\ new.truncated = (e.rec.truncated \/ old.truncated \/ old.stored < new.total)
      /\ e.kind = "finalized" => new.truncated = (old.truncated \/ old.stored < old.total)
      /\ e.kind = "aborted" => /\ new.total = old.total /\ new.truncated = old.truncated
                               /\ new.compl = e.rec.compl /\ new.attr = e.rec.attr
      /\ e.kind # "started" => new.mode = old.mode
      /\ e.kind \in Ends => new.state = e.rec.state /\ new.gen = e.rec.gen
      /\ e.kind \in {"output", "finalized"} => new.state = old.state /\ new.gen = old.gen
      /\ e.kind \in Closers =>
           new.safety = e.rec.safety /\ new.ostate = e.rec.ostate /\ new.stored = old.stored
      /\ e.kind \in {"finished", "finalized"} =>
           /\ new.compl = DurableCompleteness(e.id, e.rec)
           /\ new.attr = DurableAttribution(e.id, e.rec)
      /\ e.kind = "finalized" => new.total = old.total
      /\ e.kind = "output" => /\ new.compl = old.compl /\ new.attr = old.attr
                              /\ new.safety = old.safety /\ new.ostate = old.ostate

\* The commit of a visibility transaction gives running rows the new generation;
\* Delete removes the others.
Moved(kind, c) ==
  /\ rows[c].state = "running" =>
       /\ rows'[c].state = "running" /\ rows'[c].gen = dbGeneration'
       /\ rows'[c].mode = rows[c].mode /\ rows'[c].total = rows[c].total
       /\ rows'[c].stored = rows[c].stored /\ rows'[c].truncated = rows[c].truncated
       /\ rows'[c].compl = rows[c].compl /\ rows'[c].attr = rows[c].attr
       /\ rows'[c].safety = rows[c].safety /\ rows'[c].ostate = rows[c].ostate
  /\ rows[c].state # "running" =>
       rows'[c] = IF kind = "advance" THEN rows[c] ELSE NoRecord

LEMMA StartedRow ==
  ASSUME TypeOK, NEW e \in Event, e.kind = "started", InsertStarted(e)
  PROVE  Written(e) /\ \A c \in Command : c # e.id => rows'[c] = rows[c]
<1>1. e.id \in Command /\ rows \in [Command -> Record]
  BY EventFields DEF TypeOK, StoreTypeOK, LifecycleKinds
<1>2. rows'[e.id] = e.rec /\ \A c \in Command : c # e.id => rows'[c] = rows[c]
  BY <1>1 DEF InsertStarted
<1> QED BY <1>2 DEF Written, Ends, Closers

LEMMA OutputRow ==
  ASSUME TypeOK, NEW e \in Event, e.kind = "output", AppendChunks(e)
  PROVE  Written(e) /\ \A c \in Command : c # e.id => rows'[c] = rows[c]
<1> DEFINE row == rows[e.id]
           new == rows'[e.id]
           total == row.total + Len(e.data)
           stored == row.stored + Len(StoredPrefix(e.id, e.data))
           truncated == stored < total
<1>1. e.id \in Command /\ rows \in [Command -> Record] /\ row \in Record
  BY EventFields DEF TypeOK, StoreTypeOK
<1>2. /\ new = [row EXCEPT !.total = total, !.stored = stored, !.truncated = truncated]
      /\ \A c \in Command : c # e.id => rows'[c] = rows[c]
  BY <1>1 DEF AppendChunks
<1> HIDE DEF row, new, total, stored, truncated
<1>3. /\ new.state = row.state /\ new.total = total /\ new.stored = stored
      /\ new.truncated = truncated /\ new.compl = row.compl /\ new.attr = row.attr
      /\ new.safety = row.safety /\ new.ostate = row.ostate /\ new.mode = row.mode
      /\ new.gen = row.gen
  BY <1>1, <1>2 DEF Record
<1> QED BY <1>2, <1>3 DEF Written, Ends, Closers, row, new, total, stored, truncated

LEMMA FinishedRow ==
  ASSUME TypeOK, NEW e \in Event, e.kind = "finished", UpdateFinished(e)
  PROVE  Written(e) /\ \A c \in Command : c # e.id => rows'[c] = rows[c]
<1> DEFINE row == rows[e.id]
           new == rows'[e.id]
           total == IF row.total > e.rec.total THEN row.total ELSE e.rec.total
           truncated == e.rec.truncated \/ row.truncated \/ row.stored < total
           compl == DurableCompleteness(e.id, e.rec)
           attr == DurableAttribution(e.id, e.rec)
<1>1. e.id \in Command /\ rows \in [Command -> Record] /\ row \in Record
  BY EventFields DEF TypeOK, StoreTypeOK, LifecycleKinds
<1>2. /\ new = [row EXCEPT !.state = e.rec.state, !.gen = e.rec.gen, !.total = total,
                           !.truncated = truncated, !.compl = compl, !.attr = attr,
                           !.safety = e.rec.safety, !.ostate = e.rec.ostate]
      /\ \A c \in Command : c # e.id => rows'[c] = rows[c]
  BY <1>1 DEF UpdateFinished
<1> HIDE DEF row, new, total, truncated, compl, attr
<1>3. /\ new.state = e.rec.state /\ new.total = total /\ new.truncated = truncated
      /\ new.compl = compl /\ new.attr = attr /\ new.safety = e.rec.safety
      /\ new.ostate = e.rec.ostate /\ new.mode = row.mode /\ new.stored = row.stored
      /\ new.gen = e.rec.gen
  BY <1>1, <1>2 DEF Record
<1> QED BY <1>2, <1>3 DEF Written, Ends, Closers, row, new, total, truncated, compl, attr

LEMMA FinalizedRow ==
  ASSUME TypeOK, NEW e \in Event, e.kind = "finalized", UpdateOutputFinalized(e)
  PROVE  Written(e) /\ \A c \in Command : c # e.id => rows'[c] = rows[c]
<1> DEFINE row == rows[e.id]
           new == rows'[e.id]
           truncated == row.truncated \/ row.stored < row.total
           compl == DurableCompleteness(e.id, e.rec)
           attr == DurableAttribution(e.id, e.rec)
<1>1. e.id \in Command /\ rows \in [Command -> Record] /\ row \in Record
  BY EventFields DEF TypeOK, StoreTypeOK, LifecycleKinds
<1>2. /\ new = [row EXCEPT !.truncated = truncated, !.compl = compl, !.attr = attr,
                           !.safety = e.rec.safety, !.ostate = e.rec.ostate]
      /\ \A c \in Command : c # e.id => rows'[c] = rows[c]
  BY <1>1 DEF UpdateOutputFinalized
<1> HIDE DEF row, new, truncated, compl, attr
<1>3. /\ new.state = row.state /\ new.total = row.total /\ new.truncated = truncated
      /\ new.compl = compl /\ new.attr = attr /\ new.safety = e.rec.safety
      /\ new.ostate = e.rec.ostate /\ new.mode = row.mode /\ new.stored = row.stored
      /\ new.gen = row.gen
  BY <1>1, <1>2 DEF Record
<1> QED BY <1>2, <1>3 DEF Written, Ends, Closers, row, new, truncated, compl, attr

LEMMA AbortedRow ==
  ASSUME TypeOK, NEW e \in Event, e.kind = "aborted", UpdateAborted(e)
  PROVE  Written(e) /\ \A c \in Command : c # e.id => rows'[c] = rows[c]
<1> DEFINE row == rows[e.id]
           new == rows'[e.id]
<1>1. e.id \in Command /\ rows \in [Command -> Record] /\ row \in Record
  BY EventFields DEF TypeOK, StoreTypeOK, LifecycleKinds
<1>2. /\ new = [row EXCEPT !.state = e.rec.state, !.gen = e.rec.gen, !.compl = e.rec.compl,
                           !.attr = e.rec.attr, !.safety = e.rec.safety,
                           !.ostate = e.rec.ostate]
      /\ \A c \in Command : c # e.id => rows'[c] = rows[c]
  BY <1>1 DEF UpdateAborted
<1> HIDE DEF row, new
<1>3. /\ new.state = e.rec.state /\ new.total = row.total /\ new.stored = row.stored
      /\ new.truncated = row.truncated /\ new.compl = e.rec.compl /\ new.attr = e.rec.attr
      /\ new.safety = e.rec.safety /\ new.ostate = e.rec.ostate /\ new.mode = row.mode
      /\ new.gen = e.rec.gen
  BY <1>1, <1>2 DEF Record
<1> QED BY <1>2, <1>3 DEF Written, Ends, Closers, row, new

\* The commit of an event writes its row and no other.
LEMMA CommitRow ==
  ASSUME TypeOK, NEW e \in Event, e.kind \in LifecycleKinds \cup {"output"}, Process(e)
  PROVE  Written(e) /\ \A c \in Command : c # e.id => rows'[c] = rows[c]
BY StartedRow, OutputRow, FinishedRow, FinalizedRow, AbortedRow DEF Process, LifecycleKinds

LEMMA CommitBlock ==
  ASSUME TypeOK, NEW e \in Event, e.kind \in JournalKinds, Process(e), NEW c \in Command
  PROVE  Moved(e.kind, c)
<1>1. rows[c] \in Record /\ dbGeneration' = dbGeneration + 1
  BY DEF TypeOK, StoreTypeOK, Process, JournalKinds, AdvanceGeneration, DeleteRows
<1>2. rows'[c] = IF rows[c].state = "running"
                   THEN [rows[c] EXCEPT !.gen = dbGeneration']
                 ELSE IF e.kind = "advance" THEN rows[c] ELSE NoRecord
  BY <1>1 DEF Process, JournalKinds, AdvanceGeneration, DeleteRows
<1> DEFINE g == dbGeneration'
<1> HIDE DEF g
<1>3. LET r == [rows[c] EXCEPT !.gen = g]
      IN  /\ r.state = rows[c].state /\ r.gen = g
          /\ r.mode = rows[c].mode /\ r.total = rows[c].total
          /\ r.stored = rows[c].stored /\ r.truncated = rows[c].truncated
          /\ r.compl = rows[c].compl /\ r.attr = rows[c].attr
          /\ r.safety = rows[c].safety /\ r.ostate = rows[c].ostate
  BY <1>1 DEF Record
<1> QED BY <1>2, <1>3 DEF Moved, g

-----------------------------------------------------------------------------
(* The other steps keep the live command.                                   *)

\* The head of the FIFO leaves it.
LEMMA LifeOfTail ==
  ASSUME TypeOK, queue # <<>>, queue' = Tail(queue)
  PROVE  LET e == Head(queue)
         IN  /\ StartedBy(queue) = StartedBy(queue') \cup (IF e.kind = "started" THEN {e.id} ELSE {})
             /\ EndedBy(queue) = EndedBy(queue') \cup (IF e.kind \in Ends THEN {e.id} ELSE {})
<1> DEFINE e == Head(queue)
           first == <<e>>
<1>1. e \in Event /\ queue \in Seq(Event) /\ Tail(queue) \in Seq(Event)
      /\ queue = first \o Tail(queue)
  BY HeadTailProperties DEF TypeOK, StoreTypeOK
<1> HIDE DEF e
<1>2. /\ first \in Seq(Event)
      /\ StartedBy(first) = IF e.kind = "started" THEN {e.id} ELSE {}
      /\ EndedBy(first) = IF e.kind \in Ends THEN {e.id} ELSE {}
  BY <1>1, LifeOfOne DEF Ends
<1> HIDE DEF first
<1>3. /\ StartedBy(first \o Tail(queue)) = StartedBy(first) \cup StartedBy(Tail(queue))
      /\ EndedBy(first \o Tail(queue)) = EndedBy(first) \cup EndedBy(Tail(queue))
  BY <1>1, <1>2, LifeConcat
<1> QED BY <1>1, <1>2, <1>3 DEF e

\* What RunsInv says of the next state, when the writer has taken the head.
RunsNext ==
  \A c \in Command :
    c = active <=> (rows'[c].state = "running" \/ c \in StartedBy(queue')) /\ c \notin EndedBy(queue')

\* A lifecycle or output event is written.
LEMMA CommitLive ==
  ASSUME TypeOK, TypeOK', VisibilityInv, LiveInv, Healthy, queue # <<>>, queue' = Tail(queue),
         Head(queue).kind \notin JournalKinds, ~RowMissing(Head(queue)), Process(Head(queue))
  PROVE  RunsNext
<1> DEFINE e == Head(queue)
<1>1. /\ e \in Event /\ Fits(e)
      /\ \A i \in DOMAIN queue : queue[i] \in Event /\ Fits(queue[i])
  BY TailEvents, ElementOfSeq, LenProperties DEF TypeOK, StoreTypeOK, VisibilityInv, QueueInv
<1>2. e.kind \in LifecycleKinds \cup {"output"}
  BY <1>1 DEF Fits, Event, JournalKinds
<1>3. Written(e) /\ \A c \in Command : c # e.id => rows'[c] = rows[c]
  BY <1>1, <1>2, CommitRow
<1>4. /\ StartedBy(queue) = StartedBy(queue') \cup (IF e.kind = "started" THEN {e.id} ELSE {})
      /\ EndedBy(queue) = EndedBy(queue') \cup (IF e.kind \in Ends THEN {e.id} ELSE {})
  BY LifeOfTail
<1>5. \A c \in StartedBy(queue) : rows[c].state = "absent"
  BY <1>1 DEF StartedBy, Fits
<1>6. /\ \A c \in StartedBy(queue') : e.kind = "started" => c # e.id
      /\ \A c \in EndedBy(queue') : e.kind \in Ends => c # e.id
  <2>1. /\ 1 \in DOMAIN queue /\ e = queue[1]
        /\ \A i \in DOMAIN queue' : i + 1 \in DOMAIN queue /\ i + 1 # 1 /\ queue'[i] = queue[i + 1]
    BY TailEvents
  <2>2. \A i \in DOMAIN queue' : SameStep(queue'[i], e) => queue'[i].id # e.id
    BY <2>1 DEF VisibilityInv, QueueInv
  <2> QED BY <2>2 DEF StartedBy, EndedBy, SameStep
<1> HIDE DEF e
<1>7. /\ e.kind = "started" => rows'[e.id].state = "running"
      /\ e.kind \in Ends => rows'[e.id].state \in Ends /\ rows[e.id].state # "absent"
      /\ e.kind \in {"output", "finalized"} => rows'[e.id].state = rows[e.id].state
  BY <1>1, <1>3 DEF Written, Fits, RowMissing, Ends, e
<1> QED BY <1>2, <1>3, <1>4, <1>5, <1>6, <1>7 DEF RunsNext, LiveInv, RunsInv, Starting, Ending,
                                                   LifecycleKinds, Ends

\* The rows after a commit are not ahead of the tables.
LEMMA CommitAge ==
  ASSUME TypeOK, TypeOK', VisibilityInv, LiveInv, Commit
  PROVE  AgeInv'
<1>1. CASE Head(queue).kind \notin JournalKinds
  <2>1. /\ reply' = reply /\ dbGeneration' = dbGeneration
        /\ \A c \in Command : RowEffect(Head(queue), c)
    BY <1>1, CommitEffect
  <2>2. queue # <<>> /\ Fits(Head(queue))
    <3>1. queue # <<>> /\ queue' = Tail(queue)
      BY DEF Commit, WriterStep
    <3> QED BY <3>1, TailEvents DEF VisibilityInv, QueueInv
  <2>3. reply.status # "ok"
    BY <2>2 DEF VisibilityInv, GenerationInv
  <2>4. \A c \in Command : rows'[c].gen = rows[c].gen \/ rows'[c].gen = dbGeneration
    BY <2>1, <2>2 DEF RowEffect, Fits, Ends
  <2>5. dbGeneration <= dbGeneration
    BY DEF TypeOK, StoreTypeOK
  <2> QED BY <2>1, <2>3, <2>4, <2>5 DEF LiveInv, AgeInv
<1>2. CASE Head(queue).kind \in JournalKinds
  <2>1. dbGeneration' = dbGeneration + 1 /\ \A c \in Command : TransactionEffect(c)
    BY <1>2, CommitEffect
  <2>2. dbGeneration \in Nat
    BY DEF TypeOK, StoreTypeOK
  <2>3. ASSUME NEW c \in Command
        PROVE  /\ rows'[c].gen <= dbGeneration'
               /\ rows'[c].state \in Ends => rows'[c].gen < dbGeneration'
    <3>1. rows[c] \in Record /\ rows'[c] \in Record /\ rows[c].gen <= dbGeneration
      BY DEF TypeOK, StoreTypeOK, LiveInv, AgeInv
    <3>2. rows[c].gen \in Nat
      BY <3>1 DEF Record
    <3> DEFINE old == rows[c].gen
               new == rows'[c].gen
    <3>3. CASE rows'[c].state = "running" /\ new = dbGeneration'
      BY <2>1, <2>2, <3>3 DEF Ends
    <3>4. CASE new = old
      <4> HIDE DEF new, old
      <4>1. new <= dbGeneration' /\ new < dbGeneration'
        BY <2>1, <2>2, <3>1, <3>2, <3>4 DEF old
      <4> QED BY <4>1 DEF new
    <3>5. CASE rows'[c].state = "absent"
      <4>1. Head(queue).kind = "delete" \/ Head(queue).kind = "advance"
        BY <1>2 DEF JournalKinds
      <4>2. Moved(Head(queue).kind, c)
        <5>1. queue # <<>> /\ queue' = Tail(queue) /\ Process(Head(queue))
          BY DEF Commit, WriterStep
        <5> QED BY <1>2, <5>1, TailEvents, CommitBlock
      <4>3. new = old \/ new = 0
        BY <3>5, <4>2 DEF Moved, NoRecord
      <4> HIDE DEF new, old
      <4>4. new <= dbGeneration'
        BY <2>1, <2>2, <3>1, <3>2, <4>3 DEF old
      <4> QED BY <3>5, <4>4 DEF new, Ends
    <3> QED BY <2>1, <3>3, <3>4, <3>5 DEF TransactionEffect
  <2> QED BY <2>3 DEF AgeInv
<1> QED BY <1>1, <1>2

LEMMA WriterLive ==
  ASSUME TypeOK, TypeOK', VisibilityInv, VisibilityInv', LiveInv, WriterNext,
         UNCHANGED <<journalVars, service, historyVars>>
  PROVE  LiveInv'
<1>1. UNCHANGED <<attached, active, completed, gate>>
  BY DEF journalVars
<1>2. attached /\ queue # <<>>
  <2>1. queue # <<>>
    BY DEF WriterNext, Dequeue, Commit, CommitMissing, CommitFault
  <2> QED BY <2>1 DEF VisibilityInv, LifecycleInv
<1>3. IdleInv'
  BY <1>1, <1>2 DEF IdleInv
<1>4. GateInv'
  <2>1. \A i \in DOMAIN queue' : \E j \in DOMAIN queue : queue'[i] = queue[j]
    <3>1. CASE queue' = queue
      BY <3>1
    <3>2. CASE queue' = Tail(queue)
      BY <1>2, <3>2, TailEvents
    <3> QED BY <3>1, <3>2 DEF WriterNext, Dequeue, Commit, CommitMissing, CommitFault, WriterStep
  <2> QED BY <1>1, <2>1 DEF LiveInv, GateInv
<1>5. AgeInv'
  <2>1. CASE Commit
    BY <2>1, CommitAge
  <2>2. CASE ~Commit
    <3>1. UNCHANGED <<rows, dbGeneration>> /\ (reply'.status = "ok" => reply' = reply)
      BY <2>2 DEF WriterNext, Dequeue, CommitMissing, CommitFault
    <3> QED BY <3>1 DEF LiveInv, AgeInv
  <2> QED BY <2>1, <2>2
<1>6. RunsInv'
  <2> SUFFICES ASSUME Healthy' PROVE RunsNext
    BY <1>1 DEF RunsInv, RunsNext, Starting, Ending
  <2>1. CASE Dequeue
    BY <1>1, <2>1 DEF Dequeue, Healthy, LiveInv, RunsInv, RunsNext, Starting, Ending
  <2>2. CASE Commit
    <3>1. /\ queue' = Tail(queue) /\ UNCHANGED <<storeState, degraded, failed>>
          /\ Process(Head(queue)) /\ ~RowMissing(Head(queue))
      BY <2>2 DEF Commit, WriterStep
    <3>2. Healthy
      BY <1>1, <3>1 DEF Healthy
    <3>3. CASE Head(queue).kind \notin JournalKinds
      BY <1>2, <3>1, <3>2, <3>3, CommitLive
    <3>4. CASE Head(queue).kind \in JournalKinds
      <4>1. \A c \in Command : TransactionEffect(c)
        BY <2>2, <3>4, CommitEffect
      <4>2. /\ StartedBy(queue) = StartedBy(queue') /\ EndedBy(queue) = EndedBy(queue')
        BY <1>2, <3>1, <3>4, LifeOfTail DEF JournalKinds, Ends
      <4>3. \A c \in Command : rows'[c].state = "running" <=> rows[c].state = "running"
        BY <2>2, <3>4, <4>1, TailEvents, CommitBlock, <3>1, <1>2 DEF Moved, NoRecord
      <4> QED BY <3>2, <4>2, <4>3 DEF LiveInv, RunsInv, RunsNext, Starting, Ending
    <3> QED BY <3>3, <3>4
  <2>3. CASE CommitMissing
    BY <2>3 DEF CommitMissing, Healthy
  <2>4. CASE CommitFault
    BY <2>4 DEF CommitFault, Healthy
  <2> QED BY <2>1, <2>2, <2>3, <2>4 DEF WriterNext
<1> QED BY <1>3, <1>4, <1>5, <1>6 DEF LiveInv

\* Asking for a transaction.
LEMMA BeginLive ==
  ASSUME TypeOK, TypeOK', VisibilityInv, LiveInv, ClearBegin \/ DeleteBegin
  PROVE  LiveInv'
<1> DEFINE kind == IF ClearBegin THEN "advance" ELSE "delete"
           op == IF ClearBegin THEN "clear" ELSE "delete"
           event == BlockEvent(kind)
           events == <<event>>
<1>1. /\ attached /\ gate = FreeGate /\ gate' = [op |-> op, id |-> active]
      /\ Enqueue(events) /\ storeState = "open"
      /\ UNCHANGED <<storeState, degraded, failed, reply, rows, dbGeneration, attached, active,
                     completed>>
  BY DEF ClearBegin, DeleteBegin, BeginTransaction, Ready, OnlyQueue
<1>2. event \in Event /\ event.kind = kind
  BY EventTypes DEF BlockEvent, JournalKinds
<1>3. (kind = "advance" /\ op = "clear") \/ (kind = "delete" /\ op = "delete")
  OBVIOUS
<1> HIDE DEF kind, op, event
<1>4. /\ events \in Seq(Event) /\ StartedBy(events) = {} /\ EndedBy(events) = {}
      /\ DOMAIN events = {1} /\ events[1] = event
  BY <1>2, <1>3, LifeOfOne DEF Ends
<1> HIDE DEF events
<1>5. queue' = queue \o events /\ queue \in Seq(Event)
  BY <1>1 DEF Enqueue, TypeOK, StoreTypeOK
<1>6. StartedBy(queue') = StartedBy(queue) /\ EndedBy(queue') = EndedBy(queue)
  <2>1. /\ StartedBy(queue \o events) = StartedBy(queue) \cup StartedBy(events)
        /\ EndedBy(queue \o events) = EndedBy(queue) \cup EndedBy(events)
    BY <1>4, <1>5, LifeConcat
  <2> QED BY <1>4, <1>5, <2>1
<1>7. IdleInv' /\ AgeInv'
  BY <1>1 DEF LiveInv, IdleInv, AgeInv
<1>8. GateInv'
  <2>1. \A i \in DOMAIN queue' : (\E j \in DOMAIN queue : queue'[i] = queue[j]) \/ queue'[i] = event
    <3> SUFFICES ASSUME NEW i \in DOMAIN queue'
                 PROVE  (\E j \in DOMAIN queue : queue'[i] = queue[j]) \/ queue'[i] = event
      OBVIOUS
    <3>1. i \in DOMAIN (queue \o events) /\ queue'[i] = (queue \o events)[i]
      BY <1>5
    <3>2. \/ \E j \in DOMAIN queue : (queue \o events)[i] = queue[j]
          \/ \E j \in DOMAIN events : (queue \o events)[i] = events[j]
      BY <1>4, <1>5, <3>1, ConcatElements
    <3> QED BY <1>4, <3>1, <3>2
  <2>2. \A j \in DOMAIN queue : queue[j].kind \notin JournalKinds
    BY <1>1 DEF VisibilityInv, QueueInv
  <2>3. \A i \in DOMAIN queue' : queue'[i].kind \in JournalKinds => queue'[i].kind = kind
    BY <1>2, <2>1, <2>2
  <2>4. gate'.op = op /\ gate'.id = active' /\ active' \notin completed'
    BY <1>1 DEF LiveInv, GateInv
  <2>5. \A i \in DOMAIN queue' : /\ queue'[i].kind = "advance" => op = "clear"
                                 /\ queue'[i].kind = "delete" => op = "delete"
    <3> SUFFICES ASSUME NEW i \in DOMAIN queue', queue'[i].kind \in {"advance", "delete"}
                 PROVE  queue'[i].kind = kind
      BY <1>3
    <3> QED BY <2>3 DEF JournalKinds
  <2> QED BY <2>4, <2>5 DEF GateInv
<1>9. RunsInv'
  BY <1>1, <1>6 DEF LiveInv, RunsInv, Healthy, Starting, Ending
<1> QED BY <1>7, <1>8, <1>9 DEF LiveInv

\* The caller of a transaction resumes.
LEMMA TransactionLive ==
  ASSUME TypeOK, VisibilityInv, LiveInv, TransactionNext
  PROVE  LiveInv'
<1>1. /\ gate # FreeGate /\ reply.status \in {"ok", "error"} /\ TransactionDone
      /\ attached
  BY DEF TransactionNext, ClearCommit, DeleteCommit, TransactionFailed, FreeGate,
         VisibilityInv, LifecycleInv
<1>2. /\ UNCHANGED <<storeState, queue, degraded, failed, rows, dbGeneration, attached, active>>
      /\ reply'.status = "none" /\ gate' = FreeGate
  BY <1>1 DEF TransactionDone, NoReply
<1>3. completed' \subseteq completed
  BY DEF TransactionNext, ClearCommit, DeleteCommit, TransactionFailed
<1>4. IdleInv' /\ AgeInv'
  BY <1>1, <1>2 DEF LiveInv, IdleInv, AgeInv
<1>5. GateInv'
  <2>1. \A i \in DOMAIN queue : queue[i].kind \notin JournalKinds
    BY <1>1 DEF VisibilityInv, QueueInv
  <2> QED BY <1>2, <1>3, <2>1 DEF LiveInv, GateInv, JournalKinds
<1>6. RunsInv'
  BY <1>1, <1>2 DEF LiveInv, RunsInv, Healthy, Starting, Ending
<1> QED BY <1>4, <1>5, <1>6 DEF LiveInv

\* Attach, crash, close and recovery.
LEMMA ProcessLive ==
  ASSUME TypeOK, VisibilityInv, LiveInv,
         \/ UNCHANGED vars
         \/ Attach
         \/ Crash
         \/ (CloseStore \/ Open) /\ UNCHANGED <<journalVars, service, historyVars>>
  PROVE  LiveInv'
<1>1. CASE UNCHANGED vars
  BY <1>1 DEF vars, storeVars, journalVars, LiveInv, IdleInv, GateInv, AgeInv, RunsInv, Healthy,
              Starting, Ending
<1>2. CASE Attach
  <2>1. /\ UNCHANGED <<storeState, queue, degraded, failed, reply, rows, dbGeneration>>
        /\ UNCHANGED <<active, completed, gate>>
        /\ attached' /\ storeState = "open" /\ ~attached
    BY <1>2 DEF Attach, storeVars
  <2>2. /\ queue = <<>> /\ active = NoCommand /\ gate = FreeGate
        /\ \A c \in Command : rows[c].state # "running"
    BY <2>1 DEF VisibilityInv, LifecycleInv, LiveInv, IdleInv
  <2>3. StartedBy(queue) = {}
    BY <2>2, LifeOfNone
  <2> QED BY <2>1, <2>2, <2>3, StoreAssumption
          DEF LiveInv, IdleInv, GateInv, AgeInv, RunsInv, Starting, Ending
<1>3. CASE Crash
  <2>1. /\ queue' = <<>> /\ storeState' = "down" /\ ~attached' /\ reply'.status = "none"
        /\ active' = NoCommand /\ completed' = {} /\ gate' = FreeGate
        /\ UNCHANGED <<rows, dbGeneration>>
    BY <1>3 DEF Crash, StoreCrash, NoReply
  <2> QED BY <2>1 DEF LiveInv, IdleInv, GateInv, AgeInv, RunsInv, Healthy
<1>4. CASE CloseStore /\ UNCHANGED <<journalVars, service, historyVars>>
  <2>1. /\ UNCHANGED <<queue, degraded, failed, reply, rows, dbGeneration>>
        /\ storeState = "open" /\ storeState' = "closed"
        /\ UNCHANGED <<attached, active, completed, gate>>
    BY <1>4 DEF CloseStore, journalVars
  <2> QED BY <2>1 DEF LiveInv, IdleInv, GateInv, AgeInv, RunsInv, Healthy, Starting, Ending
<1>5. CASE Open /\ UNCHANGED <<journalVars, service, historyVars>>
  <2>1. /\ UNCHANGED <<queue, degraded, failed, reply, dbGeneration>>
        /\ storeState = "down" /\ UNCHANGED <<attached, active, completed, gate>>
    BY <1>5 DEF Open, journalVars
  <2>2. ~attached /\ queue = <<>> /\ gate = FreeGate
    BY <2>1 DEF VisibilityInv, LifecycleInv
  <2>3. reply.status # "ok"
    BY <2>2 DEF VisibilityInv, GenerationInv
  <2>4. \A c \in Command : rows'[c].state # "running" /\ rows'[c].gen = rows[c].gen
    BY <1>5, OpenEffect
  <2> QED BY <2>1, <2>2, <2>3, <2>4 DEF LiveInv, IdleInv, GateInv, AgeInv, RunsInv, Healthy
<1> QED BY <1>1, <1>2, <1>3, <1>4, <1>5

\* The invariant is inductive.
LEMMA LiveInductive ==
  ASSUME TypeOK, TypeOK', VisibilityInv, VisibilityInv', LiveInv, [Next]_vars
  PROVE  LiveInv'
<1>1. CASE JournalNext
  <2>1. ASSUME NEW id \in Command, NEW e \in Epoch, NEW a \in Authorities,
               CommandAborted(id, e, a)
        PROVE  LiveInv'
    BY <2>1, AbortLive DEF CommandAborted
  <2>2. ASSUME NEW e \in Epoch, NEW a \in Authorities, NEW newer \in BOOLEAN,
               PromptReady(e, a, newer)
        PROVE  LiveInv'
    BY <2>2, AbortLive DEF PromptReady
  <2>3. CASE AbortActive
    BY <2>3, AbortLive DEF AbortActive
  <2> QED BY <1>1, <2>1, <2>2, <2>3, StartLive, FinishLive, OutputLive, MarkLive, BeginLive
          DEF JournalNext
<1>2. CASE TransactionNext
  BY <1>2, TransactionLive
<1>3. CASE WriterNext /\ UNCHANGED <<journalVars, service, historyVars>>
  BY <1>3, WriterLive
<1> QED BY <1>1, <1>2, <1>3, ProcessLive DEF Next

\* While nothing failed, the tables and the FIFO together say that exactly the active
\* command of the journal runs: what the code assumes when it treats its own memory
\* as the live record and the tables as its history.
THEOREM LiveInvariant == Spec => []LiveInv
<1>1. Init => LiveInv
  <2> SUFFICES ASSUME Init PROVE LiveInv
    OBVIOUS
  <2>1. /\ queue = <<>> /\ reply.status = "none" /\ ~attached /\ dbGeneration = 0
        /\ active = NoCommand /\ completed = {} /\ gate = FreeGate
        /\ \A c \in Command : rows[c].state = "absent" /\ rows[c].gen = 0
    BY DEF Init, StoreInit, NoReply, NoRecord
  <2> QED BY <2>1 DEF LiveInv, IdleInv, GateInv, AgeInv, RunsInv, Healthy
<1>2. TypeOK /\ TypeOK' /\ VisibilityInv /\ VisibilityInv' /\ LiveInv /\ [Next]_vars => LiveInv'
  BY LiveInductive
<1> QED BY <1>1, <1>2, TypeCorrect, VisibilityInvariant, PTL DEF Spec

\* Once Clear or Delete has been committed, exactly the live command of the journal is
\* visible: its row may still be on its way when the transaction is asked for, but
\* the FIFO writes it before, and every row that is left behind has ended.
THEOREM ClearLeavesLive == Spec => []ClearLeavesTheLiveCommand
<1>1. TypeOK /\ VisibilityInv /\ LiveInv => ClearLeavesTheLiveCommand
  <2> SUFFICES ASSUME TypeOK, VisibilityInv, LiveInv, reply.status = "ok", ~degraded,
                      failed = {}, NEW c \in Command
               PROVE  Visible(c) <=> c = active
    BY DEF ClearLeavesTheLiveCommand
  <2>1. queue = <<>> /\ gate # FreeGate /\ attached
    BY DEF VisibilityInv, GenerationInv, LifecycleInv
  <2>2. StartedBy(queue) = {} /\ EndedBy(queue) = {}
    BY <2>1, LifeOfNone
  <2>3. c = active <=> rows[c].state = "running"
    BY <2>1, <2>2 DEF LiveInv, RunsInv, Healthy, Starting, Ending
  <2>4. rows[c] \in Record /\ dbGeneration \in Nat
    BY DEF TypeOK, StoreTypeOK
  <2>5. rows[c].state \in {"absent", "running"} \cup Ends
    BY <2>4 DEF Record, Ends
  <2>6. rows[c].state \in Ends => rows[c].gen # dbGeneration
    <3>1. rows[c].state \in Ends => rows[c].gen < dbGeneration
      BY DEF LiveInv, AgeInv
    <3>2. ~(dbGeneration < dbGeneration)
      BY <2>4
    <3> QED BY <3>1, <3>2
  <2>7. rows[c].state = "running" => rows[c].gen = dbGeneration
    BY DEF VisibilityInv, RunningRowsAreVisible
  <2> QED BY <2>3, <2>5, <2>6, <2>7 DEF Visible, Ends
<1> QED BY <1>1, TypeCorrect, VisibilityInvariant, LiveInvariant, PTL

-----------------------------------------------------------------------------
(* What is counted.                                                         *)

\* The counters of a record: it stores what it counts up to the limit.
Counted(rec) ==
  /\ rec.stored = IF rec.total <= MaxOutputBytes THEN rec.total ELSE MaxOutputBytes
  /\ rec.truncated <=> rec.stored < rec.total

InMemory(c) == c \in completed \/ c = active

\* The records that the lifecycle events of q carry for c.
RecordsOf(q, c) ==
  {q[i].rec : i \in {j \in DOMAIN q : q[j].kind \in LifecycleKinds /\ q[j].id = c}}

\* The record counts what its command emitted.
CountInv ==
  /\ \A c \in Command : InMemory(c) =>
       recs[c].total = Len(emitted[c]) /\ Counted(recs[c])
  /\ \A c \in Command : \A r \in RecordsOf(queue, c) : Counted(r) /\ r.state # "absent"

\* The rows that have to agree: not those a Delete has just removed.
Shared(c) ==
  \/ c = active
  \/ c \in completed /\ ~(gate.op = "delete" /\ reply.status = "ok")

\* What the event adds to the count of c.
Adds(e, c) == IF e.kind = "output" /\ e.id = c THEN Len(e.data) ELSE 0

\* The row of c counts up to off[1]; every byte c emitted is counted there or by
\* an event in the FIFO, and each lifecycle event of c carries the count of its
\* place.
Tallied(off, q, total, emittedTotal, c) ==
  /\ off[1] = total
  /\ off[Len(q) + 1] = emittedTotal
  /\ \A i \in 1 .. Len(q) :
       /\ off[i + 1] = off[i] + Adds(q[i], c)
       /\ (q[i].kind \in LifecycleKinds /\ q[i].id = c) => q[i].rec.total = off[i]

Tallies(q, total, emittedTotal, c) ==
  \E off \in [1 .. Len(q) + 1 -> Nat] : Tallied(off, q, total, emittedTotal, c)

TallyInv ==
  Healthy => \A c \in Command : Shared(c) =>
    /\ Tallies(queue, rows[c].total, Len(emitted[c]), c)
    /\ Counted(rows[c])

-----------------------------------------------------------------------------
(* What is said of a record.                                                *)

Closer(e, c) == e.kind \in Closers /\ e.id = c

ClosedBy(q) == {q[i].id : i \in {j \in DOMAIN q : q[j].kind \in Closers}}

\* What the last event of q that says something of the output of c says.
LastRecords(q, c) ==
  {q[i].rec : i \in {j \in DOMAIN q : /\ Closer(q[j], c)
                                      /\ \A k \in DOMAIN q : j < k => ~Closer(q[k], c)}}

\* How c ends.
EndRecords(q, c) == {q[i].rec : i \in {j \in DOMAIN q : q[j].kind \in Ends /\ q[j].id = c}}

\* The record, the row or an event say the same of the output.
SameOutput(r, s) == r.ostate = s.ostate /\ (CanCopyOutput(r) <=> CanCopyOutput(s))

SameEnd(r, s) == r.state = s.state /\ r.gen = s.gen

\* The last word on the output of c, in the FIFO or in its row, is the journal's.
OutputAgrees(q, row, rec, c) ==
  /\ \A r \in LastRecords(q, c) : SameOutput(r, rec)
  /\ (row.state # "absent" /\ c \notin ClosedBy(q)) => SameOutput(row, rec)

EndAgrees(q, row, rec, c) ==
  /\ \A r \in EndRecords(q, c) : SameEnd(r, rec)
  /\ (rec.state \in Ends /\ c \notin EndedBy(q)) => SameEnd(row, rec)

ModeAgrees(q, row, rec, c) ==
  /\ row.state # "absent" => row.mode = rec.mode
  /\ \A r \in RecordsOf(q, c) : r.mode = rec.mode

Agrees(q, row, rec, c) ==
  OutputAgrees(q, row, rec, c) /\ EndAgrees(q, row, rec, c) /\ ModeAgrees(q, row, rec, c)

MemoryInv ==
  /\ active # NoCommand => recs[active].state = "running" /\ recs[active].ostate = "open"
  /\ \A c \in completed : recs[c].state \in Ends

AgreeInv ==
  Healthy => \A c \in Command : Shared(c) => Agrees(queue, rows[c], recs[c], c)

AgreementInv == CountInv /\ TallyInv /\ MemoryInv /\ AgreeInv

-----------------------------------------------------------------------------
(* Lemmas about tallies.                                                    *)

LEMMA AddsType ==
  ASSUME NEW e \in Event, NEW c
  PROVE  Adds(e, c) \in Nat
BY EventFields, LenProperties DEF Adds

\* A FIFO without output events of c counts nothing.
LEMMA TalliesNothing ==
  ASSUME NEW q \in Seq(Event), NEW n \in Nat, NEW c,
         \A i \in DOMAIN q : Adds(q[i], c) = 0,
         \A i \in DOMAIN q : (q[i].kind \in LifecycleKinds /\ q[i].id = c) => q[i].rec.total = n
  PROVE  Tallies(q, n, n, c)
<1> DEFINE off == [i \in 1 .. Len(q) + 1 |-> n]
<1>1. DOMAIN q = 1 .. Len(q) /\ Len(q) \in Nat
  BY LenProperties
<1>2. off \in [1 .. Len(q) + 1 -> Nat]
  OBVIOUS
<1>3. \A i \in 1 .. Len(q) + 1 : off[i] = n
  OBVIOUS
<1>4. 1 \in 1 .. Len(q) + 1 /\ Len(q) + 1 \in 1 .. Len(q) + 1
      /\ \A i \in 1 .. Len(q) : i \in 1 .. Len(q) + 1 /\ i + 1 \in 1 .. Len(q) + 1
  BY <1>1
<1> HIDE DEF off
<1>5. \A i \in 1 .. Len(q) : off[i + 1] = off[i] + Adds(q[i], c)
  BY <1>1, <1>3, <1>4
<1>6. Tallied(off, q, n, n, c)
  BY <1>1, <1>3, <1>4, <1>5 DEF Tallied
<1> QED BY <1>2, <1>6 DEF Tallies

LEMMA TalliesEqual ==
  ASSUME NEW total, NEW emittedTotal, NEW c, Tallies(<<>>, total, emittedTotal, c)
  PROVE  total = emittedTotal
<1> DEFINE q == <<>>
<1>1. Len(q) = 0
  OBVIOUS
<1>2. Tallies(q, total, emittedTotal, c)
  OBVIOUS
<1> HIDE DEF q
<1>3. PICK off \in [1 .. Len(q) + 1 -> Nat] : Tallied(off, q, total, emittedTotal, c)
  BY <1>2 DEF Tallies
<1>4. Len(q) + 1 = 1
  BY <1>1
<1> QED BY <1>3, <1>4 DEF Tallied

\* Events that carry no output of c join the FIFO; those about the life of c know
\* its count.
LEMMA TalliesConcat ==
  ASSUME NEW q \in Seq(Event), NEW events \in Seq(Event), NEW total, NEW n \in Nat, NEW c,
         Tallies(q, total, n, c),
         \A k \in DOMAIN events : Adds(events[k], c) = 0,
         \A k \in DOMAIN events :
           (events[k].kind \in LifecycleKinds /\ events[k].id = c) => events[k].rec.total = n
  PROVE  Tallies(q \o events, total, n, c)
<1> DEFINE all == q \o events
<1>1. /\ all \in Seq(Event) /\ Len(all) = Len(q) + Len(events)
      /\ \A i \in 1 .. Len(q) + Len(events) :
           all[i] = IF i <= Len(q) THEN q[i] ELSE events[i - Len(q)]
  BY ConcatProperties
<1>2. /\ DOMAIN q = 1 .. Len(q) /\ DOMAIN events = 1 .. Len(events)
      /\ Len(q) \in Nat /\ Len(events) \in Nat
  BY LenProperties
<1> HIDE DEF all
<1>3. PICK off \in [1 .. Len(q) + 1 -> Nat] : Tallied(off, q, total, n, c)
  BY DEF Tallies
<1> DEFINE f == [i \in 1 .. Len(all) + 1 |-> IF i <= Len(q) THEN off[i] ELSE n]
<1>4. \A i \in 1 .. Len(all) + 1 : (i <= Len(q) => i \in 1 .. Len(q) + 1)
  BY <1>2
<1>5. f \in [1 .. Len(all) + 1 -> Nat]
  BY <1>4
<1>6. off[Len(q) + 1] = n /\ off[1] = total
  BY <1>3 DEF Tallied
<1>7. \A i \in 1 .. Len(q) + 1 : f[i] = off[i]
  <2> TAKE i \in 1 .. Len(q) + 1
  <2>1. i \in 1 .. Len(all) + 1
    BY <1>1, <1>2
  <2>2. f[i] = IF i <= Len(q) THEN off[i] ELSE n
    BY <2>1
  <2>3. ~(i <= Len(q)) => i = Len(q) + 1
    BY <1>2
  <2> QED BY <1>6, <2>2, <2>3
<1>8. \A i \in 1 .. Len(all) + 1 : ~(i <= Len(q)) => f[i] = n
  OBVIOUS
<1> HIDE DEF f
<1>9. f[1] = total
  <2>1. 1 \in 1 .. Len(q) + 1
    BY <1>2
  <2> QED BY <1>6, <1>7, <2>1
<1>10. f[Len(all) + 1] = n
  <2>1. Len(all) + 1 \in 1 .. Len(all) + 1 /\ ~(Len(all) + 1 <= Len(q))
    BY <1>1, <1>2
  <2> QED BY <1>8, <2>1
<1>11. ASSUME NEW i \in 1 .. Len(all)
       PROVE  /\ f[i + 1] = f[i] + Adds(all[i], c)
              /\ (all[i].kind \in LifecycleKinds /\ all[i].id = c) => all[i].rec.total = f[i]
  <2>1. CASE i <= Len(q)
    <3>1. /\ i \in 1 .. Len(q) /\ i \in 1 .. Len(q) + 1 /\ i + 1 \in 1 .. Len(q) + 1
          /\ all[i] = q[i]
      BY <1>1, <1>2, <2>1
    <3>2. /\ off[i + 1] = off[i] + Adds(q[i], c)
          /\ (q[i].kind \in LifecycleKinds /\ q[i].id = c) => q[i].rec.total = off[i]
      BY <1>3, <3>1 DEF Tallied
    <3> QED BY <1>7, <3>1, <3>2
  <2>2. CASE ~(i <= Len(q))
    <3> DEFINE k == i - Len(q)
    <3>1. all[i] = events[k] /\ k \in DOMAIN events
      BY <1>1, <1>2, <2>2
    <3>2. i \in 1 .. Len(all) + 1 /\ i + 1 \in 1 .. Len(all) + 1 /\ ~(i + 1 <= Len(q))
      BY <1>1, <1>2, <2>2
    <3>3. f[i] = n /\ f[i + 1] = n
      BY <1>8, <2>2, <3>2
    <3> HIDE DEF k
    <3>4. Adds(all[i], c) = 0
      BY <3>1
    <3> QED BY <3>1, <3>3, <3>4
  <2> QED BY <2>1, <2>2
<1>12. Tallied(f, all, total, n, c)
  BY <1>9, <1>10, <1>11 DEF Tallied
<1> QED BY <1>5, <1>12 DEF Tallies, all

\* An output event joins the FIFO.
LEMMA TalliesOutput ==
  ASSUME NEW q \in Seq(Event), NEW e \in Event, e.kind = "output", NEW total, NEW n \in Nat,
         NEW c, Tallies(q, total, n, c)
  PROVE  Tallies(Append(q, e), total, n + Adds(e, c), c)
<1> DEFINE all == Append(q, e)
           m == n + Adds(e, c)
<1>1. /\ all \in Seq(Event) /\ Len(all) = Len(q) + 1 /\ Len(q) \in Nat
      /\ \A i \in 1 .. Len(q) : all[i] = q[i]
      /\ all[Len(q) + 1] = e
  BY AppendProperties, LenProperties
<1>2. m \in Nat /\ m = n + Adds(e, c)
  BY AddsType
<1> HIDE DEF all, m
<1>3. PICK off \in [1 .. Len(q) + 1 -> Nat] : Tallied(off, q, total, n, c)
  BY DEF Tallies
<1> DEFINE f == [i \in 1 .. Len(all) + 1 |-> IF i <= Len(q) + 1 THEN off[i] ELSE m]
<1>4. \A i \in 1 .. Len(all) + 1 : i <= Len(q) + 1 => i \in 1 .. Len(q) + 1
  BY <1>1
<1>5. f \in [1 .. Len(all) + 1 -> Nat]
  BY <1>2, <1>4
<1>6. \A i \in 1 .. Len(q) + 1 : f[i] = off[i]
  <2> TAKE i \in 1 .. Len(q) + 1
  <2>1. i \in 1 .. Len(all) + 1 /\ i <= Len(q) + 1
    BY <1>1
  <2> QED BY <2>1
<1>7. f[Len(all) + 1] = m
  <2>1. Len(all) + 1 \in 1 .. Len(all) + 1 /\ ~(Len(all) + 1 <= Len(q) + 1)
    BY <1>1
  <2> QED BY <2>1
<1> HIDE DEF f
<1>8. f[1] = total /\ f[Len(q) + 1] = n
  <2>1. 1 \in 1 .. Len(q) + 1 /\ Len(q) + 1 \in 1 .. Len(q) + 1
    BY <1>1
  <2> QED BY <1>3, <1>6, <2>1 DEF Tallied
<1>9. ASSUME NEW i \in 1 .. Len(all)
      PROVE  /\ f[i + 1] = f[i] + Adds(all[i], c)
             /\ (all[i].kind \in LifecycleKinds /\ all[i].id = c) => all[i].rec.total = f[i]
  <2>1. CASE i \in 1 .. Len(q)
    <3>1. i \in 1 .. Len(q) + 1 /\ i + 1 \in 1 .. Len(q) + 1 /\ all[i] = q[i]
      BY <1>1, <2>1
    <3>2. /\ off[i + 1] = off[i] + Adds(q[i], c)
          /\ (q[i].kind \in LifecycleKinds /\ q[i].id = c) => q[i].rec.total = off[i]
      BY <1>3, <2>1 DEF Tallied
    <3> QED BY <1>6, <3>1, <3>2
  <2>2. CASE i \notin 1 .. Len(q)
    <3>1. i = Len(q) + 1 /\ i + 1 = Len(all) + 1
      BY <1>1, <2>2
    <3>2. f[i] = n /\ f[i + 1] = m /\ all[i] = e
      BY <1>1, <1>7, <1>8, <3>1
    <3>3. e.kind \notin LifecycleKinds
      BY DEF LifecycleKinds
    <3> QED BY <1>2, <3>2, <3>3
  <2> QED BY <2>1, <2>2
<1>10. Tallied(f, all, total, m, c)
  BY <1>7, <1>8, <1>9 DEF Tallied
<1> QED BY <1>5, <1>10 DEF Tallies, all, m

\* The head of the FIFO has been written.
LEMMA TalliesTake ==
  ASSUME NEW q \in Seq(Event), q # <<>>, NEW total, NEW n, NEW c, Tallies(q, total, n, c)
  PROVE  /\ Tallies(Tail(q), total + Adds(q[1], c), n, c)
         /\ (q[1].kind \in LifecycleKinds /\ q[1].id = c) => q[1].rec.total = total
<1> DEFINE t == Tail(q)
           m == total + Adds(q[1], c)
<1>1. /\ t \in Seq(Event) /\ Len(t) = Len(q) - 1 /\ Len(q) \in Nat /\ Len(q) > 0
      /\ \A i \in 1 .. Len(t) : t[i] = q[i + 1]
  BY HeadTailProperties, LenProperties, EmptySeq
<1> HIDE DEF t
<1>2. PICK off \in [1 .. Len(q) + 1 -> Nat] : Tallied(off, q, total, n, c)
  BY DEF Tallies
<1> DEFINE f == [i \in 1 .. Len(t) + 1 |-> off[i + 1]]
<1>3. \A i \in 1 .. Len(t) + 1 : i + 1 \in 1 .. Len(q) + 1
  BY <1>1
<1>4. f \in [1 .. Len(t) + 1 -> Nat]
  BY <1>3
<1>5. \A i \in 1 .. Len(t) + 1 : f[i] = off[i + 1]
  OBVIOUS
<1> HIDE DEF f
<1>6. /\ off[1 + 1] = off[1] + Adds(q[1], c) /\ off[1] = total
      /\ (q[1].kind \in LifecycleKinds /\ q[1].id = c) => q[1].rec.total = off[1]
  <2>1. 1 \in 1 .. Len(q)
    BY <1>1
  <2> QED BY <1>2, <2>1 DEF Tallied
<1>7. f[1] = m
  <2>1. 1 \in 1 .. Len(t) + 1
    BY <1>1
  <2>2. f[1] = off[1 + 1]
    BY <1>5, <2>1
  <2> QED BY <1>6, <2>2
<1>8. f[Len(t) + 1] = n
  <2>1. Len(t) + 1 \in 1 .. Len(t) + 1 /\ Len(t) + 1 + 1 = Len(q) + 1
    BY <1>1
  <2> QED BY <1>2, <1>5, <2>1 DEF Tallied
<1>9. ASSUME NEW i \in 1 .. Len(t)
      PROVE  /\ f[i + 1] = f[i] + Adds(t[i], c)
             /\ (t[i].kind \in LifecycleKinds /\ t[i].id = c) => t[i].rec.total = f[i]
  <2> DEFINE k == i + 1
  <2>1. k \in 1 .. Len(q) /\ i \in 1 .. Len(t) + 1 /\ i + 1 \in 1 .. Len(t) + 1 /\ t[i] = q[k]
    BY <1>1
  <2>2. f[i] = off[k] /\ f[i + 1] = off[k + 1]
    BY <1>5, <2>1
  <2> HIDE DEF k
  <2>3. /\ off[k + 1] = off[k] + Adds(q[k], c)
        /\ (q[k].kind \in LifecycleKinds /\ q[k].id = c) => q[k].rec.total = off[k]
    BY <1>2, <2>1 DEF Tallied
  <2> QED BY <2>1, <2>2, <2>3
<1>10. Tallied(f, t, m, n, c)
  BY <1>7, <1>8, <1>9 DEF Tallied
<1>11. Tallies(t, m, n, c)
  BY <1>4, <1>10 DEF Tallies
<1> QED BY <1>6, <1>11 DEF t

-----------------------------------------------------------------------------
(* What the journal does to the counters of a record.                       *)

SameCounters(r, s) == r.total = s.total /\ r.stored = s.stored /\ r.truncated = s.truncated

LEMMA CountedTransfer ==
  ASSUME NEW r, NEW s, SameCounters(r, s), Counted(s)
  PROVE  Counted(r)
BY DEF SameCounters, Counted

LEMMA FinalizedKeeps ==
  ASSUME NEW r \in Record
  PROVE  /\ SameCounters(Finalized(r), r)
         /\ Finalized(r).mode = r.mode /\ Finalized(r).state = r.state
         /\ Finalized(r).gen = r.gen
BY DEF Finalized, SameCounters, Record

LEMMA AbortedKeeps ==
  ASSUME NEW r \in Record
  PROVE  /\ SameCounters(AbortedRecord(r), r)
         /\ AbortedRecord(r).mode = r.mode /\ AbortedRecord(r).state = "aborted"
         /\ AbortedRecord(r).gen = r.gen
BY DEF AbortedRecord, SameCounters, Record

LEMMA FinishedKeeps ==
  ASSUME NEW r \in Record, NEW i \in BOOLEAN
  PROVE  /\ SameCounters(FinishedRecord(r, i), r)
         /\ FinishedRecord(r, i).mode = r.mode /\ FinishedRecord(r, i).state = "finished"
         /\ FinishedRecord(r, i).gen = r.gen
<1>1. FinishedRecord(r, i).mode = r.mode /\ FinishedRecord(r, i).state = "finished"
  BY DEF FinishedRecord, Record
<1>2. SameCounters(FinishedRecord(r, i), r)
  BY DEF FinishedRecord, SameCounters, Record
<1>3. FinishedRecord(r, i).gen = r.gen
  BY DEF FinishedRecord, Record
<1> QED BY <1>1, <1>2, <1>3

LEMMA MarkedKeeps ==
  ASSUME NEW r \in Record
  PROVE  /\ SameCounters(Marked(r), r)
         /\ Marked(r).mode = r.mode /\ Marked(r).state = r.state /\ Marked(r).gen = r.gen
         /\ Marked(r).ostate = r.ostate
BY DEF Marked, SameCounters, Record

\* The counters after n more bytes, of which the store keeps up to its limit.
LEMMA CountedMore ==
  ASSUME NEW total \in Nat, NEW stored \in Nat, NEW n \in Nat,
         stored = IF total <= MaxOutputBytes THEN total ELSE MaxOutputBytes
  PROVE  LET room == IF stored < MaxOutputBytes THEN MaxOutputBytes - stored ELSE 0
             kept == IF n <= room THEN n ELSE room
         IN  stored + kept = IF total + n <= MaxOutputBytes THEN total + n ELSE MaxOutputBytes
BY StoreAssumption

LEMMA AppendedKeeps ==
  ASSUME NEW r \in Record, NEW data \in Seq(Byte), Counted(r)
  PROVE  LET a == AppendedRecord(r, data)
         IN  /\ a.total = r.total + Len(data) /\ Counted(a)
             /\ a.mode = r.mode /\ a.state = r.state /\ a.gen = r.gen /\ a.ostate = r.ostate
<1> DEFINE total == r.total + Len(data)
           room == IF r.stored < MaxOutputBytes THEN MaxOutputBytes - r.stored ELSE 0
           kept == IF Len(data) <= room THEN Len(data) ELSE room
           stored == r.stored + kept
           truncated == stored < total
           unsafe == \E k \in DOMAIN data : data[k] = "ctl"
           compl == IF r.compl # "incomplete" /\ truncated THEN "truncated" ELSE r.compl
           safety == IF r.src # "host" THEN r.safety
                     ELSE IF unsafe THEN "unsafe"
                     ELSE IF r.safety # "unsafe" THEN "plain" ELSE r.safety
           counted == [r EXCEPT !.total = total, !.stored = stored,
                                !.truncated = truncated, !.compl = compl,
                                !.safety = safety]
           refused == [counted EXCEPT !.compl = "incomplete", !.attr = "unknown",
                                      !.safety = "unknown"]
           a == AppendedRecord(r, data)
<1>1. a = IF AppendRefused(data) THEN refused ELSE counted
  BY DEF AppendedRecord
<1>2. Len(data) \in Nat /\ r.total \in Nat /\ r.stored \in Nat
  BY LenProperties DEF Record
<1>3. stored = IF total <= MaxOutputBytes THEN total ELSE MaxOutputBytes
  BY <1>2, CountedMore DEF Counted
<1>4. truncated = (stored < total)
  OBVIOUS
<1> HIDE DEF total, stored, truncated, unsafe, compl, safety, a
<1>5. /\ counted.total = total /\ counted.stored = stored /\ counted.truncated = truncated
      /\ counted.mode = r.mode /\ counted.state = r.state /\ counted.gen = r.gen
      /\ counted.ostate = r.ostate
  BY DEF Record
<1>6. /\ refused.total = total /\ refused.stored = stored /\ refused.truncated = truncated
      /\ refused.mode = r.mode /\ refused.state = r.state /\ refused.gen = r.gen
      /\ refused.ostate = r.ostate
  BY DEF Record
<1> HIDE DEF counted, refused
<1>7. /\ a.total = total /\ a.stored = stored /\ a.truncated = truncated
      /\ a.mode = r.mode /\ a.state = r.state /\ a.gen = r.gen /\ a.ostate = r.ostate
  BY <1>1, <1>5, <1>6
<1>8. Counted(a)
  BY <1>3, <1>4, <1>7 DEF Counted
<1> QED BY <1>7, <1>8 DEF a, total

-----------------------------------------------------------------------------
(* What the events of a FIFO say, put together.                             *)

\* What is said of c in a FIFO that is two FIFOs one after the other.
LEMMA WordsConcat ==
  ASSUME NEW s \in Seq(Event), NEW t \in Seq(Event), NEW c
  PROVE  /\ RecordsOf(s \o t, c) = RecordsOf(s, c) \cup RecordsOf(t, c)
         /\ EndRecords(s \o t, c) = EndRecords(s, c) \cup EndRecords(t, c)
         /\ ClosedBy(s \o t) = ClosedBy(s) \cup ClosedBy(t)
         /\ LastRecords(s \o t, c) =
              IF c \in ClosedBy(t) THEN LastRecords(t, c) ELSE LastRecords(s, c)
<1> DEFINE st == s \o t
<1>1. /\ Len(s) \in Nat /\ Len(t) \in Nat /\ DOMAIN s = 1 .. Len(s) /\ DOMAIN t = 1 .. Len(t)
      /\ DOMAIN st = 1 .. Len(s) + Len(t)
      /\ \A i \in 1 .. Len(s) + Len(t) : st[i] = IF i <= Len(s) THEN s[i] ELSE t[i - Len(s)]
  BY LenProperties, ConcatProperties
<1> HIDE DEF st
<1>2. \A i \in DOMAIN s : i \in DOMAIN st /\ st[i] = s[i]
  BY <1>1
<1>3. ASSUME NEW k \in DOMAIN t PROVE k + Len(s) \in DOMAIN st /\ st[k + Len(s)] = t[k]
  <2>1. k + Len(s) \in 1 .. Len(s) + Len(t) /\ ~(k + Len(s) <= Len(s)) /\ k + Len(s) - Len(s) = k
    BY <1>1
  <2> QED BY <1>1, <2>1
<1>4. \A i \in DOMAIN st : \/ i \in DOMAIN s
                           \/ i - Len(s) \in DOMAIN t /\ st[i] = t[i - Len(s)]
  BY <1>1
<1>5. RecordsOf(st, c) = RecordsOf(s, c) \cup RecordsOf(t, c)
  BY <1>2, <1>3, <1>4 DEF RecordsOf
<1>6. EndRecords(st, c) = EndRecords(s, c) \cup EndRecords(t, c)
  BY <1>2, <1>3, <1>4 DEF EndRecords
<1>7. ClosedBy(st) = ClosedBy(s) \cup ClosedBy(t)
  BY <1>2, <1>3, <1>4 DEF ClosedBy
<1> DEFINE last(q) == {j \in DOMAIN q : /\ Closer(q[j], c)
                                        /\ \A k \in DOMAIN q : j < k => ~Closer(q[k], c)}
<1>8. LastRecords(st, c) = {st[i].rec : i \in last(st)}
      /\ LastRecords(s, c) = {s[i].rec : i \in last(s)}
      /\ LastRecords(t, c) = {t[i].rec : i \in last(t)}
  BY DEF LastRecords
<1>9. CASE c \notin ClosedBy(t)
  <2>1. \A k \in DOMAIN t : ~Closer(t[k], c)
    BY <1>9 DEF ClosedBy, Closer
  <2>2. \A i \in DOMAIN st : i \notin DOMAIN s => ~Closer(st[i], c)
    BY <1>4, <2>1
  <2>3. last(st) = last(s)
    BY <1>2, <2>2
  <2> HIDE DEF last
  <2>4. \A i \in last(s) : st[i] = s[i]
    BY <1>2 DEF last
  <2>5. LastRecords(st, c) = LastRecords(s, c)
    BY <1>8, <2>3, <2>4
  <2> QED BY <1>5, <1>6, <1>7, <1>9, <2>5 DEF st
<1>10. CASE c \in ClosedBy(t)
  <2>1. PICK m \in DOMAIN t : Closer(t[m], c)
    BY <1>10 DEF ClosedBy, Closer
  <2>2. m + Len(s) \in DOMAIN st /\ Closer(st[m + Len(s)], c)
    BY <1>3, <2>1
  <2>3. \A i \in DOMAIN s : i < m + Len(s)
    BY <1>1
  <2>4. ASSUME NEW i \in last(st)
        PROVE  i - Len(s) \in last(t) /\ st[i] = t[i - Len(s)]
    <3>1. i \notin DOMAIN s
      BY <2>2, <2>3
    <3>2. i - Len(s) \in DOMAIN t /\ st[i] = t[i - Len(s)]
      BY <1>4, <3>1
    <3>3. ASSUME NEW k \in DOMAIN t, i - Len(s) < k PROVE ~Closer(t[k], c)
      <4>1. i < k + Len(s)
        BY <1>1, <3>3
      <4> QED BY <1>3, <4>1
    <3> QED BY <3>2, <3>3
  <2>5. ASSUME NEW k \in last(t)
        PROVE  k + Len(s) \in last(st) /\ st[k + Len(s)] = t[k]
    <3>1. k + Len(s) \in DOMAIN st /\ st[k + Len(s)] = t[k] /\ Closer(t[k], c)
      BY <1>3
    <3>2. ASSUME NEW i \in DOMAIN st, k + Len(s) < i PROVE ~Closer(st[i], c)
      <4>1. i \notin DOMAIN s
        BY <1>1, <3>2
      <4>2. i - Len(s) \in DOMAIN t /\ st[i] = t[i - Len(s)]
        BY <1>4, <4>1
      <4>3. k < i - Len(s)
        BY <1>1, <3>2
      <4> QED BY <4>2, <4>3
    <3> QED BY <3>1, <3>2
  <2> HIDE DEF last
  <2>6. LastRecords(st, c) = LastRecords(t, c)
    BY <1>8, <2>4, <2>5
  <2> QED BY <1>5, <1>6, <1>7, <1>10, <2>6 DEF st
<1> QED BY <1>9, <1>10

\* A FIFO of one event, or of none.
LEMMA WordsOfOne ==
  ASSUME NEW e \in Event, NEW c
  PROVE  /\ RecordsOf(<<e>>, c) = IF e.kind \in LifecycleKinds /\ e.id = c THEN {e.rec} ELSE {}
         /\ EndRecords(<<e>>, c) = IF e.kind \in Ends /\ e.id = c THEN {e.rec} ELSE {}
         /\ ClosedBy(<<e>>) = IF e.kind \in Closers THEN {e.id} ELSE {}
         /\ LastRecords(<<e>>, c) = IF Closer(e, c) THEN {e.rec} ELSE {}
<1> DEFINE s == <<e>>
<1>1. DOMAIN s = {1} /\ s[1] = e
  OBVIOUS
<1> HIDE DEF s
<1>2. RecordsOf(s, c) = IF e.kind \in LifecycleKinds /\ e.id = c THEN {e.rec} ELSE {}
  BY <1>1 DEF RecordsOf
<1>3. EndRecords(s, c) = IF e.kind \in Ends /\ e.id = c THEN {e.rec} ELSE {}
  BY <1>1 DEF EndRecords
<1>4. ClosedBy(s) = IF e.kind \in Closers THEN {e.id} ELSE {}
  BY <1>1 DEF ClosedBy
<1>5. LastRecords(s, c) = IF Closer(e, c) THEN {e.rec} ELSE {}
  BY <1>1 DEF LastRecords
<1> QED BY <1>2, <1>3, <1>4, <1>5 DEF s

LEMMA WordsOfNone ==
  ASSUME NEW c
  PROVE  /\ RecordsOf(<<>>, c) = {} /\ EndRecords(<<>>, c) = {}
         /\ ClosedBy(<<>>) = {} /\ LastRecords(<<>>, c) = {}
<1> DEFINE s == <<>>
<1>1. DOMAIN s = {}
  BY EmptySeq
<1> HIDE DEF s
<1> QED BY <1>1 DEF RecordsOf, EndRecords, ClosedBy, LastRecords, s

\* A word that closes, or ends, is a word.
LEMMA WordsWithin ==
  ASSUME NEW q \in Seq(Event), NEW c
  PROVE  /\ EndRecords(q, c) \subseteq RecordsOf(q, c)
         /\ LastRecords(q, c) \subseteq RecordsOf(q, c)
         /\ c \in EndedBy(q) <=> EndRecords(q, c) # {}
         /\ EndedBy(q) \subseteq ClosedBy(q)
         /\ c \notin ClosedBy(q) => LastRecords(q, c) = {}
<1>1. Ends \subseteq Closers /\ Closers \subseteq LifecycleKinds
  BY DEF Ends, Closers, LifecycleKinds
<1> QED BY <1>1 DEF EndRecords, RecordsOf, LastRecords, EndedBy, ClosedBy, Closer

-----------------------------------------------------------------------------
(* The steps of the journal's producers keep the agreement.                 *)

InMemoryNext(c) == c \in completed' \/ c = active'

CountNext ==
  \A c \in Command : InMemoryNext(c) => recs'[c].total = Len(emitted'[c]) /\ Counted(recs'[c])

MemoryNext ==
  /\ active' # NoCommand => recs'[active'].state = "running" /\ recs'[active'].ostate = "open"
  /\ \A c \in completed' : recs'[c].state \in Ends

\* What a producer does to the records: its events carry what it leaves in memory,
\* it says so when the output or the end of a record changes, and it remembers no
\* command again that it had forgotten.
AgreeStep(events) ==
  /\ Ready
  /\ UNCHANGED <<storeState, reply, rows, chunks, attached>>
  /\ CountNext /\ MemoryNext
  /\ \A c \in Command : /\ RecordsOf(events, c) \subseteq {recs'[c]}
                        /\ RecordsOf(events, c) # {} => InMemoryNext(c)
  /\ \A c \in Command : InMemoryNext(c) => InMemory(c) \/ c \notin used
  /\ \A c \in Command : InMemory(c) /\ InMemoryNext(c) =>
       /\ recs'[c].mode = recs[c].mode
       /\ c \in ClosedBy(events) \/ SameOutput(recs'[c], recs[c])
  /\ \A c \in completed : SameEnd(recs'[c], recs[c])
  /\ completed' \subseteq completed \cup EndedBy(events)

\* The FIFO and the tables know nothing of a command that no producer has used.
LEMMA UnusedIsUnknown ==
  ASSUME TypeOK, VisibilityInv, OutputInv, NEW c \in Command, c \notin used
  PROVE  /\ rows[c] = NoRecord /\ RecordsOf(queue, c) = {} /\ ~InMemory(c)
         /\ Len(emitted[c]) = 0 /\ Tallies(queue, rows[c].total, 0, c)
<1>1. queue \in Seq(Event) /\ emitted[c] \in Seq(Byte)
  BY DEF TypeOK, StoreTypeOK
<1>2. rows[c] = NoRecord
  BY DEF VisibilityInv, LifecycleInv, OutputInv, DeliveryInv
<1>3. \A i \in DOMAIN queue : ~(queue[i].kind \in LifecycleKinds /\ queue[i].id = c)
  BY DEF VisibilityInv, QueueInv, Fits
<1>4. RecordsOf(queue, c) = {}
  BY <1>3 DEF RecordsOf
<1>5. ~InMemory(c)
  BY StoreAssumption DEF InMemory, VisibilityInv, LifecycleInv
<1>6. Len(emitted[c]) = 0
  BY DEF OutputInv, UnusedInv
<1>7. ASSUME NEW i \in DOMAIN queue
      PROVE  Adds(queue[i], c) = 0
  <2> SUFFICES ASSUME queue[i].kind = "output", queue[i].id = c
               PROVE  Len(queue[i].data) = 0
    BY DEF Adds
  <2>1. Delivers(queue, emitted[c], chunks[c], c)
    BY DEF OutputInv, DeliveryInv
  <2>2. PICK off \in [1 .. Len(queue) + 1 -> 0 .. Len(emitted[c])] :
               Placed(off, queue, emitted[c], chunks[c], c)
    BY <2>1 DEF Delivers
  <2>3. i \in 1 .. Len(queue) /\ i \in 1 .. Len(queue) + 1 /\ i + 1 \in 1 .. Len(queue) + 1
    BY <1>1, LenProperties
  <2>4. off[i] + Len(queue[i].data) <= off[i + 1]
    BY <2>2, <2>3 DEF Placed
  <2>5. off[i] = 0 /\ off[i + 1] = 0
    <3>1. off[i] \in 0 .. 0 /\ off[i + 1] \in 0 .. 0
      BY <1>6, <2>2, <2>3
    <3> QED BY <3>1
  <2>6. Len(queue[i].data) \in Nat
    BY <1>1, ElementOfSeq, EventFields, LenProperties
  <2> QED BY <2>4, <2>5, <2>6
<1>8. rows[c].total = 0
  BY <1>2 DEF NoRecord
<1>9. Tallies(queue, 0, 0, c)
  BY <1>1, <1>3, <1>7, TalliesNothing
<1> QED BY <1>2, <1>4, <1>5, <1>6, <1>8, <1>9

LEMMA ProducerCounts ==
  ASSUME TypeOK, CountInv, NEW events \in Seq(Event), AgreeStep(events),
         queue' \in {queue, queue \o events}
  PROVE  CountInv' /\ MemoryInv'
<1>1. MemoryInv'
  BY DEF AgreeStep, MemoryNext, MemoryInv
<1>2. \A c \in Command : InMemoryNext(c) => recs'[c].state # "absent"
  BY StoreAssumption DEF AgreeStep, MemoryNext, InMemoryNext, Ends
<1>3. ASSUME NEW c \in Command, NEW r \in RecordsOf(queue', c)
      PROVE  Counted(r) /\ r.state # "absent"
  <2>1. queue \in Seq(Event)
    BY DEF TypeOK, StoreTypeOK
  <2>2. RecordsOf(queue \o events, c) = RecordsOf(queue, c) \cup RecordsOf(events, c)
    BY <2>1, WordsConcat
  <2>3. r \in RecordsOf(queue, c) \/ r \in RecordsOf(events, c)
    BY <1>3, <2>2
  <2>4. CASE r \in RecordsOf(queue, c)
    BY <2>4 DEF CountInv
  <2>5. CASE r \in RecordsOf(events, c)
    <3>1. r = recs'[c] /\ InMemoryNext(c) /\ CountNext
      BY <2>5 DEF AgreeStep
    <3> QED BY <1>2, <3>1 DEF CountNext
  <2> QED BY <2>3, <2>4, <2>5
<1>4. CountNext
  BY DEF AgreeStep
<1> QED BY <1>1, <1>3, <1>4 DEF CountInv, CountNext, InMemory, InMemoryNext

LEMMA ProducerAgrees ==
  ASSUME TypeOK, VisibilityInv, OutputInv, MemoryInv, AgreeInv,
         NEW events \in Seq(Event), AgreeStep(events),
         Healthy' => Healthy /\ queue' = queue \o events
  PROVE  AgreeInv'
<1> SUFFICES ASSUME Healthy', NEW c \in Command, Shared(c)'
             PROVE  Agrees(queue', rows'[c], recs'[c], c)
  BY DEF AgreeInv
<1>1. /\ Healthy /\ queue' = queue \o events /\ queue \in Seq(Event) /\ rows' = rows
      /\ MemoryNext
  BY DEF TypeOK, StoreTypeOK, AgreeStep
<1>2. /\ InMemoryNext(c)
      /\ InMemory(c) => Shared(c)
  BY DEF Shared, InMemory, InMemoryNext, AgreeStep, Ready, VisibilityInv, GenerationInv
<1>3. /\ RecordsOf(queue', c) = RecordsOf(queue, c) \cup RecordsOf(events, c)
      /\ EndRecords(queue', c) = EndRecords(queue, c) \cup EndRecords(events, c)
      /\ c \in ClosedBy(queue') <=> c \in ClosedBy(queue) \/ c \in ClosedBy(events)
      /\ c \in EndedBy(queue') <=> c \in EndedBy(queue) \/ c \in EndedBy(events)
      /\ LastRecords(queue', c) =
           IF c \in ClosedBy(events) THEN LastRecords(events, c) ELSE LastRecords(queue, c)
  <2>1. EndedBy(queue \o events) = EndedBy(queue) \cup EndedBy(events)
    BY <1>1, LifeConcat
  <2>2. ClosedBy(queue \o events) = ClosedBy(queue) \cup ClosedBy(events)
    BY <1>1, WordsConcat
  <2> QED BY <1>1, <2>1, <2>2, WordsConcat
<1>4. /\ EndRecords(events, c) \subseteq {recs'[c]}
      /\ LastRecords(events, c) \subseteq {recs'[c]}
      /\ RecordsOf(events, c) \subseteq {recs'[c]}
      /\ EndedBy(events) \subseteq ClosedBy(events)
      /\ EndRecords(queue, c) \subseteq RecordsOf(queue, c)
      /\ LastRecords(queue, c) \subseteq RecordsOf(queue, c)
  BY <1>1, WordsWithin DEF AgreeStep
<1>5. /\ c \in completed' => c \in completed \/ c \in EndedBy(events)
      /\ c = active' => recs'[c].state = "running"
      /\ c \in completed => SameEnd(recs'[c], recs[c]) /\ recs[c].state \in Ends
  BY <1>1, StoreAssumption DEF AgreeStep, MemoryNext, MemoryInv
<1>6. CASE ~InMemory(c)
  <2>1. c \notin used
    BY <1>2, <1>6 DEF AgreeStep
  <2>2. rows[c].state = "absent" /\ RecordsOf(queue, c) = {}
    BY <2>1, UnusedIsUnknown DEF NoRecord
  <2>3. OutputAgrees(queue', rows[c], recs'[c], c)
    BY <1>3, <1>4, <2>2 DEF OutputAgrees, SameOutput
  <2>4. EndAgrees(queue', rows[c], recs'[c], c)
    BY <1>2, <1>3, <1>4, <1>5, <1>6, <2>2 DEF EndAgrees, SameEnd, InMemory, InMemoryNext, Ends
  <2>5. ModeAgrees(queue', rows[c], recs'[c], c)
    BY <1>3, <1>4, <2>2 DEF ModeAgrees
  <2> QED BY <1>1, <2>3, <2>4, <2>5 DEF Agrees
<1>7. CASE InMemory(c)
  <2>1. Agrees(queue, rows[c], recs[c], c)
    BY <1>1, <1>2, <1>7 DEF AgreeInv
  <2>2. /\ recs'[c].mode = recs[c].mode
        /\ c \in ClosedBy(events) \/ SameOutput(recs'[c], recs[c])
    BY <1>2, <1>7 DEF AgreeStep
  <2>3. OutputAgrees(queue', rows[c], recs'[c], c)
    BY <1>3, <1>4, <2>1, <2>2 DEF Agrees, OutputAgrees, SameOutput
  <2>4. ModeAgrees(queue', rows[c], recs'[c], c)
    BY <1>3, <1>4, <2>1, <2>2 DEF Agrees, ModeAgrees
  <2>5. EndAgrees(queue', rows[c], recs'[c], c)
    <3>1. c = active => EndRecords(queue, c) = {}
      BY StoreAssumption DEF EndRecords, VisibilityInv, QueueInv, Fits
    <3> QED BY <1>2, <1>3, <1>4, <1>5, <1>7, <2>1, <3>1
            DEF Agrees, EndAgrees, SameEnd, InMemory, InMemoryNext, Ends
  <2> QED BY <1>1, <2>3, <2>4, <2>5 DEF Agrees
<1> QED BY <1>6, <1>7

LEMMA ProducerTallies ==
  ASSUME TypeOK, VisibilityInv, OutputInv, TallyInv,
         NEW events \in Seq(Event), AgreeStep(events), UNCHANGED emitted,
         \A k \in DOMAIN events : events[k].kind # "output",
         Healthy' => Healthy /\ queue' = queue \o events
  PROVE  TallyInv'
<1> SUFFICES ASSUME Healthy', NEW c \in Command, Shared(c)'
             PROVE  Tallies(queue', rows'[c].total, Len(emitted'[c]), c) /\ Counted(rows'[c])
  BY DEF TallyInv
<1>1. /\ Healthy /\ queue' = queue \o events /\ queue \in Seq(Event) /\ rows' = rows
      /\ CountNext
  BY DEF TypeOK, StoreTypeOK, AgreeStep
<1>2. /\ InMemoryNext(c)
      /\ InMemory(c) => Shared(c)
  BY DEF Shared, InMemory, InMemoryNext, AgreeStep, Ready, VisibilityInv, GenerationInv
<1>3. Tallies(queue, rows[c].total, Len(emitted[c]), c) /\ Counted(rows[c])
  <2>1. CASE InMemory(c)
    BY <1>1, <1>2, <2>1 DEF TallyInv
  <2>2. CASE ~InMemory(c)
    <3>1. c \notin used
      BY <1>2, <2>2 DEF AgreeStep
    <3>2. Counted(NoRecord)
      BY StoreAssumption DEF Counted, NoRecord
    <3> QED BY <3>1, <3>2, UnusedIsUnknown
  <2> QED BY <2>1, <2>2
<1>4. \A k \in DOMAIN events : Adds(events[k], c) = 0
  BY DEF Adds
<1>5. \A k \in DOMAIN events :
        (events[k].kind \in LifecycleKinds /\ events[k].id = c) =>
           events[k].rec.total = Len(emitted[c])
  <2>1. \A r \in RecordsOf(events, c) : r.total = Len(emitted[c])
    BY <1>1, <1>2 DEF AgreeStep, CountNext
  <2> QED BY <2>1 DEF RecordsOf
<1>6. Len(emitted[c]) \in Nat
  BY LenProperties DEF TypeOK
<1>7. Tallies(queue \o events, rows[c].total, Len(emitted[c]), c)
  BY <1>1, <1>3, <1>4, <1>5, <1>6, TalliesConcat
<1> QED BY <1>1, <1>3, <1>7

\* A producer whose events are all about records.
LEMMA ProducerAgreement ==
  ASSUME TypeOK, VisibilityInv, OutputInv, AgreementInv,
         NEW events \in Seq(Event), AgreeStep(events), UNCHANGED <<emitted, degraded, failed, gate>>,
         \A k \in DOMAIN events : events[k].kind # "output",
         Enqueue(events)
  PROVE  AgreementInv'
<1>1. /\ queue' \in {queue, queue \o events}
      /\ Healthy' => Healthy /\ queue' = queue \o events
  BY HealthyEnqueue DEF AgreeStep
<1>2. CountInv /\ TallyInv /\ MemoryInv /\ AgreeInv
  BY DEF AgreementInv
<1>3. CountInv' /\ MemoryInv'
  BY <1>1, <1>2, ProducerCounts
<1>4. TallyInv'
  BY <1>1, <1>2, ProducerTallies
<1>5. AgreeInv'
  BY <1>1, <1>2, ProducerAgrees
<1> QED BY <1>3, <1>4, <1>5 DEF AgreementInv

\* What the fence of a pending record says, before what follows it.
LEMMA FinalizeTold ==
  ASSUME TypeOK, NEW last \in Seq(Event), NEW c \in Command
  PROVE  /\ RecordsOf(FinalizeEvents \o last, c) =
              RecordsOf(last, c)
                \cup (IF HasPending /\ c = pending THEN {Finalized(recs[c])} ELSE {})
         /\ c \in ClosedBy(FinalizeEvents \o last) <=>
              c \in ClosedBy(last) \/ (HasPending /\ c = pending)
         /\ EndedBy(FinalizeEvents \o last) = EndedBy(last)
         /\ FinalizedRecs[c] = IF HasPending /\ c = pending THEN Finalized(recs[c]) ELSE recs[c]
<1> DEFINE event == RecordEvent("finalized", pending, Finalized(recs[pending]))
<1>1. FinalizeEvents \in Seq(Event)
  BY FinalizeTypes
<1>2. HasPending => event \in Event /\ event.kind = "finalized" /\ event.id = pending
                    /\ event.rec = Finalized(recs[pending])
  <2>1. HasPending => pending \in Command /\ Finalized(recs[pending]) \in Record
    BY RecordUpdates DEF HasPending, TypeOK
  <2> QED BY <2>1, EventTypes DEF RecordEvent, LifecycleKinds
<1>3. FinalizeEvents = IF HasPending THEN <<event>> ELSE <<>>
  BY DEF FinalizeEvents
<1> HIDE DEF event
<1>4. /\ RecordsOf(FinalizeEvents, c) =
           IF HasPending /\ c = pending THEN {Finalized(recs[c])} ELSE {}
      /\ c \in ClosedBy(FinalizeEvents) <=> HasPending /\ c = pending
      /\ EndedBy(FinalizeEvents) = {}
  <2>1. CASE HasPending
    <3>1. /\ RecordsOf(FinalizeEvents, c) = IF c = pending THEN {event.rec} ELSE {}
          /\ ClosedBy(FinalizeEvents) = {pending}
      BY <1>2, <1>3, <2>1, WordsOfOne DEF LifecycleKinds, Closers
    <3>2. EndedBy(FinalizeEvents) = {}
      BY <1>2, <1>3, <2>1, LifeOfOne DEF Ends
    <3> QED BY <1>2, <2>1, <3>1, <3>2
  <2>2. CASE ~HasPending
    BY <1>3, <2>2, WordsOfNone, LifeOfNone
  <2> QED BY <2>1, <2>2
<1>5. FinalizedRecs[c] = IF HasPending /\ c = pending THEN Finalized(recs[c]) ELSE recs[c]
  BY DEF FinalizedRecs, TypeOK
<1>6. /\ RecordsOf(FinalizeEvents \o last, c) = RecordsOf(FinalizeEvents, c) \cup RecordsOf(last, c)
      /\ ClosedBy(FinalizeEvents \o last) = ClosedBy(FinalizeEvents) \cup ClosedBy(last)
      /\ EndedBy(FinalizeEvents \o last) = EndedBy(FinalizeEvents) \cup EndedBy(last)
  BY <1>1, WordsConcat, LifeConcat
<1> QED BY <1>4, <1>5, <1>6

LEMMA NoOutputAfterFence ==
  ASSUME TypeOK, NEW last \in Seq(Event), \A k \in DOMAIN last : last[k].kind # "output"
  PROVE  LET events == FinalizeEvents \o last
         IN  events \in Seq(Event) /\ \A k \in DOMAIN events : events[k].kind # "output"
<1>1. FinalizeEvents \in Seq(Event) /\ FinalizeEvents \o last \in Seq(Event)
  BY FinalizeTypes, ConcatProperties
<1>2. \A k \in DOMAIN FinalizeEvents : FinalizeEvents[k].kind # "output"
  BY DEF FinalizeEvents, RecordEvent
<1> QED BY <1>1, <1>2, ConcatElements

LEMMA StartAgrees ==
  ASSUME TypeOK, VisibilityInv, OutputInv, AgreementInv, NEW id \in Command,
         NEW epoch \in Epoch, NEW claim \in StartClaims, CommandStarted(id, epoch, claim)
  PROVE  AgreementInv'
<1> DEFINE rec == StartedRecord(claim)
           start == RecordEvent("started", id, rec)
           taken == AllowsOutputSource(claim.auth, claim.src)
           last == IF taken THEN <<start>> ELSE <<>>
           events == FinalizeEvents \o last
<1>1. /\ start \in Event /\ start.kind = "started" /\ start.id = id /\ start.rec = rec
      /\ rec.state = "running" /\ rec.ostate = "open" /\ rec.total = 0 /\ Counted(rec)
  <2>1. rec \in Record
    BY StartedRecordType
  <2>2. rec.state = "running" /\ rec.ostate = "open" /\ rec.total = 0
        /\ rec.stored = 0 /\ rec.truncated = FALSE
    BY DEF StartedRecord, NoRecord
  <2>3. Counted(rec)
    BY <2>2, StoreAssumption DEF Counted
  <2> HIDE DEF rec
  <2> QED BY <2>1, <2>2, <2>3, EventTypes DEF RecordEvent, LifecycleKinds
<1>2. /\ Ready /\ active = NoCommand /\ id \notin used
      /\ UNCHANGED <<storeState, reply, rows, chunks, attached, emitted, degraded, failed, gate,
                     completed>>
      /\ taken => recs' = [FinalizedRecs EXCEPT ![id] = rec] /\ active' = id
      /\ ~taken => recs' = FinalizedRecs /\ active' = NoCommand
  BY DEF CommandStarted, OnlyQueue
<1>3. Enqueue(events)
  <2>1. FinalizeEvents \o <<>> = FinalizeEvents
    BY FinalizeTypes, ConcatEmptySeq
  <2> QED BY <2>1 DEF CommandStarted
<1> HIDE DEF taken, rec, start
<1>4. /\ last \in Seq(Event) /\ \A k \in DOMAIN last : last[k].kind # "output"
      /\ EndedBy(last) = {}
      /\ \A c \in Command : /\ RecordsOf(last, c) = IF taken /\ c = id THEN {rec} ELSE {}
                            /\ c \notin ClosedBy(last)
  <2>1. CASE taken
    <3>1. last = <<start>>
      BY <2>1
    <3>2. DOMAIN last = {1} /\ last[1] = start
      BY <3>1
    <3>3. last \in Seq(Event) /\ EndedBy(last) = {}
      BY <1>1, <3>1, LifeOfOne
    <3>4. \A c \in Command : /\ RecordsOf(last, c) = IF c = id THEN {rec} ELSE {}
                             /\ c \notin ClosedBy(last)
      BY <1>1, <3>1, WordsOfOne DEF LifecycleKinds, Closers
    <3> HIDE DEF last
    <3> QED BY <1>1, <2>1, <3>2, <3>3, <3>4
  <2>2. CASE ~taken
    <3>1. last = <<>>
      BY <2>2
    <3> QED BY <2>2, <3>1, LifeOfNone, WordsOfNone
  <2> QED BY <2>1, <2>2
<1> HIDE DEF last
<1>5. events \in Seq(Event) /\ \A k \in DOMAIN events : events[k].kind # "output"
  BY <1>4, NoOutputAfterFence
<1>6. /\ EndedBy(events) = {}
      /\ \A c \in Command :
           /\ RecordsOf(events, c) = RecordsOf(last, c)
                \cup (IF HasPending /\ c = pending THEN {Finalized(recs[c])} ELSE {})
           /\ c \in ClosedBy(events) <=> HasPending /\ c = pending
           /\ FinalizedRecs[c] = IF HasPending /\ c = pending THEN Finalized(recs[c]) ELSE recs[c]
  <2>1. ASSUME NEW c \in Command
        PROVE  /\ RecordsOf(events, c) = RecordsOf(last, c)
                     \cup (IF HasPending /\ c = pending THEN {Finalized(recs[c])} ELSE {})
               /\ c \in ClosedBy(events) <=> c \in ClosedBy(last) \/ (HasPending /\ c = pending)
               /\ EndedBy(events) = EndedBy(last)
               /\ FinalizedRecs[c] =
                    IF HasPending /\ c = pending THEN Finalized(recs[c]) ELSE recs[c]
    BY <1>4, FinalizeTold
  <2> QED BY <1>4, <2>1
<1> HIDE DEF events
<1>7. /\ id \notin completed /\ NoCommand \notin completed
      /\ HasPending => pending \in completed
  BY <1>2, StoreAssumption DEF VisibilityInv, LifecycleInv, TypeOK, HasPending
<1>8. \A c \in Command : /\ c # id \/ ~taken => recs'[c] = FinalizedRecs[c]
                         /\ taken => recs'[id] = rec
  <2>1. FinalizedRecs \in [Command -> Record]
    BY FinalizeTypes
  <2> QED BY <1>2, <2>1
<1>9. ASSUME NEW c \in completed
      PROVE  /\ c \in Command /\ InMemory(c) /\ c # id
             /\ SameCounters(recs'[c], recs[c]) /\ SameEnd(recs'[c], recs[c])
             /\ recs'[c].mode = recs[c].mode
             /\ RecordsOf(events, c) \subseteq {recs'[c]}
             /\ c \in ClosedBy(events) \/ recs'[c] = recs[c]
  <2>1. c \in Command /\ c # id /\ recs[c] \in Record
    BY <1>7 DEF TypeOK
  <2>2. recs'[c] = IF HasPending /\ c = pending THEN Finalized(recs[c]) ELSE recs[c]
    BY <1>6, <1>8, <2>1
  <2>3. RecordsOf(events, c) = IF HasPending /\ c = pending THEN {Finalized(recs[c])} ELSE {}
    BY <1>4, <1>6, <2>1
  <2> QED BY <1>6, <2>1, <2>2, <2>3, FinalizedKeeps DEF SameCounters, SameEnd, InMemory
<1>10. ASSUME NEW c \in Command, c \notin completed
       PROVE  /\ InMemoryNext(c) <=> taken /\ c = id
              /\ ~InMemory(c)
              /\ RecordsOf(events, c) = IF taken /\ c = id THEN {rec} ELSE {}
  BY <1>2, <1>4, <1>6, <1>7, <1>10, StoreAssumption DEF InMemoryNext, InMemory
<1>11. CountNext
  <2> SUFFICES ASSUME NEW c \in Command, InMemoryNext(c)
               PROVE  recs'[c].total = Len(emitted'[c]) /\ Counted(recs'[c])
    BY DEF CountNext
  <2>1. CASE c \in completed
    BY <1>2, <1>9, <2>1, CountedTransfer DEF AgreementInv, CountInv, SameCounters
  <2>2. CASE c \notin completed
    <3>1. c = id /\ recs'[c] = rec /\ Len(emitted[c]) = 0
      BY <1>2, <1>8, <1>10, <2>2 DEF OutputInv, UnusedInv
    <3> QED BY <1>1, <1>2, <3>1
  <2> QED BY <2>1, <2>2
<1>12. MemoryNext
  BY <1>1, <1>2, <1>8, <1>9, StoreAssumption DEF MemoryNext, AgreementInv, MemoryInv, SameEnd
<1>13. AgreeStep(events)
  <2>1. \A c \in Command : /\ RecordsOf(events, c) \subseteq {recs'[c]}
                           /\ RecordsOf(events, c) # {} => InMemoryNext(c)
    BY <1>2, <1>8, <1>9, <1>10 DEF InMemoryNext
  <2>2. \A c \in Command : InMemoryNext(c) => InMemory(c) \/ c \notin used
    BY <1>2, <1>9, <1>10
  <2>3. \A c \in Command : InMemory(c) /\ InMemoryNext(c) =>
          /\ recs'[c].mode = recs[c].mode
          /\ c \in ClosedBy(events) \/ SameOutput(recs'[c], recs[c])
    BY <1>9, <1>10 DEF SameOutput
  <2> QED BY <1>2, <1>9, <1>11, <1>12, <2>1, <2>2, <2>3 DEF AgreeStep
<1> QED BY <1>2, <1>3, <1>5, <1>13, ProducerAgreement

LEMMA AbortAgrees ==
  ASSUME TypeOK, VisibilityInv, OutputInv, LiveInv, AgreementInv, Ready,
         NEW matches \in BOOLEAN, matches => active # NoCommand, AbortActiveLocked(matches)
  PROVE  AgreementInv'
<1> DEFINE rec == AbortedRecord(recs[active])
           abort == RecordEvent("aborted", active, rec)
           last == IF matches THEN <<abort>> ELSE <<>>
           events == FinalizeEvents \o last
<1>1. matches => /\ active \in Command /\ recs[active] \in Record /\ rec \in Record
                 /\ abort \in Event /\ abort.kind = "aborted" /\ abort.id = active
                 /\ abort.rec = rec
                 /\ SameCounters(rec, recs[active]) /\ rec.mode = recs[active].mode
                 /\ rec.state = "aborted"
  <2>1. matches => active \in Command /\ recs[active] \in Record
    BY DEF TypeOK
  <2>2. matches => rec \in Record
    BY <2>1, RecordUpdates
  <2>3. matches => /\ SameCounters(rec, recs[active]) /\ rec.mode = recs[active].mode
                   /\ rec.state = "aborted"
    BY <2>1, AbortedKeeps
  <2> HIDE DEF rec
  <2> QED BY <2>1, <2>2, <2>3, EventTypes DEF RecordEvent, LifecycleKinds
<1>2. /\ UNCHANGED <<storeState, reply, rows, chunks, attached, emitted, degraded, failed, gate>>
      /\ Enqueue(events)
      /\ recs' = IF matches THEN [FinalizedRecs EXCEPT ![active] = AbortedRecord(@)]
                 ELSE FinalizedRecs
      /\ completed' = IF matches THEN completed \cup {active} ELSE completed
      /\ active' = IF matches THEN NoCommand ELSE active
  BY DEF AbortActiveLocked, OnlyQueue, historyVars
<1>3. /\ active \notin completed /\ NoCommand \notin completed
      /\ active # NoCommand => ~HasPending
      /\ HasPending => pending \in completed
      /\ completed \subseteq Command /\ active \in Command \cup {NoCommand}
  BY StoreAssumption DEF LiveInv, GateInv, OutputInv, PendingInv, HasPending, TypeOK
<1>4. \A c \in Command : FinalizedRecs[c] =
        IF HasPending /\ c = pending THEN Finalized(recs[c]) ELSE recs[c]
  BY DEF FinalizedRecs, TypeOK
<1>5. \A c \in Command : recs'[c] = IF matches /\ c = active THEN rec ELSE FinalizedRecs[c]
  <2>1. FinalizedRecs \in [Command -> Record]
    BY FinalizeTypes
  <2>2. matches => FinalizedRecs[active] = recs[active]
    BY <1>1, <1>3, <1>4
  <2> QED BY <1>2, <2>1, <2>2
<1> HIDE DEF rec, abort
<1>6. /\ last \in Seq(Event) /\ \A k \in DOMAIN last : last[k].kind # "output"
      /\ EndedBy(last) = IF matches THEN {active} ELSE {}
      /\ \A c \in Command :
           /\ RecordsOf(last, c) = IF matches /\ c = active THEN {rec} ELSE {}
           /\ c \in ClosedBy(last) <=> matches /\ c = active
  <2>1. CASE matches
    <3>1. last = <<abort>>
      BY <2>1
    <3>2. DOMAIN last = {1} /\ last[1] = abort
      BY <3>1
    <3>3. last \in Seq(Event) /\ EndedBy(last) = {active}
      BY <1>1, <2>1, <3>1, LifeOfOne DEF Ends
    <3>4. \A c \in Command : /\ RecordsOf(last, c) = IF c = active THEN {rec} ELSE {}
                             /\ c \in ClosedBy(last) <=> c = active
      BY <1>1, <2>1, <3>1, WordsOfOne DEF LifecycleKinds, Closers
    <3> HIDE DEF last
    <3>5. \A k \in DOMAIN last : last[k].kind # "output"
      BY <1>1, <2>1, <3>2
    <3>6. EndedBy(last) = IF matches THEN {active} ELSE {}
      BY <2>1, <3>3
    <3>7. \A c \in Command : RecordsOf(last, c) = IF matches /\ c = active THEN {rec} ELSE {}
      BY <2>1, <3>4
    <3>8. \A c \in Command : c \in ClosedBy(last) <=> matches /\ c = active
      BY <2>1, <3>4, Zenon
    <3> QED BY <3>3, <3>5, <3>6, <3>7, <3>8
  <2>2. CASE ~matches
    <3>1. last = <<>>
      BY <2>2
    <3> QED BY <2>2, <3>1, LifeOfNone, WordsOfNone
  <2> QED BY <2>1, <2>2
<1> HIDE DEF last
<1>7. events \in Seq(Event) /\ \A k \in DOMAIN events : events[k].kind # "output"
  BY <1>6, NoOutputAfterFence
<1>8. ASSUME NEW c \in Command
      PROVE  /\ RecordsOf(events, c) = RecordsOf(last, c)
                  \cup (IF HasPending /\ c = pending THEN {Finalized(recs[c])} ELSE {})
             /\ c \in ClosedBy(events) <=> c \in ClosedBy(last) \/ (HasPending /\ c = pending)
             /\ EndedBy(events) = EndedBy(last)
  BY <1>6, FinalizeTold
<1> HIDE DEF events
<1>9. ASSUME NEW c \in Command
      PROVE  /\ InMemoryNext(c) <=> InMemory(c)
             /\ SameCounters(recs'[c], recs[c]) /\ recs'[c].mode = recs[c].mode
             /\ c \in completed => SameEnd(recs'[c], recs[c])
             /\ c \in completed' => c \in completed \/ recs'[c].state = "aborted"
             /\ RecordsOf(events, c) \subseteq {recs'[c]}
             /\ RecordsOf(events, c) # {} => InMemory(c)
             /\ c \in ClosedBy(events) \/ recs'[c] = recs[c]
  <2>1. InMemoryNext(c) <=> InMemory(c)
    BY <1>2, StoreAssumption DEF InMemory, InMemoryNext
  <2>2. CASE matches /\ c = active
    BY <1>1, <1>2, <1>3, <1>5, <1>6, <1>8, <2>1, <2>2 DEF InMemory
  <2>3. CASE ~(matches /\ c = active)
    <3>1. recs[c] \in Record /\ recs'[c] = FinalizedRecs[c]
      BY <1>5, <2>3 DEF TypeOK
    <3>2. /\ RecordsOf(events, c) =
               IF HasPending /\ c = pending THEN {Finalized(recs[c])} ELSE {}
          /\ c \in ClosedBy(events) <=> HasPending /\ c = pending
          /\ c \in completed' <=> c \in completed
      BY <1>2, <1>6, <1>8, <2>3
    <3> QED BY <1>3, <1>4, <2>1, <3>1, <3>2, FinalizedKeeps DEF SameCounters, SameEnd, InMemory
  <2> QED BY <2>2, <2>3
<1>10. CountNext
  <2> SUFFICES ASSUME NEW c \in Command, InMemoryNext(c)
               PROVE  recs'[c].total = Len(emitted'[c]) /\ Counted(recs'[c])
    BY DEF CountNext
  <2> QED BY <1>2, <1>9, CountedTransfer DEF AgreementInv, CountInv, SameCounters
<1>11. MemoryNext
  <2>1. \A c \in completed' : recs'[c].state \in Ends
    <3> TAKE c \in completed'
    <3>1. c \in Command
      BY <1>1, <1>2, <1>3
    <3> QED BY <1>9, <3>1 DEF AgreementInv, MemoryInv, SameEnd, Ends
  <2>2. active' # NoCommand => recs'[active'] = recs[active] /\ active' = active
    BY <1>2, <1>3, <1>4, <1>5
  <2> QED BY <2>1, <2>2 DEF MemoryNext, AgreementInv, MemoryInv
<1>12. AgreeStep(events)
  <2>1. completed' \subseteq completed \cup EndedBy(events)
    BY <1>1, <1>2, <1>6, <1>8
  <2> QED BY <1>2, <1>3, <1>9, <1>10, <1>11, <2>1 DEF AgreeStep, SameOutput
<1> QED BY <1>2, <1>7, <1>12, ProducerAgreement

LEMMA FinishAgrees ==
  ASSUME TypeOK, VisibilityInv, OutputInv, LiveInv, AgreementInv, NEW id \in Command,
         NEW epoch \in Epoch, NEW auth \in Authorities, NEW interrupted \in BOOLEAN,
         CommandFinished(id, epoch, auth, interrupted)
  PROVE  AgreementInv'
<1> DEFINE rec == FinishedRecord(recs[active], interrupted)
           fin == RecordEvent("finished", active, rec)
           closing == RecordEvent("finalized", active, rec)
           first == <<fin>>
           after == IF rec.ostate = "closed" THEN <<closing>> ELSE <<>>
           events == first \o after
<1>1. /\ active \in Command /\ active # NoCommand /\ recs[active] \in Record /\ rec \in Record
      /\ SameCounters(rec, recs[active]) /\ rec.mode = recs[active].mode
      /\ rec.state = "finished"
  <2>1. active \in Command /\ active # NoCommand /\ recs[active] \in Record
    BY DEF CommandFinished, TypeOK
  <2> QED BY <2>1, RecordUpdates, FinishedKeeps
<1>2. /\ Ready
      /\ UNCHANGED <<storeState, reply, rows, chunks, attached, emitted, degraded, failed, gate>>
      /\ Enqueue(events)
      /\ recs' = [recs EXCEPT ![active] = rec]
      /\ completed' = completed \cup {active} /\ active' = NoCommand
  BY DEF CommandFinished, OnlyQueue, historyVars
<1> HIDE DEF rec
<1>3. /\ fin \in Event /\ fin.kind = "finished" /\ fin.id = active /\ fin.rec = rec
      /\ closing \in Event /\ closing.kind = "finalized" /\ closing.id = active
      /\ closing.rec = rec
  BY <1>1, EventTypes DEF RecordEvent, LifecycleKinds
<1> HIDE DEF fin, closing
<1>4. /\ first \in Seq(Event) /\ DOMAIN first = {1} /\ first[1] = fin
      /\ EndedBy(first) = {active} /\ ClosedBy(first) = {active}
      /\ \A c \in Command : RecordsOf(first, c) = IF c = active THEN {rec} ELSE {}
  <2>1. DOMAIN first = {1} /\ first[1] = fin
    OBVIOUS
  <2>2. first \in Seq(Event) /\ EndedBy(first) = {active}
    BY <1>3, LifeOfOne DEF Ends
  <2>3. /\ ClosedBy(first) = {active}
        /\ \A c \in Command : RecordsOf(first, c) = IF c = active THEN {rec} ELSE {}
    BY <1>3, WordsOfOne DEF Closers, LifecycleKinds
  <2> HIDE DEF first
  <2> QED BY <2>1, <2>2, <2>3
<1>5. /\ after \in Seq(Event) /\ \A k \in DOMAIN after : after[k].kind # "output"
      /\ EndedBy(after) = {} /\ ClosedBy(after) \subseteq {active}
      /\ \A c \in Command : RecordsOf(after, c) \subseteq (IF c = active THEN {rec} ELSE {})
  <2>1. CASE rec.ostate = "closed"
    <3>1. after = <<closing>>
      BY <2>1
    <3>2. DOMAIN after = {1} /\ after[1] = closing
      BY <3>1
    <3>3. after \in Seq(Event) /\ EndedBy(after) = {}
      BY <1>3, <3>1, LifeOfOne DEF Ends
    <3>4. /\ ClosedBy(after) = {active}
          /\ \A c \in Command : RecordsOf(after, c) = IF c = active THEN {rec} ELSE {}
      BY <1>3, <3>1, WordsOfOne DEF Closers, LifecycleKinds
    <3> HIDE DEF after
    <3> QED BY <1>3, <3>2, <3>3, <3>4
  <2>2. CASE rec.ostate # "closed"
    <3>1. after = <<>>
      BY <2>2
    <3> QED BY <3>1, LifeOfNone, WordsOfNone
  <2> QED BY <2>1, <2>2
<1> HIDE DEF first, after
<1>6. events \in Seq(Event) /\ \A k \in DOMAIN events : events[k].kind # "output"
  BY <1>3, <1>4, <1>5, ConcatElements, ConcatProperties
<1>7. /\ EndedBy(events) = {active} /\ ClosedBy(events) = {active}
      /\ \A c \in Command : RecordsOf(events, c) = IF c = active THEN {rec} ELSE {}
  <2>1. EndedBy(events) = EndedBy(first) \cup EndedBy(after)
        /\ ClosedBy(events) = ClosedBy(first) \cup ClosedBy(after)
        /\ \A c : RecordsOf(events, c) = RecordsOf(first, c) \cup RecordsOf(after, c)
    BY <1>4, <1>5, LifeConcat, WordsConcat
  <2> QED BY <1>4, <1>5, <2>1
<1> HIDE DEF events
<1>8. active \notin completed /\ completed \subseteq Command /\ InMemory(active)
  BY DEF LiveInv, GateInv, TypeOK, InMemory
<1>9. \A c \in Command : /\ recs'[c] = IF c = active THEN rec ELSE recs[c]
                         /\ InMemoryNext(c) <=> InMemory(c)
  BY <1>1, <1>2, StoreAssumption DEF TypeOK, InMemory, InMemoryNext
<1>10. CountNext
  <2> SUFFICES ASSUME NEW c \in Command, InMemoryNext(c)
               PROVE  recs'[c].total = Len(emitted'[c]) /\ Counted(recs'[c])
    BY DEF CountNext
  <2> QED BY <1>1, <1>2, <1>9, CountedTransfer DEF AgreementInv, CountInv, SameCounters
<1>11. MemoryNext
  BY <1>1, <1>2, <1>8, <1>9 DEF MemoryNext, AgreementInv, MemoryInv, Ends
<1>12. AgreeStep(events)
  <2>1. \A c \in Command : /\ RecordsOf(events, c) \subseteq {recs'[c]}
                           /\ RecordsOf(events, c) # {} => InMemoryNext(c)
    BY <1>7, <1>8, <1>9
  <2>2. \A c \in Command : InMemory(c) /\ InMemoryNext(c) =>
          /\ recs'[c].mode = recs[c].mode
          /\ c \in ClosedBy(events) \/ SameOutput(recs'[c], recs[c])
    BY <1>1, <1>7, <1>9 DEF SameOutput
  <2>3. \A c \in completed : SameEnd(recs'[c], recs[c])
    BY <1>8, <1>9 DEF SameEnd
  <2> QED BY <1>2, <1>7, <1>9, <1>10, <1>11, <2>1, <2>2, <2>3 DEF AgreeStep
<1> QED BY <1>2, <1>6, <1>12, ProducerAgreement

LEMMA MarkAgrees ==
  ASSUME TypeOK, VisibilityInv, OutputInv, LiveInv, AgreementInv, MarkOutputIncomplete
  PROVE  AgreementInv'
<1> DEFINE id == IF active # NoCommand THEN active ELSE pending
           rec == Marked(recs[id])
           event == RecordEvent("finalized", id, rec)
           events == IF active = NoCommand THEN <<event>> ELSE <<>>
<1>1. /\ id \in Command /\ InMemory(id) /\ recs[id] \in Record /\ rec \in Record
      /\ SameCounters(rec, recs[id]) /\ rec.mode = recs[id].mode /\ rec.state = recs[id].state
      /\ rec.gen = recs[id].gen /\ rec.ostate = recs[id].ostate
  <2>1. id \in Command /\ recs[id] \in Record /\ InMemory(id)
    BY DEF MarkOutputIncomplete, HasPending, TypeOK, InMemory
  <2> QED BY <2>1, MarkedClaims, MarkedKeeps
<1>2. /\ Ready
      /\ UNCHANGED <<storeState, reply, rows, chunks, attached, emitted, degraded, failed, gate,
                     completed, active>>
      /\ Enqueue(events)
      /\ recs' = [recs EXCEPT ![id] = rec]
  BY DEF MarkOutputIncomplete, OnlyQueue, Marked
<1>3. active # NoCommand => id = active /\ ~CanCopyOutput(recs[id]) /\ ~CanCopyOutput(rec)
  BY <1>1 DEF AgreementInv, MemoryInv, CanCopyOutput
<1>4. active = NoCommand => id \in completed
  BY DEF MarkOutputIncomplete, HasPending
<1> HIDE DEF id, rec
<1>5. /\ event \in Event /\ event.kind = "finalized" /\ event.id = id /\ event.rec = rec
  BY <1>1, EventTypes DEF RecordEvent, LifecycleKinds
<1> HIDE DEF event
<1>6. /\ events \in Seq(Event) /\ \A k \in DOMAIN events : events[k].kind # "output"
      /\ active = NoCommand => id \in ClosedBy(events)
      /\ \A c \in Command : RecordsOf(events, c) \subseteq (IF c = id THEN {rec} ELSE {})
  <2>1. CASE active = NoCommand
    <3>1. events = <<event>>
      BY <2>1
    <3>2. DOMAIN events = {1} /\ events[1] = event
      BY <3>1
    <3>3. events \in Seq(Event)
      BY <1>5, <3>1, LifeOfOne
    <3>4. /\ ClosedBy(events) = {id}
          /\ \A c \in Command : RecordsOf(events, c) = IF c = id THEN {rec} ELSE {}
      BY <1>5, <3>1, WordsOfOne DEF Closers, LifecycleKinds
    <3> HIDE DEF events
    <3> QED BY <1>5, <3>2, <3>3, <3>4
  <2>2. CASE active # NoCommand
    <3>1. events = <<>>
      BY <2>2
    <3> QED BY <2>2, <3>1, LifeOfNone, WordsOfNone
  <2> QED BY <2>1, <2>2
<1> HIDE DEF events
<1>7. \A c \in Command : /\ recs'[c] = IF c = id THEN rec ELSE recs[c]
                         /\ InMemoryNext(c) <=> InMemory(c)
  BY <1>1, <1>2 DEF TypeOK, InMemory, InMemoryNext
<1>8. CountNext
  <2> SUFFICES ASSUME NEW c \in Command, InMemoryNext(c)
               PROVE  recs'[c].total = Len(emitted'[c]) /\ Counted(recs'[c])
    BY DEF CountNext
  <2> QED BY <1>1, <1>2, <1>7, CountedTransfer DEF AgreementInv, CountInv, SameCounters
<1>9. MemoryNext
  <2>1. \A c \in Command : recs'[c].state = recs[c].state /\ recs'[c].ostate = recs[c].ostate
    BY <1>1, <1>7
  <2> QED BY <1>2, <2>1 DEF MemoryNext, AgreementInv, MemoryInv, TypeOK
<1>10. AgreeStep(events)
  <2>1. \A c \in Command : /\ RecordsOf(events, c) \subseteq {recs'[c]}
                           /\ RecordsOf(events, c) # {} => InMemoryNext(c)
    BY <1>1, <1>6, <1>7
  <2>2. \A c \in Command : InMemory(c) /\ InMemoryNext(c) =>
          /\ recs'[c].mode = recs[c].mode
          /\ c \in ClosedBy(events) \/ SameOutput(recs'[c], recs[c])
    BY <1>1, <1>3, <1>6, <1>7 DEF SameOutput
  <2>3. \A c \in completed : SameEnd(recs'[c], recs[c])
    BY <1>1, <1>7 DEF SameEnd, TypeOK
  <2> QED BY <1>2, <1>7, <1>8, <1>9, <2>1, <2>2, <2>3 DEF AgreeStep
<1> QED BY <1>2, <1>6, <1>10, ProducerAgreement

LEMMA BeginAgrees ==
  ASSUME TypeOK, VisibilityInv, OutputInv, AgreementInv, ClearBegin \/ DeleteBegin
  PROVE  AgreementInv'
<1> DEFINE kind == IF ClearBegin THEN "advance" ELSE "delete"
           event == BlockEvent(kind)
           events == <<event>>
<1>1. /\ Ready /\ Enqueue(events) /\ storeState = "open"
      /\ UNCHANGED <<storeState, degraded, failed, reply, rows, chunks, attached, recs, active,
                     completed, emitted>>
  BY DEF ClearBegin, DeleteBegin, BeginTransaction, OnlyQueue, historyVars
<1>2. event \in Event /\ event.kind = kind
  BY EventTypes DEF BlockEvent, JournalKinds
<1>3. kind \in {"advance", "delete"}
  OBVIOUS
<1> HIDE DEF kind, event
<1>4. /\ events \in Seq(Event) /\ \A k \in DOMAIN events : events[k].kind # "output"
      /\ \A c \in Command : RecordsOf(events, c) = {}
  <2>1. DOMAIN events = {1} /\ events[1] = event
    OBVIOUS
  <2>2. events \in Seq(Event)
    BY <1>2, LifeOfOne
  <2>3. \A c \in Command : RecordsOf(events, c) = {}
    BY <1>2, <1>3, WordsOfOne DEF LifecycleKinds
  <2> HIDE DEF events
  <2> QED BY <1>2, <1>3, <2>1, <2>2, <2>3
<1> HIDE DEF events
<1>5. queue' = queue \o events /\ (Healthy' => Healthy)
  BY <1>1 DEF Enqueue, Healthy
<1>6. AgreeStep(events)
  <2>1. \A c : InMemoryNext(c) <=> InMemory(c)
    BY <1>1 DEF InMemory, InMemoryNext
  <2>2. CountNext /\ MemoryNext
    BY <1>1, <2>1 DEF CountNext, MemoryNext, AgreementInv, CountInv, MemoryInv
  <2> QED BY <1>1, <1>4, <2>1, <2>2 DEF AgreeStep, SameOutput, SameEnd
<1>7. CountInv /\ TallyInv /\ MemoryInv /\ AgreeInv
  BY DEF AgreementInv
<1>8. CountInv' /\ MemoryInv'
  BY <1>4, <1>5, <1>6, <1>7, ProducerCounts
<1>9. TallyInv'
  BY <1>1, <1>4, <1>5, <1>6, <1>7, ProducerTallies
<1>10. AgreeInv'
  BY <1>4, <1>5, <1>6, <1>7, ProducerAgrees
<1> QED BY <1>8, <1>9, <1>10 DEF AgreementInv

\* The journal credits a segment to the command that produced it.
LEMMA CreditedRight ==
  ASSUME TypeOK, NEW src \in Sources, OutputTarget(src) # NoCommand
  PROVE  Producer(src) = OutputTarget(src) /\ InMemory(OutputTarget(src))
<1>1. CASE active # NoCommand
  <2>1. active \in Command /\ recs[active].src \in Sources
    BY <1>1 DEF TypeOK, Record
  <2>2. (recs[active].src = "host") = (src = "host") => recs[active].src = src
    BY <2>1 DEF Sources
  <2> QED BY <1>1, <2>2 DEF OutputTarget, Producer, InMemory
<1>2. CASE active = NoCommand
  BY <1>2 DEF OutputTarget, Producer, InMemory, HasPending
<1> QED BY <1>1, <1>2

LEMMA OutputAgreesNext ==
  ASSUME TypeOK, VisibilityInv, OutputInv, AgreementInv,
         NEW data \in Segments, NEW src \in Sources, OutputSegment(data, src)
  PROVE  AgreementInv'
<1> DEFINE id == OutputTarget(src)
           event == OutputEvent(id, data)
           events == <<event>>
           rec == AppendedRecord(recs[id], data)
<1>1. data \in Seq(Byte) /\ id # NoCommand
  BY JournalAssumption DEF OutputSegment
<1>2. id \in Command /\ InMemory(id) /\ recs[id] \in Record /\ Producer(src) = id
  BY <1>1, CreditedRight DEF InMemory, TypeOK
<1>3. event \in Event /\ event.kind = "output" /\ event.id = id /\ event.data = data
  BY <1>1, <1>2, EventTypes DEF OutputEvent
<1>4. /\ Ready /\ AppendOutput(id, data)
      /\ UNCHANGED <<storeState, reply, rows, chunks, attached, active, completed, gate, pending>>
      /\ recs' = [recs EXCEPT ![id] = rec]
      /\ emitted' = [emitted EXCEPT ![id] = @ \o data]
  BY <1>1, <1>2 DEF OutputSegment
<1>5. recs[id].ostate # "closed"
  <2>1. CASE active # NoCommand
    BY <1>1, <2>1 DEF OutputTarget, AgreementInv, MemoryInv
  <2>2. CASE active = NoCommand
    BY <1>1, <2>2 DEF OutputTarget, HasPending, OutputInv, PendingInv
  <2> QED BY <2>1, <2>2
<1>6. CountInv /\ TallyInv /\ MemoryInv /\ AgreeInv
  BY DEF AgreementInv
<1>7. /\ rec.total = recs[id].total + Len(data) /\ Counted(rec)
      /\ rec.mode = recs[id].mode /\ rec.state = recs[id].state /\ rec.gen = recs[id].gen
      /\ rec.ostate = recs[id].ostate
  BY <1>1, <1>2, <1>6, AppendedKeeps DEF CountInv
<1> HIDE DEF id, rec
<1>8. /\ queue' \in {queue, Append(queue, event)}
      /\ Healthy' => Healthy /\ queue' = Append(queue, event)
  <2>1. CASE AppendRefused(data)
    <3>1. storeState # "open" \/ degraded \/ Overflows(data)
      BY <2>1 DEF AppendRefused, Overflows
    <3>2. queue' = queue /\ (storeState # "open" \/ degraded')
      BY <1>4, <2>1, <3>1 DEF AppendOutput
    <3> QED BY <1>4, <3>2 DEF Healthy, Ready
  <2>2. CASE ~AppendRefused(data)
    <3>1. ~Overflows(data)
      BY <2>2 DEF AppendRefused, Overflows
    <3> QED BY <1>4, <2>2, <3>1 DEF AppendOutput, Healthy
  <2> QED BY <2>1, <2>2
<1> HIDE DEF event
<1>9. queue \in Seq(Event) /\ Append(queue, event) = queue \o events
  <2>1. queue \in Seq(Event)
    BY DEF TypeOK, StoreTypeOK
  <2> QED BY <1>3, <2>1, AppendIsConcat
<1>10. events \in Seq(Event) /\ \A c \in Command : RecordsOf(events, c) = {}
  BY <1>3, LifeOfOne, WordsOfOne DEF LifecycleKinds
<1> HIDE DEF events
<1>11. \A c \in Command : /\ recs'[c] = IF c = id THEN rec ELSE recs[c]
                          /\ emitted'[c] = IF c = id THEN emitted[c] \o data ELSE emitted[c]
                          /\ InMemoryNext(c) <=> InMemory(c)
  BY <1>2, <1>4 DEF TypeOK, InMemory, InMemoryNext
<1>12. \A c \in Command : Len(emitted'[c]) = IF c = id THEN Len(emitted[c]) + Len(data)
                                                      ELSE Len(emitted[c])
  <2> TAKE c \in Command
  <2>1. emitted[c] \in Seq(Byte)
    BY DEF TypeOK
  <2>2. Len(emitted[c] \o data) = Len(emitted[c]) + Len(data)
    BY <1>1, <2>1, ConcatProperties
  <2> QED BY <1>11, <2>2
<1>13. CountNext
  <2> SUFFICES ASSUME NEW c \in Command, InMemory(c)
               PROVE  recs'[c].total = Len(emitted'[c]) /\ Counted(recs'[c])
    BY <1>11 DEF CountNext
  <2>1. recs[c].total = Len(emitted[c]) /\ Counted(recs[c])
    BY <1>6 DEF CountInv
  <2> QED BY <1>7, <1>11, <1>12, <2>1
<1>14. \A c \in Command : recs'[c].state = recs[c].state /\ recs'[c].ostate = recs[c].ostate
  BY <1>7, <1>11
<1>15. MemoryNext
  BY <1>4, <1>6, <1>14 DEF MemoryNext, MemoryInv, TypeOK
<1>16. \A c \in Command : /\ recs'[c].mode = recs[c].mode
                          /\ SameOutput(recs'[c], recs[c]) /\ SameEnd(recs'[c], recs[c])
  BY <1>5, <1>7, <1>11 DEF SameOutput, SameEnd, CanCopyOutput
<1>17. AgreeStep(events)
  BY <1>4, <1>10, <1>11, <1>13, <1>15, <1>16 DEF AgreeStep, TypeOK
<1>18. CountInv' /\ MemoryInv'
  BY <1>6, <1>8, <1>9, <1>10, <1>17, ProducerCounts
<1>19. AgreeInv'
  BY <1>6, <1>8, <1>9, <1>10, <1>17, ProducerAgrees
<1>20. TallyInv'
  <2> SUFFICES ASSUME Healthy', NEW c \in Command, Shared(c)'
               PROVE  Tallies(queue', rows'[c].total, Len(emitted'[c]), c) /\ Counted(rows'[c])
    BY DEF TallyInv
  <2>1. Shared(c)
    BY <1>4 DEF Shared
  <2>2. Tallies(queue, rows[c].total, Len(emitted[c]), c) /\ Counted(rows[c])
    BY <1>6, <1>8, <2>1 DEF TallyInv
  <2>3. Len(emitted[c]) \in Nat /\ Len(data) \in Nat
    BY <1>1, LenProperties DEF TypeOK
  <2>4. Tallies(Append(queue, event), rows[c].total, Len(emitted[c]) + Adds(event, c), c)
    BY <1>3, <1>9, <2>2, <2>3, TalliesOutput
  <2>5. Len(emitted'[c]) = Len(emitted[c]) + Adds(event, c)
    <3>1. Adds(event, c) = IF c = id THEN Len(data) ELSE 0
      BY <1>3 DEF Adds
    <3>2. Len(emitted'[c]) = IF c = id THEN Len(emitted[c]) + Len(data) ELSE Len(emitted[c])
      BY <1>12
    <3>3. Len(emitted[c]) + 0 = Len(emitted[c])
      BY <2>3
    <3>4. CASE c = id
      BY <3>1, <3>2, <3>4
    <3>5. CASE c # id
      BY <3>1, <3>2, <3>3, <3>5
    <3> QED BY <3>4, <3>5
  <2> QED BY <1>4, <1>8, <2>2, <2>4, <2>5
<1> QED BY <1>18, <1>19, <1>20 DEF AgreementInv

-----------------------------------------------------------------------------
(* The steps of the writer keep the agreement.                              *)

\* What the head of the FIFO says, and what the rest says.
LEMMA WordsOfTail ==
  ASSUME TypeOK, queue # <<>>, queue' = Tail(queue), NEW c
  PROVE  LET e == Head(queue)
         IN  /\ RecordsOf(queue, c) = RecordsOf(queue', c)
                  \cup (IF e.kind \in LifecycleKinds /\ e.id = c THEN {e.rec} ELSE {})
             /\ EndRecords(queue, c) = EndRecords(queue', c)
                  \cup (IF e.kind \in Ends /\ e.id = c THEN {e.rec} ELSE {})
             /\ ClosedBy(queue) = ClosedBy(queue')
                  \cup (IF e.kind \in Closers THEN {e.id} ELSE {})
             /\ LastRecords(queue, c) =
                  IF c \in ClosedBy(queue') THEN LastRecords(queue', c)
                  ELSE IF Closer(e, c) THEN {e.rec} ELSE {}
<1> DEFINE e == Head(queue)
           first == <<e>>
<1>1. e \in Event /\ queue \in Seq(Event) /\ Tail(queue) \in Seq(Event)
      /\ queue = first \o Tail(queue)
  BY HeadTailProperties DEF TypeOK, StoreTypeOK
<1> HIDE DEF e
<1>2. /\ RecordsOf(first, c) = IF e.kind \in LifecycleKinds /\ e.id = c THEN {e.rec} ELSE {}
      /\ EndRecords(first, c) = IF e.kind \in Ends /\ e.id = c THEN {e.rec} ELSE {}
      /\ ClosedBy(first) = IF e.kind \in Closers THEN {e.id} ELSE {}
      /\ LastRecords(first, c) = IF Closer(e, c) THEN {e.rec} ELSE {}
  BY <1>1, WordsOfOne
<1>3. first \in Seq(Event)
  BY <1>1, LifeOfOne
<1> HIDE DEF first
<1>4. /\ RecordsOf(first \o Tail(queue), c) = RecordsOf(first, c) \cup RecordsOf(Tail(queue), c)
      /\ EndRecords(first \o Tail(queue), c) = EndRecords(first, c) \cup EndRecords(Tail(queue), c)
      /\ ClosedBy(first \o Tail(queue)) = ClosedBy(first) \cup ClosedBy(Tail(queue))
      /\ LastRecords(first \o Tail(queue), c) =
           IF c \in ClosedBy(Tail(queue)) THEN LastRecords(Tail(queue), c)
                                          ELSE LastRecords(first, c)
  BY <1>1, <1>3, WordsConcat
<1> QED BY <1>1, <1>2, <1>4 DEF e

\* The counters a row has after an event, when it had those of the event's place.
LEMMA WrittenCounts ==
  ASSUME TypeOK, NEW e \in Event, e.kind \in LifecycleKinds \cup {"output"}, Written(e),
         Counted(rows[e.id]),
         e.kind \in LifecycleKinds => Counted(e.rec) /\ e.rec.total = rows[e.id].total
  PROVE  /\ rows'[e.id].total = rows[e.id].total + Adds(e, e.id)
         /\ Counted(rows'[e.id])
<1> DEFINE old == rows[e.id]
           new == rows'[e.id]
<1>1. e.id \in Command /\ old \in Record /\ e.rec \in Record /\ e.data \in Seq(Byte)
  BY EventFields DEF TypeOK, StoreTypeOK
<1>2. old.total \in Nat /\ old.stored \in Nat /\ Len(e.data) \in Nat
  BY <1>1, LenProperties DEF Record
<1>3. Counted(old)
  OBVIOUS
<1>4. CASE e.kind = "output"
  <2>1. Adds(e, e.id) = Len(e.data)
    BY <1>4 DEF Adds
  <2>2. /\ new.total = old.total + Len(e.data)
        /\ new.stored = old.stored + Len(StoredPrefix(e.id, e.data))
        /\ new.truncated = (new.stored < new.total)
    BY <1>4 DEF Written
  <2> DEFINE room == IF old.stored < MaxOutputBytes THEN MaxOutputBytes - old.stored ELSE 0
             kept == IF Len(e.data) <= room THEN Len(e.data) ELSE room
  <2>3. Len(StoredPrefix(e.id, e.data)) = kept
    <3>1. room \in Nat
      BY <1>2, StoreAssumption
    <3>2. StoredPrefix(e.id, e.data) =
            IF Len(e.data) <= room THEN e.data ELSE SubSeq(e.data, 1, room)
      BY DEF StoredPrefix
    <3> HIDE DEF room
    <3>3. ~(Len(e.data) <= room) => Len(SubSeq(e.data, 1, room)) = room
      BY <1>1, <1>2, <3>1, SubSeqProperties
    <3> QED BY <3>2, <3>3
  <2>4. old.stored + kept = IF old.total + Len(e.data) <= MaxOutputBytes
                              THEN old.total + Len(e.data) ELSE MaxOutputBytes
    <3>1. old.stored = IF old.total <= MaxOutputBytes THEN old.total ELSE MaxOutputBytes
      BY <1>3 DEF Counted
    <3> HIDE DEF old
    <3> QED BY <1>2, <3>1, CountedMore
  <2> HIDE DEF kept, old, new
  <2>5. Counted(new)
    BY <2>2, <2>3, <2>4 DEF Counted
  <2> QED BY <2>1, <2>2, <2>5 DEF old, new
<1>5. CASE e.kind # "output"
  <2>1. Adds(e, e.id) = 0
    BY <1>5 DEF Adds
  <2>2. Counted(e.rec) /\ e.rec.total = old.total /\ e.kind \in LifecycleKinds
    BY <1>5
  <2>3. /\ e.rec.stored = old.stored /\ (e.rec.truncated <=> old.truncated)
        /\ old.truncated <=> old.stored < old.total
    BY <1>3, <2>2 DEF Counted
  <2>4. /\ old.truncated \in BOOLEAN /\ e.rec.truncated \in BOOLEAN
        /\ (old.stored < old.total) \in BOOLEAN
    BY <1>1, <1>2 DEF Record
  <2>5. new.total = old.total /\ new.stored = old.stored /\ (new.truncated <=> old.truncated)
    <3>1. CASE e.kind = "started"
      BY <2>2, <2>3, <3>1 DEF Written
    <3>2. CASE e.kind = "finished"
      <4>1. /\ new.total = IF old.total > e.rec.total THEN old.total ELSE e.rec.total
            /\ new.truncated = (e.rec.truncated \/ old.truncated \/ old.stored < new.total)
            /\ new.stored = old.stored
        BY <3>2 DEF Written, Closers
      <4>2. new.total = old.total
        BY <2>2, <4>1
      <4> HIDE DEF old, new
      <4> QED BY <2>3, <4>1, <4>2
    <3>3. CASE e.kind = "finalized"
      BY <2>3, <3>3 DEF Written, Closers
    <3>4. CASE e.kind = "aborted"
      BY <3>4 DEF Written, Closers
    <3> QED BY <2>2, <3>1, <3>2, <3>3, <3>4 DEF LifecycleKinds
  <2> HIDE DEF old, new
  <2>6. Counted(new)
    BY <1>3, <2>5 DEF Counted
  <2>7. new.total = old.total + Adds(e, e.id)
    BY <1>2, <2>1, <2>5
  <2> QED BY <2>6, <2>7 DEF old, new
<1> QED BY <1>4, <1>5

\* A row takes the claim of its event over, when the tables hold what it counts.
LEMMA WrittenClaim ==
  ASSUME TypeOK, NEW e \in Event, e.kind \in Closers, Written(e), failed = {},
         Counted(rows[e.id]), Counted(e.rec), e.rec.total = rows[e.id].total,
         Counted(rows'[e.id]), rows'[e.id].total = rows[e.id].total,
         Len(chunks[e.id]) = rows[e.id].stored, rows[e.id].stored <= rows[e.id].total,
         rows[e.id].state # "absent", e.rec.state # "absent",
         rows[e.id].mode = e.rec.mode
  PROVE  SameOutput(rows'[e.id], e.rec)
<1> DEFINE old == rows[e.id]
           new == rows'[e.id]
<1>1. e.id \in Command /\ old \in Record /\ e.rec \in Record
  BY EventFields DEF TypeOK, StoreTypeOK, Closers, LifecycleKinds
<1>2. old.total \in Nat /\ old.stored \in Nat
  BY <1>1 DEF Record
<1>3. /\ e.rec.stored = old.stored /\ (e.rec.truncated <=> old.truncated)
      /\ new.stored = old.stored /\ (new.truncated <=> old.truncated)
      /\ ~old.truncated <=> old.stored = old.total
  BY <1>2 DEF Counted
<1>4. /\ new.safety = e.rec.safety /\ new.ostate = e.rec.ostate /\ new.mode = e.rec.mode
      /\ new.state # "absent"
  BY DEF Written, Closers, Ends
<1>5. ~Mismatch(e.id, e.rec)
  BY <1>2, <1>3 DEF Mismatch
<1>6. (new.compl = "complete" /\ new.attr = "exclusive" /\ ~new.truncated)
        <=> (e.rec.compl = "complete" /\ e.rec.attr = "exclusive" /\ ~e.rec.truncated)
  <2>1. CASE e.kind = "aborted"
    BY <1>3, <2>1 DEF Written
  <2>2. CASE e.kind \in {"finished", "finalized"}
    <3>1. /\ new.compl = DurableCompleteness(e.id, e.rec)
          /\ new.attr = DurableAttribution(e.id, e.rec)
      BY <2>2 DEF Written
    <3> QED BY <1>3, <1>5, <3>1 DEF DurableCompleteness, DurableAttribution
  <2> QED BY <2>1, <2>2 DEF Closers
<1> HIDE DEF new
<1>7. SameOutput(new, e.rec)
  BY <1>4, <1>6 DEF SameOutput, CanCopyOutput
<1> QED BY <1>7 DEF new

\* Output that arrives changes no claim: a row that is exclusive has all of it.
LEMMA OutputKeepsClaim ==
  ASSUME TypeOK, NEW e \in Event, e.kind = "output", Written(e), HonestRow(e.id)',
         Counted(rows[e.id]), Counted(rows'[e.id])
  PROVE  SameOutput(rows'[e.id], rows[e.id])
<1> DEFINE old == rows[e.id]
           new == rows'[e.id]
<1>1. e.id \in Command /\ old \in Record /\ Len(e.data) \in Nat
  BY EventFields, LenProperties DEF TypeOK, StoreTypeOK
<1>2. old.total \in Nat /\ old.stored \in Nat
  BY <1>1 DEF Record
<1>3. /\ new.total = old.total + Len(e.data)
      /\ new.compl = old.compl /\ new.attr = old.attr /\ new.safety = old.safety
      /\ new.ostate = old.ostate /\ new.mode = old.mode /\ new.state = old.state
  BY DEF Written
<1>4. new.attr = "exclusive" => ~new.truncated
  BY DEF HonestRow, HonestAs
<1> HIDE DEF new, old
<1>5. ~new.truncated => ~old.truncated
  <2>1. Counted(old) /\ Counted(new)
    BY DEF old, new
  <2> QED BY <1>1, <1>2, <1>3, <2>1, StoreAssumption DEF Counted
<1>6. SameOutput(new, old)
  BY <1>3, <1>4, <1>5 DEF SameOutput, CanCopyOutput
<1> QED BY <1>6 DEF new, old

\* The writer has written an event about another command.
LEMMA OtherCommitAgrees ==
  ASSUME TypeOK, queue # <<>>, queue' = Tail(queue), NEW c \in Command, rows'[c] = rows[c],
         Head(queue).kind \in LifecycleKinds \cup {"output"}, Head(queue).id # c,
         Agrees(queue, rows[c], recs[c], c),
         Tallies(queue, rows[c].total, Len(emitted[c]), c)
  PROVE  /\ Agrees(queue', rows'[c], recs[c], c)
         /\ Tallies(queue', rows'[c].total, Len(emitted[c]), c)
<1> DEFINE e == Head(queue)
<1>1. queue \in Seq(Event) /\ e = queue[1] /\ rows[c].total \in Nat
  BY TailEvents DEF TypeOK, StoreTypeOK, Record
<1>2. /\ RecordsOf(queue, c) = RecordsOf(queue', c)
      /\ EndRecords(queue, c) = EndRecords(queue', c)
      /\ c \in ClosedBy(queue) <=> c \in ClosedBy(queue')
      /\ LastRecords(queue, c) =
           IF c \in ClosedBy(queue') THEN LastRecords(queue', c) ELSE {}
  <2>1. RecordsOf(queue, c) = RecordsOf(queue', c) \cup {}
        /\ EndRecords(queue, c) = EndRecords(queue', c) \cup {}
    BY WordsOfTail
  <2>2. c \in ClosedBy(queue) <=> c \in ClosedBy(queue')
    BY WordsOfTail
  <2>3. LastRecords(queue, c) = IF c \in ClosedBy(queue') THEN LastRecords(queue', c) ELSE {}
    BY WordsOfTail DEF Closer
  <2> QED BY <2>1, <2>2, <2>3
<1>3. c \in EndedBy(queue) <=> c \in EndedBy(queue')
  BY LifeOfTail
<1>4. LastRecords(queue, c) = LastRecords(queue', c)
  <2>1. queue' \in Seq(Event)
    BY <1>1, HeadTailProperties
  <2>2. c \notin ClosedBy(queue') => LastRecords(queue', c) = {}
    BY <2>1, WordsWithin
  <2> QED BY <1>2, <2>2
<1>5. Agrees(queue', rows[c], recs[c], c)
  BY <1>2, <1>3, <1>4 DEF Agrees, OutputAgrees, EndAgrees, ModeAgrees
<1>6. Tallies(queue', rows[c].total + Adds(e, c), Len(emitted[c]), c)
  BY <1>1, TalliesTake
<1>7. Adds(e, c) = 0
  BY DEF Adds
<1> QED BY <1>1, <1>5, <1>6, <1>7

\* The writer has written an event about the command.
LEMMA OwnCommitAgrees ==
  ASSUME TypeOK, VisibilityInv, OutputInv, OutputInv', LiveInv, AgreementInv, Healthy,
         queue # <<>>, queue' = Tail(queue), NEW c \in Command, Shared(c),
         Head(queue).kind \in LifecycleKinds \cup {"output"}, Head(queue).id = c,
         ~RowMissing(Head(queue)), Written(Head(queue))
  PROVE  /\ Agrees(queue', rows'[c], recs[c], c)
         /\ Tallies(queue', rows'[c].total, Len(emitted[c]), c)
         /\ Counted(rows'[c])
<1> DEFINE e == Head(queue)
<1>1. /\ queue \in Seq(Event) /\ queue' \in Seq(Event) /\ e = queue[1] /\ e \in Event
      /\ rows[c].total \in Nat /\ Fits(e) /\ FreshStart(e) /\ recs \in [Command -> Record]
  <2>1. 1 \in DOMAIN queue /\ e = queue[1]
    BY TailEvents
  <2>2. queue \in Seq(Event) /\ queue' \in Seq(Event) /\ e \in Event
    BY HeadTailProperties DEF TypeOK, StoreTypeOK
  <2>3. Fits(e) /\ FreshStart(e)
    BY <2>1 DEF VisibilityInv, QueueInv, OutputInv, HonestyInv
  <2>4. rows[c].total \in Nat /\ recs \in [Command -> Record]
    BY DEF TypeOK, StoreTypeOK, Record
  <2> QED BY <2>1, <2>2, <2>3, <2>4
<1>2. /\ RecordsOf(queue, c) = RecordsOf(queue', c)
           \cup (IF e.kind \in LifecycleKinds THEN {e.rec} ELSE {})
      /\ EndRecords(queue, c) = EndRecords(queue', c)
           \cup (IF e.kind \in Ends THEN {e.rec} ELSE {})
      /\ ClosedBy(queue) = ClosedBy(queue') \cup (IF e.kind \in Closers THEN {c} ELSE {})
      /\ LastRecords(queue, c) =
           IF c \in ClosedBy(queue') THEN LastRecords(queue', c)
           ELSE IF e.kind \in Closers THEN {e.rec} ELSE {}
  BY WordsOfTail DEF Closer
<1>3. /\ StartedBy(queue) = StartedBy(queue') \cup (IF e.kind = "started" THEN {c} ELSE {})
      /\ EndedBy(queue) = EndedBy(queue') \cup (IF e.kind \in Ends THEN {c} ELSE {})
  BY LifeOfTail
<1>4. /\ Agrees(queue, rows[c], recs[c], c)
      /\ Tallies(queue, rows[c].total, Len(emitted[c]), c)
      /\ Counted(rows[c]) /\ failed = {}
      /\ \A r \in RecordsOf(queue, c) : Counted(r) /\ r.state # "absent"
  BY DEF AgreementInv, AgreeInv, TallyInv, CountInv, Healthy
<1>5. /\ Tallies(queue', rows[c].total + Adds(e, c), Len(emitted[c]), c)
      /\ e.kind \in LifecycleKinds => e.rec.total = rows[c].total
  BY <1>1, <1>4, TalliesTake
<1> HIDE DEF e
<1>6. e.kind \in LifecycleKinds \cup {"output"} /\ e.id = c /\ Written(e)
      /\ (e.kind \in Closers \cup {"output"} => rows[c].state # "absent")
  BY DEF e, RowMissing, Closers
<1>7. e.kind \in LifecycleKinds =>
        /\ e.rec \in RecordsOf(queue, c)
        /\ Counted(e.rec) /\ e.rec.state # "absent" /\ e.rec.mode = recs[c].mode
  BY <1>2, <1>4 DEF Agrees, ModeAgrees
<1>8. rows'[c].total = rows[c].total + Adds(e, c) /\ Counted(rows'[c])
  BY <1>1, <1>4, <1>5, <1>6, <1>7, WrittenCounts
<1>9. OutputAgrees(queue', rows'[c], recs[c], c)
  <2>1. ASSUME c \notin ClosedBy(queue') PROVE SameOutput(rows'[c], recs[c])
    <3>1. CASE e.kind = "started"
      <4>1. c \notin EndedBy(queue) /\ c \in StartedBy(queue)
        <5>1. c \notin EndedBy(queue')
          BY <1>1, <2>1, WordsWithin
        <5> QED BY <1>3, <3>1, <5>1 DEF Ends
      <4>2. c = active
        BY <4>1 DEF LiveInv, RunsInv, Starting, Ending
      <4>3. recs[c].ostate = "open" /\ rows'[c].ostate = "open"
        BY <1>1, <1>6, <3>1, <4>2, StoreAssumption
           DEF AgreementInv, MemoryInv, Written, FreshStart
      <4> QED BY <4>3 DEF SameOutput, CanCopyOutput
    <3>2. CASE e.kind = "output"
      <4>1. SameOutput(rows[c], recs[c])
        BY <1>2, <1>4, <1>6, <2>1, <3>2 DEF Agrees, OutputAgrees, Closers
      <4>2. HonestRow(c)'
        BY DEF OutputInv, HonestyInv
      <4>3. SameOutput(rows'[c], rows[c])
        BY <1>1, <1>4, <1>6, <1>8, <3>2, <4>2, OutputKeepsClaim
      <4> QED BY <4>1, <4>3 DEF SameOutput
    <3>3. CASE e.kind \in Closers
      <4>1. SameOutput(e.rec, recs[c])
        BY <1>2, <1>4, <2>1, <3>3 DEF Agrees, OutputAgrees
      <4>2. Adds(e, c) = 0 /\ rows'[c].total = rows[c].total /\ e.kind \in LifecycleKinds
        <5>1. Adds(e, c) = 0 /\ e.kind \in LifecycleKinds
          BY <3>3 DEF Adds, Closers, LifecycleKinds
        <5> QED BY <1>1, <1>8, <5>1
      <4>3. Len(chunks[c]) = rows[c].stored /\ rows[c].stored <= rows[c].total
        BY DEF OutputInv, DeliveryInv
      <4>4. rows[c].mode = e.rec.mode
        BY <1>4, <1>6, <1>7, <3>3, <4>2 DEF Agrees, ModeAgrees
      <4>5. SameOutput(rows'[c], e.rec)
        BY <1>1, <1>4, <1>5, <1>6, <1>7, <1>8, <3>3, <4>2, <4>3, <4>4, WrittenClaim
      <4> QED BY <4>1, <4>5 DEF SameOutput
    <3> QED BY <1>6, <3>1, <3>2, <3>3 DEF LifecycleKinds, Closers
  <2>2. \A r \in LastRecords(queue', c) : SameOutput(r, recs[c])
    <3>1. c \notin ClosedBy(queue') => LastRecords(queue', c) = {}
      BY <1>1, WordsWithin
    <3> QED BY <1>2, <1>4, <3>1 DEF Agrees, OutputAgrees
  <2> QED BY <2>1, <2>2 DEF OutputAgrees
<1>10. EndAgrees(queue', rows'[c], recs[c], c)
  <2>1. ASSUME recs[c].state \in Ends, c \notin EndedBy(queue')
        PROVE  SameEnd(rows'[c], recs[c])
    <3>1. CASE e.kind \in Ends
      <4>1. SameEnd(e.rec, recs[c])
        BY <1>2, <1>4, <3>1 DEF Agrees, EndAgrees
      <4> QED BY <1>6, <3>1, <4>1 DEF Written, SameEnd
    <3>2. CASE e.kind = "started"
      <4>1. c \in StartedBy(queue) /\ c \notin EndedBy(queue)
        BY <1>3, <2>1, <3>2 DEF Ends
      <4>2. c = active
        BY <4>1 DEF LiveInv, RunsInv, Starting, Ending
      <4> QED BY <2>1, <4>2, StoreAssumption DEF AgreementInv, MemoryInv, Ends
    <3>3. CASE e.kind \in {"output", "finalized"}
      <4>1. c \notin EndedBy(queue)
        BY <1>3, <2>1, <3>3 DEF Ends
      <4>2. SameEnd(rows[c], recs[c])
        BY <1>4, <2>1, <4>1 DEF Agrees, EndAgrees
      <4>3. rows'[c].state = rows[c].state /\ rows'[c].gen = rows[c].gen
        BY <1>6, <3>3 DEF Written
      <4> QED BY <4>2, <4>3 DEF SameEnd
    <3> QED BY <1>6, <3>1, <3>2, <3>3 DEF LifecycleKinds, Ends
  <2>2. \A r \in EndRecords(queue', c) : SameEnd(r, recs[c])
    BY <1>2, <1>4 DEF Agrees, EndAgrees
  <2> QED BY <2>1, <2>2 DEF EndAgrees
<1>11. ModeAgrees(queue', rows'[c], recs[c], c)
  <2>1. rows'[c].mode = recs[c].mode
    <3>1. CASE e.kind = "started"
      BY <1>6, <1>7, <3>1 DEF Written, LifecycleKinds
    <3>2. CASE e.kind # "started"
      <4>1. rows'[c].mode = rows[c].mode
        BY <1>6, <3>2 DEF Written
      <4>2. rows[c].state # "absent"
        BY <1>6, <3>2 DEF LifecycleKinds, Closers
      <4> QED BY <1>4, <4>1, <4>2 DEF Agrees, ModeAgrees
    <3> QED BY <3>1, <3>2
  <2> QED BY <1>2, <1>4, <2>1 DEF Agrees, ModeAgrees
<1> QED BY <1>5, <1>8, <1>9, <1>10, <1>11 DEF Agrees

\* The writer has written a visibility transaction.
LEMMA BlockCommitAgrees ==
  ASSUME TypeOK, VisibilityInv, VisibilityInv', LiveInv, AgreementInv, Healthy,
         queue # <<>>, queue' = Tail(queue), NEW c \in Command, Shared(c),
         Head(queue).kind \in JournalKinds, Moved(Head(queue).kind, c),
         c = active \/ Head(queue).kind = "advance",
         reply'.status = "ok"
  PROVE  /\ Agrees(queue', rows'[c], recs[c], c)
         /\ Tallies(queue', rows'[c].total, Len(emitted[c]), c)
         /\ Counted(rows'[c])
<1> DEFINE e == Head(queue)
<1>1. queue \in Seq(Event) /\ e = queue[1] /\ rows[c].total \in Nat
  BY TailEvents DEF TypeOK, StoreTypeOK, Record
<1>2. queue' = <<>>
  BY DEF VisibilityInv, GenerationInv
<1>3. /\ RecordsOf(queue', c) = {} /\ EndRecords(queue', c) = {} /\ ClosedBy(queue') = {}
      /\ LastRecords(queue', c) = {} /\ EndedBy(queue') = {} /\ StartedBy(queue') = {}
  BY <1>2, WordsOfNone, LifeOfNone
<1>4. ClosedBy(queue) = {} /\ EndedBy(queue) = {} /\ StartedBy(queue) = {}
  <2>1. ClosedBy(queue) = {}
    BY <1>3, WordsOfTail DEF JournalKinds, Closers
  <2>2. EndedBy(queue) = {} /\ StartedBy(queue) = {}
    BY <1>3, LifeOfTail DEF JournalKinds, Ends
  <2> QED BY <2>1, <2>2
<1>5. c = active <=> rows[c].state = "running"
  BY <1>4 DEF LiveInv, RunsInv, Starting, Ending
<1>6. /\ Agrees(queue, rows[c], recs[c], c)
      /\ Tallies(queue, rows[c].total, Len(emitted[c]), c)
      /\ Counted(rows[c])
  BY DEF AgreementInv, AgreeInv, TallyInv
<1>7. /\ rows'[c].state = rows[c].state /\ rows'[c].mode = rows[c].mode
      /\ rows'[c].total = rows[c].total /\ SameCounters(rows'[c], rows[c])
      /\ SameOutput(rows'[c], rows[c])
      /\ c # active => rows'[c] = rows[c]
  BY <1>5 DEF Moved, SameCounters, SameOutput, CanCopyOutput
<1>8. recs[c].state \in Ends => c # active
  BY StoreAssumption DEF AgreementInv, MemoryInv, Ends
<1>9. Agrees(queue', rows'[c], recs[c], c)
  <2>1. OutputAgrees(queue', rows'[c], recs[c], c)
    BY <1>3, <1>4, <1>6, <1>7 DEF Agrees, OutputAgrees, SameOutput
  <2>2. EndAgrees(queue', rows'[c], recs[c], c)
    BY <1>3, <1>4, <1>6, <1>7, <1>8 DEF Agrees, EndAgrees
  <2>3. ModeAgrees(queue', rows'[c], recs[c], c)
    BY <1>3, <1>6, <1>7 DEF Agrees, ModeAgrees
  <2> QED BY <2>1, <2>2, <2>3 DEF Agrees
<1>10. Tallies(queue', rows[c].total + Adds(e, c), Len(emitted[c]), c)
  BY <1>1, <1>6, TalliesTake
<1>11. Adds(e, c) = 0
  BY DEF Adds, JournalKinds
<1> QED BY <1>1, <1>6, <1>7, <1>9, <1>10, <1>11, CountedTransfer

LEMMA CommitAgrees ==
  ASSUME TypeOK, VisibilityInv, VisibilityInv', OutputInv, OutputInv', LiveInv, AgreementInv,
         Healthy, Commit, UNCHANGED <<journalVars, service, historyVars>>,
         NEW c \in Command, Shared(c)'
  PROVE  /\ Agrees(queue', rows'[c], recs[c], c)
         /\ Tallies(queue', rows'[c].total, Len(emitted[c]), c)
         /\ Counted(rows'[c])
<1> DEFINE e == Head(queue)
<1>1. /\ queue # <<>> /\ queue' = Tail(queue) /\ ~RowMissing(e) /\ Process(e)
      /\ reply' = IF e.kind \in JournalKinds
                    THEN [status |-> "ok", gen |-> dbGeneration + 1] ELSE reply
      /\ UNCHANGED <<active, completed, gate>>
  BY DEF Commit, WriterStep, journalVars
<1>2. /\ e \in Event /\ 1 \in DOMAIN queue /\ e = queue[1] /\ Fits(e)
  BY <1>1, TailEvents, HeadTailProperties DEF TypeOK, StoreTypeOK, VisibilityInv, QueueInv
<1>3. Shared(c)
  <2>1. reply.status # "ok"
    BY <1>1 DEF VisibilityInv, GenerationInv
  <2> QED BY <1>1, <2>1 DEF Shared
<1>4. CASE e.kind \in JournalKinds
  <2>1. c = active \/ e.kind = "advance"
    <3>1. e.kind = "delete" => gate.op = "delete"
      BY <1>2 DEF LiveInv, GateInv
    <3> QED BY <1>1, <1>4, <3>1 DEF Shared, JournalKinds
  <2>2. Moved(e.kind, c) /\ reply'.status = "ok"
    BY <1>1, <1>2, <1>4, CommitBlock
  <2> QED BY <1>1, <1>3, <1>4, <2>1, <2>2, BlockCommitAgrees
<1>5. CASE e.kind \notin JournalKinds
  <2>1. e.kind \in LifecycleKinds \cup {"output"}
    BY <1>2, <1>5 DEF Fits, Event, JournalKinds
  <2>2. Written(e) /\ (c # e.id => rows'[c] = rows[c])
    BY <1>1, <1>2, <2>1, CommitRow
  <2>3. CASE c = e.id
    BY <1>1, <1>3, <2>1, <2>2, <2>3, OwnCommitAgrees
  <2>4. CASE c # e.id
    <3>1. /\ Agrees(queue, rows[c], recs[c], c)
          /\ Tallies(queue, rows[c].total, Len(emitted[c]), c)
          /\ Counted(rows[c])
      BY <1>3 DEF AgreementInv, AgreeInv, TallyInv
    <3>2. rows'[c] = rows[c]
      BY <2>2, <2>4
    <3> QED BY <1>1, <2>1, <2>4, <3>1, <3>2, OtherCommitAgrees
  <2> QED BY <2>3, <2>4
<1> QED BY <1>4, <1>5

LEMMA WriterAgrees ==
  ASSUME TypeOK, VisibilityInv, VisibilityInv', OutputInv, OutputInv', LiveInv, AgreementInv,
         WriterNext, UNCHANGED <<journalVars, service, historyVars>>
  PROVE  AgreementInv'
<1>1. UNCHANGED <<attached, recs, active, completed, gate, emitted>> /\ queue # <<>>
  BY DEF journalVars, historyVars, WriterNext, Dequeue, Commit, CommitMissing, CommitFault
<1>2. queue' = queue \/ queue' = Tail(queue)
  BY DEF WriterNext, Dequeue, Commit, CommitMissing, CommitFault, WriterStep
<1>3. \A c \in Command : RecordsOf(queue', c) \subseteq RecordsOf(queue, c)
  <2>1. CASE queue' = queue
    BY <2>1
  <2>2. CASE queue' = Tail(queue)
    BY <1>1, <2>2, WordsOfTail
  <2> QED BY <1>2, <2>1, <2>2
<1>4. CountInv' /\ MemoryInv'
  BY <1>1, <1>3 DEF AgreementInv, CountInv, MemoryInv, InMemory
<1>5. ASSUME Healthy', NEW c \in Command, Shared(c)'
      PROVE  /\ Agrees(queue', rows'[c], recs'[c], c)
             /\ Tallies(queue', rows'[c].total, Len(emitted'[c]), c)
             /\ Counted(rows'[c])
  <2>1. CASE Dequeue
    <3>1. /\ UNCHANGED <<storeState, queue, degraded, failed, reply, rows>>
      BY <2>1 DEF Dequeue
    <3>2. Healthy /\ Shared(c)
      BY <1>1, <1>5, <3>1 DEF Healthy, Shared
    <3> QED BY <1>1, <3>1, <3>2 DEF AgreementInv, AgreeInv, TallyInv
  <2>2. CASE Commit
    <3>1. Healthy
      BY <1>1, <1>5, <2>2 DEF Healthy, Commit, WriterStep
    <3> QED BY <1>1, <1>5, <2>2, <3>1, CommitAgrees
  <2>3. CASE CommitMissing
    BY <1>5, <2>3 DEF CommitMissing, Healthy
  <2>4. CASE CommitFault
    BY <1>5, <2>4 DEF CommitFault, Healthy
  <2> QED BY <2>1, <2>2, <2>3, <2>4 DEF WriterNext
<1>6. TallyInv' /\ AgreeInv'
  BY <1>5 DEF TallyInv, AgreeInv
<1> QED BY <1>4, <1>6 DEF AgreementInv

\* The caller of a transaction resumes: the live command gets the new generation, and
\* after Delete it is the only one that is remembered.
LEMMA TransactionAgrees ==
  ASSUME TypeOK, VisibilityInv, LiveInv, AgreementInv, TransactionNext
  PROVE  AgreementInv'
<1>1. /\ gate # FreeGate /\ reply.status \in {"ok", "error"} /\ TransactionDone
      /\ gate.id = active /\ active \notin completed
      /\ CountInv /\ MemoryInv /\ TallyInv /\ AgreeInv
  BY DEF TransactionNext, ClearCommit, DeleteCommit, TransactionFailed, FreeGate,
         LiveInv, GateInv, AgreementInv
<1>2. /\ UNCHANGED <<storeState, queue, degraded, failed, rows, chunks, attached, active, emitted>>
      /\ gate' = FreeGate /\ reply'.status = "none"
  BY <1>1 DEF TransactionDone, historyVars, NoReply
<1>3. completed' \subseteq completed /\ (gate.op = "delete" /\ reply.status = "ok" => completed' = {})
  <2>1. CASE TransactionFailed
    BY <2>1 DEF TransactionFailed
  <2>2. CASE ClearCommit
    BY <2>2 DEF ClearCommit
  <2>3. CASE DeleteCommit
    BY <1>1, <2>3 DEF DeleteCommit
  <2> QED BY <2>1, <2>2, <2>3 DEF TransactionNext
<1>4. ASSUME NEW c \in Command, InMemory(c)'
      PROVE  /\ InMemory(c) /\ Shared(c)
             /\ SameCounters(recs'[c], recs[c]) /\ recs'[c].mode = recs[c].mode
             /\ recs'[c].state = recs[c].state /\ SameOutput(recs'[c], recs[c])
             /\ c # active => recs'[c] = recs[c]
             /\ recs'[c] = recs[c] \/ queue = <<>>
  <2>1. InMemory(c) /\ Shared(c)
    BY <1>2, <1>3, <1>4 DEF InMemory, Shared
  <2>2. recs[c] \in Record
    BY DEF TypeOK
  <2>3. ASSUME NEW gen
        PROVE  LET r == [recs[c] EXCEPT !.gen = gen]
               IN  /\ SameCounters(r, recs[c]) /\ r.mode = recs[c].mode
                   /\ r.state = recs[c].state /\ SameOutput(r, recs[c])
    BY <2>2 DEF Record, SameCounters, SameOutput, CanCopyOutput
  <2>4. CASE TransactionFailed
    BY <2>1, <2>4 DEF TransactionFailed, SameCounters, SameOutput
  <2>5. CASE ClearCommit
    <3>1. queue = <<>>
      BY <2>5 DEF ClearCommit, VisibilityInv, GenerationInv
    <3> DEFINE gen == IF reply.gen > generation + 1 THEN reply.gen ELSE generation + 1
    <3>2. recs'[c] = IF c = active \/ (c \in completed /\ c = gate.id)
                       THEN [recs[c] EXCEPT !.gen = gen] ELSE recs[c]
      BY <2>5 DEF ClearCommit
    <3> HIDE DEF gen
    <3>3. recs'[c] = IF c = active THEN [recs[c] EXCEPT !.gen = gen] ELSE recs[c]
      BY <1>1, <3>2
    <3> QED BY <2>1, <2>3, <3>1, <3>3 DEF SameCounters, SameOutput
  <2>6. CASE DeleteCommit
    <3>1. queue = <<>> /\ c = active
      BY <1>2, <1>3, <1>4, <2>6 DEF DeleteCommit, VisibilityInv, GenerationInv, InMemory
    <3> DEFINE gen == IF reply.gen > generation THEN reply.gen ELSE generation
    <3>2. recs'[c] = IF c = active \/ (c \in completed /\ c = gate.id)
                       THEN [recs[c] EXCEPT !.gen = gen] ELSE NoRecord
      BY <2>6 DEF DeleteCommit
    <3> HIDE DEF gen
    <3>3. recs'[c] = [recs[c] EXCEPT !.gen = gen]
      BY <3>1, <3>2
    <3> QED BY <2>1, <2>3, <3>1, <3>3
  <2> QED BY <2>4, <2>5, <2>6 DEF TransactionNext
<1>5. CountInv'
  <2>1. ASSUME NEW c \in Command, InMemory(c)'
        PROVE  recs'[c].total = Len(emitted'[c]) /\ Counted(recs'[c])
    BY <1>1, <1>2, <1>4, <2>1, CountedTransfer DEF CountInv, SameCounters
  <2> QED BY <1>1, <1>2, <2>1 DEF CountInv
<1>6. MemoryInv'
  <2>1. active' # NoCommand => recs'[active].state = "running" /\ recs'[active].ostate = "open"
    <3>1. active # NoCommand => active \in Command /\ InMemory(active)'
      BY <1>2 DEF TypeOK, InMemory
    <3> QED BY <1>1, <1>2, <1>4, <3>1 DEF MemoryInv, SameOutput
  <2>2. \A c \in completed' : recs'[c].state \in Ends
    <3> TAKE c \in completed'
    <3>1. c \in Command /\ InMemory(c)' /\ c \in completed
      BY <1>3 DEF TypeOK, InMemory
    <3> QED BY <1>1, <1>4, <3>1 DEF MemoryInv
  <2> QED BY <1>2, <2>1, <2>2 DEF MemoryInv
<1>7. ASSUME Healthy', NEW c \in Command, Shared(c)'
      PROVE  /\ Agrees(queue', rows'[c], recs'[c], c)
             /\ Tallies(queue', rows'[c].total, Len(emitted'[c]), c)
             /\ Counted(rows'[c])
  <2>1. Healthy
    BY <1>1, <1>2, <1>7 DEF Healthy
  <2>2. InMemory(c)'
    BY <1>7 DEF InMemory, Shared
  <2>3. /\ Agrees(queue, rows[c], recs[c], c)
        /\ Tallies(queue, rows[c].total, Len(emitted[c]), c)
        /\ Counted(rows[c])
    BY <1>1, <1>4, <2>1, <2>2 DEF AgreeInv, TallyInv
  <2>4. Agrees(queue, rows[c], recs'[c], c)
    <3>1. CASE recs'[c] = recs[c]
      BY <2>3, <3>1
    <3>2. CASE queue = <<>> /\ recs'[c] # recs[c]
      <4>1. c = active /\ recs'[c].state = "running"
        BY <1>1, <1>4, <2>2, <3>2, StoreAssumption DEF MemoryInv
      <4>2. RecordsOf(queue, c) = {} /\ EndRecords(queue, c) = {} /\ LastRecords(queue, c) = {}
        BY <3>2, WordsOfNone
      <4> QED BY <1>4, <2>2, <2>3, <4>1, <4>2
              DEF Agrees, OutputAgrees, EndAgrees, ModeAgrees, SameOutput, Ends
    <3> QED BY <1>4, <2>2, <3>1, <3>2
  <2> QED BY <1>2, <2>3, <2>4
<1>8. TallyInv' /\ AgreeInv'
  BY <1>7 DEF TallyInv, AgreeInv
<1> QED BY <1>5, <1>6, <1>8 DEF AgreementInv

\* Attach, crash, close and recovery.
LEMMA ProcessAgrees ==
  ASSUME TypeOK, VisibilityInv, LiveInv, AgreementInv,
         \/ UNCHANGED vars
         \/ Attach
         \/ Crash
         \/ (CloseStore \/ Open) /\ UNCHANGED <<journalVars, service, historyVars>>
  PROVE  AgreementInv'
<1>1. CASE UNCHANGED vars
  BY <1>1 DEF vars, storeVars, journalVars, historyVars, AgreementInv, CountInv, TallyInv,
              MemoryInv, AgreeInv, Healthy, Shared, InMemory
<1>2. CASE \/ Attach
           \/ Crash
           \/ Open /\ UNCHANGED <<journalVars, service, historyVars>>
  <2>1. /\ active' = NoCommand /\ completed' = {} /\ queue' = <<>>
    BY <1>2 DEF Attach, Crash, StoreCrash, Open, storeVars, journalVars, VisibilityInv, LifecycleInv,
                LiveInv, IdleInv
  <2>2. \A c \in Command : ~InMemory(c)' /\ ~Shared(c)' /\ RecordsOf(queue', c) = {}
    BY <2>1, StoreAssumption, WordsOfNone DEF InMemory, Shared
  <2> QED BY <2>1, <2>2 DEF AgreementInv, CountInv, TallyInv, MemoryInv, AgreeInv
<1>3. CASE CloseStore /\ UNCHANGED <<journalVars, service, historyVars>>
  <2>1. /\ UNCHANGED <<queue, degraded, failed, reply, rows>>
        /\ storeState = "open" /\ UNCHANGED <<attached, recs, active, completed, gate, emitted>>
    BY <1>3 DEF CloseStore, journalVars, historyVars
  <2>2. Healthy' => Healthy
    BY <2>1 DEF Healthy
  <2> QED BY <2>1, <2>2 DEF AgreementInv, CountInv, TallyInv, MemoryInv, AgreeInv, Shared, InMemory
<1> QED BY <1>1, <1>2, <1>3

LEMMA AgreementInductive ==
  ASSUME TypeOK, VisibilityInv, VisibilityInv', OutputInv, OutputInv', LiveInv, AgreementInv,
         [Next]_vars
  PROVE  AgreementInv'
<1>1. CASE JournalNext
  <2>1. ASSUME NEW id \in Command, NEW e \in Epoch, NEW a \in Authorities,
               CommandAborted(id, e, a)
        PROVE  AgreementInv'
    BY <2>1, AbortAgrees DEF CommandAborted
  <2>2. ASSUME NEW e \in Epoch, NEW a \in Authorities, NEW newer \in BOOLEAN,
               PromptReady(e, a, newer)
        PROVE  AgreementInv'
    BY <2>2, AbortAgrees DEF PromptReady
  <2>3. CASE AbortActive
    BY <2>3, AbortAgrees DEF AbortActive
  <2> QED BY <1>1, <2>1, <2>2, <2>3, StartAgrees, FinishAgrees, OutputAgreesNext, MarkAgrees,
             BeginAgrees
          DEF JournalNext
<1>2. CASE TransactionNext
  BY <1>2, TransactionAgrees
<1>3. CASE WriterNext /\ UNCHANGED <<journalVars, service, historyVars>>
  BY <1>3, WriterAgrees
<1> QED BY <1>1, <1>2, <1>3, ProcessAgrees DEF Next

\* While nothing failed, the last word on every command of the journal's memory, in the
\* FIFO or in its row, is what the journal itself says, and the row and the FIFO
\* together count what the command emitted.
THEOREM AgreementInvariant == Spec => []AgreementInv
<1>1. Init => AgreementInv
  <2> SUFFICES ASSUME Init PROVE AgreementInv
    OBVIOUS
  <2>1. queue = <<>> /\ ~attached /\ active = NoCommand /\ completed = {}
    BY DEF Init, StoreInit
  <2>2. \A c \in Command : ~InMemory(c) /\ RecordsOf(queue, c) = {}
    BY <2>1, StoreAssumption, WordsOfNone DEF InMemory
  <2> QED BY <2>1, <2>2 DEF AgreementInv, CountInv, TallyInv, MemoryInv, AgreeInv, Healthy
<1>2. /\ TypeOK /\ VisibilityInv /\ VisibilityInv' /\ OutputInv /\ OutputInv' /\ LiveInv
      /\ AgreementInv /\ [Next]_vars
      => AgreementInv'
  BY AgreementInductive
<1> QED BY <1>1, <1>2, TypeCorrect, VisibilityInvariant, OutputInvariant, LiveInvariant, PTL
        DEF Spec

\* With a healthy store, an empty FIFO and no transaction under way, the tables agree
\* with the journal on every record it remembers: the FIFO, the claims, the counters
\* and the generations have all arrived, whatever was interleaved on the way.
THEOREM HistoryAgrees == Spec => []HistoryAgreesWithJournal
<1>1. TypeOK /\ VisibilityInv /\ LiveInv /\ AgreementInv => HistoryAgreesWithJournal
  <2> SUFFICES ASSUME TypeOK, VisibilityInv, LiveInv, AgreementInv,
                      storeState = "open", attached, gate = FreeGate, queue = <<>>,
                      ~degraded, failed = {}
               PROVE  /\ generation = dbGeneration
                      /\ \A c \in Command :
                           /\ rows[c].state = "running" <=> c = active
                           /\ c \in completed \cup {active} =>
                                /\ rows[c].state = recs[c].state
                                /\ rows[c].gen = recs[c].gen
                                /\ rows[c].total = recs[c].total
                                /\ rows[c].stored = recs[c].stored
                                /\ rows[c].ostate = recs[c].ostate
                                /\ CanCopyOutput(rows[c]) <=> CanCopyOutput(recs[c])
    BY DEF HistoryAgreesWithJournal
  <2>1. Healthy /\ reply.status = "none" /\ generation = dbGeneration
    BY DEF Healthy, VisibilityInv, GenerationInv
  <2>2. StartedBy(queue) = {} /\ EndedBy(queue) = {}
    BY LifeOfNone
  <2>3. ASSUME NEW c \in Command PROVE rows[c].state = "running" <=> c = active
    BY <2>1, <2>2 DEF LiveInv, RunsInv, Starting, Ending
  <2>4. ASSUME NEW c \in Command, c \in completed \cup {active}
        PROVE  /\ rows[c].state = recs[c].state
               /\ rows[c].gen = recs[c].gen
               /\ rows[c].total = recs[c].total
               /\ rows[c].stored = recs[c].stored
               /\ rows[c].ostate = recs[c].ostate
               /\ CanCopyOutput(rows[c]) <=> CanCopyOutput(recs[c])
    <3>1. InMemory(c) /\ Shared(c)
      BY <2>1, <2>4 DEF InMemory, Shared
    <3>2. /\ Agrees(queue, rows[c], recs[c], c)
          /\ Tallies(queue, rows[c].total, Len(emitted[c]), c)
          /\ Counted(rows[c])
          /\ recs[c].total = Len(emitted[c]) /\ Counted(recs[c])
      BY <2>1, <3>1 DEF AgreementInv, AgreeInv, TallyInv, CountInv
    <3>3. rows[c].total = Len(emitted[c])
      BY <3>2, TalliesEqual
    <3>4. rows[c].total = recs[c].total /\ rows[c].stored = recs[c].stored
      BY <3>2, <3>3 DEF Counted
    <3>5. SameEnd(rows[c], recs[c])
      <4>1. CASE c = active
        BY <2>1, <2>3, <4>1, StoreAssumption
           DEF SameEnd, AgreementInv, MemoryInv, VisibilityInv, GenerationInv,
               RunningRowsAreVisible
      <4>2. CASE c \in completed
        BY <2>2, <3>2, <4>2 DEF Agrees, EndAgrees, AgreementInv, MemoryInv
      <4> QED BY <2>4, <4>1, <4>2
    <3>6. SameOutput(rows[c], recs[c])
      <4>1. rows[c].state # "absent"
        BY <3>1, <3>5, StoreAssumption DEF SameEnd, AgreementInv, MemoryInv, InMemory, Ends
      <4>2. c \notin ClosedBy(queue)
        BY WordsOfNone
      <4> QED BY <3>2, <4>1, <4>2 DEF Agrees, OutputAgrees
    <3> QED BY <3>4, <3>5, <3>6 DEF SameEnd, SameOutput
  <2> QED BY <2>1, <2>3, <2>4
<1> QED BY <1>1, TypeCorrect, VisibilityInvariant, LiveInvariant, AgreementInvariant, PTL
=============================================================================
