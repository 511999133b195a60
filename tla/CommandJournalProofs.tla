------------------------ MODULE CommandJournalProofs ------------------------
(***************************************************************************)
(* The command journal, for every set of commands and epochs and every     *)
(* value of the limits and bounds: type correctness, the byte budget of    *)
(* its FIFO, the visible history, and the claims it makes for output.      *)
(***************************************************************************)
EXTENDS CommandJournal, SequenceTheorems, FiniteSetTheorems, TLAPS

\* What the journal does to a record leaves a record.
LEMMA RecordUpdates ==
  ASSUME NEW rec \in Record
  PROVE  /\ Finalized(rec) \in Record
         /\ AbortedRecord(rec) \in Record
         /\ \A i \in BOOLEAN : FinishedRecord(rec, i) \in Record
         /\ \A data \in Seq(Byte) : AppendedRecord(rec, data) \in Record
<1>1. Finalized(rec) \in Record
  BY DEF Finalized, Record
<1>2. AbortedRecord(rec) \in Record
  BY DEF AbortedRecord, Record
<1>3. ASSUME NEW i \in BOOLEAN PROVE FinishedRecord(rec, i) \in Record
  <2> DEFINE structured == rec.mode = "structured" /\ rec.src = "host"
             trusted == /\ structured /\ ~i /\ rec.compl # "incomplete"
                        /\ ~rec.truncated
             fin == FinishedRecord(rec, i)
  <2>1. CASE trusted
    <3>1. fin = [rec EXCEPT !.state = "finished", !.ostate = "closed",
                            !.compl = "complete", !.attr = "exclusive",
                            !.safety = IF rec.total = 0 THEN "plain" ELSE @]
      BY <2>1 DEF FinishedRecord
    <3> QED BY <3>1 DEF Record
  <2>2. CASE structured /\ i
    <3>1. fin = [rec EXCEPT !.state = "finished", !.ostate = "closed",
                            !.compl = "unknown", !.attr = "unknown",
                            !.safety = "unknown"]
      BY <2>2, Zenon DEF FinishedRecord
    <3> QED BY <3>1 DEF Record
  <2>3. CASE structured /\ ~i /\ ~trusted
    <3>1. fin = [rec EXCEPT !.state = "finished", !.ostate = "closed", !.compl = @,
                            !.attr = IF rec.mode = "interactive" THEN "unknown" ELSE @,
                            !.safety = IF rec.total = 0 THEN "plain" ELSE @]
      BY <2>3 DEF FinishedRecord
    <3> QED BY <3>1 DEF Record
  <2>4. CASE ~structured
    <3>1. fin = [rec EXCEPT !.state = "finished", !.ostate = "pending", !.compl = @,
                            !.attr = IF rec.mode = "interactive" THEN "unknown" ELSE @,
                            !.safety = @]
      BY <2>4 DEF FinishedRecord
    <3> QED BY <3>1 DEF Record
  <2> QED BY <2>1, <2>2, <2>3, <2>4
<1>4. ASSUME NEW data \in Seq(Byte) PROVE AppendedRecord(rec, data) \in Record
  <2> DEFINE total == rec.total + Len(data)
             room == IF rec.stored < MaxOutputBytes THEN MaxOutputBytes - rec.stored ELSE 0
             kept == IF Len(data) <= room THEN Len(data) ELSE room
             truncated == rec.stored + kept < total
             unsafe == \E k \in DOMAIN data : data[k] = "ctl"
             compl == IF rec.compl # "incomplete" /\ truncated THEN "truncated" ELSE rec.compl
             safety == IF rec.src # "host" THEN rec.safety
                       ELSE IF unsafe THEN "unsafe"
                       ELSE IF rec.safety # "unsafe" THEN "plain" ELSE rec.safety
             counted == [rec EXCEPT !.total = total, !.stored = rec.stored + kept,
                                    !.truncated = truncated, !.compl = compl,
                                    !.safety = safety]
  <2>1. total \in Nat /\ kept \in Nat /\ rec.stored + kept \in Nat
    BY StoreAssumption, LenProperties DEF Record
  <2>2. truncated \in BOOLEAN
    BY <2>1 DEF Record
  <2> HIDE DEF total, kept, truncated, unsafe
  <2>3. compl \in {"unknown", "complete", "truncated", "incomplete"}
    BY DEF Record
  <2>4. safety \in {"unknown", "plain", "unsafe"}
    BY DEF Record
  <2> HIDE DEF compl, safety
  <2>6. counted \in Record
    BY <2>1, <2>2, <2>3, <2>4 DEF Record
  <2> HIDE DEF counted
  <2>7. [counted EXCEPT !.compl = "incomplete", !.attr = "unknown",
                        !.safety = "unknown"] \in Record
    BY <2>6 DEF Record
  <2>8. AppendedRecord(rec, data) =
          IF AppendRefused(data)
            THEN [counted EXCEPT !.compl = "incomplete", !.attr = "unknown",
                                 !.safety = "unknown"]
            ELSE counted
    BY DEF AppendedRecord, total, kept, truncated, unsafe, compl, safety, counted
  <2> QED BY <2>6, <2>7, <2>8
<1> QED BY <1>1, <1>2, <1>3, <1>4

\* The record of an id that no producer has used is a record.
LEMMA NoRecordType == NoRecord \in Record
BY DEF NoRecord, Record, Modes, Sources

\* A new record carries the journal's generation.
LEMMA StartedRecordType ==
  ASSUME TypeOK, NEW claim \in StartClaims
  PROVE  StartedRecord(claim) \in Record
<1>1. generation \in Nat /\ claim.mode \in Modes /\ claim.src \in Sources
  BY DEF TypeOK, StartClaims, Modes, Sources
<1> QED BY <1>1, NoRecordType DEF StartedRecord, Record

\* Every kind of event carries what its handler needs.
LEMMA EventFields ==
  ASSUME NEW e \in Event
  PROVE  /\ e.kind \in LifecycleKinds \cup {"output"} => e.id \in Command
         /\ e.rec \in Record
         /\ e.data \in Seq(Byte)
         /\ Len(e.data) \in Nat
<1>1. e.data \in Seq(Byte)
  BY EmptySeq DEF Event
<1>2. e.rec \in Record
  BY NoRecordType DEF Event
<1>3. e.kind \in LifecycleKinds \cup {"output"} => e.id \in Command
  BY DEF Event, LifecycleKinds, JournalKinds, DirectKinds
<1> QED BY <1>1, <1>2, <1>3, LenProperties

\* The three constructors of queued events (store.go's event literals) build
\* events of the FIFO.
LEMMA EventTypes ==
  /\ \A kind \in LifecycleKinds, id \in Command, rec \in Record :
       RecordEvent(kind, id, rec) \in Event
  /\ \A id \in Command, data \in Seq(Byte) : OutputEvent(id, data) \in Event
  /\ \A kind \in JournalKinds \cup DirectKinds : BlockEvent(kind) \in Event
BY NoRecordType, EmptySeq DEF RecordEvent, OutputEvent, BlockEvent, Event

\* Finalizing the pending record, in memory and for the store.
LEMMA FinalizeTypes ==
  ASSUME TypeOK
  PROVE  FinalizedRecs \in [Command -> Record] /\ FinalizeEvents \in Seq(Event)
BY RecordUpdates, EventTypes
   DEF TypeOK, FinalizedRecs, FinalizeEvents, HasPending, LifecycleKinds

\* enqueue keeps the FIFO a sequence of events, whether it accepts or refuses.
LEMMA EnqueueType ==
  ASSUME TypeOK, NEW events \in Seq(Event), Enqueue(events)
  PROVE  queue' \in Seq(Event)
BY ConcatProperties DEF TypeOK, StoreTypeOK, Enqueue

\* A journal step that only appends to the FIFO leaves the store well typed.
LEMMA OnlyQueueType ==
  ASSUME TypeOK, NEW events \in Seq(Event), Enqueue(events), OnlyQueue
  PROVE  StoreTypeOK'
BY EnqueueType DEF TypeOK, StoreTypeOK, OnlyQueue

\* abortActiveLocked, whichever event or detach calls it, keeps every type.
LEMMA AbortType ==
  ASSUME TypeOK, NEW matches \in BOOLEAN, matches => active # NoCommand,
         AbortActiveLocked(matches)
  PROVE  TypeOK'
<1> DEFINE ended == IF matches
                      THEN <<RecordEvent("aborted", active, AbortedRecord(recs[active]))>>
                      ELSE <<>>
<1>1. matches => active \in Command /\ AbortedRecord(recs[active]) \in Record
  BY RecordUpdates DEF TypeOK
<1>2. ended \in Seq(Event)
  BY <1>1, EventTypes DEF LifecycleKinds
<1>3. FinalizeEvents \o ended \in Seq(Event)
  BY <1>2, FinalizeTypes, ConcatProperties
<1>4. StoreTypeOK'
  BY <1>3, OnlyQueueType DEF AbortActiveLocked
<1>5. matches => FinalizedRecs[active] \in Record
  BY <1>1, FinalizeTypes
<1>6. recs' \in [Command -> Record]
  BY <1>1, <1>5, FinalizeTypes, RecordUpdates DEF AbortActiveLocked
<1>7. owner' \in Owner
  BY DEF AbortActiveLocked, TypeOK, NoOwner, Owner
<1>8. completed' \subseteq Command /\ active' \in Command \cup {NoCommand}
  BY <1>1 DEF AbortActiveLocked, TypeOK
<1> QED BY <1>4, <1>6, <1>7, <1>8 DEF AbortActiveLocked, TypeOK, historyVars

\* A start event keeps every type, also when its output source is refused.
LEMMA StartType ==
  ASSUME TypeOK, NEW id \in Command, NEW epoch \in Epoch, NEW claim \in StartClaims,
         CommandStarted(id, epoch, claim)
  PROVE  TypeOK'
<1> DEFINE rec == StartedRecord(claim)
<1>1. rec \in Record /\ claim.auth \in Authorities
  BY StartedRecordType DEF StartClaims, Authorities
<1>2. <<RecordEvent("started", id, rec)>> \in Seq(Event)
  BY <1>1, EventTypes DEF LifecycleKinds
<1>3. FinalizeEvents \o <<RecordEvent("started", id, rec)>> \in Seq(Event)
  BY <1>2, FinalizeTypes, ConcatProperties
<1>4. [epoch |-> epoch, auth |-> claim.auth] \in Owner
  BY <1>1 DEF Owner
<1> HIDE DEF rec
<1>5. CASE AllowsOutputSource(claim.auth, claim.src)
  <2>1. StoreTypeOK'
    BY <1>3, <1>5, OnlyQueueType DEF CommandStarted, rec
  <2>2. recs' \in [Command -> Record]
    BY <1>1, <1>5, FinalizeTypes DEF CommandStarted, rec
  <2> QED BY <1>4, <1>5, <2>1, <2>2 DEF CommandStarted, TypeOK
<1>6. CASE ~AllowsOutputSource(claim.auth, claim.src)
  <2>1. StoreTypeOK'
    BY <1>6, FinalizeTypes, OnlyQueueType DEF CommandStarted
  <2> QED BY <1>4, <1>6, <2>1, FinalizeTypes DEF CommandStarted, TypeOK
<1> QED BY <1>5, <1>6

\* A finish event keeps every type.
LEMMA FinishType ==
  ASSUME TypeOK, NEW id \in Command, NEW epoch \in Epoch, NEW auth \in Authorities,
         NEW interrupted \in BOOLEAN, CommandFinished(id, epoch, auth, interrupted)
  PROVE  TypeOK'
<1> DEFINE rec == FinishedRecord(recs[active], interrupted)
           fin == <<RecordEvent("finished", active, rec)>>
           closing == IF rec.ostate = "closed"
                        THEN <<RecordEvent("finalized", active, rec)>> ELSE <<>>
<1>1. active \in Command /\ rec \in Record
  BY RecordUpdates DEF TypeOK, CommandFinished
<1> HIDE DEF rec
<1>2. fin \in Seq(Event) /\ closing \in Seq(Event)
  BY <1>1, EventTypes DEF LifecycleKinds
<1>3. fin \o closing \in Seq(Event)
  BY <1>2, ConcatProperties
<1>4. StoreTypeOK'
  BY <1>3, OnlyQueueType DEF CommandFinished, rec
<1>5. recs' \in [Command -> Record]
  BY <1>1 DEF CommandFinished, rec, TypeOK
<1>6. pending' \in Command \cup {NoCommand} /\ owner' \in Owner
  BY <1>1 DEF CommandFinished, Owner, NoOwner
<1> QED BY <1>1, <1>4, <1>5, <1>6 DEF CommandFinished, TypeOK, historyVars

\* An output segment keeps every type, stored or refused.
LEMMA OutputType ==
  ASSUME TypeOK, NEW data \in Segments, NEW src \in Sources, OutputSegment(data, src)
  PROVE  TypeOK'
<1> DEFINE id == OutputTarget(src)
<1>1. data \in Seq(Byte) /\ Len(data) \in Nat
  BY JournalAssumption, LenProperties
<1>2. id \in Command
  BY DEF OutputSegment, OutputTarget, HasPending, TypeOK
<1>3. recs' \in [Command -> Record]
  BY <1>1, <1>2, RecordUpdates DEF OutputSegment, TypeOK
<1>4. OutputEvent(id, data) \in Event
  BY <1>1, <1>2, EventTypes
<1>5. StoreTypeOK'
  <2> HIDE DEF id
  <2>1. AppendOutput(id, data)
    BY DEF OutputSegment, id
  <2>2. queue' \in Seq(Event)
    BY <1>4, <2>1, AppendProperties DEF AppendOutput, TypeOK, StoreTypeOK
  <2>3. queueBytes' \in Int /\ degraded' \in BOOLEAN /\ failed' \subseteq Command
    BY <1>1, <1>2, <2>1 DEF AppendOutput, TypeOK, StoreTypeOK, Overflows
  <2> QED BY <2>2, <2>3 DEF OutputSegment, TypeOK, StoreTypeOK
<1>6. emitted' \in [Command -> Seq(Byte)]
  <2>1. \A c \in Command : emitted[c] \o data \in Seq(Byte)
    BY <1>1, ConcatProperties DEF TypeOK
  <2> QED BY <2>1 DEF OutputSegment, TypeOK
<1> QED BY <1>3, <1>5, <1>6 DEF OutputSegment, TypeOK

\* MarkOutputIncomplete keeps every type.
LEMMA MarkType ==
  ASSUME TypeOK, MarkOutputIncomplete
  PROVE  TypeOK'
<1> DEFINE id == IF active # NoCommand THEN active ELSE pending
           rec == [recs[id] EXCEPT !.compl = "incomplete", !.attr = "unknown",
                                   !.safety = "unknown"]
           events == IF active = NoCommand
                       THEN <<RecordEvent("finalized", id, rec)>> ELSE <<>>
<1>1. id \in Command
  BY DEF MarkOutputIncomplete, HasPending, TypeOK
<1> HIDE DEF id
<1>2. rec \in Record
  <2>1. recs[id] \in Record
    BY <1>1 DEF TypeOK
  <2> QED BY <2>1 DEF Record
<1> HIDE DEF rec
<1>3. events \in Seq(Event)
  BY <1>1, <1>2, EventTypes DEF LifecycleKinds
<1>4. StoreTypeOK'
  BY <1>3, OnlyQueueType DEF MarkOutputIncomplete, id, rec
<1>5. recs' \in [Command -> Record]
  BY <1>1, <1>2 DEF MarkOutputIncomplete, TypeOK, id, rec
<1> QED BY <1>1, <1>4, <1>5 DEF MarkOutputIncomplete, TypeOK, id

\* Moving a record to another generation.
LEMMA RetagType ==
  ASSUME NEW rec \in Record, NEW gen \in Nat
  PROVE  [rec EXCEPT !.gen = gen] \in Record
BY DEF Record

\* The return of Clear or Delete, with either answer, keeps every type.
LEMMA TransactionType ==
  ASSUME TypeOK, TransactionNext
  PROVE  TypeOK'
<1>1. ASSUME NEW c \in Command, NEW gen \in Nat
      PROVE  [recs[c] EXCEPT !.gen = gen] \in Record
  BY RetagType DEF TypeOK
<1>2. NoReply \in Reply /\ reply.gen \in Nat /\ FreeGate.op = "free"
  BY DEF NoReply, Reply, TypeOK, StoreTypeOK, FreeGate
<1>3. FreeGate \in [op : {"free", "clear", "delete"}, id : Command \cup {NoCommand}]
  BY DEF FreeGate
<1>4. TransactionDone => StoreTypeOK'
  BY <1>2 DEF TransactionDone, TypeOK, StoreTypeOK
<1>5. CASE ClearCommit
  <2> DEFINE gen == IF reply.gen > generation + 1 THEN reply.gen ELSE generation + 1
  <2>1. gen \in Nat
    BY <1>2 DEF TypeOK
  <2> HIDE DEF gen
  <2>2. recs' \in [Command -> Record] /\ generation' \in Nat
    BY <1>1, <1>5, <2>1 DEF ClearCommit, TypeOK, gen
  <2> QED BY <1>3, <1>4, <1>5, <2>2
          DEF ClearCommit, TransactionDone, TypeOK, historyVars
<1>6. CASE DeleteCommit
  <2> DEFINE gen == IF reply.gen > generation THEN reply.gen ELSE generation
  <2>1. gen \in Nat
    BY <1>2 DEF TypeOK
  <2> HIDE DEF gen
  <2>2. recs' \in [Command -> Record] /\ generation' \in Nat
    BY <1>1, <1>6, <2>1, NoRecordType DEF DeleteCommit, TypeOK, gen
  <2> QED BY <1>3, <1>4, <1>6, <2>2
          DEF DeleteCommit, TransactionDone, TypeOK, historyVars
<1>7. CASE TransactionFailed
  BY <1>2, <1>3, <1>4, <1>7
     DEF TransactionFailed, TransactionDone, TypeOK, historyVars
<1> QED BY <1>5, <1>6, <1>7 DEF TransactionNext

\* Asking the writer for a visibility transaction keeps every type.
LEMMA BeginType ==
  ASSUME TypeOK, NEW op \in {"clear", "delete"}, NEW kind \in JournalKinds,
         BeginTransaction(op, kind)
  PROVE  TypeOK'
<1>1. <<BlockEvent(kind)>> \in Seq(Event)
  BY EventTypes
<1>2. StoreTypeOK'
  BY <1>1, OnlyQueueType DEF BeginTransaction
<1> QED BY <1>2 DEF BeginTransaction, TypeOK, historyVars

\* What the writer does to the tables.
LEMMA ProcessType ==
  ASSUME TypeOK, NEW e \in Event, ~RowMissing(e), Process(e)
  PROVE  /\ rows' \in [Command -> Record]
         /\ chunks' \in [Command -> Seq(Byte)]
         /\ dbGeneration' \in Nat
<1>0. /\ rows \in [Command -> Record]
      /\ chunks \in [Command -> Seq(Byte)]
      /\ dbGeneration \in Nat
  BY DEF TypeOK, StoreTypeOK
<1> USE <1>0
<1>1. /\ e.rec \in Record /\ e.data \in Seq(Byte) /\ Len(e.data) \in Nat
      /\ e.kind \in LifecycleKinds \cup {"output"} => e.id \in Command
  BY EventFields
<1>2. CASE e.kind = "started" /\ InsertStarted(e)
  BY <1>1, <1>2, EmptySeq DEF InsertStarted, LifecycleKinds
<1>3. CASE e.kind = "output" /\ AppendChunks(e)
  <2> DEFINE kept == StoredPrefix(e.id, e.data)
             total == rows[e.id].total + Len(e.data)
             stored == rows[e.id].stored + Len(kept)
             truncated == stored < total
  <2>1. e.id \in Command /\ rows[e.id] \in Record
    BY <1>1, <1>3
  <2>2. kept \in Seq(Byte)
    <3> DEFINE remaining == IF rows[e.id].stored < MaxOutputBytes
                              THEN MaxOutputBytes - rows[e.id].stored ELSE 0
    <3>1. remaining \in Nat
      BY <2>1, StoreAssumption DEF Record
    <3>2. CASE Len(e.data) <= remaining
      BY <1>1, <3>2 DEF StoredPrefix
    <3>3. CASE ~(Len(e.data) <= remaining)
      <4>1. \A i \in 1..remaining : e.data[i] \in Byte
        BY <1>1, <3>1, <3>3, LenProperties
      <4> HIDE DEF remaining
      <4>2. SubSeq(e.data, 1, remaining) \in Seq(Byte)
        BY <3>1, <4>1, SubSeqProperties
      <4> QED BY <3>3, <4>2 DEF StoredPrefix, remaining
    <3> QED BY <3>2, <3>3
  <2> HIDE DEF kept
  <2>3. total \in Nat /\ stored \in Nat /\ truncated \in BOOLEAN
    <3>1. \A r \in Record : r.total \in Nat /\ r.stored \in Nat
      BY DEF Record
    <3>2. Len(kept) \in Nat
      BY <2>2, LenProperties
    <3>3. rows[e.id].total \in Nat /\ rows[e.id].stored \in Nat
      BY <2>1, <3>1, Zenon
    <3>4. total \in Nat /\ stored \in Nat
      BY <1>1, <3>2, <3>3
    <3> HIDE DEF total, stored
    <3>5. truncated \in BOOLEAN
      BY <3>4
    <3> QED BY <3>4, <3>5
  <2>4. chunks[e.id] \o kept \in Seq(Byte)
    BY <2>1, <2>2, ConcatProperties
  <2> HIDE DEF total, stored, truncated
  <2>5. [rows[e.id] EXCEPT !.total = total, !.stored = stored,
                           !.truncated = truncated] \in Record
    BY <2>1, <2>3 DEF Record
  <2>6. /\ rows' = [rows EXCEPT ![e.id] = [rows[e.id] EXCEPT !.total = total,
                       !.stored = stored, !.truncated = truncated]]
        /\ chunks' = [chunks EXCEPT ![e.id] = chunks[e.id] \o kept]
        /\ dbGeneration' = dbGeneration
    BY <1>3 DEF AppendChunks, kept, total, stored, truncated
  <2> QED BY <2>1, <2>4, <2>5, <2>6
<1>4. ASSUME NEW id \in Command, NEW rec \in Record
      PROVE  /\ DurableCompleteness(id, rec)
                   \in {"unknown", "complete", "truncated", "incomplete"}
             /\ DurableAttribution(id, rec) \in {"unknown", "exclusive"}
  BY DEF DurableCompleteness, DurableAttribution, Record
<1>5. CASE e.kind = "finished" /\ UpdateFinished(e)
  <2> DEFINE row == rows[e.id]
             total == IF row.total > e.rec.total THEN row.total ELSE e.rec.total
             truncated == e.rec.truncated \/ row.truncated \/ row.stored < total
             compl == DurableCompleteness(e.id, e.rec)
             attr == DurableAttribution(e.id, e.rec)
             new == [row EXCEPT !.state = e.rec.state, !.gen = e.rec.gen, !.total = total,
                                !.truncated = truncated, !.compl = compl, !.attr = attr,
                                !.safety = e.rec.safety, !.ostate = e.rec.ostate]
  <2>1. e.id \in Command /\ row \in Record
    BY <1>1, <1>5 DEF LifecycleKinds
  <2>2. total \in Nat /\ truncated \in BOOLEAN
    BY <1>1, <2>1 DEF Record
  <2>3. rows' = [rows EXCEPT ![e.id] = new]
    BY <1>5 DEF UpdateFinished
  <2> HIDE DEF total, truncated, compl, attr, row
  <2>4. new \in Record
    BY <1>1, <1>4, <2>1, <2>2 DEF Record, compl, attr
  <2> QED BY <1>5, <2>1, <2>3, <2>4 DEF UpdateFinished
<1>6. CASE e.kind = "finalized" /\ UpdateOutputFinalized(e)
  <2> DEFINE row == rows[e.id]
             truncated == row.truncated \/ row.stored < row.total
             compl == DurableCompleteness(e.id, e.rec)
             attr == DurableAttribution(e.id, e.rec)
             new == [row EXCEPT !.truncated = truncated, !.compl = compl, !.attr = attr,
                                !.safety = e.rec.safety, !.ostate = e.rec.ostate]
  <2>1. e.id \in Command /\ row \in Record
    BY <1>1, <1>6 DEF LifecycleKinds
  <2>2. truncated \in BOOLEAN
    BY <1>1, <2>1 DEF Record
  <2>3. rows' = [rows EXCEPT ![e.id] = new]
    BY <1>6 DEF UpdateOutputFinalized
  <2> HIDE DEF truncated, compl, attr, row
  <2>4. new \in Record
    BY <1>1, <1>4, <2>1, <2>2 DEF Record, compl, attr
  <2> QED BY <1>6, <2>1, <2>3, <2>4 DEF UpdateOutputFinalized
<1>7. CASE e.kind = "aborted" /\ UpdateAborted(e)
  <2>1. e.id \in Command /\ rows[e.id] \in Record
    BY <1>1, <1>7 DEF LifecycleKinds
  <2>2. [rows[e.id] EXCEPT !.state = e.rec.state, !.gen = e.rec.gen,
                           !.compl = e.rec.compl, !.attr = e.rec.attr,
                           !.safety = e.rec.safety, !.ostate = e.rec.ostate] \in Record
    BY <1>1, <2>1 DEF Record
  <2> QED BY <1>7, <2>1, <2>2 DEF UpdateAborted
<1>8. \A c \in Command : [rows[c] EXCEPT !.gen = dbGeneration + 1] \in Record
  <2>1. dbGeneration + 1 \in Nat /\ \A c \in Command : rows[c] \in Record
    OBVIOUS
  <2> QED BY <2>1, RetagType
<1>9. CASE AdvanceGeneration
  BY <1>8, <1>9 DEF AdvanceGeneration
<1>10. CASE DeleteRows
  BY <1>8, <1>10, NoRecordType, EmptySeq DEF DeleteRows
<1> QED BY <1>2, <1>3, <1>5, <1>6, <1>7, <1>9, <1>10 DEF Process

\* A step of the writer goroutine, committed or failed, keeps every type.
LEMMA WriterType ==
  ASSUME TypeOK, WriterNext
  PROVE  StoreTypeOK'
<1> USE DEF TypeOK, StoreTypeOK
<1>1. /\ Head(queue) \in Event
      /\ Tail(queue) \in Seq(Event)
      /\ Head(queue) = queue[1]
      /\ 1 \in DOMAIN queue
  <2>1. queue # <<>>
    BY DEF WriterNext, Dequeue, Commit, CommitMissing, CommitFault
  <2> QED BY <2>1, HeadTailProperties, LenProperties, EmptySeq
<1>2. CASE Dequeue
  <2>1. Len(Head(queue).data) \in Nat
    BY <1>1, EventFields
  <2> QED BY <1>2, <2>1 DEF Dequeue
<1>3. CASE Commit
  <2> DEFINE e == Head(queue)
  <2>1. e \in Event /\ ~RowMissing(e) /\ Process(e) /\ WriterStep(e)
    BY <1>1, <1>3 DEF Commit
  <2>3. reply' \in Reply
    BY <1>3 DEF Commit, Reply
  <2>4. degraded' = degraded /\ failed' = failed
    BY <1>3 DEF Commit
  <2> HIDE DEF e
  <2>5. /\ rows' \in [Command -> Record]
        /\ chunks' \in [Command -> Seq(Byte)]
        /\ dbGeneration' \in Nat
    BY <2>1, ProcessType
  <2> QED BY <1>1, <2>1, <2>3, <2>4, <2>5 DEF WriterStep, e
<1>4. CASE CommitMissing
  <2>1. Head(queue).id \in Command
    BY <1>1, <1>4, EventFields DEF CommitMissing, RowMissing, LifecycleKinds
  <2> QED BY <1>1, <1>4, <2>1 DEF CommitMissing, WriterStep
<1>5. CASE CommitFault
  BY <1>1, <1>5 DEF CommitFault, WriterStep, Reply
<1> QED BY <1>2, <1>3, <1>4, <1>5 DEF WriterNext

\* Reconciling a row with its chunks touches neither its lifecycle nor its
\* visibility.
LEMMA ReconciledType ==
  ASSUME NEW row \in Record, NEW n \in Nat
  PROVE  /\ Reconciled(row, n) \in Record
         /\ Reconciled(row, n).state = row.state
         /\ Reconciled(row, n).gen = row.gen
<1> DEFINE total == IF n > row.total THEN n ELSE row.total
           truncated == n < total
           new == [row EXCEPT !.total = total, !.stored = n, !.truncated = truncated,
                              !.compl = "incomplete", !.attr = "unknown"]
<1>1. total \in Nat /\ truncated \in BOOLEAN
  BY DEF Record
<1>2. Reconciled(row, n) = new \/ Reconciled(row, n) = row
  BY DEF Reconciled
<1> HIDE DEF total, truncated
<1>3. new \in Record /\ new.state = row.state /\ new.gen = row.gen
  BY <1>1 DEF Record
<1> HIDE DEF new
<1> QED BY <1>2, <1>3

\* Open's reconciliation and recovery keep every type.
LEMMA OpenType ==
  ASSUME TypeOK, Open
  PROVE  StoreTypeOK'
<1>2. ASSUME NEW row \in Record PROVE Recovered(row) \in Record
  BY DEF Recovered, Record
<1>3. \A c \in Command : Recovered(Reconciled(rows[c], Len(chunks[c]))) \in Record
  BY <1>2, ReconciledType, LenProperties DEF TypeOK, StoreTypeOK
<1> QED BY <1>3 DEF Open, TypeOK, StoreTypeOK

\* Every variable of the journal, the store and the tables stays within its
\* type: in particular the rows that recovery and reconciliation rewrite, and the
\* replies of the writer, stay what the journal's readers expect.
THEOREM TypeCorrect == Spec => []TypeOK
<1>1. Init => TypeOK
  <2> SUFFICES ASSUME Init PROVE TypeOK
    OBVIOUS
  <2>1. NoReply \in Reply /\ NoOwner \in Owner
    BY DEF NoReply, Reply, NoOwner, Owner
  <2>2. <<>> \in Seq(Byte) /\ <<>> \in Seq(Event)
    BY EmptySeq
  <2>3. /\ rows \in [Command -> Record] /\ chunks \in [Command -> Seq(Byte)]
        /\ recs \in [Command -> Record] /\ emitted \in [Command -> Seq(Byte)]
    BY <2>2, NoRecordType DEF Init, StoreInit
  <2>4. StoreTypeOK
    <3>1. reply \in Reply /\ queue \in Seq(Event)
      BY <2>1, <2>2 DEF Init, StoreInit
    <3>2. /\ storeState \in {"open", "closed", "down"} /\ failed \subseteq Command
          /\ queueBytes \in Int /\ dbGeneration \in Nat
      BY DEF Init, StoreInit
    <3>3. writing \in BOOLEAN /\ degraded \in BOOLEAN
      BY DEF Init, StoreInit
    <3> QED BY <2>3, <3>1, <3>2, <3>3 DEF StoreTypeOK
  <2> QED BY <2>1, <2>3, <2>4 DEF Init, TypeOK, FreeGate
<1>2. TypeOK /\ [Next]_vars => TypeOK'
  <2> SUFFICES ASSUME TypeOK, [Next]_vars PROVE TypeOK'
    OBVIOUS
  <2>1. CASE UNCHANGED vars
    BY <2>1 DEF vars, storeVars, journalVars, historyVars, TypeOK, StoreTypeOK
  <2>2. CASE JournalNext
    <3>1. ASSUME NEW id \in Command, NEW e \in Epoch, NEW a \in Authorities,
                 CommandAborted(id, e, a)
          PROVE  TypeOK'
      BY <3>1, AbortType DEF CommandAborted
    <3>2. ASSUME NEW e \in Epoch, NEW a \in Authorities, NEW newer \in BOOLEAN,
                 PromptReady(e, a, newer)
          PROVE  TypeOK'
      BY <3>2, AbortType DEF PromptReady
    <3>3. CASE AbortActive
      BY <3>3, AbortType DEF AbortActive
    <3>4. CASE ClearBegin
      BY <3>4, BeginType DEF ClearBegin, JournalKinds
    <3>5. CASE DeleteBegin
      BY <3>5, BeginType DEF DeleteBegin, JournalKinds
    <3> QED BY <2>2, <3>1, <3>2, <3>3, <3>4, <3>5, StartType, FinishType, OutputType,
               MarkType DEF JournalNext
  <2>3. CASE TransactionNext
    BY <2>3, TransactionType
  <2>4. CASE Attach
    BY <2>4 DEF Attach, storeVars, historyVars, TypeOK, StoreTypeOK
  <2>5. CASE Crash
    <3>1. NoReply \in Reply /\ NoOwner \in Owner
      BY DEF NoReply, Reply, NoOwner, Owner
    <3>2. <<>> \in Seq(Event)
      BY EmptySeq
    <3>3. StoreTypeOK'
      <4>1. reply' \in Reply /\ queue' \in Seq(Event)
        BY <2>5, <3>1, <3>2 DEF Crash, StoreCrash
      <4>2. /\ storeState' \in {"open", "closed", "down"} /\ failed' \subseteq Command
            /\ queueBytes' \in Int
            /\ UNCHANGED <<rows, chunks, dbGeneration>>
        BY <2>5 DEF Crash, StoreCrash
      <4>3. writing' \in BOOLEAN /\ degraded' \in BOOLEAN
        BY <2>5 DEF Crash, StoreCrash
      <4> QED BY <4>1, <4>2, <4>3 DEF TypeOK, StoreTypeOK
    <3> QED BY <2>5, <3>1, <3>3, NoRecordType DEF Crash, historyVars, TypeOK, FreeGate
  <2>6. CASE (WriterNext \/ CloseStore \/ Open) /\ UNCHANGED <<journalVars, service, historyVars>>
    <3>1. WriterNext => StoreTypeOK'
      BY WriterType
    <3>2. CloseStore => StoreTypeOK'
      BY DEF CloseStore, TypeOK, StoreTypeOK
    <3>3. Open => StoreTypeOK'
      BY OpenType
    <3>4. StoreTypeOK'
      BY <2>6, <3>1, <3>2, <3>3
    <3> QED BY <2>6, <3>4 DEF journalVars, historyVars, TypeOK
  <2> QED BY <2>1, <2>2, <2>3, <2>4, <2>5, <2>6 DEF Next
<1> QED BY <1>1, <1>2, PTL DEF Spec

-----------------------------------------------------------------------------
(* The byte budget of the FIFO.                                             *)

\* The output bytes of the events from the f-th on, as positions.
Waiting(q, f) == UNION {{i} \X DOMAIN q[i].data : i \in f .. Len(q)}

\* The event the writer has taken is not counted any more.
FirstWaiting == IF writing THEN 2 ELSE 1

BytesInv ==
  /\ writing => queue # <<>>
  /\ IsFiniteSet(Waiting(queue, FirstWaiting))
  /\ QueueBytesAreCounted

\* Events without output.
Bare(events) == events \in Seq(Event) /\ \A k \in DOMAIN events : events[k].data = <<>>

LEMMA BareEvents ==
  /\ Bare(<<>>)
  /\ \A kind \in LifecycleKinds, id \in Command, rec \in Record :
       Bare(<<RecordEvent(kind, id, rec)>>)
  /\ \A kind \in JournalKinds : Bare(<<BlockEvent(kind)>>)
<1>1. Bare(<<>>)
  BY EmptySeq DEF Bare
<1>2. ASSUME NEW e \in Event, e.data = <<>> PROVE Bare(<<e>>)
  BY <1>2 DEF Bare
<1>3. \A kind \in LifecycleKinds, id \in Command, rec \in Record :
        RecordEvent(kind, id, rec) \in Event /\ RecordEvent(kind, id, rec).data = <<>>
  <2>1. \A kind, id, rec : RecordEvent(kind, id, rec).data = <<>>
    BY DEF RecordEvent
  <2> QED BY <2>1, EventTypes
<1>4. \A kind \in JournalKinds : BlockEvent(kind) \in Event /\ BlockEvent(kind).data = <<>>
  BY EventTypes DEF BlockEvent
<1> QED BY <1>1, <1>2, <1>3, <1>4

LEMMA BareConcat ==
  ASSUME NEW s, NEW t, Bare(s), Bare(t)
  PROVE  Bare(s \o t)
<1>1. s \in Seq(Event) /\ t \in Seq(Event)
  BY DEF Bare
<1>2. /\ s \o t \in Seq(Event) /\ DOMAIN (s \o t) = 1 .. Len(s) + Len(t)
      /\ DOMAIN s = 1 .. Len(s) /\ DOMAIN t = 1 .. Len(t) /\ Len(s) \in Nat /\ Len(t) \in Nat
      /\ \A k \in 1 .. Len(s) + Len(t) :
           (s \o t)[k] = IF k <= Len(s) THEN s[k] ELSE t[k - Len(s)]
  BY <1>1, ConcatProperties, LenProperties
<1>3. ASSUME NEW k \in DOMAIN (s \o t) PROVE (s \o t)[k].data = <<>>
  <2>1. CASE k <= Len(s)
    <3>1. k \in DOMAIN s /\ (s \o t)[k] = s[k]
      BY <1>2, <2>1
    <3> QED BY <3>1 DEF Bare
  <2>2. CASE ~(k <= Len(s))
    <3>1. k - Len(s) \in DOMAIN t /\ (s \o t)[k] = t[k - Len(s)]
      BY <1>2, <2>2
    <3> QED BY <3>1 DEF Bare
  <2> QED BY <2>1, <2>2
<1> QED BY <1>2, <1>3 DEF Bare

\* One event's output counts as many bytes as it has.
LEMMA BytesOfEvent ==
  ASSUME NEW i, NEW data \in Seq(Byte)
  PROVE  IsFiniteSet({i} \X DOMAIN data) /\ Cardinality({i} \X DOMAIN data) = Len(data)
<1> DEFINE n == Len(data)
           D == 1 .. n
           I == {i}
<1>1. n \in Nat /\ DOMAIN data = D
  BY LenProperties
<1> HIDE DEF n
<1>2. IsFiniteSet(D) /\ Cardinality(D) = n
  <2>1. IsFiniteSet(1 .. n) /\ Cardinality(1 .. n) = IF 1 > n THEN 0 ELSE n - 1 + 1
    BY <1>1, FS_Interval
  <2> QED BY <1>1, <2>1
<1>3. IsFiniteSet(I) /\ Cardinality(I) = 1
  BY FS_Singleton
<1> HIDE DEF D, I
<1>4. IsFiniteSet(I \X D) /\ Cardinality(I \X D) = 1 * n
  <2>1. IsFiniteSet(I \X D) /\ Cardinality(I \X D) = Cardinality(I) * Cardinality(D)
    BY <1>2, <1>3, FS_Product
  <2> QED BY <1>2, <1>3, <2>1
<1>5. 1 * n = n
  BY <1>1
<1> QED BY <1>1, <1>4, <1>5 DEF I, n

\* A position that is waiting.
LEMMA WaitingMember ==
  ASSUME NEW q, NEW f, NEW p
  PROVE  p \in Waiting(q, f) <=>
           \E i \in f .. Len(q) : \E k \in DOMAIN q[i].data : p = <<i, k>>
BY DEF Waiting

\* Events without output add nothing.
LEMMA WaitingBare ==
  ASSUME NEW q \in Seq(Event), NEW events, Bare(events), NEW f \in Nat \ {0}
  PROVE  Waiting(q \o events, f) = Waiting(q, f)
<1> DEFINE n == Len(q)
           m == Len(events)
           all == q \o events
<1>1. events \in Seq(Event)
  BY DEF Bare
<1>2. /\ Len(all) = n + m /\ n \in Nat /\ m \in Nat /\ DOMAIN events = 1 .. m
      /\ \A i \in 1 .. n + m : all[i] = IF i <= n THEN q[i] ELSE events[i - n]
  BY <1>1, ConcatProperties, LenProperties
<1> HIDE DEF n, m, all
<1>3. ASSUME NEW i \in f .. n + m
      PROVE  /\ i <= n => all[i] = q[i] /\ i \in f .. n
             /\ ~(i <= n) => DOMAIN all[i].data = {}
  <2>1. i \in 1 .. n + m /\ (i <= n => i \in f .. n)
    BY <1>2
  <2>2. CASE ~(i <= n)
    <3>1. i - n \in DOMAIN events /\ all[i] = events[i - n]
      BY <1>2, <2>1, <2>2
    <3>2. all[i].data = <<>>
      BY <3>1 DEF Bare
    <3> QED BY <2>2, <3>2
  <2> QED BY <1>2, <2>1, <2>2
<1>4. f .. n \subseteq f .. n + m /\ \A i \in f .. n : i <= n
  BY <1>2
<1>5. \A p : p \in Waiting(all, f) <=> p \in Waiting(q, f)
  <2> TAKE p
  <2>1. ASSUME NEW i \in f .. n + m, NEW k \in DOMAIN all[i].data, p = <<i, k>>
        PROVE  \E j \in f .. n : \E l \in DOMAIN q[j].data : p = <<j, l>>
    BY <1>3, <2>1
  <2>2. ASSUME NEW i \in f .. n, NEW k \in DOMAIN q[i].data, p = <<i, k>>
        PROVE  \E j \in f .. n + m : \E l \in DOMAIN all[j].data : p = <<j, l>>
    <3>1. i \in f .. n + m /\ all[i] = q[i]
      BY <1>3, <1>4
    <3> QED BY <2>2, <3>1
  <2> QED BY <1>2, <2>1, <2>2, WaitingMember DEF n
<1> QED BY <1>5 DEF all

\* An output event adds as many bytes as it carries.
LEMMA WaitingOutput ==
  ASSUME NEW q \in Seq(Event), NEW e \in Event, NEW f \in Nat \ {0}, f <= Len(q) + 1,
         IsFiniteSet(Waiting(q, f))
  PROVE  /\ IsFiniteSet(Waiting(Append(q, e), f))
         /\ Cardinality(Waiting(Append(q, e), f)) = Cardinality(Waiting(q, f)) + Len(e.data)
<1> DEFINE n == Len(q)
           all == Append(q, e)
           new == {n + 1} \X DOMAIN e.data
<1>1. /\ Len(all) = n + 1 /\ n \in Nat
      /\ \A i \in 1 .. n : all[i] = q[i]
      /\ all[n + 1] = e
  BY AppendProperties, LenProperties
<1>2. IsFiniteSet(new) /\ Cardinality(new) = Len(e.data) /\ Len(e.data) \in Nat
  BY BytesOfEvent, EventFields
<1> HIDE DEF n, all
<1>3. \A i : i \in f .. n + 1 <=> i \in f .. n \/ i = n + 1
  BY <1>1 DEF n
<1>4. \A i \in f .. n : all[i] = q[i] /\ i # n + 1
  BY <1>1
<1>5. \A p : p \in Waiting(all, f) <=> p \in Waiting(q, f) \/ p \in new
  <2> TAKE p
  <2>1. p \in new <=> \E k \in DOMAIN all[n + 1].data : p = <<n + 1, k>>
    BY <1>1
  <2>2. p \in Waiting(all, f) <=>
          \E i \in f .. n + 1 : \E k \in DOMAIN all[i].data : p = <<i, k>>
    BY <1>1, WaitingMember
  <2>3. p \in Waiting(q, f) <=> \E i \in f .. n : \E k \in DOMAIN q[i].data : p = <<i, k>>
    BY WaitingMember DEF n
  <2> QED BY <1>3, <1>4, <2>1, <2>2, <2>3
<1>6. Waiting(all, f) = Waiting(q, f) \cup new
  BY <1>5
<1>7. Waiting(q, f) \cap new = {}
  <2> SUFFICES ASSUME NEW p, p \in Waiting(q, f), p \in new PROVE FALSE
    OBVIOUS
  <2>1. PICK i \in f .. n : \E k \in DOMAIN q[i].data : p = <<i, k>>
    BY WaitingMember DEF n
  <2>2. p[1] = i /\ p[1] = n + 1
    BY <2>1
  <2> QED BY <1>4, <2>2
<1> HIDE DEF new
<1>8. IsFiniteSet(Waiting(q, f) \cup new)
      /\ Cardinality(Waiting(q, f) \cup new) =
           Cardinality(Waiting(q, f)) + Cardinality(new) - Cardinality(Waiting(q, f) \cap new)
  BY <1>2, FS_Union
<1>9. Cardinality({}) = 0 /\ Cardinality(Waiting(q, f)) \in Nat
  BY FS_EmptySet, FS_CardinalityType
<1>10. Cardinality(Waiting(q, f) \cup new) = Cardinality(Waiting(q, f)) + Len(e.data)
  <2>1. Cardinality(Waiting(q, f) \cup new) = Cardinality(Waiting(q, f)) + Len(e.data) - 0
    BY <1>2, <1>7, <1>8, <1>9
  <2> QED BY <1>2, <1>9, <2>1
<1> QED BY <1>6, <1>8, <1>10 DEF all

\* Taking the head leaves the bytes of the others.
LEMMA WaitingHead ==
  ASSUME NEW q \in Seq(Event), q # <<>>, IsFiniteSet(Waiting(q, 1))
  PROVE  /\ IsFiniteSet(Waiting(q, 2))
         /\ Cardinality(Waiting(q, 1)) = Cardinality(Waiting(q, 2)) + Len(q[1].data)
<1> DEFINE n == Len(q)
           head == {1} \X DOMAIN q[1].data
<1>1. n \in Nat /\ n # 0 /\ 1 \in 1 .. n
  BY LenProperties, EmptySeq
<1>2. IsFiniteSet(head) /\ Cardinality(head) = Len(q[1].data) /\ Len(q[1].data) \in Nat
  <2>1. q[1] \in Event
    BY <1>1, ElementOfSeq
  <2> QED BY <2>1, BytesOfEvent, EventFields
<1> HIDE DEF n
<1>3. \A i : i \in 1 .. n <=> i \in 2 .. n \/ i = 1
  BY <1>1
<1>4. \A i \in 2 .. n : i # 1
  BY <1>1
<1>5. \A p : p \in Waiting(q, 1) <=> p \in Waiting(q, 2) \/ p \in head
  <2> TAKE p
  <2>1. p \in head <=> \E k \in DOMAIN q[1].data : p = <<1, k>>
    OBVIOUS
  <2>2. p \in Waiting(q, 1) <=> \E i \in 1 .. n : \E k \in DOMAIN q[i].data : p = <<i, k>>
    BY WaitingMember DEF n
  <2>3. p \in Waiting(q, 2) <=> \E i \in 2 .. n : \E k \in DOMAIN q[i].data : p = <<i, k>>
    BY WaitingMember DEF n
  <2> QED BY <1>3, <2>1, <2>2, <2>3
<1>6. Waiting(q, 1) = Waiting(q, 2) \cup head
  BY <1>5
<1>7. Waiting(q, 2) \cap head = {}
  <2> SUFFICES ASSUME NEW p, p \in Waiting(q, 2), p \in head PROVE FALSE
    OBVIOUS
  <2>1. PICK i \in 2 .. n : \E k \in DOMAIN q[i].data : p = <<i, k>>
    BY WaitingMember DEF n
  <2>2. p[1] = i /\ p[1] = 1
    BY <2>1
  <2> QED BY <1>4, <2>2
<1> HIDE DEF head
<1>8. IsFiniteSet(Waiting(q, 2))
  BY <1>6, FS_Subset
<1>9. Cardinality(Waiting(q, 2) \cup head) =
        Cardinality(Waiting(q, 2)) + Cardinality(head) - Cardinality(Waiting(q, 2) \cap head)
  BY <1>2, <1>8, FS_Union
<1>10. Cardinality({}) = 0 /\ Cardinality(Waiting(q, 2)) \in Nat
  BY <1>8, FS_EmptySet, FS_CardinalityType
<1>11. Cardinality(Waiting(q, 2) \cup head) = Cardinality(Waiting(q, 2)) + Len(q[1].data)
  <2>1. Cardinality(Waiting(q, 2) \cup head) =
          Cardinality(Waiting(q, 2)) + Len(q[1].data) - 0
    BY <1>2, <1>7, <1>9, <1>10
  <2> QED BY <1>2, <1>10, <2>1
<1> QED BY <1>6, <1>8, <1>11

\* The others move up when the head is gone.
LEMMA WaitingTail ==
  ASSUME NEW q \in Seq(Event), q # <<>>, IsFiniteSet(Waiting(q, 2))
  PROVE  /\ IsFiniteSet(Waiting(Tail(q), 1))
         /\ Cardinality(Waiting(Tail(q), 1)) = Cardinality(Waiting(q, 2))
<1> DEFINE n == Len(q)
           S == Waiting(q, 2)
           T == Waiting(Tail(q), 1)
           up == [p \in S |-> <<p[1] - 1, p[2]>>]
<1>1. /\ n \in Nat /\ n # 0 /\ Len(Tail(q)) = n - 1
      /\ \A i \in 1 .. n - 1 : Tail(q)[i] = q[i + 1]
  BY HeadTailProperties, LenProperties, EmptySeq
<1>2. \A p : p \in S <=> \E i \in 2 .. n : \E k \in DOMAIN q[i].data : p = <<i, k>>
  BY WaitingMember
<1>3. \A p : p \in T <=>
        \E i \in 1 .. n - 1 : \E k \in DOMAIN Tail(q)[i].data : p = <<i, k>>
  <2> DEFINE rest == Tail(q)
  <2>1. Len(rest) = n - 1
    BY <1>1
  <2> HIDE DEF rest
  <2>2. \A p : p \in Waiting(rest, 1) <=>
          \E i \in 1 .. Len(rest) : \E k \in DOMAIN rest[i].data : p = <<i, k>>
    BY WaitingMember
  <2> QED BY <2>1, <2>2 DEF rest
<1> HIDE DEF n, S, T
<1>4. ASSUME NEW p \in S
      PROVE  up[p] \in T /\ p = <<up[p][1] + 1, up[p][2]>>
  <2>1. PICK i \in 2 .. n : \E k \in DOMAIN q[i].data : p = <<i, k>>
    BY <1>2
  <2>2. PICK k \in DOMAIN q[i].data : p = <<i, k>>
    BY <2>1
  <2>3. i - 1 \in 1 .. n - 1 /\ i - 1 + 1 = i
    BY <1>1
  <2>4. up[p] = <<i - 1, k>>
    BY <2>2
  <2>5. k \in DOMAIN Tail(q)[i - 1].data
    BY <1>1, <2>2, <2>3
  <2>6. up[p] \in T
    BY <1>3, <2>3, <2>4, <2>5
  <2> QED BY <2>2, <2>3, <2>4, <2>6
<1>5. ASSUME NEW t \in T
      PROVE  \E p \in S : up[p] = t
  <2>1. PICK i \in 1 .. n - 1 : \E k \in DOMAIN Tail(q)[i].data : t = <<i, k>>
    BY <1>3
  <2>2. PICK k \in DOMAIN Tail(q)[i].data : t = <<i, k>>
    BY <2>1
  <2>3. i + 1 \in 2 .. n /\ i + 1 - 1 = i /\ Tail(q)[i] = q[i + 1]
    BY <1>1
  <2> DEFINE p == <<i + 1, k>>
  <2>4. p \in S /\ p[1] = i + 1 /\ p[2] = k
    BY <1>2, <2>2, <2>3
  <2>5. up[p] = <<p[1] - 1, p[2]>>
    BY <2>4
  <2>6. up[p] = t
    BY <2>2, <2>3, <2>4, <2>5
  <2> QED BY <2>4, <2>6
<1> HIDE DEF up
<1>6. up \in [S -> T]
  <2>1. up = [p \in S |-> up[p]]
    BY DEF up
  <2> QED BY <1>4, <2>1
<1>7. up \in Bijection(S, T)
  <2>1. ASSUME NEW a \in S, NEW b \in S, up[a] = up[b] PROVE a = b
    <3>1. a = <<up[a][1] + 1, up[a][2]>> /\ b = <<up[b][1] + 1, up[b][2]>>
      BY <1>4
    <3> QED BY <2>1, <3>1
  <2>2. up \in Injection(S, T)
    BY <1>6, <2>1 DEF Injection, IsInjective
  <2>3. up \in Surjection(S, T)
    BY <1>5, <1>6 DEF Surjection
  <2> QED BY <2>2, <2>3 DEF Bijection
<1>8. IsFiniteSet(T) /\ Cardinality(T) = Cardinality(S)
  BY <1>7, FS_Bijection DEF ExistsBijection, S
<1> QED BY <1>8 DEF S, T

\* A producer that brings no output leaves the count as it is.
LEMMA BareKeepsBytes ==
  ASSUME TypeOK, BytesInv, NEW events, Bare(events), Enqueue(events),
         UNCHANGED <<writing, queueBytes>>
  PROVE  BytesInv'
<1>1. queue \in Seq(Event) /\ FirstWaiting \in Nat \ {0} /\ FirstWaiting' = FirstWaiting
  BY DEF TypeOK, StoreTypeOK, FirstWaiting
<1>2. queue' = queue \/ queue' = queue \o events
  BY DEF Enqueue
<1>3. Waiting(queue', FirstWaiting) = Waiting(queue, FirstWaiting)
  <2> HIDE DEF FirstWaiting
  <2>1. Waiting(queue \o events, FirstWaiting) = Waiting(queue, FirstWaiting)
    BY <1>1, WaitingBare
  <2> QED BY <1>2, <2>1
<1>4. writing => queue' # <<>>
  <2>1. events \in Seq(Event)
    BY DEF Bare
  <2>2. Len(queue \o events) = Len(queue) + Len(events) /\ Len(queue) \in Nat
        /\ Len(events) \in Nat
    BY <1>1, <2>1, ConcatProperties, LenProperties
  <2>3. queue # <<>> => Len(queue) # 0
    BY <1>1, EmptySeq
  <2>4. queue # <<>> => queue \o events # <<>>
    BY <2>2, <2>3
  <2> QED BY <1>2, <2>4 DEF BytesInv
<1>5. BytesInv
  OBVIOUS
<1> HIDE DEF FirstWaiting
<1>6. Waiting(queue, FirstWaiting)' = Waiting(queue, FirstWaiting)
  BY <1>1, <1>3 DEF Waiting
<1> QED BY <1>1, <1>4, <1>5, <1>6 DEF BytesInv, QueueBytesAreCounted, Waiting, FirstWaiting

\* StreamOutputSegment counts what AppendOutput puts into the FIFO.
LEMMA OutputKeepsBytes ==
  ASSUME TypeOK, BytesInv, NEW id \in Command, NEW data \in Seq(Byte), AppendOutput(id, data),
         UNCHANGED writing
  PROVE  BytesInv'
<1> DEFINE e == OutputEvent(id, data)
           all == Append(queue, e)
           f == FirstWaiting
<1>1. /\ queue \in Seq(Event) /\ f \in Nat \ {0} /\ f' = f /\ queueBytes \in Int
      /\ e \in Event /\ e.data = data /\ Len(data) \in Nat
  BY EventTypes, LenProperties DEF TypeOK, StoreTypeOK, FirstWaiting, OutputEvent
<1>2. CASE AppendRefused(data)
  BY <1>2 DEF AppendOutput, BytesInv, QueueBytesAreCounted, Waiting, FirstWaiting
<1>3. CASE ~AppendRefused(data)
  <2>1. queue' = all /\ queueBytes' = queueBytes + Len(data)
    BY <1>3 DEF AppendOutput
  <2>2. queueBytes + Len(data) <= MaxQueueBytes
    BY <1>1, <1>3, StoreAssumption DEF AppendRefused
  <2>3. f <= Len(queue) + 1
    <3>1. Len(queue) \in Nat /\ (queue # <<>> => Len(queue) # 0)
      BY <1>1, LenProperties, EmptySeq
    <3> QED BY <3>1 DEF BytesInv, FirstWaiting
  <2>4. IsFiniteSet(Waiting(queue, f)) /\ queueBytes = Cardinality(Waiting(queue, f))
    BY DEF BytesInv, QueueBytesAreCounted, Waiting, FirstWaiting
  <2>5. all # <<>>
    <3>1. Len(all) = Len(queue) + 1 /\ Len(queue) \in Nat
      BY <1>1, AppendProperties, LenProperties
    <3> QED BY <3>1
  <2> HIDE DEF e, all, f
  <2>6. IsFiniteSet(Waiting(all, f)) /\ Cardinality(Waiting(all, f)) = queueBytes + Len(data)
    BY <1>1, <2>3, <2>4, WaitingOutput DEF all
  <2>7. IsFiniteSet(Waiting(queue, f)') /\ Cardinality(Waiting(queue, f)') = queueBytes'
    BY <1>1, <2>1, <2>6 DEF Waiting
  <2>8. queueBytes' <= MaxQueueBytes /\ queue' # <<>>
    BY <2>1, <2>2, <2>5
  <2> QED BY <2>7, <2>8 DEF BytesInv, QueueBytesAreCounted, Waiting, FirstWaiting, f
<1> QED BY <1>2, <1>3

\* Dequeue subtracts what the head carries, the commit takes the head away.
LEMMA WriterKeepsBytes ==
  ASSUME TypeOK, BytesInv, WriterNext
  PROVE  BytesInv'
<1>1. queue \in Seq(Event) /\ queue # <<>> /\ queueBytes \in Int
  BY DEF TypeOK, StoreTypeOK, WriterNext, Dequeue, Commit, CommitMissing, CommitFault
<1>2. CASE Dequeue
  <2>1. /\ ~writing /\ writing' /\ queue' = queue
        /\ queueBytes' = queueBytes - Len(queue[1].data)
    BY <1>1, <1>2 DEF Dequeue
  <2>2. IsFiniteSet(Waiting(queue, 1)) /\ queueBytes = Cardinality(Waiting(queue, 1))
        /\ queueBytes <= MaxQueueBytes
    BY <2>1 DEF BytesInv, QueueBytesAreCounted, Waiting, FirstWaiting
  <2>3. /\ IsFiniteSet(Waiting(queue, 2)) /\ Len(queue[1].data) \in Nat
        /\ queueBytes = Cardinality(Waiting(queue, 2)) + Len(queue[1].data)
    <3>1. queue[1] \in Event
      BY <1>1, ElementOfSeq, LenProperties, EmptySeq
    <3> QED BY <1>1, <2>2, <3>1, WaitingHead, EventFields
  <2>4. Cardinality(Waiting(queue, 2)) \in Nat
    BY <2>3, FS_CardinalityType
  <2>5. queueBytes' = Cardinality(Waiting(queue, 2)) /\ queueBytes' <= MaxQueueBytes
    <3> DEFINE rest == Cardinality(Waiting(queue, 2))
               head == Len(queue[1].data)
    <3>1. /\ rest \in Nat /\ head \in Nat /\ MaxQueueBytes \in Nat
          /\ queueBytes = rest + head /\ queueBytes' = queueBytes - head
          /\ queueBytes <= MaxQueueBytes
      BY <2>1, <2>2, <2>3, <2>4, StoreAssumption
    <3> HIDE DEF rest, head
    <3>2. queueBytes' = rest /\ queueBytes' <= MaxQueueBytes
      BY <3>1
    <3> QED BY <3>2 DEF rest
  <2> QED BY <1>1, <2>1, <2>3, <2>5 DEF BytesInv, QueueBytesAreCounted, Waiting, FirstWaiting
<1>3. ASSUME WriterStep(Head(queue)) PROVE BytesInv'
  <2>1. writing /\ ~writing' /\ queue' = Tail(queue) /\ queueBytes' = queueBytes
    BY <1>3 DEF WriterStep, TypeOK, StoreTypeOK
  <2>2. IsFiniteSet(Waiting(queue, 2)) /\ queueBytes = Cardinality(Waiting(queue, 2))
        /\ queueBytes <= MaxQueueBytes
    BY <2>1 DEF BytesInv, QueueBytesAreCounted, Waiting, FirstWaiting
  <2>3. IsFiniteSet(Waiting(queue', 1)) /\ queueBytes = Cardinality(Waiting(queue', 1))
    BY <1>1, <2>1, <2>2, WaitingTail
  <2> QED BY <2>1, <2>2, <2>3 DEF BytesInv, QueueBytesAreCounted, Waiting, FirstWaiting
<1> QED BY <1>2, <1>3 DEF WriterNext, Commit, CommitMissing, CommitFault

\* Finalizing and aborting send events without output.
LEMMA AbortKeepsBytes ==
  ASSUME TypeOK, BytesInv, NEW matches \in BOOLEAN, matches => active # NoCommand,
         AbortActiveLocked(matches)
  PROVE  BytesInv'
<1> DEFINE first == FinalizeEvents
           second == IF matches
                       THEN <<RecordEvent("aborted", active, AbortedRecord(recs[active]))>>
                       ELSE <<>>
           events == first \o second
<1>1. Bare(first)
  BY RecordUpdates, BareEvents
     DEF FinalizeEvents, HasPending, TypeOK, LifecycleKinds
<1>2. Bare(second)
  BY RecordUpdates, BareEvents DEF TypeOK, LifecycleKinds
<1>3. Enqueue(events) /\ UNCHANGED <<writing, queueBytes>>
  BY DEF AbortActiveLocked, OnlyQueue
<1> HIDE DEF first, second
<1>4. Bare(events)
  BY <1>1, <1>2, BareConcat
<1> HIDE DEF events
<1> QED BY <1>3, <1>4, BareKeepsBytes

\* So do starting and finishing a command, and marking its output.
LEMMA StartKeepsBytes ==
  ASSUME TypeOK, BytesInv, NEW id \in Command, NEW e \in Epoch, NEW claim \in StartClaims,
         CommandStarted(id, e, claim)
  PROVE  BytesInv'
<1> DEFINE first == FinalizeEvents
           second == <<RecordEvent("started", id, StartedRecord(claim))>>
           events == IF AllowsOutputSource(claim.auth, claim.src) THEN first \o second
                     ELSE first
<1>1. Bare(first)
  BY RecordUpdates, BareEvents
     DEF FinalizeEvents, HasPending, TypeOK, LifecycleKinds
<1>2. Bare(second)
  BY StartedRecordType, BareEvents DEF LifecycleKinds
<1>3. Enqueue(events) /\ UNCHANGED <<writing, queueBytes>>
  BY DEF CommandStarted, OnlyQueue
<1> HIDE DEF first, second
<1>4. Bare(events)
  BY <1>1, <1>2, BareConcat
<1> HIDE DEF events
<1> QED BY <1>3, <1>4, BareKeepsBytes

LEMMA FinishKeepsBytes ==
  ASSUME TypeOK, BytesInv, NEW id \in Command, NEW e \in Epoch, NEW a \in Authorities,
         NEW i \in BOOLEAN, CommandFinished(id, e, a, i)
  PROVE  BytesInv'
<1> DEFINE rec == FinishedRecord(recs[active], i)
           first == <<RecordEvent("finished", active, rec)>>
           second == IF rec.ostate = "closed"
                       THEN <<RecordEvent("finalized", active, rec)>> ELSE <<>>
           events == first \o second
<1>1. active \in Command /\ rec \in Record
  BY RecordUpdates DEF CommandFinished, TypeOK
<1>2. Enqueue(events) /\ UNCHANGED <<writing, queueBytes>>
  BY DEF CommandFinished, OnlyQueue
<1> HIDE DEF rec
<1>3. Bare(first) /\ Bare(second)
  BY <1>1, BareEvents DEF LifecycleKinds
<1> HIDE DEF first, second
<1>4. Bare(events)
  BY <1>3, BareConcat
<1> HIDE DEF events
<1> QED BY <1>2, <1>4, BareKeepsBytes

LEMMA MarkKeepsBytes ==
  ASSUME TypeOK, BytesInv, MarkOutputIncomplete
  PROVE  BytesInv'
<1> DEFINE id == IF active # NoCommand THEN active ELSE pending
           rec == [recs[id] EXCEPT !.compl = "incomplete", !.attr = "unknown",
                                   !.safety = "unknown"]
           events == IF active = NoCommand
                       THEN <<RecordEvent("finalized", id, rec)>> ELSE <<>>
<1>1. id \in Command /\ recs[id] \in Record
  BY DEF MarkOutputIncomplete, HasPending, TypeOK
<1>2. Enqueue(events) /\ UNCHANGED <<writing, queueBytes>>
  BY DEF MarkOutputIncomplete, OnlyQueue
<1> HIDE DEF id
<1>3. rec \in Record
  BY <1>1 DEF Record
<1> HIDE DEF rec
<1>4. Bare(events)
  BY <1>1, <1>3, BareEvents DEF LifecycleKinds
<1> HIDE DEF events
<1> QED BY <1>2, <1>4, BareKeepsBytes

\* So do Clear and Delete.
LEMMA BeginKeepsBytes ==
  ASSUME TypeOK, BytesInv, NEW op, NEW kind \in JournalKinds, BeginTransaction(op, kind)
  PROVE  BytesInv'
<1> DEFINE events == <<BlockEvent(kind)>>
<1>1. Bare(events) /\ Enqueue(events) /\ UNCHANGED <<writing, queueBytes>>
  BY BareEvents DEF BeginTransaction, OnlyQueue
<1> HIDE DEF events
<1> QED BY <1>1, BareKeepsBytes

\* An empty FIFO holds no bytes.
LEMMA NothingWaiting ==
  /\ IsFiniteSet(Waiting(<<>>, 1)) /\ Cardinality(Waiting(<<>>, 1)) = 0
  /\ 0 <= MaxQueueBytes
<1>1. Len(<<>>) = 0 /\ 1 .. 0 = {}
  OBVIOUS
<1>2. Waiting(<<>>, 1) = {}
  BY <1>1 DEF Waiting
<1> QED BY <1>2, FS_EmptySet, StoreAssumption

\* The counter of the FIFO never drifts from what is waiting in it, and never
\* passes the limit: output is refused exactly when the limit would be passed,
\* after any number of drains, crashes and failed transactions.
THEOREM BytesCounted == Spec => []QueueBytesAreCounted
<1>1. Init => BytesInv
  <2> SUFFICES ASSUME Init PROVE BytesInv
    OBVIOUS
  <2>1. queue = <<>> /\ ~writing /\ queueBytes = 0
    BY DEF Init, StoreInit
  <2>2. FirstWaiting = 1
    BY <2>1 DEF FirstWaiting
  <2>3. IsFiniteSet(Waiting(queue, FirstWaiting))
    BY <2>1, <2>2, NothingWaiting
  <2>4. queueBytes = Cardinality(Waiting(queue, FirstWaiting)) /\ queueBytes <= MaxQueueBytes
    BY <2>1, <2>2, NothingWaiting
  <2> QED BY <2>1, <2>3, <2>4 DEF BytesInv, QueueBytesAreCounted, Waiting, FirstWaiting
<1>2. TypeOK /\ BytesInv /\ [Next]_vars => BytesInv'
  <2> SUFFICES ASSUME TypeOK, BytesInv, [Next]_vars PROVE BytesInv'
    OBVIOUS
  <2>0. ASSUME UNCHANGED <<queue, writing, queueBytes>> PROVE BytesInv'
    BY <2>0 DEF BytesInv, QueueBytesAreCounted, Waiting, FirstWaiting
  <2>1. CASE JournalNext
    <3>1. ASSUME NEW id \in Command, NEW e \in Epoch, NEW a \in Authorities,
                 CommandAborted(id, e, a)
          PROVE  BytesInv'
      BY <3>1, AbortKeepsBytes DEF CommandAborted
    <3>2. ASSUME NEW e \in Epoch, NEW a \in Authorities, NEW newer \in BOOLEAN,
                 PromptReady(e, a, newer)
          PROVE  BytesInv'
      BY <3>2, AbortKeepsBytes DEF PromptReady
    <3>3. CASE AbortActive
      BY <3>3, AbortKeepsBytes DEF AbortActive
    <3>4. ASSUME NEW data \in Segments, NEW src \in Sources, OutputSegment(data, src)
          PROVE  BytesInv'
      <4>1. data \in Seq(Byte) /\ OutputTarget(src) \in Command
        BY <3>4, JournalAssumption DEF OutputSegment, OutputTarget, HasPending, TypeOK
      <4>2. AppendOutput(OutputTarget(src), data) /\ writing' = writing
        BY <3>4 DEF OutputSegment
      <4> QED BY <4>1, <4>2, OutputKeepsBytes
    <3>5. CASE ClearBegin
      BY <3>5, BeginKeepsBytes DEF ClearBegin, JournalKinds
    <3>6. CASE DeleteBegin
      BY <3>6, BeginKeepsBytes DEF DeleteBegin, JournalKinds
    <3> QED BY <2>1, <3>1, <3>2, <3>3, <3>4, <3>5, <3>6, StartKeepsBytes, FinishKeepsBytes,
               MarkKeepsBytes DEF JournalNext
  <2>2. CASE TransactionNext
    BY <2>0, <2>2 DEF TransactionNext, ClearCommit, DeleteCommit, TransactionFailed,
                      TransactionDone
  <2>3. CASE Attach \/ CloseStore \/ Open \/ UNCHANGED vars
    BY <2>0, <2>3 DEF Attach, CloseStore, Open, vars, storeVars
  <2>4. CASE Crash
    <3>1. queue' = <<>> /\ ~writing' /\ queueBytes' = 0
      BY <2>4 DEF Crash, StoreCrash
    <3>2. FirstWaiting' = 1
      BY <3>1 DEF FirstWaiting
    <3>3. IsFiniteSet(Waiting(queue', FirstWaiting'))
      BY <3>1, <3>2, NothingWaiting
    <3>4. /\ queueBytes' = Cardinality(Waiting(queue', FirstWaiting'))
          /\ queueBytes' <= MaxQueueBytes
      BY <3>1, <3>2, NothingWaiting
    <3> QED BY <3>1, <3>3, <3>4 DEF BytesInv, QueueBytesAreCounted, Waiting, FirstWaiting
  <2>5. CASE WriterNext
    BY <2>5, WriterKeepsBytes
  <2> QED BY <2>1, <2>2, <2>3, <2>4, <2>5 DEF Next
<1>3. BytesInv => QueueBytesAreCounted
  BY DEF BytesInv
<1> QED BY <1>1, <1>2, <1>3, TypeCorrect, PTL DEF Spec

-----------------------------------------------------------------------------
(***************************************************************************)
(* Why the visible history is right: an inductive invariant about the      *)
(* generations that memory, FIFO and tables carry, and about what a queued *)
(* event may still do to its row.  From it: a running row is always        *)
(* visible, and what Clear or Delete hid is never shown again.             *)
(***************************************************************************)

Ends == {"finished", "aborted"}

\* A queued event fits the tables and the memory it will meet.
Fits(e) ==
  /\ e.kind \notin DirectKinds
  /\ e.kind \in LifecycleKinds => e.id \in used
  /\ e.kind \in Ends \cup {"started"} => e.rec.gen = dbGeneration
  /\ e.kind = "started" => e.rec.state = "running" /\ rows[e.id].state = "absent"
  /\ e.kind \in Ends => /\ e.rec.state \in Ends
                        /\ rows[e.id].state \in {"absent", "running"}
                        /\ e.id # active

\* Both events start a command, or both end one.
SameStep(e, f) ==
  \/ e.kind = "started" /\ f.kind = "started"
  \/ e.kind \in Ends /\ f.kind \in Ends

\* What waits in the FIFO: each command starts once and ends once, and a
\* visibility transaction is the last event, with its caller holding the gate.
QueueInv ==
  /\ \A i \in DOMAIN queue : Fits(queue[i])
  /\ \A i, j \in DOMAIN queue :
       i # j /\ SameStep(queue[i], queue[j]) => queue[i].id # queue[j].id
  /\ \A i \in DOMAIN queue : queue[i].kind \in JournalKinds =>
       i = Len(queue) /\ gate # FreeGate /\ reply.status = "none"

\* The journal's generation is that of the tables, except between the commit of
\* a transaction and its caller's resumption, and then the FIFO is empty.
GenerationInv ==
  /\ gate = FreeGate => reply.status = "none"
  /\ reply.status = "ok" => /\ queue = <<>>
                            /\ reply.gen = dbGeneration
                            /\ dbGeneration = generation + 1
  /\ attached /\ reply.status # "ok" => generation = dbGeneration
  /\ active # NoCommand => recs[active].gen = generation

\* The rows and the ids in memory come from commands that were started, and a
\* journal that is not attached does nothing.
LifecycleInv ==
  /\ completed \subseteq used
  /\ active # NoCommand => active \in used /\ rows[active].state \in {"absent", "running"}
  /\ \A c \in Command : rows[c].state # "absent" => c \in used
  /\ ~attached => queue = <<>> /\ active = NoCommand /\ gate = FreeGate
  /\ storeState = "down" => ~attached
  /\ service = "idle"

VisibilityInv == QueueInv /\ GenerationInv /\ LifecycleInv /\ RunningRowsAreVisible

-----------------------------------------------------------------------------
(* The steps of the journal's producers.                                    *)

\* An event a producer may add: output, the closing of an old command's output,
\* the start of a fresh command, or the end of the active one.
NewEvent(e) ==
  \/ e.kind = "output"
  \/ e.kind = "finalized" /\ e.id \in used'
  \/ /\ e.kind = "started"
     /\ e.id \in used' \ used
     /\ e.rec.state = "running"
     /\ e.rec.gen = generation
     /\ e.id = active'
  \/ /\ e.kind \in Ends
     /\ e.id = active
     /\ active # NoCommand
     /\ e.rec.state \in Ends
     /\ e.rec.gen = generation
     /\ active' = NoCommand

\* Fits(e) in the next state, for an event of the next state's FIFO.
FitsNext(e) ==
  /\ e.kind \notin DirectKinds
  /\ e.kind \in LifecycleKinds => e.id \in used'
  /\ e.kind \in Ends \cup {"started"} => e.rec.gen = dbGeneration'
  /\ e.kind = "started" => e.rec.state = "running" /\ rows'[e.id].state = "absent"
  /\ e.kind \in Ends => /\ e.rec.state \in Ends
                        /\ rows'[e.id].state \in {"absent", "running"}
                        /\ e.id # active'

\* What a producer does to the rest of the state that VisibilityInv reads.
ProducerStep ==
  /\ Ready
  /\ UNCHANGED <<storeState, reply, rows, dbGeneration, attached, generation, gate, service>>
  /\ used \subseteq used'
  /\ completed' \subseteq used'
  /\ \/ active' = active /\ (active # NoCommand => recs'[active].gen = recs[active].gen)
     \/ active' = NoCommand
     \/ active' \in Command /\ active' \in used' \ used /\ recs'[active'].gen = generation

\* The elements of the FIFO after an append.
LEMMA AppendedEvents ==
  ASSUME TypeOK, NEW events \in Seq(Event), queue' = queue \o events,
         NEW i \in DOMAIN queue'
  PROVE  \/ i \in DOMAIN queue /\ queue'[i] = queue[i]
         \/ \E k \in DOMAIN events : k = i - Len(queue) /\ queue'[i] = events[k]
<1>1. queue \in Seq(Event)
  BY DEF TypeOK, StoreTypeOK
<1>2. /\ queue' \in Seq(Event)
      /\ Len(queue') = Len(queue) + Len(events)
      /\ \A j \in 1 .. Len(queue) + Len(events) :
           queue'[j] = IF j <= Len(queue) THEN queue[j] ELSE events[j - Len(queue)]
  BY <1>1, ConcatProperties
<1>3. /\ DOMAIN queue' = 1 .. Len(queue) + Len(events)
      /\ DOMAIN queue = 1 .. Len(queue)
      /\ DOMAIN events = 1 .. Len(events)
      /\ Len(queue) \in Nat /\ Len(events) \in Nat
  BY <1>1, <1>2, LenProperties
<1> QED BY <1>2, <1>3

\* A producer's step preserves the invariant.
LEMMA ProducerPreserves ==
  ASSUME TypeOK, VisibilityInv, ProducerStep,
         NEW events \in Seq(Event), queue' \in {queue, queue \o events},
         \A k \in DOMAIN events : NewEvent(events[k]),
         \A j, k \in DOMAIN events :
           j # k => events[j].kind = "finalized" \/ events[k].kind = "finalized"
  PROVE  VisibilityInv'
<1>1. /\ gate = FreeGate /\ reply.status = "none" /\ attached
      /\ generation = dbGeneration
  BY DEF ProducerStep, Ready, VisibilityInv, GenerationInv
<1>2. ASSUME NEW e \in Event, Fits(e) PROVE FitsNext(e)
  <2>1. e.kind \in Ends => e.id # active'
    BY <1>2, EventFields, StoreAssumption DEF Fits, ProducerStep, LifecycleKinds, Ends
  <2> QED BY <1>2, <2>1 DEF Fits, FitsNext, ProducerStep
<1>3. ASSUME NEW e \in Event, NewEvent(e) PROVE FitsNext(e)
  <2>1. e.kind = "started" => rows[e.id].state = "absent"
    BY <1>3, EventFields DEF NewEvent, VisibilityInv, LifecycleInv, LifecycleKinds, Ends
  <2>2. e.kind \in Ends => e.id \in used' /\ rows[e.id].state \in {"absent", "running"}
    BY <1>3 DEF NewEvent, VisibilityInv, LifecycleInv, ProducerStep, Ends
  <2> QED BY <1>1, <1>3, <2>1, <2>2
          DEF FitsNext, NewEvent, ProducerStep, Ends, LifecycleKinds, DirectKinds
<1>4. ASSUME NEW e \in Event, NEW f \in Event, Fits(e), NewEvent(f), SameStep(e, f)
      PROVE  e.id # f.id
  BY <1>4 DEF Fits, NewEvent, SameStep, Ends, LifecycleKinds
<1>5. QueueInv'
  <2>1. CASE queue' = queue
    <3>1. \A i \in DOMAIN queue : queue[i] \in Event
      BY ElementOfSeq, LenProperties DEF TypeOK, StoreTypeOK
    <3> QED BY <1>2, <2>1, <3>1 DEF Fits, FitsNext, QueueInv, VisibilityInv, ProducerStep, SameStep
  <2>2. CASE queue' = queue \o events
    <3>1. /\ \A i \in DOMAIN queue : queue[i] \in Event /\ Fits(queue[i])
          /\ \A k \in DOMAIN events : events[k] \in Event /\ NewEvent(events[k])
      BY ElementOfSeq, LenProperties DEF TypeOK, StoreTypeOK, VisibilityInv, QueueInv
    <3>2. \A i \in DOMAIN queue' : FitsNext(queue'[i])
      BY <1>2, <1>3, <2>2, <3>1, AppendedEvents
    <3>3. ASSUME NEW i \in DOMAIN queue', NEW j \in DOMAIN queue', i # j,
                 SameStep(queue'[i], queue'[j])
          PROVE  queue'[i].id # queue'[j].id
      <4>1. CASE i \in DOMAIN queue /\ queue'[i] = queue[i]
        <5>1. CASE j \in DOMAIN queue /\ queue'[j] = queue[j]
          BY <3>3, <4>1, <5>1 DEF VisibilityInv, QueueInv
        <5>2. CASE \E k \in DOMAIN events : k = j - Len(queue) /\ queue'[j] = events[k]
          BY <1>4, <3>1, <3>3, <4>1, <5>2
        <5> QED BY <2>2, <5>1, <5>2, AppendedEvents
      <4>2. CASE \E k \in DOMAIN events : k = i - Len(queue) /\ queue'[i] = events[k]
        <5>1. CASE j \in DOMAIN queue /\ queue'[j] = queue[j]
          <6>1. SameStep(queue'[j], queue'[i])
            BY <3>3 DEF SameStep
          <6> QED BY <1>4, <3>1, <4>2, <5>1, <6>1
        <5>2. CASE \E k \in DOMAIN events : k = j - Len(queue) /\ queue'[j] = events[k]
          <6>1. PICK k \in DOMAIN events : k = i - Len(queue) /\ queue'[i] = events[k]
            BY <4>2
          <6>2. PICK l \in DOMAIN events : l = j - Len(queue) /\ queue'[j] = events[l]
            BY <5>2
          <6>3. k # l
            <7>1. queue' \in Seq(Event) /\ queue \in Seq(Event)
              BY <2>2, ConcatProperties DEF TypeOK, StoreTypeOK
            <7>2. i \in Int /\ j \in Int /\ Len(queue) \in Int
              BY <7>1, LenProperties
            <7> QED BY <3>3, <6>1, <6>2, <7>2
          <6> QED BY <3>3, <6>1, <6>2, <6>3 DEF SameStep, Ends
        <5> QED BY <2>2, <5>1, <5>2, AppendedEvents
      <4> QED BY <2>2, <4>1, <4>2, AppendedEvents
    <3>4. \A i \in DOMAIN queue' : queue'[i].kind \notin JournalKinds
      <4>1. \A i \in DOMAIN queue : queue[i].kind \notin JournalKinds
        BY <1>1 DEF VisibilityInv, QueueInv
      <4>2. \A k \in DOMAIN events : events[k].kind \notin JournalKinds
        BY <3>1 DEF NewEvent, Ends, JournalKinds
      <4> QED BY <2>2, <4>1, <4>2, AppendedEvents
    <3> QED BY <3>2, <3>3, <3>4 DEF QueueInv, Fits, FitsNext, SameStep
  <2> QED BY <2>1, <2>2
<1>6. GenerationInv'
  BY <1>1 DEF GenerationInv, VisibilityInv, ProducerStep
<1>7. LifecycleInv'
  BY <1>1 DEF LifecycleInv, VisibilityInv, ProducerStep
<1>8. RunningRowsAreVisible'
  BY DEF VisibilityInv, RunningRowsAreVisible, ProducerStep
<1> QED BY <1>5, <1>6, <1>7, <1>8 DEF VisibilityInv

\* What finalizing the pending record adds to the FIFO.
LEMMA FinalizeNew ==
  ASSUME TypeOK, VisibilityInv, used \subseteq used'
  PROVE  /\ FinalizeEvents \in Seq(Event)
         /\ \A k \in DOMAIN FinalizeEvents :
              NewEvent(FinalizeEvents[k]) /\ FinalizeEvents[k].kind = "finalized"
         /\ \A c \in Command : FinalizedRecs[c].gen = recs[c].gen
<1>1. FinalizeEvents \in Seq(Event)
  BY FinalizeTypes
<1>2. HasPending => /\ DOMAIN FinalizeEvents = {1}
                    /\ FinalizeEvents[1].kind = "finalized"
                    /\ FinalizeEvents[1].id \in used'
  BY DEF HasPending, FinalizeEvents, RecordEvent, VisibilityInv, LifecycleInv
<1>3. ~HasPending => DOMAIN FinalizeEvents = {}
  BY DEF FinalizeEvents
<1>4. \A k \in DOMAIN FinalizeEvents :
        NewEvent(FinalizeEvents[k]) /\ FinalizeEvents[k].kind = "finalized"
  BY <1>2, <1>3 DEF NewEvent
<1>5. ASSUME NEW rec \in Record PROVE Finalized(rec).gen = rec.gen
  BY DEF Finalized, Record
<1>6. \A c \in Command : FinalizedRecs[c].gen = recs[c].gen
  BY <1>5 DEF FinalizedRecs, TypeOK
<1> QED BY <1>1, <1>4, <1>6

\* A closing of the pending record, followed by at most one other event.
LEMMA FinalizeThen ==
  ASSUME TypeOK, VisibilityInv, ProducerStep,
         NEW last \in Seq(Event), Enqueue(FinalizeEvents \o last),
         last = <<>> \/ \E e \in Event : last = <<e>> /\ NewEvent(e)
  PROVE  VisibilityInv'
<1>1. /\ FinalizeEvents \in Seq(Event)
      /\ \A k \in DOMAIN FinalizeEvents :
           NewEvent(FinalizeEvents[k]) /\ FinalizeEvents[k].kind = "finalized"
  BY FinalizeNew DEF ProducerStep
<1> DEFINE events == FinalizeEvents \o last
<1>2. /\ events \in Seq(Event)
      /\ Len(events) = Len(FinalizeEvents) + Len(last)
      /\ \A i \in 1 .. Len(FinalizeEvents) + Len(last) :
           events[i] = IF i <= Len(FinalizeEvents) THEN FinalizeEvents[i]
                       ELSE last[i - Len(FinalizeEvents)]
  BY <1>1, ConcatProperties
<1>3. /\ DOMAIN events = 1 .. Len(FinalizeEvents) + Len(last)
      /\ DOMAIN FinalizeEvents = 1 .. Len(FinalizeEvents)
      /\ Len(FinalizeEvents) \in Nat
  BY <1>1, <1>2, LenProperties
<1> HIDE DEF events
<1>4. CASE last = <<>>
  <2>1. Len(last) = 0
    BY <1>4
  <2>2. \A k \in DOMAIN events : NewEvent(events[k]) /\ events[k].kind = "finalized"
    BY <1>1, <1>2, <1>3, <2>1
  <2> QED BY <1>2, <2>2, ProducerPreserves DEF Enqueue, events
<1>5. ASSUME NEW e \in Event, last = <<e>>, NewEvent(e)
      PROVE  VisibilityInv'
  <2>1. Len(last) = 1 /\ last[1] = e
    BY <1>5
  <2>2. \A k \in DOMAIN events :
          \/ k # Len(FinalizeEvents) + 1 /\ NewEvent(events[k]) /\ events[k].kind = "finalized"
          \/ k = Len(FinalizeEvents) + 1 /\ NewEvent(events[k])
    <3> SUFFICES ASSUME NEW k \in DOMAIN events
                 PROVE  \/ /\ k # Len(FinalizeEvents) + 1
                           /\ NewEvent(events[k]) /\ events[k].kind = "finalized"
                        \/ k = Len(FinalizeEvents) + 1 /\ NewEvent(events[k])
      OBVIOUS
    <3>1. CASE k <= Len(FinalizeEvents)
      <4>1. k \in DOMAIN FinalizeEvents /\ events[k] = FinalizeEvents[k]
        BY <1>2, <1>3, <2>1, <3>1
      <4>2. k # Len(FinalizeEvents) + 1
        BY <1>3, <2>1, <3>1
      <4> QED BY <1>1, <4>1, <4>2
    <3>2. CASE ~(k <= Len(FinalizeEvents))
      <4>1. k = Len(FinalizeEvents) + 1
        BY <1>3, <2>1, <3>2
      <4>2. events[k] = last[1]
        BY <1>2, <1>3, <2>1, <3>2, <4>1
      <4> QED BY <1>5, <2>1, <4>1, <4>2
    <3> QED BY <3>1, <3>2
  <2>3. /\ \A k \in DOMAIN events : NewEvent(events[k])
        /\ \A j, k \in DOMAIN events :
             j # k => events[j].kind = "finalized" \/ events[k].kind = "finalized"
    BY <2>2
  <2>4. queue' \in {queue, queue \o events}
    BY DEF Enqueue, events
  <2> QED BY <1>2, <2>3, <2>4, ProducerPreserves
<1> QED BY <1>4, <1>5

\* CommandStarted: the new row will carry the journal's generation, which is
\* the one the tables will have when the event is written.
LEMMA StartPreserves ==
  ASSUME TypeOK, VisibilityInv, NEW id \in Command, NEW epoch \in Epoch,
         NEW claim \in StartClaims, CommandStarted(id, epoch, claim)
  PROVE  VisibilityInv'
<1> DEFINE rec == StartedRecord(claim)
<1>1. rec \in Record /\ rec.state = "running" /\ rec.gen = generation
  BY StartedRecordType DEF StartedRecord, NoRecord
<1> HIDE DEF rec
<1>2. used \subseteq used' /\ completed' \subseteq used'
  BY DEF CommandStarted, VisibilityInv, LifecycleInv
<1>3. \A c \in Command : FinalizedRecs[c].gen = recs[c].gen
  BY <1>2, FinalizeNew
<1>4. FinalizedRecs \in [Command -> Record]
  BY FinalizeTypes
<1>5. CASE AllowsOutputSource(claim.auth, claim.src)
  <2>1. active' = id /\ recs'[id] = rec /\ id \in used' \ used
    BY <1>4, <1>5 DEF CommandStarted, rec
  <2>2. ProducerStep
    BY <1>1, <1>2, <2>1 DEF ProducerStep, CommandStarted, OnlyQueue
  <2>3. /\ RecordEvent("started", id, rec) \in Event
        /\ NewEvent(RecordEvent("started", id, rec))
    <3>1. RecordEvent("started", id, rec) \in Event
      BY <1>1, EventTypes DEF LifecycleKinds
    <3> QED BY <1>1, <2>1, <3>1 DEF NewEvent, RecordEvent
  <2>4. <<RecordEvent("started", id, rec)>> \in Seq(Event)
    BY <2>3
  <2>5. Enqueue(FinalizeEvents \o <<RecordEvent("started", id, rec)>>)
    BY <1>5 DEF CommandStarted, rec
  <2> QED BY <2>2, <2>3, <2>4, <2>5, FinalizeThen
<1>6. CASE ~AllowsOutputSource(claim.auth, claim.src)
  <2>1. active' = active /\ active \in Command \cup {NoCommand} /\ recs' = FinalizedRecs
    BY <1>6 DEF CommandStarted, TypeOK
  <2>2. ProducerStep
    BY <1>2, <1>3, <2>1 DEF ProducerStep, CommandStarted, OnlyQueue
  <2>3. Enqueue(FinalizeEvents \o <<>>)
    <3>1. FinalizeEvents \o <<>> = FinalizeEvents
      BY FinalizeTypes, ConcatEmptySeq
    <3> QED BY <1>6, <3>1 DEF CommandStarted
  <2> QED BY <2>2, <2>3, EmptySeq, FinalizeThen
<1> QED BY <1>5, <1>6

\* CommandAborted, PromptReady and AbortActive.
LEMMA AbortPreserves ==
  ASSUME TypeOK, VisibilityInv, Ready, NEW matches \in BOOLEAN,
         matches => active # NoCommand, AbortActiveLocked(matches)
  PROVE  VisibilityInv'
<1> DEFINE rec == AbortedRecord(recs[active])
           last == IF matches THEN <<RecordEvent("aborted", active, rec)>> ELSE <<>>
<1>1. used' = used /\ completed' \subseteq used'
  BY DEF AbortActiveLocked, VisibilityInv, LifecycleInv, historyVars
<1>2. \A c \in Command : FinalizedRecs[c].gen = recs[c].gen
  BY <1>1, FinalizeNew
<1>3. ProducerStep
  <2>1. ~matches => active' = active /\ recs' = FinalizedRecs
    BY DEF AbortActiveLocked
  <2>2. matches => active' = NoCommand
    BY DEF AbortActiveLocked
  <2>3. active \in Command \cup {NoCommand}
    BY DEF TypeOK
  <2>4. \/ active' = active /\ (active # NoCommand => recs'[active].gen = recs[active].gen)
        \/ active' = NoCommand
    BY <1>2, <2>1, <2>2, <2>3
  <2> QED BY <1>1, <2>4 DEF ProducerStep, AbortActiveLocked, OnlyQueue
<1>4. CASE matches
  <2>1. active \in Command /\ rec \in Record /\ rec.state = "aborted"
    <3>1. active \in Command /\ recs[active] \in Record
      BY <1>4 DEF TypeOK
    <3>2. \A r \in Record : AbortedRecord(r).state = "aborted"
      BY DEF AbortedRecord, Record
    <3> QED BY <3>1, <3>2, RecordUpdates
  <2>2. rec.gen = generation
    <3>1. \A r \in Record : AbortedRecord(r).gen = r.gen
      BY DEF AbortedRecord, Record
    <3> QED BY <2>1, <3>1, StoreAssumption DEF VisibilityInv, GenerationInv, TypeOK
  <2> HIDE DEF rec
  <2>3. RecordEvent("aborted", active, rec) \in Event
    BY <2>1, EventTypes DEF LifecycleKinds
  <2>4. NewEvent(RecordEvent("aborted", active, rec))
    BY <1>4, <2>1, <2>2 DEF NewEvent, RecordEvent, Ends, AbortActiveLocked
  <2>5. <<RecordEvent("aborted", active, rec)>> \in Seq(Event)
    BY <2>3
  <2>6. Enqueue(FinalizeEvents \o <<RecordEvent("aborted", active, rec)>>)
    BY <1>4 DEF AbortActiveLocked, rec
  <2> QED BY <1>3, <2>3, <2>4, <2>5, <2>6, FinalizeThen
<1>5. CASE ~matches
  BY <1>3, <1>5, EmptySeq, FinalizeThen DEF AbortActiveLocked
<1> QED BY <1>4, <1>5

\* CommandFinished.
LEMMA FinishPreserves ==
  ASSUME TypeOK, VisibilityInv, NEW id \in Command, NEW epoch \in Epoch,
         NEW auth \in Authorities, NEW interrupted \in BOOLEAN,
         CommandFinished(id, epoch, auth, interrupted)
  PROVE  VisibilityInv'
<1> DEFINE rec == FinishedRecord(recs[active], interrupted)
           fin == RecordEvent("finished", active, rec)
           closing == RecordEvent("finalized", active, rec)
<1>1. active \in Command /\ active # NoCommand /\ recs[active] \in Record /\ active \in used
  BY DEF CommandFinished, TypeOK, VisibilityInv, LifecycleInv
<1>2. rec \in Record
  BY <1>1, RecordUpdates
<1>3. rec.state = "finished" /\ rec.gen = generation
  <2>1. \A r \in Record : FinishedRecord(r, interrupted).gen = r.gen
    BY DEF FinishedRecord, Record
  <2>2. \A r \in Record : FinishedRecord(r, interrupted).state = "finished"
    BY DEF FinishedRecord, Record
  <2> QED BY <1>1, <2>1, <2>2 DEF VisibilityInv, GenerationInv
<1>4. /\ Enqueue(<<fin>> \o IF rec.ostate = "closed" THEN <<closing>> ELSE <<>>)
      /\ active' = NoCommand
      /\ used' = used
      /\ completed' \subseteq used'
  BY <1>1 DEF CommandFinished, historyVars, VisibilityInv, LifecycleInv
<1>5. ProducerStep
  BY <1>4 DEF ProducerStep, CommandFinished, OnlyQueue
<1> HIDE DEF rec
<1>6. /\ fin \in Event /\ NewEvent(fin)
      /\ closing \in Event /\ NewEvent(closing) /\ closing.kind = "finalized"
  <2>1. fin \in Event /\ closing \in Event
    BY <1>1, <1>2, EventTypes DEF LifecycleKinds
  <2>2. NewEvent(fin)
    BY <1>1, <1>3, <1>4 DEF NewEvent, RecordEvent, Ends
  <2>3. NewEvent(closing) /\ closing.kind = "finalized"
    BY <1>1, <1>4 DEF NewEvent, RecordEvent
  <2> QED BY <2>1, <2>2, <2>3
<1> HIDE DEF fin, closing
<1>7. CASE rec.ostate = "closed"
  <2> DEFINE events == <<fin>> \o <<closing>>
  <2>1. <<fin>> \in Seq(Event) /\ <<closing>> \in Seq(Event)
    BY <1>6
  <2>2. events \in Seq(Event) /\ Len(events) = 2 /\ events[1] = fin /\ events[2] = closing
    <3>1. /\ events \in Seq(Event) /\ Len(events) = 1 + 1
          /\ \A i \in 1 .. 1 + 1 :
               events[i] = IF i <= 1 THEN <<fin>>[i] ELSE <<closing>>[i - 1]
      BY <2>1, ConcatProperties
    <3> HIDE DEF events
    <3> QED BY <3>1
  <2>3. queue' \in {queue, queue \o events}
    BY <1>4, <1>7 DEF Enqueue
  <2> HIDE DEF events
  <2>4. DOMAIN events = {1, 2}
    BY <2>2, LenProperties
  <2>5. \A k \in DOMAIN events : NewEvent(events[k])
    BY <1>6, <2>2, <2>4
  <2>6. \A j, k \in DOMAIN events : j # k => \/ events[j].kind = "finalized"
                                             \/ events[k].kind = "finalized"
    BY <1>6, <2>2, <2>4
  <2> QED BY <1>5, <2>2, <2>3, <2>5, <2>6, ProducerPreserves
<1>8. CASE rec.ostate # "closed"
  <2>1. <<fin>> \in Seq(Event) /\ DOMAIN <<fin>> = {1} /\ <<fin>> \o <<>> = <<fin>>
    BY <1>6, ConcatEmptySeq
  <2>2. \A k \in {1} : NewEvent(<<fin>>[k])
    BY <1>6
  <2>3. queue' \in {queue, queue \o <<fin>>}
    BY <1>4, <1>8, <2>1 DEF Enqueue
  <2> QED BY <1>5, <2>1, <2>2, <2>3, ProducerPreserves
<1> QED BY <1>7, <1>8

\* StreamOutputSegment: an output event has no generation to fall behind.
LEMMA OutputPreserves ==
  ASSUME TypeOK, VisibilityInv, NEW data \in Segments, NEW src \in Sources,
         OutputSegment(data, src)
  PROVE  VisibilityInv'
<1> DEFINE id == OutputTarget(src)
           event == OutputEvent(id, data)
<1>1. data \in Seq(Byte)
  BY JournalAssumption
<1>2. id \in Command
  BY DEF OutputSegment, OutputTarget, HasPending, TypeOK
<1>3. \A r \in Record : AppendedRecord(r, data).gen = r.gen
  BY DEF AppendedRecord, Record
<1>4. recs' = [recs EXCEPT ![id] = AppendedRecord(recs[id], data)] /\ AppendOutput(id, data)
  BY DEF OutputSegment
<1> HIDE DEF id
<1>5. active # NoCommand => recs'[active].gen = recs[active].gen
  <2>1. recs \in [Command -> Record] /\ (active # NoCommand => active \in Command)
    BY DEF TypeOK
  <2> QED BY <1>2, <1>3, <1>4, <2>1
<1>6. ProducerStep
  BY <1>5 DEF ProducerStep, OutputSegment, VisibilityInv, LifecycleInv
<1>7. event \in Event /\ event.kind = "output"
  BY <1>1, <1>2, EventTypes DEF OutputEvent
<1> HIDE DEF event
<1>8. <<event>> \in Seq(Event) /\ DOMAIN <<event>> = {1} /\ <<event>>[1] = event
  BY <1>7
<1>9. queue' \in {queue, queue \o <<event>>}
  <2>1. Append(queue, event) = queue \o <<event>>
    BY <1>7, AppendIsConcat DEF TypeOK, StoreTypeOK
  <2> QED BY <1>4, <2>1 DEF AppendOutput, event
<1>10. \A k \in DOMAIN <<event>> : NewEvent(<<event>>[k])
  BY <1>7, <1>8 DEF NewEvent
<1>11. \A j, k \in DOMAIN <<event>> : j # k => \/ <<event>>[j].kind = "finalized"
                                               \/ <<event>>[k].kind = "finalized"
  BY <1>8
<1> QED BY <1>6, <1>8, <1>9, <1>10, <1>11, ProducerPreserves

\* MarkOutputIncomplete.
LEMMA MarkPreserves ==
  ASSUME TypeOK, VisibilityInv, MarkOutputIncomplete
  PROVE  VisibilityInv'
<1> DEFINE id == IF active # NoCommand THEN active ELSE pending
           rec == [recs[id] EXCEPT !.compl = "incomplete", !.attr = "unknown",
                                   !.safety = "unknown"]
           event == RecordEvent("finalized", id, rec)
           events == IF active = NoCommand THEN <<event>> ELSE <<>>
<1>1. id \in Command /\ recs[id] \in Record /\ (active = NoCommand => id \in used)
  BY DEF MarkOutputIncomplete, HasPending, TypeOK, VisibilityInv, LifecycleInv
<1>2. rec \in Record /\ rec.gen = recs[id].gen
  <2>1. ASSUME NEW r \in Record
        PROVE  LET marked == [r EXCEPT !.compl = "incomplete", !.attr = "unknown",
                                       !.safety = "unknown"]
               IN  marked \in Record /\ marked.gen = r.gen
    BY DEF Record
  <2> HIDE DEF id
  <2> QED BY <1>1, <2>1
<1>3. recs' = [recs EXCEPT ![id] = rec] /\ Enqueue(events)
  BY DEF MarkOutputIncomplete
<1>4. active # NoCommand => active = id
  OBVIOUS
<1> HIDE DEF id, rec
<1>5. active # NoCommand => recs'[active].gen = recs[active].gen
  BY <1>1, <1>2, <1>3, <1>4 DEF TypeOK
<1>6. ProducerStep
  BY <1>5 DEF ProducerStep, MarkOutputIncomplete, OnlyQueue, VisibilityInv, LifecycleInv
<1>7. event \in Event
  BY <1>1, <1>2, EventTypes DEF LifecycleKinds
<1>8. active = NoCommand => NewEvent(event) /\ event.kind = "finalized"
  <2>1. event.kind = "finalized" /\ event.id = id
    BY DEF RecordEvent
  <2>2. used' = used
    BY DEF MarkOutputIncomplete
  <2> QED BY <1>1, <2>1, <2>2 DEF NewEvent
<1> HIDE DEF event
<1>9. events \in Seq(Event) /\ \A k \in DOMAIN events : k = 1 /\ active = NoCommand
                                                        /\ events[k] = event
  BY <1>7
<1>10. queue' \in {queue, queue \o events}
  BY <1>3 DEF Enqueue
<1> HIDE DEF events
<1> QED BY <1>6, <1>8, <1>9, <1>10, ProducerPreserves

-----------------------------------------------------------------------------
(* Visibility transactions.                                                 *)

\* Asking for one appends the last event of the FIFO and takes the gate.
LEMMA BeginPreserves ==
  ASSUME TypeOK, VisibilityInv, NEW op \in {"clear", "delete"}, NEW kind \in JournalKinds,
         BeginTransaction(op, kind)
  PROVE  VisibilityInv'
<1> DEFINE event == BlockEvent(kind)
<1>1. /\ UNCHANGED <<storeState, reply, rows, dbGeneration, attached, generation, service,
                     used, completed, active, recs>>
      /\ gate = FreeGate /\ reply.status = "none" /\ attached
      /\ gate' = [op |-> op, id |-> active]
  BY DEF BeginTransaction, OnlyQueue, historyVars, Ready, VisibilityInv, GenerationInv
<1>2. gate' # FreeGate
  BY <1>1 DEF FreeGate
<1>3. event \in Event /\ event.kind = kind
  BY EventTypes DEF BlockEvent
<1>4. queue' = queue \o <<event>> /\ queue \in Seq(Event)
  BY DEF BeginTransaction, Enqueue, TypeOK, StoreTypeOK
<1> HIDE DEF event
<1>5. <<event>> \in Seq(Event) /\ Len(<<event>>) = 1 /\ <<event>>[1] = event
  BY <1>3
<1>6. /\ Len(queue') = Len(queue) + 1 /\ Len(queue) \in Nat
      /\ DOMAIN queue' = 1 .. Len(queue) + 1 /\ DOMAIN queue = 1 .. Len(queue)
      /\ \A i \in 1 .. Len(queue) + 1 :
           queue'[i] = IF i <= Len(queue) THEN queue[i] ELSE event
  <2>1. /\ queue' \in Seq(Event) /\ Len(queue') = Len(queue) + 1
        /\ \A i \in 1 .. Len(queue) + 1 :
             queue'[i] = IF i <= Len(queue) THEN queue[i] ELSE <<event>>[i - Len(queue)]
    BY <1>4, <1>5, ConcatProperties
  <2>2. Len(queue) \in Nat /\ DOMAIN queue = 1 .. Len(queue)
        /\ DOMAIN queue' = 1 .. Len(queue')
    BY <1>4, <2>1, LenProperties
  <2>3. \A i \in 1 .. Len(queue) + 1 : ~(i <= Len(queue)) => i - Len(queue) = 1
    BY <2>2
  <2> QED BY <1>5, <2>1, <2>2, <2>3
<1>7. \A i \in DOMAIN queue' : \/ i \in DOMAIN queue /\ queue'[i] = queue[i]
                               \/ i = Len(queue') /\ queue'[i] = event
  BY <1>6
<1>8. event.kind \notin LifecycleKinds \cup DirectKinds \cup Ends
  BY <1>3 DEF JournalKinds, LifecycleKinds, DirectKinds, Ends
<1>9. QueueInv'
  <2>1. \A i \in DOMAIN queue' : FitsNext(queue'[i])
    <3>1. \A e \in Event : Fits(e) => FitsNext(e)
      BY <1>1 DEF Fits, FitsNext
    <3>2. FitsNext(event)
      BY <1>8 DEF FitsNext, LifecycleKinds, Ends
    <3>3. \A i \in DOMAIN queue : queue[i] \in Event /\ Fits(queue[i])
      BY <1>4, ElementOfSeq, LenProperties DEF VisibilityInv, QueueInv
    <3> QED BY <1>7, <3>1, <3>2, <3>3
  <2>2. ASSUME NEW i \in DOMAIN queue', NEW j \in DOMAIN queue', i # j,
               SameStep(queue'[i], queue'[j])
        PROVE  queue'[i].id # queue'[j].id
    <3>1. queue'[i] # event /\ queue'[j] # event
      BY <1>8, <2>2 DEF SameStep, LifecycleKinds
    <3> QED BY <1>7, <2>2, <3>1 DEF VisibilityInv, QueueInv
  <2>3. \A i \in DOMAIN queue' : queue'[i].kind \in JournalKinds => i = Len(queue')
    BY <1>1, <1>7 DEF VisibilityInv, QueueInv
  <2>4. reply'.status = "none"
    BY <1>1
  <2> QED BY <1>2, <2>1, <2>2, <2>3, <2>4 DEF QueueInv, Fits, FitsNext, SameStep
<1>10. GenerationInv' /\ LifecycleInv' /\ RunningRowsAreVisible'
  BY <1>1, <1>2 DEF VisibilityInv, GenerationInv, LifecycleInv, RunningRowsAreVisible
<1> QED BY <1>9, <1>10 DEF VisibilityInv

\* The caller resumes with the answer of the writer.
LEMMA TransactionPreserves ==
  ASSUME TypeOK, VisibilityInv, TransactionNext
  PROVE  VisibilityInv'
<1>1. /\ gate # FreeGate /\ reply.status \in {"ok", "error"} /\ TransactionDone
      /\ attached
  BY DEF TransactionNext, ClearCommit, DeleteCommit, TransactionFailed, FreeGate,
         VisibilityInv, LifecycleInv
<1>2. /\ UNCHANGED <<storeState, queue, rows, dbGeneration, attached, service, used, active>>
      /\ reply'.status = "none" /\ gate' = FreeGate
  BY <1>1 DEF TransactionDone, NoReply, historyVars
<1>3. completed' \subseteq completed
  BY DEF TransactionNext, ClearCommit, DeleteCommit, TransactionFailed
<1>4. QueueInv'
  <2>1. \A i \in DOMAIN queue : queue[i].kind \notin JournalKinds
    BY <1>1 DEF VisibilityInv, QueueInv
  <2>2. \A i \in DOMAIN queue : Fits(queue[i])
    BY DEF VisibilityInv, QueueInv
  <2>3. \A e : Fits(e) => FitsNext(e)
    BY <1>2 DEF Fits, FitsNext
  <2>4. \A i, j \in DOMAIN queue :
          i # j /\ SameStep(queue[i], queue[j]) => queue[i].id # queue[j].id
    BY DEF VisibilityInv, QueueInv
  <2> QED BY <1>2, <2>1, <2>2, <2>3, <2>4 DEF QueueInv, Fits, FitsNext, SameStep
<1>5. generation' = dbGeneration /\ (active # NoCommand => recs'[active].gen = generation')
  <2>1. /\ generation \in Nat /\ recs \in [Command -> Record]
        /\ active # NoCommand => active \in Command
    BY DEF TypeOK
  <2>2. ASSUME NEW r \in Record, NEW gen \in Nat PROVE [r EXCEPT !.gen = gen].gen = gen
    BY DEF Record
  <2>3. reply.status = "ok" => reply.gen = generation + 1 /\ dbGeneration = generation + 1
    BY DEF VisibilityInv, GenerationInv
  <2>4. CASE ClearCommit
    <3>1. generation' = generation + 1
      BY <2>1, <2>3, <2>4 DEF ClearCommit
    <3>2. active # NoCommand => recs'[active] = [recs[active] EXCEPT !.gen = generation']
      BY <2>1, <2>4 DEF ClearCommit
    <3>3. reply.status = "ok"
      BY <2>4 DEF ClearCommit
    <3>4. active # NoCommand => recs[active] \in Record /\ generation' \in Nat
      BY <2>1, <3>1
    <3>5. active # NoCommand => recs'[active].gen = generation'
      BY <2>2, <3>2, <3>4, Zenon
    <3> QED BY <2>3, <3>1, <3>3, <3>5
  <2>5. CASE DeleteCommit
    <3>1. generation' = generation + 1
      BY <2>1, <2>3, <2>5 DEF DeleteCommit
    <3>2. active # NoCommand => recs'[active] = [recs[active] EXCEPT !.gen = generation']
      BY <2>1, <2>5 DEF DeleteCommit
    <3>3. reply.status = "ok"
      BY <2>5 DEF DeleteCommit
    <3>4. active # NoCommand => recs[active] \in Record /\ generation' \in Nat
      BY <2>1, <3>1
    <3>5. active # NoCommand => recs'[active].gen = generation'
      BY <2>2, <3>2, <3>4, Zenon
    <3> QED BY <2>3, <3>1, <3>3, <3>5
  <2>6. CASE TransactionFailed
    BY <1>1, <2>6 DEF TransactionFailed, VisibilityInv, GenerationInv
  <2> QED BY <2>4, <2>5, <2>6 DEF TransactionNext
<1>6. GenerationInv'
  BY <1>2, <1>5 DEF GenerationInv
<1>7. LifecycleInv' /\ RunningRowsAreVisible'
  BY <1>1, <1>2, <1>3 DEF VisibilityInv, LifecycleInv, RunningRowsAreVisible
<1> QED BY <1>4, <1>6, <1>7 DEF VisibilityInv

-----------------------------------------------------------------------------
(* The writer, and the life of the process.                                 *)

\* The elements of the FIFO when its head has been taken off.
LEMMA TailEvents ==
  ASSUME TypeOK, queue # <<>>, queue' = Tail(queue)
  PROVE  /\ 1 \in DOMAIN queue
         /\ Head(queue) = queue[1]
         /\ Head(queue) \in Event
         /\ Len(queue') = Len(queue) - 1
         /\ Len(queue) \in Nat
         /\ \A i \in DOMAIN queue' : /\ i + 1 \in DOMAIN queue /\ i + 1 # 1 /\ i \in Nat
                                     /\ queue'[i] = queue[i + 1]
<1>1. queue \in Seq(Event) /\ queue' \in Seq(Event)
  BY HeadTailProperties DEF TypeOK, StoreTypeOK
<1>2. /\ Head(queue) \in Event
      /\ Len(queue') = Len(queue) - 1
      /\ \A i \in 1 .. Len(queue') : queue'[i] = queue[i + 1]
  BY <1>1, HeadTailProperties
<1>3. /\ DOMAIN queue = 1 .. Len(queue) /\ Len(queue) \in Nat /\ Len(queue) > 0
      /\ DOMAIN queue' = 1 .. Len(queue')
  BY <1>1, LenProperties, EmptySeq
<1>4. Head(queue) = queue[1]
  BY <1>1
<1> QED BY <1>2, <1>3, <1>4

\* What the commit of a lifecycle or output event can do to a row.
RowEffect(e, c) ==
  \/ rows'[c].state = rows[c].state /\ rows'[c].gen = rows[c].gen
  \/ /\ c = e.id
     /\ e.kind = "started"
     /\ rows'[c].state = e.rec.state
     /\ rows'[c].gen = e.rec.gen
  \/ /\ c = e.id
     /\ e.kind \in Ends
     /\ rows[c].state # "absent"
     /\ rows'[c].state = e.rec.state
     /\ rows'[c].gen = e.rec.gen

\* What the commit of a visibility transaction can do to a row.
TransactionEffect(c) ==
  \/ /\ rows[c].state = "running"
     /\ rows'[c].state = "running"
     /\ rows'[c].gen = dbGeneration'
  \/ /\ rows[c].state # "running"
     /\ \/ rows'[c].state = rows[c].state /\ rows'[c].gen = rows[c].gen
        \/ rows'[c].state = "absent"

\* What one committed event does to the rows: it is a visibility transaction, or
\* it touches one row and gives it no generation but the current one.
LEMMA CommitEffect ==
  ASSUME TypeOK, VisibilityInv, Commit
  PROVE  \/ /\ Head(queue).kind \notin JournalKinds
            /\ reply' = reply
            /\ dbGeneration' = dbGeneration
            /\ \A c \in Command : RowEffect(Head(queue), c)
         \/ /\ Head(queue).kind \in JournalKinds
            /\ reply' = [status |-> "ok", gen |-> dbGeneration + 1]
            /\ dbGeneration' = dbGeneration + 1
            /\ \A c \in Command : TransactionEffect(c)
<1> DEFINE e == Head(queue)
<1>1. queue # <<>> /\ queue' = Tail(queue)
  BY DEF Commit, WriterStep
<1>2. e \in Event /\ Fits(e)
  BY <1>1, TailEvents DEF VisibilityInv, QueueInv
<1>3. /\ ~RowMissing(e) /\ Process(e)
      /\ reply' = IF e.kind \in JournalKinds
                    THEN [status |-> "ok", gen |-> dbGeneration + 1] ELSE reply
  BY DEF Commit
<1>4. rows \in [Command -> Record]
  BY DEF TypeOK, StoreTypeOK
<1> HIDE DEF e
<1>5. /\ e.kind \in LifecycleKinds \cup {"output"} => e.id \in Command
      /\ e.rec \in Record
  BY <1>2, EventFields
<1>6. ASSUME NEW r \in Record, NEW n \in Nat 
      PROVE  [r EXCEPT !.gen = n].state = r.state /\ [r EXCEPT !.gen = n].gen = n
  BY DEF Record
<1>7. CASE e.kind = "started" /\ InsertStarted(e)
  <2>1. e.kind \notin JournalKinds /\ e.id \in Command
    BY <1>5, <1>7 DEF JournalKinds, LifecycleKinds
  <2>2. rows' = [rows EXCEPT ![e.id] = e.rec] /\ dbGeneration' = dbGeneration
    BY <1>7 DEF InsertStarted
  <2>3. \A c \in Command : RowEffect(e, c)
    BY <1>4, <1>7, <2>1, <2>2 DEF RowEffect
  <2> QED BY <1>3, <2>1, <2>2, <2>3 DEF e
<1>8. CASE e.kind = "output" /\ AppendChunks(e)
  <2>1. e.kind \notin JournalKinds /\ e.id \in Command
    BY <1>5, <1>8 DEF JournalKinds
  <2>2. dbGeneration' = dbGeneration
    BY <1>8 DEF AppendChunks
  <2>3. ASSUME NEW r \in Record, NEW total, NEW stored, NEW truncated
        PROVE  LET s == [r EXCEPT !.total = total, !.stored = stored,
                                  !.truncated = truncated]
               IN  s.state = r.state /\ s.gen = r.gen
    BY DEF Record
  <2>4. PICK total, stored, truncated :
          rows' = [rows EXCEPT ![e.id] = [rows[e.id] EXCEPT !.total = total,
                                            !.stored = stored, !.truncated = truncated]]
    BY <1>8 DEF AppendChunks
  <2>5. \A c \in Command : rows'[c].state = rows[c].state /\ rows'[c].gen = rows[c].gen
    BY <1>4, <2>1, <2>3, <2>4
  <2> QED BY <1>3, <2>1, <2>2, <2>5 DEF e, RowEffect
<1>9. CASE e.kind = "finished" /\ UpdateFinished(e)
  <2>1. e.kind \notin JournalKinds /\ e.id \in Command /\ rows[e.id].state # "absent"
    BY <1>3, <1>5, <1>9 DEF JournalKinds, LifecycleKinds, RowMissing
  <2>2. dbGeneration' = dbGeneration
    BY <1>9 DEF UpdateFinished
  <2>3. rows'[e.id].state = e.rec.state /\ rows'[e.id].gen = e.rec.gen
    BY <1>4, <1>9, <2>1 DEF UpdateFinished, Record
  <2>4. \A c \in Command : c # e.id => rows'[c] = rows[c]
    BY <1>4, <1>9 DEF UpdateFinished
  <2>5. \A c \in Command : RowEffect(e, c)
    BY <1>9, <2>1, <2>3, <2>4 DEF RowEffect, Ends
  <2> QED BY <1>3, <2>1, <2>2, <2>5 DEF e
<1>10. CASE e.kind = "finalized" /\ UpdateOutputFinalized(e)
  <2>1. e.kind \notin JournalKinds /\ e.id \in Command
    BY <1>5, <1>10 DEF JournalKinds, LifecycleKinds
  <2>2. dbGeneration' = dbGeneration
    BY <1>10 DEF UpdateOutputFinalized
  <2>3. rows'[e.id].state = rows[e.id].state /\ rows'[e.id].gen = rows[e.id].gen
    BY <1>4, <1>10, <2>1 DEF UpdateOutputFinalized, Record
  <2>4. \A c \in Command : c # e.id => rows'[c] = rows[c]
    BY <1>4, <1>10 DEF UpdateOutputFinalized
  <2> QED BY <1>3, <2>1, <2>2, <2>3, <2>4 DEF e, RowEffect
<1>11. CASE e.kind = "aborted" /\ UpdateAborted(e)
  <2>1. e.kind \notin JournalKinds /\ e.id \in Command /\ rows[e.id].state # "absent"
    BY <1>3, <1>5, <1>11 DEF JournalKinds, LifecycleKinds, RowMissing
  <2>2. dbGeneration' = dbGeneration
    BY <1>11 DEF UpdateAborted
  <2>3. rows'[e.id].state = e.rec.state /\ rows'[e.id].gen = e.rec.gen
    BY <1>4, <1>11, <2>1 DEF UpdateAborted, Record
  <2>4. \A c \in Command : c # e.id => rows'[c] = rows[c]
    BY <1>4, <1>11 DEF UpdateAborted
  <2>5. \A c \in Command : RowEffect(e, c)
    BY <1>11, <2>1, <2>3, <2>4 DEF RowEffect, Ends
  <2> QED BY <1>3, <2>1, <2>2, <2>5 DEF e
<1>12. CASE e.kind \in {"advance", "directAdvance"} /\ AdvanceGeneration
  <2>1. e.kind \in JournalKinds
    BY <1>2, <1>12 DEF Fits, DirectKinds, JournalKinds
  <2>2. dbGeneration' = dbGeneration + 1 /\ dbGeneration + 1 \in Nat
    BY <1>12 DEF AdvanceGeneration, TypeOK, StoreTypeOK
  <2>3. \A c \in Command : TransactionEffect(c)
    <3> TAKE c \in Command
    <3>1. rows'[c] = IF rows[c].state = "running"
                       THEN [rows[c] EXCEPT !.gen = dbGeneration + 1] ELSE rows[c]
      BY <1>12 DEF AdvanceGeneration
    <3>2. rows[c] \in Record
      BY <1>4
    <3>3. CASE rows[c].state = "running"
      <4>1. rows'[c] = [rows[c] EXCEPT !.gen = dbGeneration + 1]
        BY <3>1, <3>3
      <4>2. /\ [rows[c] EXCEPT !.gen = dbGeneration + 1].state = rows[c].state
            /\ [rows[c] EXCEPT !.gen = dbGeneration + 1].gen = dbGeneration + 1
        BY <1>6, <2>2, <3>2
      <4> QED BY <2>2, <3>3, <4>1, <4>2 DEF TransactionEffect
    <3>4. CASE rows[c].state # "running"
      BY <3>1, <3>4 DEF TransactionEffect
    <3> QED BY <3>3, <3>4
  <2> QED BY <1>3, <2>1, <2>2, <2>3 DEF e
<1>13. CASE e.kind \in {"delete", "directDelete"} /\ DeleteRows
  <2>1. e.kind \in JournalKinds
    BY <1>2, <1>13 DEF Fits, DirectKinds, JournalKinds
  <2>2. dbGeneration' = dbGeneration + 1 /\ dbGeneration + 1 \in Nat
    BY <1>13 DEF DeleteRows, TypeOK, StoreTypeOK
  <2>3. \A c \in Command : TransactionEffect(c)
    <3> TAKE c \in Command
    <3>1. rows'[c] = IF rows[c].state = "running"
                       THEN [rows[c] EXCEPT !.gen = dbGeneration + 1] ELSE NoRecord
      BY <1>13 DEF DeleteRows
    <3>2. rows[c] \in Record
      BY <1>4
    <3>3. CASE rows[c].state = "running"
      <4>1. rows'[c] = [rows[c] EXCEPT !.gen = dbGeneration + 1]
        BY <3>1, <3>3
      <4>2. /\ [rows[c] EXCEPT !.gen = dbGeneration + 1].state = rows[c].state
            /\ [rows[c] EXCEPT !.gen = dbGeneration + 1].gen = dbGeneration + 1
        BY <1>6, <2>2, <3>2
      <4> QED BY <2>2, <3>3, <4>1, <4>2 DEF TransactionEffect
    <3>4. CASE rows[c].state # "running"
      BY <3>1, <3>4 DEF TransactionEffect, NoRecord
    <3> QED BY <3>3, <3>4
  <2> QED BY <1>3, <2>1, <2>2, <2>3 DEF e
<1> QED BY <1>3, <1>7, <1>8, <1>9, <1>10, <1>11, <1>12, <1>13 DEF Process

\* The writer takes a lifecycle or output event off the FIFO, having changed at
\* most the row of that event.
LEMMA TakePreserves ==
  ASSUME TypeOK, TypeOK', VisibilityInv, queue # <<>>, queue' = Tail(queue),
         UNCHANGED <<journalVars, service, historyVars, storeState, dbGeneration, reply>>,
         Head(queue).kind \notin JournalKinds,
         \A c \in Command : RowEffect(Head(queue), c)
  PROVE  VisibilityInv'
<1> DEFINE e == Head(queue)
<1>1. /\ 1 \in DOMAIN queue /\ e = queue[1] /\ e \in Event
      /\ Len(queue') = Len(queue) - 1 /\ Len(queue) \in Nat
      /\ \A i \in DOMAIN queue' : /\ i + 1 \in DOMAIN queue /\ i + 1 # 1 /\ i \in Nat
                                  /\ queue'[i] = queue[i + 1]
  BY TailEvents
<1>2. /\ Fits(e)
      /\ \A i \in DOMAIN queue : i # 1 /\ SameStep(queue[i], e) => queue[i].id # e.id
  BY <1>1 DEF VisibilityInv, QueueInv
<1>3. /\ UNCHANGED <<attached, recs, active, completed, generation, gate, service, used>>
      /\ UNCHANGED <<storeState, dbGeneration, reply>>
  BY DEF journalVars, historyVars
<1>4. \A c \in Command : RowEffect(e, c)
  OBVIOUS
<1>5. queue[1] \in Event /\ \A i \in DOMAIN queue : queue[i] \in Event
  BY <1>1, ElementOfSeq, LenProperties DEF TypeOK, StoreTypeOK
<1> HIDE DEF e
<1>6. ASSUME NEW f \in Event, Fits(f), SameStep(f, e) => f.id # e.id
      PROVE  FitsNext(f)
  <2>1. f.kind \in LifecycleKinds => RowEffect(e, f.id)
    BY <1>4, EventFields
  <2>2. f.kind = "started" => rows'[f.id].state = "absent"
    BY <1>2, <1>6, <2>1 DEF RowEffect, Fits, SameStep, LifecycleKinds, Ends
  <2>3. f.kind \in Ends => rows'[f.id].state \in {"absent", "running"}
    BY <1>2, <1>6, <2>1 DEF RowEffect, Fits, SameStep, LifecycleKinds, Ends
  <2> QED BY <1>3, <1>6, <2>2, <2>3 DEF Fits, FitsNext
<1>7. QueueInv'
  <2>1. \A i \in DOMAIN queue' : FitsNext(queue'[i])
    <3>1. \A i \in DOMAIN queue' : /\ queue'[i] \in Event /\ Fits(queue'[i])
                                   /\ SameStep(queue'[i], e) => queue'[i].id # e.id
      BY <1>1, <1>2, <1>5 DEF VisibilityInv, QueueInv
    <3> QED BY <1>6, <3>1
  <2>2. ASSUME NEW i \in DOMAIN queue', NEW j \in DOMAIN queue', i # j,
               SameStep(queue'[i], queue'[j])
        PROVE  queue'[i].id # queue'[j].id
    <3>1. i + 1 # j + 1
      BY <1>1, <2>2
    <3> QED BY <1>1, <2>2, <3>1 DEF VisibilityInv, QueueInv
  <2>3. ASSUME NEW i \in DOMAIN queue', queue'[i].kind \in JournalKinds
        PROVE  i = Len(queue') /\ gate # FreeGate /\ reply.status = "none"
    <3>1. i + 1 = Len(queue) /\ gate # FreeGate /\ reply.status = "none"
      BY <1>1, <2>3 DEF VisibilityInv, QueueInv
    <3> QED BY <1>1, <3>1
  <2> QED BY <1>3, <2>1, <2>2, <2>3 DEF QueueInv, Fits, FitsNext, SameStep
<1>8. GenerationInv'
  BY <1>3 DEF VisibilityInv, GenerationInv
<1>9. LifecycleInv'
  <2>1. active # NoCommand => rows'[active].state \in {"absent", "running"}
    <3>1. active # NoCommand => active \in Command /\ RowEffect(e, active)
      BY <1>4 DEF TypeOK
    <3>2. active # NoCommand => rows[active].state \in {"absent", "running"}
      BY DEF VisibilityInv, LifecycleInv
    <3> QED BY <1>2, <3>1, <3>2 DEF RowEffect, Fits, Ends
  <2>2. \A c \in Command : rows'[c].state # "absent" => c \in used
    BY <1>2, <1>4 DEF RowEffect, VisibilityInv, LifecycleInv, Fits, LifecycleKinds, Ends
  <2>3. ~attached => queue' = <<>> /\ active = NoCommand /\ gate = FreeGate
    BY DEF VisibilityInv, LifecycleInv
  <2> QED BY <1>3, <2>1, <2>2, <2>3 DEF VisibilityInv, LifecycleInv
<1>10. RunningRowsAreVisible'
  BY <1>2, <1>3, <1>4 DEF RowEffect, VisibilityInv, RunningRowsAreVisible, Fits, Ends
<1> QED BY <1>7, <1>8, <1>9, <1>10 DEF VisibilityInv

\* The writer takes a visibility transaction, the last event of the FIFO.
LEMMA AnswerPreserves ==
  ASSUME TypeOK, VisibilityInv, queue # <<>>, queue' = Tail(queue),
         UNCHANGED <<journalVars, service, historyVars, storeState>>,
         Head(queue).kind \in JournalKinds,
         \/ /\ reply'.status = "ok"
            /\ reply'.gen = dbGeneration + 1
            /\ dbGeneration' = dbGeneration + 1
            /\ \A c \in Command : TransactionEffect(c)
         \/ /\ reply'.status = "error"
            /\ UNCHANGED <<dbGeneration, rows>>
  PROVE  VisibilityInv'
<1>1. /\ UNCHANGED <<attached, recs, active, completed, generation, gate, service, used>>
      /\ storeState' = storeState
  BY DEF journalVars, historyVars
<1>2. 1 = Len(queue) /\ gate # FreeGate /\ reply.status = "none"
  BY TailEvents DEF VisibilityInv, QueueInv
<1>3. DOMAIN queue' = {} /\ queue' = <<>>
  <2>1. Tail(queue) \in Seq(Event) /\ Len(Tail(queue)) = 0
    BY <1>2, HeadTailProperties DEF TypeOK, StoreTypeOK
  <2> QED BY <2>1, EmptySeq, LenProperties
<1>4. attached /\ generation = dbGeneration
  BY <1>2 DEF VisibilityInv, LifecycleInv, GenerationInv
<1>5. QueueInv'
  BY <1>3 DEF QueueInv
<1>6. GenerationInv'
  BY <1>1, <1>2, <1>3, <1>4 DEF VisibilityInv, GenerationInv
<1>7. LifecycleInv'
  <2>1. active # NoCommand => rows'[active].state \in {"absent", "running"}
    BY DEF TransactionEffect, VisibilityInv, LifecycleInv, TypeOK
  <2>2. \A c \in Command : rows'[c].state # "absent" => c \in used
    BY DEF TransactionEffect, VisibilityInv, LifecycleInv
  <2> QED BY <1>1, <1>3, <1>4, <2>1, <2>2 DEF VisibilityInv, LifecycleInv
<1>8. RunningRowsAreVisible'
  BY DEF VisibilityInv, RunningRowsAreVisible, TransactionEffect
<1> QED BY <1>5, <1>6, <1>7, <1>8 DEF VisibilityInv

\* Every step of the writer goroutine (run and process of store.go).
LEMMA WriterPreserves ==
  ASSUME TypeOK, TypeOK', VisibilityInv, WriterNext,
         UNCHANGED <<journalVars, service, historyVars>>
  PROVE  VisibilityInv'
<1>1. CASE Dequeue
  <2>1. /\ UNCHANGED <<storeState, queue, reply, rows, dbGeneration>>
        /\ UNCHANGED <<attached, recs, active, completed, generation, gate, service, used>>
    BY <1>1 DEF Dequeue, journalVars, historyVars
  <2> QED BY <2>1 DEF VisibilityInv, QueueInv, GenerationInv, LifecycleInv,
                      RunningRowsAreVisible, Fits, SameStep
<1>2. CASE Commit
  <2>1. queue # <<>> /\ queue' = Tail(queue) /\ storeState' = storeState
    BY <1>2 DEF Commit, WriterStep
  <2>2. CASE Head(queue).kind \notin JournalKinds
    BY <1>2, <2>1, <2>2, CommitEffect, TakePreserves
  <2>3. CASE Head(queue).kind \in JournalKinds
    BY <1>2, <2>1, <2>3, CommitEffect, AnswerPreserves
  <2> QED BY <2>2, <2>3
<1>3. CASE CommitMissing
  <2>1. /\ queue # <<>> /\ queue' = Tail(queue)
        /\ UNCHANGED <<storeState, dbGeneration, reply, rows>>
        /\ Head(queue).kind \notin JournalKinds
    BY <1>3 DEF CommitMissing, WriterStep, RowMissing, JournalKinds
  <2> QED BY <2>1, TakePreserves DEF RowEffect
<1>4. CASE CommitFault
  <2>1. /\ queue # <<>> /\ queue' = Tail(queue)
        /\ UNCHANGED <<storeState, dbGeneration, rows>>
        /\ reply' = IF Head(queue).kind \in JournalKinds
                      THEN [status |-> "error", gen |-> 0] ELSE reply
    BY <1>4 DEF CommitFault, WriterStep
  <2>2. CASE Head(queue).kind \notin JournalKinds
    BY <2>1, <2>2, TakePreserves DEF RowEffect
  <2>3. CASE Head(queue).kind \in JournalKinds
    BY <2>1, <2>3, AnswerPreserves
  <2> QED BY <2>2, <2>3
<1> QED BY <1>1, <1>2, <1>3, <1>4 DEF WriterNext

\* Opening the store keeps every generation and leaves no running row.
LEMMA OpenEffect ==
  ASSUME TypeOK, Open
  PROVE  \A c \in Command :
           /\ rows'[c].state # "running"
           /\ rows'[c].state = "absent" <=> rows[c].state = "absent"
           /\ rows'[c].gen = rows[c].gen
<1>1. ASSUME NEW r \in Record
      PROVE  /\ Recovered(r).state # "running"
             /\ Recovered(r).state = "absent" <=> r.state = "absent"
             /\ Recovered(r).gen = r.gen
  BY DEF Recovered, Record
<1>2. ASSUME NEW c \in Command
      PROVE  /\ rows[c] \in Record /\ Len(chunks[c]) \in Nat
             /\ rows'[c] = Recovered(Reconciled(rows[c], Len(chunks[c])))
  <2>1. rows[c] \in Record /\ chunks[c] \in Seq(Byte)
    BY DEF TypeOK, StoreTypeOK
  <2>2. Len(chunks[c]) \in Nat
    BY <2>1, LenProperties
  <2>3. rows'[c] = Recovered(Reconciled(rows[c], Len(chunks[c])))
    BY DEF Open
  <2> QED BY <2>1, <2>2, <2>3
<1>3. ASSUME NEW c \in Command
      PROVE  /\ rows'[c].state # "running"
             /\ rows'[c].state = "absent" <=> rows[c].state = "absent"
             /\ rows'[c].gen = rows[c].gen
  <2> DEFINE row == Reconciled(rows[c], Len(chunks[c]))
  <2>1. row \in Record /\ row.state = rows[c].state /\ row.gen = rows[c].gen
    BY <1>2, ReconciledType
  <2>2. rows'[c] = Recovered(row)
    BY <1>2
  <2> HIDE DEF row
  <2> QED BY <1>1, <2>1, <2>2
<1> QED BY <1>3

\* The invariant is inductive.
LEMMA VisibilityInductive ==
  ASSUME TypeOK, TypeOK', VisibilityInv, [Next]_vars
  PROVE  VisibilityInv'
<1>1. CASE UNCHANGED vars
  BY <1>1 DEF vars, storeVars, journalVars, historyVars, VisibilityInv, QueueInv,
              GenerationInv, LifecycleInv, RunningRowsAreVisible, Fits, SameStep
<1>2. CASE JournalNext
  <2>1. ASSUME NEW id \in Command, NEW e \in Epoch, NEW a \in Authorities,
               CommandAborted(id, e, a)
        PROVE  VisibilityInv'
    BY <2>1, AbortPreserves DEF CommandAborted
  <2>2. ASSUME NEW e \in Epoch, NEW a \in Authorities, NEW newer \in BOOLEAN,
               PromptReady(e, a, newer)
        PROVE  VisibilityInv'
    BY <2>2, AbortPreserves DEF PromptReady
  <2>3. CASE AbortActive
    BY <2>3, AbortPreserves DEF AbortActive
  <2>4. CASE ClearBegin
    BY <2>4, BeginPreserves DEF ClearBegin, JournalKinds
  <2>5. CASE DeleteBegin
    BY <2>5, BeginPreserves DEF DeleteBegin, JournalKinds
  <2> QED BY <1>2, <2>1, <2>2, <2>3, <2>4, <2>5, StartPreserves, FinishPreserves,
             OutputPreserves, MarkPreserves DEF JournalNext
<1>3. CASE TransactionNext
  BY <1>3, TransactionPreserves
<1>4. CASE Attach
  <2>1. /\ UNCHANGED <<storeState, queue, reply, rows, dbGeneration>>
        /\ UNCHANGED <<recs, active, completed, gate, service, used>>
        /\ attached' /\ generation' = dbGeneration /\ storeState = "open" /\ ~attached
    BY <1>4 DEF Attach, storeVars, historyVars
  <2>2. active = NoCommand /\ gate = FreeGate /\ reply.status = "none"
    BY <2>1 DEF VisibilityInv, LifecycleInv, GenerationInv
  <2> QED BY <2>1, <2>2 DEF VisibilityInv, QueueInv, GenerationInv, LifecycleInv,
                            RunningRowsAreVisible, Fits, SameStep
<1>5. CASE Crash
  <2>1. /\ queue' = <<>> /\ storeState' = "down" /\ ~attached' /\ reply'.status = "none"
        /\ active' = NoCommand /\ completed' = {} /\ gate' = FreeGate /\ service' = "idle"
        /\ UNCHANGED <<rows, dbGeneration, used>>
    BY <1>5 DEF Crash, StoreCrash, NoReply, historyVars
  <2>2. QueueInv'
    BY <2>1 DEF QueueInv
  <2> QED BY <2>1, <2>2 DEF VisibilityInv, GenerationInv, LifecycleInv, RunningRowsAreVisible
<1>6. CASE (WriterNext \/ CloseStore \/ Open) /\ UNCHANGED <<journalVars, service, historyVars>>
  <2>1. CASE WriterNext
    BY <1>6, <2>1, WriterPreserves
  <2>2. CASE CloseStore
    <3>1. /\ UNCHANGED <<queue, reply, rows, dbGeneration>> /\ storeState' = "closed"
          /\ UNCHANGED <<attached, recs, active, completed, generation, gate, service, used>>
      BY <1>6, <2>2 DEF CloseStore, journalVars, historyVars
    <3> QED BY <3>1 DEF VisibilityInv, QueueInv, GenerationInv, LifecycleInv,
                        RunningRowsAreVisible, Fits, SameStep
  <2>3. CASE Open
    <3>1. /\ UNCHANGED <<queue, reply, dbGeneration>> /\ storeState' = "open"
          /\ UNCHANGED <<attached, recs, active, completed, generation, gate, service, used>>
          /\ storeState = "down"
      BY <1>6, <2>3 DEF Open, journalVars, historyVars
    <3>2. ~attached /\ queue = <<>> /\ active = NoCommand
      BY <3>1 DEF VisibilityInv, LifecycleInv
    <3>3. QueueInv'
      BY <3>1, <3>2 DEF QueueInv
    <3>4. GenerationInv'
      BY <3>1 DEF VisibilityInv, GenerationInv
    <3>5. LifecycleInv' /\ RunningRowsAreVisible'
      BY <2>3, <3>1, <3>2, OpenEffect DEF VisibilityInv, LifecycleInv, RunningRowsAreVisible
    <3> QED BY <3>3, <3>4, <3>5 DEF VisibilityInv
  <2> QED BY <1>6, <2>1, <2>2, <2>3
<1> QED BY <1>1, <1>2, <1>3, <1>4, <1>5, <1>6 DEF Next

\* The journal, the FIFO and the tables agree on the visible generation: an event
\* waiting in the FIFO carries the generation the tables will have when it is
\* written, and a record the journal still owns is not behind.
THEOREM VisibilityInvariant == Spec => []VisibilityInv
<1>1. Init => VisibilityInv
  <2> SUFFICES ASSUME Init PROVE VisibilityInv
    OBVIOUS
  <2>1. /\ queue = <<>> /\ storeState = "open" /\ reply.status = "none" /\ ~attached
        /\ active = NoCommand /\ completed = {} /\ gate = FreeGate /\ service = "idle"
        /\ \A c \in Command : rows[c].state = "absent"
    BY DEF Init, StoreInit, NoReply, NoRecord
  <2>2. QueueInv
    BY <2>1 DEF QueueInv
  <2> QED BY <2>1, <2>2 DEF VisibilityInv, GenerationInv, LifecycleInv, RunningRowsAreVisible
<1>2. TypeOK /\ TypeOK' /\ VisibilityInv /\ [Next]_vars => VisibilityInv'
  BY VisibilityInductive
<1> QED BY <1>1, <1>2, TypeCorrect, PTL DEF Spec

\* No running row is ever behind the visible generation, whatever interleaving of
\* producers, Clear, Delete, writer faults, close, crash and recovery: the
\* transactions of advanceGeneration and deleteHistory move exactly the rows that
\* later events of the journal will still change.
THEOREM RunningVisible == Spec => []RunningRowsAreVisible
<1>1. VisibilityInv => RunningRowsAreVisible
  BY DEF VisibilityInv
<1> QED BY <1>1, VisibilityInvariant, PTL

\* What Clear or Delete hid is never shown again: neither a late lifecycle event of
\* the journal nor recovery gives a hidden row the visible generation.
THEOREM HiddenIsHidden == Spec => HiddenStaysHidden
<1>1. TypeOK /\ VisibilityInv /\ [Next]_vars =>
        [\A c \in Command :
           (rows[c].state # "absent" /\ rows[c].gen < dbGeneration) => ~Visible(c)']_vars
  <2> SUFFICES ASSUME TypeOK, VisibilityInv, [Next]_vars, NEW c \in Command,
                      rows[c].state # "absent", rows[c].gen < dbGeneration
               PROVE  ~Visible(c)'
    OBVIOUS
  <2>1. /\ rows[c].gen \in Nat /\ dbGeneration \in Nat
        /\ rows[c].gen < dbGeneration /\ rows[c].state \notin {"absent", "running"}
    <3>1. rows[c] \in Record /\ dbGeneration \in Nat
      BY DEF TypeOK, StoreTypeOK
    <3>2. \A r \in Record : r.gen \in Nat
      BY DEF Record
    <3>3. rows[c].gen \in Nat
      BY <3>1, <3>2, Zenon
    <3>4. rows[c].gen # dbGeneration
      BY <3>1, <3>3
    <3>5. rows[c].state # "running"
      BY <3>4 DEF VisibilityInv, RunningRowsAreVisible
    <3> QED BY <3>1, <3>3, <3>5
  <2>2. CASE UNCHANGED <<rows, dbGeneration>>
    BY <2>1, <2>2 DEF Visible
  <2>3. CASE Commit
    <3>1. queue # <<>> /\ Fits(Head(queue))
      <4>1. queue # <<>> /\ queue' = Tail(queue)
        BY <2>3 DEF Commit, WriterStep
      <4> QED BY <4>1, TailEvents DEF VisibilityInv, QueueInv
    <3>2. CASE RowEffect(Head(queue), c) /\ dbGeneration' = dbGeneration
      <4>1. rows'[c].gen = rows[c].gen
        BY <2>1, <3>1, <3>2 DEF RowEffect, Fits, Ends
      <4> QED BY <2>1, <3>2, <4>1 DEF Visible
    <3>3. CASE TransactionEffect(c) /\ dbGeneration' = dbGeneration + 1
      <4>1. rows'[c].state = "absent" \/ rows'[c].gen = rows[c].gen
        BY <2>1, <3>3 DEF TransactionEffect
      <4> QED BY <2>1, <3>3, <4>1 DEF Visible
    <3> QED BY <2>3, <3>2, <3>3, CommitEffect
  <2>4. CASE Open
    <3>1. rows'[c].gen = rows[c].gen /\ dbGeneration' = dbGeneration
      BY <2>4, OpenEffect DEF Open
    <3> QED BY <2>1, <3>1 DEF Visible
  <2>5. [Next]_vars => UNCHANGED <<rows, dbGeneration>> \/ Commit \/ Open
    <3>1. JournalNext => UNCHANGED <<rows, dbGeneration>>
      BY DEF JournalNext, CommandStarted, CommandFinished, CommandAborted, PromptReady,
             AbortActive, AbortActiveLocked, OutputSegment, MarkOutputIncomplete,
             ClearBegin, DeleteBegin, BeginTransaction, OnlyQueue
    <3>2. TransactionNext => UNCHANGED <<rows, dbGeneration>>
      BY DEF TransactionNext, ClearCommit, DeleteCommit, TransactionFailed, TransactionDone
    <3>3. WriterNext => UNCHANGED <<rows, dbGeneration>> \/ Commit
      BY DEF WriterNext, Dequeue, CommitMissing, CommitFault
    <3>4. Attach \/ Crash \/ CloseStore \/ UNCHANGED vars => UNCHANGED <<rows, dbGeneration>>
      BY DEF Attach, Crash, StoreCrash, CloseStore, vars, storeVars
    <3> QED BY <3>1, <3>2, <3>3, <3>4 DEF Next
  <2> QED BY <2>2, <2>3, <2>4, <2>5
<1> QED BY <1>1, TypeCorrect, VisibilityInvariant, PTL DEF Spec, HiddenStaysHidden

-----------------------------------------------------------------------------
(* Why output that the product offers as authoritative is exact: an          *)
(* inductive invariant about the bytes that are emitted, waiting in the FIFO *)
(* and stored, and about the claims that records and queued events make for  *)
(* them.                                                                     *)

\* The events that carry a claim about the output of their command.
Closers == {"finished", "finalized", "aborted"}

\* No producer can add to the output of c any more.
Settled(c) == c \in used /\ c # active /\ c # pending

PlainText(c) == \A i \in DOMAIN emitted[c] : emitted[c][i] = "text"

-----------------------------------------------------------------------------
(* Where the bytes are.                                                     *)

\* The output events of c in the FIFO q carry pieces of out, what c emitted: the
\* i-th event one that starts at off[i] + 1, and kept, what is stored, ends at or
\* before off[1].  Bytes may be missing between two pieces, but what is stored
\* without a gap is the beginning of out.
Placed(off, q, out, kept, c) ==
  /\ off[Len(q) + 1] = Len(out)
  /\ Len(kept) <= off[1]
  /\ Len(kept) = off[1] => \A k \in 1 .. Len(kept) : kept[k] = out[k]
  /\ \A i \in 1 .. Len(q) :
       /\ off[i] <= off[i + 1]
       /\ q[i].kind = "output" /\ q[i].id = c =>
            /\ off[i] + Len(q[i].data) <= off[i + 1]
            /\ \A k \in 1 .. Len(q[i].data) : q[i].data[k] = out[off[i] + k]

Delivers(q, out, kept, c) ==
  \E off \in [1 .. Len(q) + 1 -> 0 .. Len(out)] : Placed(off, q, out, kept, c)

\* The tables store what they count, and a row that is gone left nothing behind.
DeliveryInv ==
  \A c \in Command :
    /\ Len(chunks[c]) = rows[c].stored
    /\ rows[c].stored <= rows[c].total
    /\ rows[c].state = "absent" => rows[c] = NoRecord
    /\ Delivers(queue, emitted[c], chunks[c], c)

-----------------------------------------------------------------------------
(* What is claimed for them.                                                *)

\* A queued event that claims exclusive output tells the truth, for ever.
HonestClaim(e) ==
  (e.kind \in Closers /\ e.rec.attr = "exclusive") =>
    /\ e.kind # "aborted"
    /\ Settled(e.id)
    /\ e.id \notin gaps
    /\ e.rec.total = Len(emitted[e.id])
    /\ e.rec.stored = e.rec.total
    /\ ~e.rec.truncated
    /\ e.rec.compl = "complete"
    /\ e.rec.ostate = "closed"
    /\ e.rec.safety = "plain" => PlainText(e.id)

\* A queued start begins with nothing.
FreshStart(e) ==
  e.kind = "started" =>
    e.rec.total = 0 /\ e.rec.stored = 0 /\ e.rec.attr = "unknown" /\ e.rec.ostate = "open"

\* So does a row that claims it.
HonestAs(row, c) ==
  row.attr = "exclusive" =>
    /\ Settled(c)
    /\ c \notin gaps
    /\ row.stored = Len(emitted[c])
    /\ row.total = row.stored
    /\ ~row.truncated
    /\ row.compl = "complete"
    /\ row.ostate = "closed"
    /\ row.safety = "plain" => PlainText(c)

HonestRow(c) == HonestAs(rows[c], c)

HonestyInv ==
  /\ \A i \in DOMAIN queue : HonestClaim(queue[i]) /\ FreshStart(queue[i])
  /\ \A c \in Command : HonestRow(c)

\* The running record counts what its command emitted, and notes what is missing
\* or is not plain text.
RunningInv ==
  active # NoCommand =>
    /\ recs[active].total = Len(emitted[active])
    /\ recs[active].stored <= recs[active].total
    /\ recs[active].truncated <=> recs[active].stored < recs[active].total
    /\ recs[active].attr = "unknown"
    /\ recs[active].compl # "complete"
    /\ active \in gaps => recs[active].compl = "incomplete"
    /\ (recs[active].src = "host" /\ recs[active].compl # "incomplete") =>
         /\ recs[active].safety = "unknown" => Len(emitted[active]) = 0
         /\ recs[active].safety = "plain" => PlainText(active)

PendingInv ==
  pending # NoCommand =>
    /\ attached
    /\ active = NoCommand
    /\ pending \in used
    /\ recs[pending].compl # "complete"
    /\ pending \in completed => recs[pending].ostate = "pending"

UnusedInv == \A c \in Command \ used : Len(emitted[c]) = 0 /\ c \notin gaps

-----------------------------------------------------------------------------
(* In which order it is claimed.                                            *)

OutputOpen(c) == c = active \/ (c = pending /\ HasPending)

Closes(e, c) == e.kind \in Closers /\ e.id = c /\ e.rec.ostate = "closed"

\* Once the output of a command is closed, in its row or by a queued event, every
\* later event about it says so too.
ClosedInv ==
  /\ \A c \in Command : OutputOpen(c) =>
       rows[c].ostate # "closed" /\ \A i \in DOMAIN queue : ~Closes(queue[i], c)
  /\ \A i, j \in DOMAIN queue :
       (i < j /\ queue[j].kind \in Closers /\ Closes(queue[i], queue[j].id)) =>
          queue[j].rec.ostate = "closed"
  /\ \A j \in DOMAIN queue :
       (queue[j].kind \in Closers /\ rows[queue[j].id].ostate = "closed") =>
          queue[j].rec.ostate = "closed"

\* A finalizing event that claims exclusive output is sent together with the
\* finishing event it confirms; when that one did not earn the row its trust,
\* this one will not either.
Confirms(e, f) ==
  f.kind = "finalized" /\ f.rec.attr = "exclusive" =>
    e.kind = "finished" /\ e.id = f.id /\ e.rec = f.rec

NothingToGain(e) ==
  \/ rows[e.id].state \notin Ends
  \/ CanCopyOutput(rows[e.id])
  \/ DurableAttribution(e.id, e.rec) = "unknown"
  \/ rows[e.id].mode = "interactive"
  \/ e.rec.safety # "plain"

ConfirmInv ==
  /\ \A j \in DOMAIN queue : j # 1 => Confirms(queue[j - 1], queue[j])
  /\ queue # <<>> /\ queue[1].kind = "finalized" /\ queue[1].rec.attr = "exclusive" =>
       NothingToGain(queue[1])

OutputInv ==
  DeliveryInv /\ HonestyInv /\ RunningInv /\ PendingInv /\ UnusedInv /\ ClosedInv /\ ConfirmInv

-----------------------------------------------------------------------------
(* Delivery: what each change of the FIFO and the chunks does to it.        *)

\* The bytes of a piece are bytes of what it is a piece of.
LEMMA PieceWithin ==
  ASSUME NEW start \in Nat, NEW len \in Nat, NEW total \in Nat, NEW end \in 0 .. total,
         start + len <= end, NEW k \in 1 .. len
  PROVE  start + k \in 1 .. total
OBVIOUS

\* Nothing is waiting, nothing was emitted.
LEMMA DeliversNothing ==
  ASSUME NEW c
  PROVE  Delivers(<<>>, <<>>, <<>>, c)
<1> DEFINE off == [i \in 1 .. 1 |-> 0]
<1>1. off \in [1 .. Len(<<>>) + 1 -> 0 .. Len(<<>>)] /\ off[1] = 0
  BY EmptySeq
<1>2. Placed(off, <<>>, <<>>, <<>>, c)
  BY <1>1 DEF Placed
<1> QED BY <1>1, <1>2 DEF Delivers

\* Events that carry no output of c move nothing.
LEMMA DeliversAppend ==
  ASSUME NEW q \in Seq(Event), NEW events \in Seq(Event), NEW out \in Seq(Byte),
         NEW kept \in Seq(Byte), NEW c, Delivers(q, out, kept, c),
         \A k \in DOMAIN events : ~(events[k].kind = "output" /\ events[k].id = c)
  PROVE  Delivers(q \o events, out, kept, c)
<1> DEFINE n == Len(q)
           m == Len(events)
<1>1. PICK off \in [1 .. n + 1 -> 0 .. Len(out)] : Placed(off, q, out, kept, c)
  BY DEF Delivers
<1>2. n \in Nat /\ m \in Nat /\ Len(out) \in Nat /\ DOMAIN events = 1 .. m
  BY LenProperties
<1>3. /\ Len(q \o events) = n + m
      /\ \A i \in 1 .. n + m : (q \o events)[i] = IF i <= n THEN q[i] ELSE events[i - n]
  BY ConcatProperties
<1> DEFINE new == [i \in 1 .. n + m + 1 |-> IF i <= n + 1 THEN off[i] ELSE Len(out)]
<1> HIDE DEF n, m
<1>4. new \in [1 .. n + m + 1 -> 0 .. Len(out)]
  BY <1>1, <1>2
<1>5. \A i \in 1 .. n + 1 : new[i] = off[i]
  BY <1>2
<1>6. \A i \in n + 1 .. n + m + 1 : new[i] = Len(out)
  BY <1>1, <1>2 DEF Placed, n
<1> HIDE DEF new
<1>7. new[1] = off[1]
  <2>1. 1 \in 1 .. n + 1
    BY <1>2
  <2> QED BY <1>5, <2>1
<1>8. new[n + m + 1] = Len(out)
  <2>1. n + m + 1 \in n + 1 .. n + m + 1
    BY <1>2
  <2> QED BY <1>6, <2>1
<1>9. ASSUME NEW i \in 1 .. n + m
      PROVE  /\ new[i] <= new[i + 1]
             /\ (q \o events)[i].kind = "output" /\ (q \o events)[i].id = c =>
                  /\ new[i] + Len((q \o events)[i].data) <= new[i + 1]
                  /\ \A k \in 1 .. Len((q \o events)[i].data) :
                       (q \o events)[i].data[k] = out[new[i] + k]
  <2>1. CASE i <= n
    <3>1. i \in 1 .. n /\ new[i] = off[i] /\ new[i + 1] = off[i + 1] /\ (q \o events)[i] = q[i]
      BY <1>2, <1>3, <1>5, <1>9, <2>1
    <3> QED BY <1>1, <3>1 DEF Placed, n
  <2>2. CASE ~(i <= n)
    <3>1. new[i] = Len(out) /\ new[i + 1] = Len(out) /\ i - n \in DOMAIN events
          /\ (q \o events)[i] = events[i - n]
      BY <1>2, <1>3, <1>6, <1>9, <2>2
    <3> QED BY <1>2, <3>1
  <2> QED BY <2>1, <2>2
<1>10. Placed(new, q \o events, out, kept, c)
  BY <1>1, <1>3, <1>7, <1>8, <1>9 DEF Placed
<1> QED BY <1>3, <1>4, <1>10 DEF Delivers

\* c emits bytes that do not reach the FIFO.
LEMMA DeliversRefused ==
  ASSUME NEW q \in Seq(Event), NEW out \in Seq(Byte), NEW kept \in Seq(Byte), NEW c,
         NEW data \in Seq(Byte), Delivers(q, out, kept, c)
  PROVE  Delivers(q, out \o data, kept, c)
<1> DEFINE n == Len(q)
<1>1. PICK off \in [1 .. n + 1 -> 0 .. Len(out)] : Placed(off, q, out, kept, c)
  BY DEF Delivers
<1>2. n \in Nat /\ Len(out) \in Nat /\ Len(data) \in Nat /\ Len(kept) \in Nat
  BY LenProperties
<1>3. /\ Len(out \o data) = Len(out) + Len(data)
      /\ \A k \in 1 .. Len(out) : (out \o data)[k] = out[k]
  BY <1>2, ConcatProperties
<1> DEFINE new == [off EXCEPT ![n + 1] = Len(out) + Len(data)]
<1> HIDE DEF n
<1>4. new \in [1 .. n + 1 -> 0 .. Len(out \o data)]
  BY <1>1, <1>2, <1>3
<1>5. new[n + 1] = Len(out \o data) /\ off[n + 1] = Len(out)
      /\ \A i \in 1 .. n : new[i] = off[i] /\ new[i] \in 0 .. Len(out)
  <2>1. off[n + 1] = Len(out)
    BY <1>1 DEF Placed, n
  <2>2. n + 1 \in 1 .. n + 1
    BY <1>2
  <2>3. new[n + 1] = Len(out) + Len(data)
    BY <1>1, <2>2
  <2>4. ASSUME NEW i \in 1 .. n PROVE new[i] = off[i] /\ off[i] \in 0 .. Len(out)
    <3>1. i \in 1 .. n + 1 /\ i # n + 1
      BY <1>2
    <3> QED BY <1>1, <3>1
  <2> QED BY <1>3, <2>1, <2>3, <2>4
<1>6. ASSUME NEW i \in 1 .. n
      PROVE  off[i + 1] \in 0 .. Len(out) /\ new[i + 1] \in Nat /\ off[i + 1] <= new[i + 1]
  <2>1. /\ i + 1 \in 1 .. n + 1 /\ off[i + 1] \in 0 .. Len(out)
        /\ new[i + 1] \in 0 .. Len(out) + Len(data)
        /\ i + 1 = n + 1 \/ i + 1 \in 1 .. n
    BY <1>1, <1>2, <1>3, <1>4
  <2> QED BY <1>2, <1>3, <1>5, <2>1
<1> HIDE DEF new
<1>7. Len(kept) <= new[1] /\ (Len(kept) = new[1] => Len(kept) = off[1])
  <2>0. 1 \in 1 .. n + 1
    BY <1>2
  <2>1. off[1] \in 0 .. Len(out) /\ Len(kept) <= off[1] /\ new[1] \in Nat
    BY <1>1, <1>2, <1>4, <2>0 DEF Placed
  <2>2. CASE n = 0
    BY <1>2, <1>3, <1>5, <2>1, <2>2
  <2>3. CASE n # 0
    <3>1. 1 \in 1 .. n
      BY <1>2, <2>3
    <3> QED BY <1>5, <2>1, <3>1
  <2> QED BY <2>2, <2>3
<1>8. Len(kept) = new[1] => \A k \in 1 .. Len(kept) : kept[k] = (out \o data)[k]
  <2> SUFFICES ASSUME Len(kept) = new[1], NEW k \in 1 .. Len(kept)
               PROVE  kept[k] = (out \o data)[k]
    OBVIOUS
  <2>1. kept[k] = out[k] /\ off[1] \in 0 .. Len(out) /\ Len(kept) = off[1]
    BY <1>1, <1>2, <1>7 DEF Placed
  <2>2. k \in 1 .. Len(out)
    BY <1>2, <2>1
  <2> QED BY <1>3, <2>1, <2>2
<1>9. ASSUME NEW i \in 1 .. n
      PROVE  /\ new[i] <= new[i + 1]
             /\ q[i].kind = "output" /\ q[i].id = c =>
                  /\ new[i] + Len(q[i].data) <= new[i + 1]
                  /\ \A k \in 1 .. Len(q[i].data) : q[i].data[k] = (out \o data)[new[i] + k]
  <2>0. off[i] <= off[i + 1]
    BY <1>1 DEF Placed, n
  <2>1. /\ off[i] <= off[i + 1] /\ off[i + 1] <= new[i + 1] /\ new[i] = off[i]
        /\ off[i] \in Nat /\ off[i + 1] \in 0 .. Len(out) /\ new[i + 1] \in Nat
    BY <1>5, <1>6, <2>0
  <2>2. new[i] <= new[i + 1]
    BY <2>1
  <2>3. ASSUME q[i].kind = "output", q[i].id = c
        PROVE  /\ new[i] + Len(q[i].data) <= new[i + 1]
               /\ \A k \in 1 .. Len(q[i].data) : q[i].data[k] = (out \o data)[new[i] + k]
    <3>1. /\ off[i] + Len(q[i].data) <= off[i + 1]
          /\ \A k \in 1 .. Len(q[i].data) : q[i].data[k] = out[off[i] + k]
      BY <1>1, <2>3 DEF Placed, n
    <3>2. Len(q[i].data) \in Nat
      <4>1. q[i] \in Event
        BY ElementOfSeq DEF n
      <4> QED BY <4>1, EventFields
    <3>3. ASSUME NEW k \in 1 .. Len(q[i].data) PROVE off[i] + k \in 1 .. Len(out)
      <4> QED BY <1>2, <2>1, <3>1, <3>2, PieceWithin
    <3>4. new[i] + Len(q[i].data) <= new[i + 1]
      BY <2>1, <3>1, <3>2
    <3> QED BY <1>3, <2>1, <3>1, <3>3, <3>4
  <2> QED BY <2>2, <2>3
<1>10. Placed(new, q, out \o data, kept, c)
  BY <1>5, <1>7, <1>8, <1>9 DEF Placed, n
<1> QED BY <1>4, <1>10 DEF Delivers, n

\* c emits bytes that the FIFO takes.
LEMMA DeliversOutput ==
  ASSUME NEW q \in Seq(Event), NEW out \in Seq(Byte), NEW kept \in Seq(Byte), NEW c,
         NEW data \in Seq(Byte), NEW e \in Event, e.data = data, Delivers(q, out, kept, c)
  PROVE  Delivers(q \o <<e>>, out \o data, kept, c)
<1> DEFINE n == Len(q)
<1>1. PICK off \in [1 .. n + 1 -> 0 .. Len(out)] : Placed(off, q, out, kept, c)
  BY DEF Delivers
<1>2. n \in Nat /\ Len(out) \in Nat /\ Len(data) \in Nat /\ Len(kept) \in Nat
  BY LenProperties
<1>3. /\ Len(out \o data) = Len(out) + Len(data)
      /\ \A k \in 1 .. Len(out) : (out \o data)[k] = out[k]
      /\ \A k \in 1 .. Len(data) : (out \o data)[Len(out) + k] = data[k]
  BY <1>2, ConcatProperties
<1>4. Len(q \o <<e>>) = n + 1 /\ \A i \in 1 .. n : (q \o <<e>>)[i] = q[i]
      /\ (q \o <<e>>)[n + 1] = e
  BY AppendProperties, AppendIsConcat
<1>5. off[n + 1] = Len(out) /\ off[1] \in 0 .. Len(out) /\ Len(kept) <= off[1]
  <2>1. 1 \in 1 .. n + 1
    BY <1>2
  <2> QED BY <1>1, <2>1 DEF Placed
<1> DEFINE new == [i \in 1 .. n + 2 |-> IF i = n + 2 THEN Len(out) + Len(data) ELSE off[i]]
<1> HIDE DEF n
<1>6. \A i \in 1 .. n + 1 : new[i] = off[i] /\ off[i] \in 0 .. Len(out)
  BY <1>1, <1>2
<1>7. new[n + 2] = Len(out) + Len(data)
  <2>1. n + 2 \in 1 .. n + 2
    BY <1>2
  <2> QED BY <2>1
<1>8. new \in [1 .. n + 2 -> 0 .. Len(out \o data)]
  <2>1. ASSUME NEW i \in 1 .. n + 2 PROVE new[i] \in 0 .. Len(out \o data)
    <3>1. i \in 1 .. n + 1 \/ i = n + 2
      BY <1>2
    <3> QED BY <1>2, <1>3, <1>6, <1>7, <3>1
  <2> QED BY <2>1
<1> HIDE DEF new
<1>9. Len(kept) <= new[1]
      /\ (Len(kept) = new[1] => \A k \in 1 .. Len(kept) : kept[k] = (out \o data)[k])
  <2>1. 1 \in 1 .. n + 1
    BY <1>2
  <2>2. new[1] = off[1]
    BY <1>6, <2>1
  <2>3. Len(kept) = off[1] => \A k \in 1 .. Len(kept) : kept[k] = out[k] /\ k \in 1 .. Len(out)
    BY <1>1, <1>2, <1>5 DEF Placed
  <2> QED BY <1>3, <1>5, <2>2, <2>3
<1>10. ASSUME NEW i \in 1 .. n
       PROVE  /\ new[i] <= new[i + 1]
              /\ q[i].kind = "output" /\ q[i].id = c =>
                   /\ new[i] + Len(q[i].data) <= new[i + 1]
                   /\ \A k \in 1 .. Len(q[i].data) : q[i].data[k] = (out \o data)[new[i] + k]
  <2>1. i \in 1 .. n + 1 /\ i + 1 \in 1 .. n + 1
    BY <1>2
  <2>2. /\ new[i] = off[i] /\ new[i + 1] = off[i + 1] /\ off[i] <= off[i + 1]
        /\ off[i] \in Nat /\ off[i + 1] \in 0 .. Len(out)
    BY <1>1, <1>6, <2>1 DEF Placed, n
  <2>3. ASSUME q[i].kind = "output", q[i].id = c
        PROVE  /\ off[i] + Len(q[i].data) <= off[i + 1]
               /\ \A k \in 1 .. Len(q[i].data) : q[i].data[k] = (out \o data)[off[i] + k]
    <3>1. /\ off[i] + Len(q[i].data) <= off[i + 1]
          /\ \A k \in 1 .. Len(q[i].data) : q[i].data[k] = out[off[i] + k]
      BY <1>1, <2>3 DEF Placed, n
    <3>2. Len(q[i].data) \in Nat
      <4>1. q[i] \in Event
        BY ElementOfSeq DEF n
      <4> QED BY <4>1, EventFields
    <3>3. ASSUME NEW k \in 1 .. Len(q[i].data) PROVE off[i] + k \in 1 .. Len(out)
      BY <1>2, <2>2, <3>1, <3>2, PieceWithin
    <3> QED BY <1>3, <3>1, <3>3
  <2> QED BY <2>2, <2>3
<1>11. /\ new[n + 1] = Len(out) /\ new[n + 1] + Len(data) = new[n + 2]
       /\ new[n + 1] <= new[n + 2]
       /\ \A k \in 1 .. Len(data) : data[k] = (out \o data)[new[n + 1] + k]
  <2>1. n + 1 \in 1 .. n + 1
    BY <1>2
  <2>2. new[n + 1] = Len(out)
    BY <1>5, <1>6, <2>1
  <2> QED BY <1>2, <1>3, <1>7, <2>2
<1>12. \A i \in 1 .. n + 1 : i \in 1 .. n \/ i = n + 1
  BY <1>2
<1>13. n + 1 + 1 = n + 2
  BY <1>2
<1> DEFINE qq == q \o <<e>>
           all == out \o data
<1>14. qq[n + 1].data = data /\ \A i \in 1 .. n : qq[i] = q[i]
  <2>1. qq[n + 1] = e
    BY <1>4
  <2>2. \A i \in 1 .. n : qq[i] = q[i]
    BY <1>4
  <2> QED BY <2>1, <2>2
<1>15. ASSUME NEW i \in 1 .. n + 1
       PROVE  /\ new[i] <= new[i + 1]
              /\ qq[i].kind = "output" /\ qq[i].id = c =>
                   /\ new[i] + Len(qq[i].data) <= new[i + 1]
                   /\ \A k \in 1 .. Len(qq[i].data) : qq[i].data[k] = all[new[i] + k]
  <2>1. CASE i \in 1 .. n
    BY <1>10, <1>14, <2>1
  <2>2. CASE i = n + 1
    <3>1. new[n + 1] + Len(data) <= new[n + 2]
      BY <1>2, <1>11
    <3> QED BY <1>11, <1>13, <1>14, <2>2, <3>1
  <2> QED BY <1>12, <2>1, <2>2
<1>16. Len(qq) = n + 1 /\ new[n + 2] = Len(all)
  BY <1>3, <1>4, <1>7
<1> HIDE DEF qq, all
<1>17. Placed(new, qq, all, kept, c)
  BY <1>9, <1>13, <1>15, <1>16 DEF Placed, all
<1> QED BY <1>8, <1>13, <1>16, <1>17 DEF Delivers, qq, all

\* The writer takes the head of the FIFO and stores a part of its output, or
\* nothing.
LEMMA DeliversTake ==
  ASSUME NEW q \in Seq(Event), q # <<>>, NEW out \in Seq(Byte), NEW kept \in Seq(Byte),
         NEW c, NEW part \in Seq(Byte), Delivers(q, out, kept, c),
         \/ Len(part) = 0
         \/ /\ q[1].kind = "output" /\ q[1].id = c /\ Len(part) <= Len(q[1].data)
            /\ \A k \in 1 .. Len(part) : part[k] = q[1].data[k]
  PROVE  Delivers(Tail(q), out, kept \o part, c)
<1> DEFINE n == Len(q)
           both == kept \o part
<1>1. PICK off \in [1 .. n + 1 -> 0 .. Len(out)] : Placed(off, q, out, kept, c)
  BY DEF Delivers
<1> DEFINE new == [i \in 1 .. n |-> off[i + 1]]
<1>2. n \in Nat /\ n # 0 /\ Len(out) \in Nat /\ Len(kept) \in Nat /\ Len(part) \in Nat
  BY LenProperties, EmptySeq
<1>3. q[1] \in Event /\ Len(q[1].data) \in Nat
  <2>1. q[1] \in Event
    BY <1>2, ElementOfSeq
  <2> QED BY <2>1, EventFields
<1>4. Len(Tail(q)) = n - 1 /\ \A i \in 1 .. n - 1 : Tail(q)[i] = q[i + 1]
  BY HeadTailProperties
<1>5. /\ Len(both) = Len(kept) + Len(part)
      /\ \A k \in 1 .. Len(both) :
           both[k] = IF k <= Len(kept) THEN kept[k] ELSE part[k - Len(kept)]
  BY ConcatProperties
<1> HIDE DEF n, both
<1>6. /\ off[1] \in 0 .. Len(out) /\ off[2] \in 0 .. Len(out) /\ off[1] <= off[2]
      /\ Len(kept) <= off[1] /\ off[n + 1] = Len(out)
      /\ Len(kept) = off[1] => \A k \in 1 .. Len(kept) : kept[k] = out[k]
      /\ q[1].kind = "output" /\ q[1].id = c =>
            /\ off[1] + Len(q[1].data) <= off[2]
            /\ \A k \in 1 .. Len(q[1].data) : q[1].data[k] = out[off[1] + k]
  <2>1. 1 \in 1 .. n /\ 1 \in 1 .. n + 1 /\ 2 \in 1 .. n + 1 /\ 1 + 1 = 2
    BY <1>2
  <2> QED BY <1>1, <2>1 DEF Placed, n
<1>7. /\ new \in [1 .. n -> 0 .. Len(out)] /\ new[n] = Len(out) /\ new[1] = off[2]
      /\ \A i \in 1 .. n - 1 : new[i] = off[i + 1] /\ new[i + 1] = off[i + 1 + 1]
  <2>1. ASSUME NEW i \in 1 .. n PROVE new[i] = off[i + 1] /\ off[i + 1] \in 0 .. Len(out)
    <3>1. i + 1 \in 1 .. n + 1
      BY <1>2
    <3> QED BY <1>1, <3>1
  <2>2. n \in 1 .. n /\ 1 \in 1 .. n /\ 1 + 1 = 2
    BY <1>2
  <2>3. \A i \in 1 .. n - 1 : i \in 1 .. n /\ i + 1 \in 1 .. n
    BY <1>2
  <2>4. new \in [1 .. n -> 0 .. Len(out)]
    BY <2>1
  <2> QED BY <1>6, <2>1, <2>2, <2>3, <2>4
<1> HIDE DEF new
<1>8. Len(both) <= off[2]
  BY <1>2, <1>3, <1>5, <1>6
<1>9. ASSUME Len(both) = off[2], NEW k \in 1 .. Len(both) PROVE both[k] = out[k]
  <2>1. Len(kept) = off[1]
    BY <1>2, <1>3, <1>5, <1>6, <1>9
  <2>0. /\ both[k] = IF k <= Len(kept) THEN kept[k] ELSE part[k - Len(kept)]
        /\ k \in 1 .. Len(kept) + Len(part)
    BY <1>5
  <2>2. CASE k <= Len(kept)
    <3>1. k \in 1 .. Len(kept) /\ both[k] = kept[k]
      BY <1>2, <2>0, <2>2
    <3> QED BY <1>6, <2>1, <3>1
  <2>3. CASE ~(k <= Len(kept))
    <3>1. k - Len(kept) \in 1 .. Len(part) /\ both[k] = part[k - Len(kept)]
          /\ off[1] + (k - Len(kept)) = k
      BY <1>2, <2>0, <2>1, <2>3
    <3>0. Len(part) # 0
      BY <1>2, <3>1
    <3>2. /\ q[1].kind = "output" /\ q[1].id = c /\ Len(part) <= Len(q[1].data)
          /\ \A j \in 1 .. Len(part) : part[j] = q[1].data[j]
      BY <3>0
    <3>3. k - Len(kept) \in 1 .. Len(q[1].data)
      BY <1>2, <1>3, <3>1, <3>2
    <3> QED BY <1>6, <3>1, <3>2, <3>3
  <2> QED BY <2>2, <2>3
<1>10. ASSUME NEW i \in 1 .. n - 1
       PROVE  /\ new[i] <= new[i + 1]
              /\ Tail(q)[i].kind = "output" /\ Tail(q)[i].id = c =>
                   /\ new[i] + Len(Tail(q)[i].data) <= new[i + 1]
                   /\ \A k \in 1 .. Len(Tail(q)[i].data) :
                        Tail(q)[i].data[k] = out[new[i] + k]
  <2>1. i + 1 \in 1 .. n
    BY <1>2
  <2>2. /\ off[i + 1] <= off[i + 1 + 1]
        /\ q[i + 1].kind = "output" /\ q[i + 1].id = c =>
             /\ off[i + 1] + Len(q[i + 1].data) <= off[i + 1 + 1]
             /\ \A k \in 1 .. Len(q[i + 1].data) : q[i + 1].data[k] = out[off[i + 1] + k]
    BY <1>1, <2>1 DEF Placed, n
  <2>3. Tail(q)[i] = q[i + 1] /\ new[i] = off[i + 1] /\ new[i + 1] = off[i + 1 + 1]
    BY <1>4, <1>7
  <2> QED BY <2>2, <2>3
<1>11. n - 1 + 1 = n
  BY <1>2
<1>12. Placed(new, Tail(q), out, both, c)
  BY <1>4, <1>7, <1>8, <1>9, <1>10, <1>11 DEF Placed
<1> QED BY <1>4, <1>7, <1>11, <1>12 DEF Delivers, both

\* The chunks of c are deleted.
LEMMA DeliversDeleted ==
  ASSUME NEW q \in Seq(Event), NEW out \in Seq(Byte), NEW kept \in Seq(Byte), NEW c,
         Delivers(q, out, kept, c)
  PROVE  Delivers(q, out, <<>>, c)
<1>1. PICK off \in [1 .. Len(q) + 1 -> 0 .. Len(out)] : Placed(off, q, out, kept, c)
  BY DEF Delivers
<1>2. Len(q) \in Nat /\ 1 \in 1 .. Len(q) + 1
  BY LenProperties
<1> DEFINE none == <<>>
<1>3. Len(none) = 0 /\ Len(none) <= off[1] /\ \A k \in 1 .. Len(none) : none[k] = out[k]
  <2>1. Len(none) = 0 /\ 1 .. 0 = {}
    OBVIOUS
  <2>2. off[1] >= 0
    BY <1>1, <1>2
  <2> QED BY <2>1, <2>2
<1> HIDE DEF none
<1>4. Placed(off, q, out, none, c)
  BY <1>1, <1>3 DEF Placed
<1> QED BY <1>1, <1>4 DEF Delivers, none

\* What is stored is not more than what was emitted, and nothing else if it is as
\* much.
LEMMA DeliversExact ==
  ASSUME NEW q \in Seq(Event), NEW out \in Seq(Byte), NEW kept \in Seq(Byte), NEW c,
         Delivers(q, out, kept, c)
  PROVE  /\ Len(kept) <= Len(out)
         /\ Len(kept) = Len(out) => kept = out
<1>1. PICK off \in [1 .. Len(q) + 1 -> 0 .. Len(out)] : Placed(off, q, out, kept, c)
  BY DEF Delivers
<1>2. Len(out) \in Nat /\ Len(kept) \in Nat /\ Len(q) \in Nat /\ 1 \in 1 .. Len(q) + 1
  BY LenProperties
<1>3. Len(kept) <= off[1] /\ off[1] \in 0 .. Len(out)
  BY <1>1, <1>2 DEF Placed
<1>4. ASSUME Len(kept) = Len(out) PROVE kept = out
  <2>1. Len(kept) = off[1]
    BY <1>2, <1>3, <1>4
  <2>2. \A k \in 1 .. Len(kept) : kept[k] = out[k]
    BY <1>1, <2>1 DEF Placed
  <2> QED BY <1>4, <2>2, SeqEqual
<1> QED BY <1>2, <1>3, <1>4

\* When as much is stored as was emitted, an output event at the head is empty.
LEMMA DeliversAll ==
  ASSUME NEW q \in Seq(Event), q # <<>>, NEW out \in Seq(Byte), NEW kept \in Seq(Byte),
         NEW c, Delivers(q, out, kept, c), Len(kept) = Len(out),
         q[1].kind = "output", q[1].id = c
  PROVE  Len(q[1].data) = 0
<1>1. PICK off \in [1 .. Len(q) + 1 -> 0 .. Len(out)] : Placed(off, q, out, kept, c)
  BY DEF Delivers
<1>2. /\ Len(out) \in Nat /\ Len(q) \in Nat /\ 1 \in 1 .. Len(q)
      /\ 1 \in 1 .. Len(q) + 1 /\ 2 \in 1 .. Len(q) + 1 /\ 1 + 1 = 2
  BY LenProperties, EmptySeq
<1>3. /\ Len(kept) <= off[1] /\ off[1] \in 0 .. Len(out) /\ off[2] \in 0 .. Len(out)
      /\ off[1] + Len(q[1].data) <= off[2]
  BY <1>1, <1>2 DEF Placed
<1>4. Len(q[1].data) \in Nat
  BY <1>2, ElementOfSeq, EventFields
<1> QED BY <1>2, <1>3, <1>4

\* The FIFO is lost.
LEMMA DeliversLost ==
  ASSUME NEW q \in Seq(Event), NEW out \in Seq(Byte), NEW kept \in Seq(Byte), NEW c,
         Delivers(q, out, kept, c)
  PROVE  Delivers(<<>>, out, kept, c)
<1> DEFINE off == [i \in 1 .. 1 |-> Len(out)]
<1>1. Len(<<>>) = 0 /\ Len(out) \in Nat /\ Len(kept) \in Nat
  BY LenProperties
<1>2. off \in [1 .. 0 + 1 -> 0 .. Len(out)] /\ off[1] = Len(out)
  BY <1>1
<1>3. Len(kept) <= Len(out) /\ (Len(kept) = Len(out) => kept = out)
  BY DeliversExact
<1> HIDE DEF off
<1>4. Placed(off, <<>>, out, kept, c)
  BY <1>1, <1>2, <1>3 DEF Placed
<1> QED BY <1>1, <1>2, <1>4 DEF Delivers

-----------------------------------------------------------------------------
(* What the journal does to the claims of a record.                         *)

\* finalizePendingLocked and abortActiveLocked.
LEMMA LoweredClaims ==
  ASSUME NEW rec \in Record
  PROVE  /\ Finalized(rec).attr = "unknown" /\ Finalized(rec).ostate = "closed"
         /\ Finalized(rec).compl # "complete"
         /\ AbortedRecord(rec).attr = "unknown" /\ AbortedRecord(rec).ostate = "closed"
BY DEF Finalized, AbortedRecord, Record

\* What MarkOutputIncomplete makes of a record.
Marked(rec) == [rec EXCEPT !.compl = "incomplete", !.attr = "unknown", !.safety = "unknown"]

LEMMA MarkedClaims ==
  ASSUME NEW rec \in Record
  PROVE  /\ Marked(rec) \in Record
         /\ Marked(rec).attr = "unknown" /\ Marked(rec).compl = "incomplete"
         /\ Marked(rec).ostate = rec.ostate /\ Marked(rec).total = rec.total
         /\ Marked(rec).stored = rec.stored /\ Marked(rec).truncated = rec.truncated
BY DEF Marked, Record

\* A new record claims nothing yet.
LEMMA StartedClaims ==
  ASSUME NEW claim
  PROVE  LET r == StartedRecord(claim)
         IN  /\ r.total = 0 /\ r.stored = 0 /\ r.truncated = FALSE /\ r.compl = "unknown"
             /\ r.attr = "unknown" /\ r.safety = "unknown" /\ r.ostate = "open"
BY DEF StartedRecord, NoRecord

\* EventCommandFinished claims exclusive output only for the structured record that
\* misses nothing, and closes it at once.
LEMMA FinishedClaims ==
  ASSUME NEW rec \in Record, rec.attr = "unknown", rec.compl # "complete",
         NEW i \in BOOLEAN
  PROVE  LET f == FinishedRecord(rec, i)
         IN  /\ f.total = rec.total /\ f.stored = rec.stored /\ f.truncated = rec.truncated
             /\ f.ostate \in {"pending", "closed"}
             /\ f.ostate = "pending" => f.compl # "complete" /\ f.attr = "unknown"
             /\ f.attr = "exclusive" =>
                  /\ rec.src = "host" /\ rec.compl # "incomplete" /\ ~rec.truncated
                  /\ f.ostate = "closed" /\ f.compl = "complete"
                  /\ f.safety = "plain" => rec.total = 0 \/ rec.safety = "plain"
<1> DEFINE structured == rec.mode = "structured" /\ rec.src = "host"
           f == FinishedRecord(rec, i)
<1>1. f.total = rec.total /\ f.stored = rec.stored /\ f.truncated = rec.truncated
  BY DEF FinishedRecord, Record
<1>2. f.ostate = IF structured THEN "closed" ELSE "pending"
  BY DEF FinishedRecord, Record
<1>3. ~structured => f.compl = rec.compl /\ f.attr = "unknown"
  BY DEF FinishedRecord, Record
<1>4. f.attr = "exclusive" => structured /\ ~i /\ rec.compl # "incomplete" /\ ~rec.truncated
  BY DEF FinishedRecord, Record
<1>5. structured /\ ~i /\ rec.compl # "incomplete" /\ ~rec.truncated =>
        f.compl = "complete" /\ (f.safety = "plain" => rec.total = 0 \/ rec.safety = "plain")
  BY DEF FinishedRecord, Record
<1> QED BY <1>1, <1>2, <1>3, <1>4, <1>5

\* appendOutputLocked counts every byte, and notes what it does not keep and what
\* is not plain text.
LEMMA AppendedClaims ==
  ASSUME NEW rec \in Record, rec.stored <= rec.total,
         rec.truncated <=> rec.stored < rec.total, NEW data \in Seq(Byte)
  PROVE  LET a == AppendedRecord(rec, data)
         IN  /\ a.total = rec.total + Len(data)
             /\ a.stored <= a.total
             /\ a.truncated <=> a.stored < a.total
             /\ rec.attr = "unknown" => a.attr = "unknown"
             /\ rec.compl # "complete" => a.compl # "complete"
             /\ rec.compl = "incomplete" => a.compl = "incomplete"
             /\ a.src = rec.src /\ a.ostate = rec.ostate
             /\ (rec.src = "host" /\ a.compl # "incomplete") =>
                  /\ a.safety # "unknown"
                  /\ a.safety = "plain" =>
                       rec.safety # "unsafe" /\ \A i \in DOMAIN data : data[i] = "text"
<1> DEFINE total == rec.total + Len(data)
           room == IF rec.stored < MaxOutputBytes THEN MaxOutputBytes - rec.stored ELSE 0
           kept == IF Len(data) <= room THEN Len(data) ELSE room
           stored == rec.stored + kept
           truncated == stored < total
           unsafe == \E k \in DOMAIN data : data[k] = "ctl"
           compl == IF rec.compl # "incomplete" /\ truncated THEN "truncated" ELSE rec.compl
           safety == IF rec.src # "host" THEN rec.safety
                     ELSE IF unsafe THEN "unsafe"
                     ELSE IF rec.safety # "unsafe" THEN "plain" ELSE rec.safety
           counted == [rec EXCEPT !.total = total, !.stored = stored,
                                  !.truncated = truncated, !.compl = compl,
                                  !.safety = safety]
           refused == [counted EXCEPT !.compl = "incomplete", !.attr = "unknown",
                                      !.safety = "unknown"]
<1>1. AppendedRecord(rec, data) = IF AppendRefused(data) THEN refused ELSE counted
  BY DEF AppendedRecord
<1>2. Len(data) \in Nat /\ rec.total \in Nat /\ rec.stored \in Nat
      /\ rec.truncated \in BOOLEAN
  BY LenProperties DEF Record
<1>3. stored <= total
  <2>1. kept \in 0 .. Len(data)
    BY <1>2, StoreAssumption
  <2> HIDE DEF kept
  <2> QED BY <1>2, <2>1
<1>4. ~unsafe => \A i \in DOMAIN data : data[i] = "text"
  BY LenProperties, ElementOfSeq DEF Byte
<1> HIDE DEF total, stored, truncated, unsafe
<1>5. rec.compl # "complete" => compl # "complete"
  OBVIOUS
<1>6. rec.compl = "incomplete" => compl = "incomplete"
  OBVIOUS
<1>7. rec.src = "host" => /\ safety \in {"plain", "unsafe"} \/ safety = rec.safety
                          /\ safety # "unknown"
                          /\ safety = "plain" => rec.safety # "unsafe" /\ ~unsafe
  BY DEF Record
<1> HIDE DEF compl, safety
<1>8. /\ counted.total = total /\ counted.stored = stored /\ counted.truncated = truncated
      /\ counted.attr = rec.attr /\ counted.compl = compl /\ counted.src = rec.src
      /\ counted.ostate = rec.ostate /\ counted.safety = safety
  BY DEF Record
<1>9. /\ refused.total = total /\ refused.stored = stored /\ refused.truncated = truncated
      /\ refused.attr = "unknown" /\ refused.compl = "incomplete" /\ refused.src = rec.src
      /\ refused.ostate = rec.ostate
  BY DEF Record
<1>10. truncated <=> stored < total
  BY DEF truncated
<1> HIDE DEF counted, refused
<1>11. CASE AppendRefused(data)
  BY <1>1, <1>3, <1>9, <1>10, <1>11 DEF total
<1>12. CASE ~AppendRefused(data)
  BY <1>1, <1>3, <1>4, <1>5, <1>6, <1>7, <1>8, <1>10, <1>12 DEF total
<1> QED BY <1>11, <1>12

-----------------------------------------------------------------------------
(* The steps of the journal's producers.                                    *)

\* Settled(c), OutputOpen(c) and HonestClaim(e) in the next state.
SettledNext(c) == c \in used' /\ c # active' /\ c # pending'

OutputOpenNext(c) ==
  c = active' \/ (c = pending' /\ pending' # NoCommand /\ pending' \in completed')

HonestNext(e) ==
  (e.kind \in Closers /\ e.rec.attr = "exclusive") =>
    /\ e.kind # "aborted"
    /\ SettledNext(e.id)
    /\ e.id \notin gaps'
    /\ e.rec.total = Len(emitted'[e.id])
    /\ e.rec.stored = e.rec.total
    /\ ~e.rec.truncated
    /\ e.rec.compl = "complete"
    /\ e.rec.ostate = "closed"
    /\ e.rec.safety = "plain" => \A i \in DOMAIN emitted'[e.id] : emitted'[e.id][i] = "text"

\* What a command has emitted does not change once its output is settled.
Undisturbed ==
  \A c \in Command : Settled(c) =>
    SettledNext(c) /\ emitted'[c] = emitted[c] /\ (c \in gaps' => c \in gaps)

\* What a producer does to the rest of the state that the claims are about.
ClaimStep ==
  /\ UNCHANGED <<rows, chunks>>
  /\ failed \subseteq failed'
  /\ Undisturbed
  /\ \A c \in Command : OutputOpenNext(c) => OutputOpen(c) \/ c \notin used

\* What a producer may add: an honest event that closes no output that stays open.
NewClaim(e) ==
  HonestNext(e) /\ FreshStart(e) /\ (Closes(e, e.id) => ~OutputOpenNext(e.id))

\* Either every closing is final, or the one event belongs to output still open.
NewOrder(events) ==
  \/ \A k \in DOMAIN events : events[k].kind \in Closers => events[k].rec.ostate = "closed"
  \/ DOMAIN events = {1} /\ (events[1].kind \in Closers => OutputOpen(events[1].id))

NewConfirms(events) ==
  \A k \in DOMAIN events : (events[k].kind = "finalized" /\ events[k].rec.attr = "exclusive") =>
    k = 2 /\ 1 \in DOMAIN events /\ Confirms(events[1], events[2])

\* A claim that is honest stays honest.
LEMMA HonestStays ==
  ASSUME Undisturbed, NEW e \in Event, HonestClaim(e)
  PROVE  HonestNext(e)
<1> SUFFICES ASSUME e.kind \in Closers, e.rec.attr = "exclusive"
             PROVE  HonestNext(e)
  BY DEF HonestNext
<1>1. e.id \in Command /\ HonestClaim(e)
  BY EventFields DEF Closers, LifecycleKinds
<1>2. Settled(e.id)
  BY <1>1 DEF HonestClaim
<1>3. /\ SettledNext(e.id) /\ emitted'[e.id] = emitted[e.id]
      /\ e.id \in gaps' => e.id \in gaps
  BY <1>1, <1>2 DEF Undisturbed
<1> QED BY <1>1, <1>3 DEF HonestNext, HonestClaim, PlainText

LEMMA RowStays ==
  ASSUME Undisturbed, rows' = rows, NEW c \in Command, HonestRow(c)
  PROVE  HonestRow(c)'
<1> SUFFICES ASSUME rows[c].attr = "exclusive"
             PROVE  HonestRow(c)'
  BY DEF HonestRow, HonestAs
<1>1. /\ Settled(c) /\ SettledNext(c) /\ emitted'[c] = emitted[c]
      /\ c \in gaps' => c \in gaps
  BY DEF HonestRow, HonestAs, Undisturbed
<1> QED BY <1>1 DEF HonestRow, HonestAs, PlainText, Settled, SettledNext

\* The output of a command that was never used is not closed by anything.
LEMMA OpenIsOpen ==
  ASSUME TypeOK, VisibilityInv, DeliveryInv, ClosedInv, NEW c \in Command,
         OutputOpen(c) \/ c \notin used
  PROVE  /\ rows[c].ostate # "closed"
         /\ \A i \in DOMAIN queue : ~Closes(queue[i], c)
<1>1. CASE OutputOpen(c)
  BY <1>1 DEF ClosedInv
<1>2. CASE c \notin used
  <2>1. rows[c] = NoRecord
    BY <1>2 DEF VisibilityInv, LifecycleInv, DeliveryInv
  <2>2. ASSUME NEW i \in DOMAIN queue PROVE ~Closes(queue[i], c)
    BY <1>2 DEF Closes, Closers, VisibilityInv, QueueInv, Fits, LifecycleKinds
  <2> QED BY <2>1, <2>2 DEF NoRecord
<1> QED BY <1>1, <1>2

LEMMA IndexRange ==
  ASSUME NEW q \in Seq(Event), NEW i \in DOMAIN q
  PROVE  i \in Nat /\ i >= 1
<1>1. DOMAIN q = 1 .. Len(q) /\ Len(q) \in Nat
  BY LenProperties
<1> QED BY <1>1

\* A producer's step preserves what is claimed and in which order.
LEMMA ClaimsPreserved ==
  ASSUME TypeOK, VisibilityInv, OutputInv, ClaimStep,
         NEW events \in Seq(Event), queue' \in {queue, queue \o events},
         \A k \in DOMAIN events : NewClaim(events[k]),
         NewOrder(events), NewConfirms(events)
  PROVE  HonestyInv' /\ ClosedInv' /\ ConfirmInv'
<1>1. /\ DOMAIN queue = 1 .. Len(queue) /\ Len(queue) \in Nat
      /\ DOMAIN events = 1 .. Len(events) /\ Len(events) \in Nat
      /\ \A i \in DOMAIN queue : queue[i] \in Event
      /\ \A k \in DOMAIN events : events[k] \in Event
  BY LenProperties, ElementOfSeq DEF TypeOK, StoreTypeOK
<1>2. ASSUME NEW i \in DOMAIN queue'
      PROVE  \/ i \in DOMAIN queue /\ queue'[i] = queue[i]
             \/ /\ queue' = queue \o events
                /\ i - Len(queue) \in DOMAIN events /\ queue'[i] = events[i - Len(queue)]
  <2>1. CASE queue' = queue
    BY <2>1
  <2>2. CASE queue' = queue \o events
    <3>1. \/ i \in DOMAIN queue /\ queue'[i] = queue[i]
          \/ \E k \in DOMAIN events : k = i - Len(queue) /\ queue'[i] = events[k]
      BY <2>2, AppendedEvents
    <3> QED BY <2>2, <3>1
  <2> QED BY <2>1, <2>2
<1>3. ASSUME NEW i \in DOMAIN queue'
      PROVE  i \in Nat /\ i >= 1
  <2>1. CASE i \in DOMAIN queue
    BY <1>1, <2>1
  <2>2. CASE i - Len(queue) \in DOMAIN events /\ queue' = queue \o events
    <3>1. queue' \in Seq(Event)
      BY <2>2, ConcatProperties DEF TypeOK, StoreTypeOK
    <3> QED BY <1>3, <3>1, IndexRange
  <2> QED BY <1>2, <2>1, <2>2
<1>4. /\ HonestyInv /\ ClosedInv /\ ConfirmInv /\ DeliveryInv
      /\ Undisturbed /\ rows' = rows /\ chunks' = chunks
  BY DEF OutputInv, ClaimStep
<1>5. HonestyInv'
  <2>1. ASSUME NEW i \in DOMAIN queue' PROVE HonestNext(queue'[i]) /\ FreshStart(queue'[i])
    <3>1. CASE i \in DOMAIN queue /\ queue'[i] = queue[i]
      BY <1>1, <1>4, <3>1, HonestStays DEF HonestyInv
    <3>2. CASE i - Len(queue) \in DOMAIN events /\ queue'[i] = events[i - Len(queue)]
      BY <3>2 DEF NewClaim
    <3> QED BY <1>2, <3>1, <3>2
  <2>2. ASSUME NEW c \in Command PROVE HonestRow(c)'
    BY <1>4, RowStays DEF HonestyInv
  <2> QED BY <2>1, <2>2 DEF HonestyInv, HonestClaim, HonestNext, FreshStart, SettledNext,
                            Settled, PlainText
<1>6. ASSUME NEW c \in Command, OutputOpenNext(c)
      PROVE  /\ rows[c].ostate # "closed"
             /\ \A i \in DOMAIN queue : ~Closes(queue[i], c)
  BY <1>4, <1>6, OpenIsOpen DEF ClaimStep
<1>7. ASSUME NEW c \in Command, OutputOpenNext(c), NEW i \in DOMAIN queue'
      PROVE  ~Closes(queue'[i], c)
  <2>1. CASE i - Len(queue) \in DOMAIN events /\ queue'[i] = events[i - Len(queue)]
    BY <1>7, <2>1 DEF NewClaim, Closes
  <2> QED BY <1>2, <1>6, <1>7, <2>1
<1>8. ASSUME NEW j \in DOMAIN queue', j \notin DOMAIN queue, queue'[j].kind \in Closers,
             queue'[j].rec.ostate # "closed"
      PROVE  /\ queue'[j].id \in Command
             /\ OutputOpen(queue'[j].id)
             /\ DOMAIN events = {1}
             /\ j = Len(queue) + 1
  <2>1. j - Len(queue) \in DOMAIN events /\ queue'[j] = events[j - Len(queue)]
    BY <1>2, <1>8
  <2>2. DOMAIN events = {1} /\ (events[1].kind \in Closers => OutputOpen(events[1].id))
    BY <1>8, <2>1 DEF NewOrder
  <2>0. j - Len(queue) = 1
    BY <2>1, <2>2
  <2>3. j = Len(queue) + 1 /\ queue'[j] = events[1]
    <3>1. j \in Nat /\ Len(queue) \in Nat
      BY <1>1, <1>3
    <3> QED BY <2>0, <2>1, <3>1
  <2>4. queue'[j].id \in Command
    BY <1>1, <1>8, <2>1, EventFields DEF Closers, LifecycleKinds
  <2> QED BY <1>8, <2>2, <2>3, <2>4
<1>9. ASSUME NEW i \in DOMAIN queue', NEW j \in DOMAIN queue', i < j,
             queue'[j].kind \in Closers, Closes(queue'[i], queue'[j].id)
      PROVE  queue'[j].rec.ostate = "closed"
  <2>1. CASE j \in DOMAIN queue
    <3>1. i \in DOMAIN queue
      BY <1>1, <1>3, <1>9, <2>1
    <3>2. queue'[i] = queue[i] /\ queue'[j] = queue[j]
      <4>1. ASSUME NEW k \in DOMAIN queue', k \in DOMAIN queue PROVE queue'[k] = queue[k]
        <5>1. ~(k - Len(queue) \in DOMAIN events)
          BY <1>1, <4>1
        <5> QED BY <1>2, <5>1
      <4> QED BY <2>1, <3>1, <4>1
    <3> QED BY <1>4, <1>9, <2>1, <3>1, <3>2 DEF ClosedInv
  <2>2. CASE j \notin DOMAIN queue
    <3> SUFFICES ASSUME queue'[j].rec.ostate # "closed"
                 PROVE  FALSE
      OBVIOUS
    <3>1. /\ queue'[j].id \in Command /\ OutputOpen(queue'[j].id)
          /\ DOMAIN events = {1} /\ j = Len(queue) + 1
      BY <1>8, <1>9, <2>2
    <3>2. ~(i - Len(queue) \in DOMAIN events)
      BY <1>1, <1>3, <1>9, <3>1
    <3>3. i \in DOMAIN queue /\ queue'[i] = queue[i]
      BY <1>2, <3>2
    <3> QED BY <1>4, <1>9, <3>1, <3>3 DEF ClosedInv
  <2> QED BY <2>1, <2>2
<1>10. ASSUME NEW j \in DOMAIN queue', queue'[j].kind \in Closers,
              rows[queue'[j].id].ostate = "closed"
       PROVE  queue'[j].rec.ostate = "closed"
  <2>1. CASE j \in DOMAIN queue /\ queue'[j] = queue[j]
    BY <1>4, <1>10, <2>1 DEF ClosedInv
  <2>2. CASE j \notin DOMAIN queue
    BY <1>4, <1>8, <1>10, <2>2 DEF ClosedInv
  <2>3. j \in DOMAIN queue => queue'[j] = queue[j]
    <3>1. j \in DOMAIN queue => ~(j - Len(queue) \in DOMAIN events)
      BY <1>1
    <3> QED BY <1>2, <3>1
  <2> QED BY <2>1, <2>2, <2>3
<1>11. ClosedInv'
  <2>1. \A c \in Command : OutputOpen(c)' <=> OutputOpenNext(c)
    BY DEF OutputOpen, OutputOpenNext, HasPending
  <2>2. \A c \in Command : OutputOpenNext(c) =>
          rows'[c].ostate # "closed" /\ \A i \in DOMAIN queue' : ~Closes(queue'[i], c)
    BY <1>4, <1>6, <1>7
  <2> QED BY <1>4, <1>9, <1>10, <2>1, <2>2 DEF ClosedInv, Closes
<1>12. ASSUME NEW j \in DOMAIN queue', j # 1
       PROVE  Confirms(queue'[j - 1], queue'[j])
  <2>1. CASE j \in DOMAIN queue
    <3>1. j - 1 \in DOMAIN queue /\ j - 1 \in DOMAIN queue'
      <4>1. j - 1 \in DOMAIN queue
        BY <1>1, <1>12, <2>1
      <4>2. CASE queue' = queue \o events
        <5>1. /\ Len(queue') = Len(queue) + Len(events)
              /\ DOMAIN queue' = 1 .. Len(queue) + Len(events)
          BY <4>2, ConcatProperties, LenProperties DEF TypeOK, StoreTypeOK
        <5> QED BY <1>1, <4>1, <5>1
      <4> QED BY <4>1, <4>2
    <3>2. ~(j - Len(queue) \in DOMAIN events) /\ ~(j - 1 - Len(queue) \in DOMAIN events)
      BY <1>1, <2>1
    <3>3. queue'[j] = queue[j] /\ queue'[j - 1] = queue[j - 1]
      BY <1>2, <3>1, <3>2
    <3> QED BY <1>4, <1>12, <2>1, <3>3 DEF ConfirmInv
  <2>2. CASE j \notin DOMAIN queue
    <3> SUFFICES ASSUME queue'[j].kind = "finalized", queue'[j].rec.attr = "exclusive"
                 PROVE  Confirms(queue'[j - 1], queue'[j])
      BY DEF Confirms
    <3>1. /\ queue' = queue \o events
          /\ j - Len(queue) \in DOMAIN events /\ queue'[j] = events[j - Len(queue)]
      BY <1>2, <2>2
    <3>2. j - Len(queue) = 2 /\ 1 \in DOMAIN events /\ Confirms(events[1], events[2])
      BY <3>1 DEF NewConfirms
    <3>3. j - 1 \in DOMAIN queue' /\ j - 1 \notin DOMAIN queue /\ j - 1 - Len(queue) = 1
      <4>1. /\ Len(queue') = Len(queue) + Len(events)
            /\ DOMAIN queue' = 1 .. Len(queue) + Len(events)
        BY <3>1, ConcatProperties, LenProperties DEF TypeOK, StoreTypeOK
      <4> QED BY <1>1, <1>3, <3>1, <3>2, <4>1
    <3>4. queue'[j - 1] = events[1]
      BY <1>2, <3>3
    <3> QED BY <3>1, <3>2, <3>4
  <2> QED BY <2>1, <2>2
<1>13. ASSUME queue' # <<>>, queue'[1].kind = "finalized", queue'[1].rec.attr = "exclusive"
       PROVE  /\ queue # <<>> /\ queue'[1] = queue[1]
              /\ queue[1] \in Event /\ NothingToGain(queue[1])
  <2>1. 1 \in DOMAIN queue'
    <3>1. queue' \in Seq(Event)
      <4>1. queue \in Seq(Event) /\ queue \o events \in Seq(Event)
        BY ConcatProperties DEF TypeOK, StoreTypeOK
      <4> QED BY <4>1
    <3> QED BY <1>13, <3>1, EmptySeq, LenProperties
  <2>2. CASE 1 \in DOMAIN queue /\ queue'[1] = queue[1]
    <3>1. queue # <<>>
      BY <2>2
    <3> QED BY <1>1, <1>4, <1>13, <2>2, <3>1 DEF ConfirmInv
  <2>3. CASE 1 - Len(queue) \in DOMAIN events /\ queue'[1] = events[1 - Len(queue)]
    <3>1. 1 - Len(queue) = 2
      BY <1>13, <2>3 DEF NewConfirms
    <3> QED BY <1>1, <3>1
  <2> QED BY <1>2, <2>1, <2>2, <2>3
<1>14. ASSUME NEW e \in Event, NothingToGain(e)
       PROVE  NothingToGain(e)'
  BY <1>4, <1>14 DEF NothingToGain, DurableAttribution, Mismatch, CanCopyOutput, ClaimStep
<1>15. ConfirmInv'
  <2>1. \A j \in DOMAIN queue' : j # 1 => Confirms(queue'[j - 1], queue'[j])
    BY <1>12
  <2>2. (queue' # <<>> /\ queue'[1].kind = "finalized" /\ queue'[1].rec.attr = "exclusive")
          => NothingToGain(queue[1])'
    <3> SUFFICES ASSUME queue' # <<>>, queue'[1].kind = "finalized",
                        queue'[1].rec.attr = "exclusive"
                 PROVE  NothingToGain(queue[1])'
      OBVIOUS
    <3>1. /\ queue'[1] = queue[1] /\ NothingToGain(queue[1])
      BY <1>13
    <3> QED BY <1>4, <3>1
            DEF NothingToGain, DurableAttribution, Mismatch, CanCopyOutput, ClaimStep
  <2> QED BY <2>1, <2>2 DEF ConfirmInv, Confirms
<1> QED BY <1>5, <1>11, <1>15

\* New events that are no output leave what is delivered alone.
LEMMA DeliveryKept ==
  ASSUME TypeOK, DeliveryInv, UNCHANGED <<rows, chunks, emitted>>,
         NEW events \in Seq(Event), queue' \in {queue, queue \o events},
         \A k \in DOMAIN events : events[k].kind # "output"
  PROVE  DeliveryInv'
<1>1. ASSUME NEW c \in Command PROVE Delivers(queue', emitted[c], chunks[c], c)
  <2>1. /\ queue \in Seq(Event) /\ emitted[c] \in Seq(Byte) /\ chunks[c] \in Seq(Byte)
        /\ Delivers(queue, emitted[c], chunks[c], c)
    BY DEF TypeOK, StoreTypeOK, DeliveryInv
  <2>2. CASE queue' = queue
    BY <2>1, <2>2
  <2>3. CASE queue' = queue \o events
    <3>1. Delivers(queue \o events, emitted[c], chunks[c], c)
      BY <2>1, DeliversAppend
    <3> QED BY <2>3, <3>1
  <2> QED BY <2>2, <2>3
<1>2. ASSUME NEW c \in Command PROVE Delivers(queue, emitted[c], chunks[c], c)'
  BY <1>1 DEF Delivers, Placed
<1> QED BY <1>2 DEF DeliveryInv

LEMMA ConcatElements ==
  ASSUME NEW s \in Seq(Event), NEW t \in Seq(Event), NEW k \in DOMAIN (s \o t)
  PROVE  \/ \E j \in DOMAIN s : (s \o t)[k] = s[j]
         \/ \E j \in DOMAIN t : (s \o t)[k] = t[j]
<1>1. /\ s \o t \in Seq(Event) /\ Len(s \o t) = Len(s) + Len(t)
      /\ \A i \in 1 .. Len(s) + Len(t) :
           (s \o t)[i] = IF i <= Len(s) THEN s[i] ELSE t[i - Len(s)]
  BY ConcatProperties
<1>2. /\ DOMAIN s = 1 .. Len(s) /\ DOMAIN t = 1 .. Len(t)
      /\ Len(s) \in Nat /\ Len(t) \in Nat /\ DOMAIN (s \o t) = 1 .. Len(s) + Len(t)
  BY <1>1, LenProperties
<1> QED BY <1>1, <1>2

\* A closing of the pending record, followed by at most one other event.
LEMMA FinalizeClaims ==
  ASSUME TypeOK, VisibilityInv, OutputInv, ClaimStep, emitted' = emitted,
         pending' = NoCommand, HasPending => active' # pending,
         NEW last \in Seq(Event), Enqueue(FinalizeEvents \o last),
         \A k \in DOMAIN last : /\ NewClaim(last[k])
                                /\ last[k].kind # "output"
                                /\ last[k].kind # "finalized"
                                /\ last[k].kind \in Closers => last[k].rec.ostate = "closed"
  PROVE  DeliveryInv' /\ HonestyInv' /\ ClosedInv' /\ ConfirmInv'
<1> DEFINE events == FinalizeEvents \o last
<1>1. FinalizeEvents \in Seq(Event) /\ events \in Seq(Event)
  BY FinalizeTypes, ConcatProperties
<1>2. ASSUME NEW k \in DOMAIN FinalizeEvents
      PROVE  /\ NewClaim(FinalizeEvents[k])
             /\ FinalizeEvents[k].kind = "finalized"
             /\ FinalizeEvents[k].rec.attr = "unknown"
             /\ FinalizeEvents[k].rec.ostate = "closed"
  <2>1. HasPending /\ FinalizeEvents[k] = RecordEvent("finalized", pending, Finalized(recs[pending]))
    BY <1>2 DEF FinalizeEvents
  <2>2. recs[pending] \in Record
    BY <2>1 DEF HasPending, TypeOK
  <2>3. /\ Finalized(recs[pending]).attr = "unknown"
        /\ Finalized(recs[pending]).ostate = "closed"
    BY <2>2, LoweredClaims
  <2>4. ~OutputOpenNext(pending)
    BY <2>1 DEF OutputOpenNext
  <2> QED BY <2>1, <2>3, <2>4 DEF RecordEvent, NewClaim, HonestNext, FreshStart
<1>3. ASSUME NEW k \in DOMAIN events
      PROVE  /\ NewClaim(events[k])
             /\ events[k].kind # "output"
             /\ events[k].kind \in Closers => events[k].rec.ostate = "closed"
             /\ ~(events[k].kind = "finalized" /\ events[k].rec.attr = "exclusive")
  <2>1. \/ \E j \in DOMAIN FinalizeEvents : events[k] = FinalizeEvents[j]
        \/ \E j \in DOMAIN last : events[k] = last[j]
    BY <1>1, <1>3, ConcatElements
  <2> QED BY <1>2, <2>1
<1>4. queue' \in {queue, queue \o events}
  BY DEF Enqueue
<1> HIDE DEF events
<1>5. NewOrder(events) /\ NewConfirms(events)
  BY <1>3 DEF NewOrder, NewConfirms
<1>6. HonestyInv' /\ ClosedInv' /\ ConfirmInv'
  BY <1>1, <1>3, <1>4, <1>5, ClaimsPreserved
<1>7. DeliveryInv'
  BY <1>1, <1>3, <1>4, DeliveryKept DEF OutputInv, ClaimStep
<1> QED BY <1>6, <1>7

\* CommandStarted.
LEMMA StartClaimsKept ==
  ASSUME TypeOK, VisibilityInv, OutputInv, NEW id \in Command, NEW epoch \in Epoch,
         NEW claim \in StartClaims, CommandStarted(id, epoch, claim)
  PROVE  OutputInv'
<1> DEFINE rec == StartedRecord(claim)
<1>1. /\ rec \in Record /\ rec.total = 0 /\ rec.stored = 0 /\ rec.truncated = FALSE
      /\ rec.compl = "unknown" /\ rec.attr = "unknown" /\ rec.safety = "unknown"
      /\ rec.ostate = "open"
  BY StartedRecordType, StartedClaims
<1> HIDE DEF rec
<1>2. /\ UNCHANGED <<rows, chunks, failed, completed, emitted, gaps>>
      /\ id \notin used /\ active = NoCommand /\ pending' = NoCommand
  BY DEF CommandStarted, OnlyQueue
<1>3. /\ FinalizedRecs \in [Command -> Record]
      /\ completed \subseteq used /\ (HasPending => pending \in used)
  BY FinalizeTypes DEF VisibilityInv, LifecycleInv, HasPending
<1>4. CASE AllowsOutputSource(claim.auth, claim.src)
  <2>1. active' = id /\ recs' = [FinalizedRecs EXCEPT ![id] = rec] /\ used' = used \cup {id}
        /\ Enqueue(FinalizeEvents \o <<RecordEvent("started", id, rec)>>)
    BY <1>4 DEF CommandStarted, rec
  <2>2. ClaimStep
    BY <1>2, <2>1, StoreAssumption
       DEF ClaimStep, Undisturbed, Settled, SettledNext, OutputOpenNext
  <2>3. <<RecordEvent("started", id, rec)>> \in Seq(Event)
    BY <1>1, EventTypes DEF LifecycleKinds
  <2>4. NewClaim(RecordEvent("started", id, rec))
    BY <1>1 DEF NewClaim, HonestNext, FreshStart, RecordEvent, Closes, Closers
  <2>5. \A k \in DOMAIN <<RecordEvent("started", id, rec)>> :
          <<RecordEvent("started", id, rec)>>[k] = RecordEvent("started", id, rec)
    OBVIOUS
  <2>6. RecordEvent("started", id, rec).kind = "started"
    BY DEF RecordEvent
  <2>7. HasPending => active' # pending
    BY <1>2, <1>3, <2>1
  <2>8. DeliveryInv' /\ HonestyInv' /\ ClosedInv' /\ ConfirmInv'
    BY <1>2, <2>1, <2>2, <2>3, <2>4, <2>5, <2>6, <2>7, FinalizeClaims DEF Closers
  <2>9. Len(emitted[id]) = 0 /\ id \notin gaps
    BY <1>2 DEF OutputInv, UnusedInv
  <2>10. recs'[id] = rec
    BY <1>3, <2>1
  <2>11. RunningInv'
    BY <1>1, <1>2, <2>1, <2>9, <2>10 DEF RunningInv
  <2>12. PendingInv' /\ UnusedInv'
    BY <1>2, <2>1 DEF PendingInv, UnusedInv, OutputInv
  <2> QED BY <2>8, <2>11, <2>12 DEF OutputInv
<1>5. CASE ~AllowsOutputSource(claim.auth, claim.src)
  <2>1. active' = NoCommand /\ used' = used /\ Enqueue(FinalizeEvents)
    BY <1>2, <1>5 DEF CommandStarted
  <2>2. ClaimStep
    BY <1>2, <2>1, StoreAssumption
       DEF ClaimStep, Undisturbed, Settled, SettledNext, OutputOpenNext
  <2>3. Enqueue(FinalizeEvents \o <<>>)
    BY <2>1, FinalizeTypes, ConcatEmptySeq
  <2>4. HasPending => active' # pending
    BY <2>1 DEF HasPending
  <2>5. DeliveryInv' /\ HonestyInv' /\ ClosedInv' /\ ConfirmInv'
    <3> DEFINE last == <<>>
    <3>1. last \in Seq(Event) /\ DOMAIN last = {} /\ Enqueue(FinalizeEvents \o last)
      BY <2>3, EmptySeq
    <3> HIDE DEF last
    <3> QED BY <1>2, <2>2, <2>4, <3>1, FinalizeClaims
  <2>6. RunningInv' /\ PendingInv' /\ UnusedInv'
    BY <1>2, <2>1 DEF RunningInv, PendingInv, UnusedInv, OutputInv
  <2> QED BY <2>5, <2>6 DEF OutputInv
<1> QED BY <1>4, <1>5

\* CommandAborted, PromptReady and AbortActive.
LEMMA AbortClaimsKept ==
  ASSUME TypeOK, VisibilityInv, OutputInv, NEW matches \in BOOLEAN,
         matches => active # NoCommand, AbortActiveLocked(matches)
  PROVE  OutputInv'
<1> DEFINE rec == AbortedRecord(recs[active])
           event == RecordEvent("aborted", active, rec)
           last == IF matches THEN <<event>> ELSE <<>>
<1>1. /\ UNCHANGED <<rows, chunks, failed, used, emitted, gaps>> /\ pending' = NoCommand
      /\ active' = IF matches THEN NoCommand ELSE active
      /\ Enqueue(FinalizeEvents \o last)
  BY DEF AbortActiveLocked, OnlyQueue, historyVars
<1>2. matches => active \in Command /\ rec \in Record /\ rec.attr = "unknown"
                 /\ rec.ostate = "closed"
  BY RecordUpdates, LoweredClaims DEF TypeOK
<1>3. pending # NoCommand => active = NoCommand
  BY DEF OutputInv, PendingInv
<1> HIDE DEF rec
<1>4. ClaimStep
  BY <1>1, StoreAssumption
     DEF ClaimStep, Undisturbed, Settled, SettledNext, OutputOpenNext, OutputOpen
<1>5. matches => event \in Event
  BY <1>2, EventTypes DEF LifecycleKinds
<1>6. event.kind = "aborted" /\ event.id = active /\ event.rec = rec
  BY DEF RecordEvent
<1> HIDE DEF event
<1>7. last \in Seq(Event) /\ \A k \in DOMAIN last : matches /\ last[k] = event
  BY <1>5
<1>8. matches => NewClaim(event)
  <2>1. matches => ~OutputOpenNext(active)
    BY <1>1 DEF OutputOpenNext
  <2> QED BY <1>2, <1>6, <2>1 DEF NewClaim, HonestNext, FreshStart
<1> HIDE DEF last
<1>9. HasPending => active' # pending
  BY <1>1, <1>3 DEF HasPending
<1>10. \A k \in DOMAIN last : /\ NewClaim(last[k]) /\ last[k].kind # "output"
                              /\ last[k].kind # "finalized"
                              /\ last[k].kind \in Closers => last[k].rec.ostate = "closed"
  BY <1>2, <1>6, <1>7, <1>8
<1>11. DeliveryInv' /\ HonestyInv' /\ ClosedInv' /\ ConfirmInv'
  BY <1>1, <1>4, <1>7, <1>9, <1>10, FinalizeClaims
<1>12. RunningInv'
  <2> SUFFICES ASSUME active' # NoCommand PROVE RunningInv'
    BY DEF RunningInv
  <2>1. active' = active /\ ~matches
    BY <1>1
  <2>2. recs' = recs
    BY <1>3, <2>1 DEF AbortActiveLocked, FinalizedRecs, HasPending
  <2> QED BY <1>1, <2>1, <2>2 DEF RunningInv, OutputInv, PlainText
<1>13. PendingInv' /\ UnusedInv'
  BY <1>1 DEF PendingInv, UnusedInv, OutputInv
<1> QED BY <1>11, <1>12, <1>13 DEF OutputInv

\* CommandFinished: a structured record is closed and confirmed at once, a record
\* with PTY output stays open.
LEMMA FinishClaimsKept ==
  ASSUME TypeOK, VisibilityInv, OutputInv, NEW id \in Command, NEW epoch \in Epoch,
         NEW auth \in Authorities, NEW interrupted \in BOOLEAN,
         CommandFinished(id, epoch, auth, interrupted)
  PROVE  OutputInv'
<1> DEFINE rec == FinishedRecord(recs[active], interrupted)
           fin == RecordEvent("finished", active, rec)
           closing == RecordEvent("finalized", active, rec)
<1>1. /\ active \in Command /\ active # NoCommand /\ recs[active] \in Record
      /\ active \in used /\ emitted[active] \in Seq(Byte)
  BY DEF CommandFinished, TypeOK, VisibilityInv, LifecycleInv
<1>2. /\ UNCHANGED <<rows, chunks, failed, used, emitted, gaps>> /\ active' = NoCommand
      /\ pending' = IF rec.ostate = "pending" THEN active ELSE NoCommand
      /\ recs' = [recs EXCEPT ![active] = rec]
      /\ Enqueue(<<fin>> \o IF rec.ostate = "closed" THEN <<closing>> ELSE <<>>)
  BY DEF CommandFinished, OnlyQueue, historyVars
<1>3. RunningInv
  BY DEF OutputInv
<1>4. /\ rec \in Record /\ rec.total = recs[active].total /\ rec.stored = recs[active].stored
      /\ rec.truncated = recs[active].truncated
      /\ rec.ostate \in {"pending", "closed"}
      /\ rec.ostate = "pending" => rec.compl # "complete" /\ rec.attr = "unknown"
      /\ rec.attr = "exclusive" =>
           /\ recs[active].src = "host" /\ recs[active].compl # "incomplete"
           /\ ~recs[active].truncated /\ rec.ostate = "closed" /\ rec.compl = "complete"
           /\ rec.safety = "plain" => recs[active].total = 0 \/ recs[active].safety = "plain"
  <2>1. recs[active].attr = "unknown" /\ recs[active].compl # "complete"
    BY <1>1, <1>3 DEF RunningInv
  <2> QED BY <1>1, <2>1, RecordUpdates, FinishedClaims
<1> HIDE DEF rec
<1>5. ClaimStep
  BY <1>1, <1>2, StoreAssumption
     DEF ClaimStep, Undisturbed, Settled, SettledNext, OutputOpenNext, OutputOpen
<1>6. rec.attr = "exclusive" =>
        /\ SettledNext(active) /\ active \notin gaps
        /\ rec.total = Len(emitted[active]) /\ rec.stored = rec.total
        /\ ~rec.truncated /\ rec.compl = "complete" /\ rec.ostate = "closed"
        /\ rec.safety = "plain" => PlainText(active)
  <2> SUFFICES ASSUME rec.attr = "exclusive"
               PROVE  /\ SettledNext(active) /\ active \notin gaps
                      /\ rec.total = Len(emitted[active]) /\ rec.stored = rec.total
                      /\ rec.safety = "plain" => PlainText(active)
    BY <1>4
  <2>1. /\ recs[active].total = Len(emitted[active])
        /\ recs[active].stored <= recs[active].total
        /\ ~(recs[active].stored < recs[active].total)
        /\ active \notin gaps
    BY <1>1, <1>3, <1>4 DEF RunningInv
  <2>2. recs[active].stored \in Nat /\ recs[active].total \in Nat
    BY <1>1 DEF Record
  <2>3. rec.total = Len(emitted[active]) /\ rec.stored = rec.total
    BY <1>4, <2>1, <2>2
  <2>4. rec.safety = "plain" => PlainText(active)
    <3>1. CASE recs[active].total = 0
      <4>1. Len(emitted[active]) = 0
        BY <2>1, <3>1
      <4>2. DOMAIN emitted[active] = 1 .. Len(emitted[active])
        BY <1>1, LenProperties
      <4> QED BY <4>1, <4>2 DEF PlainText
    <3>2. CASE recs[active].safety = "plain"
      BY <1>1, <1>3, <1>4, <3>2 DEF RunningInv
    <3> QED BY <1>4, <3>1, <3>2
  <2>5. SettledNext(active)
    BY <1>1, <1>2, <1>4 DEF SettledNext
  <2> QED BY <2>1, <2>3, <2>4, <2>5
<1>7. /\ fin \in Event /\ fin.kind = "finished" /\ fin.id = active /\ fin.rec = rec
      /\ closing \in Event /\ closing.kind = "finalized" /\ closing.id = active
      /\ closing.rec = rec
  BY <1>1, <1>4, EventTypes DEF LifecycleKinds, RecordEvent
<1> HIDE DEF fin, closing
<1>8. rec.ostate = "closed" => ~OutputOpenNext(active)
  BY <1>1, <1>2 DEF OutputOpenNext
<1>9. NewClaim(fin) /\ NewClaim(closing)
  <2>1. \A e \in {fin, closing} : Closes(e, e.id) => ~OutputOpenNext(e.id)
    BY <1>7, <1>8 DEF Closes
  <2>2. \A e \in {fin, closing} : HonestNext(e)
    BY <1>2, <1>6, <1>7 DEF HonestNext, PlainText
  <2> QED BY <1>7, <2>1, <2>2 DEF NewClaim, FreshStart
<1>10. DeliveryInv' /\ HonestyInv' /\ ClosedInv' /\ ConfirmInv'
  <2>1. CASE rec.ostate = "closed"
    <3> DEFINE events == <<fin>> \o <<closing>>
    <3>1. <<fin>> \in Seq(Event) /\ <<closing>> \in Seq(Event)
      BY <1>7
    <3>2. events \in Seq(Event) /\ Len(events) = 2 /\ events[1] = fin /\ events[2] = closing
      <4>1. /\ events \in Seq(Event) /\ Len(events) = 1 + 1
            /\ \A i \in 1 .. 1 + 1 :
                 events[i] = IF i <= 1 THEN <<fin>>[i] ELSE <<closing>>[i - 1]
        BY <3>1, ConcatProperties
      <4> HIDE DEF events
      <4> QED BY <4>1
    <3>3. queue' \in {queue, queue \o events}
      BY <1>2, <2>1 DEF Enqueue
    <3> HIDE DEF events
    <3>4. DOMAIN events = {1, 2}
      BY <3>2, LenProperties
    <3>5. \A k \in DOMAIN events : NewClaim(events[k]) /\ events[k].kind # "output"
                                   /\ events[k].rec.ostate = "closed"
      BY <1>7, <1>9, <2>1, <3>2, <3>4
    <3>6. NewOrder(events)
      BY <3>5 DEF NewOrder
    <3>7. NewConfirms(events)
      BY <1>7, <3>2, <3>4 DEF NewConfirms, Confirms
    <3>8. HonestyInv' /\ ClosedInv' /\ ConfirmInv'
      BY <1>5, <3>2, <3>3, <3>5, <3>6, <3>7, ClaimsPreserved
    <3>9. DeliveryInv'
      BY <1>2, <3>2, <3>3, <3>5, DeliveryKept DEF OutputInv
    <3> QED BY <3>8, <3>9
  <2>2. CASE rec.ostate # "closed"
    <3> DEFINE events == <<fin>>
    <3>1. /\ events \in Seq(Event) /\ DOMAIN events = {1} /\ events[1] = fin
          /\ events \o <<>> = events
      BY <1>7, ConcatEmptySeq
    <3>2. queue' \in {queue, queue \o events}
      BY <1>2, <2>2, <3>1 DEF Enqueue
    <3> HIDE DEF events
    <3>3. \A k \in DOMAIN events : NewClaim(events[k]) /\ events[k].kind # "output"
      BY <1>7, <1>9, <3>1
    <3>4. NewOrder(events) /\ NewConfirms(events)
      BY <1>7, <3>1 DEF NewOrder, NewConfirms, OutputOpen
    <3>5. HonestyInv' /\ ClosedInv' /\ ConfirmInv'
      BY <1>5, <3>1, <3>2, <3>3, <3>4, ClaimsPreserved
    <3>6. DeliveryInv'
      BY <1>2, <3>1, <3>2, <3>3, DeliveryKept DEF OutputInv
    <3> QED BY <3>5, <3>6
  <2> QED BY <2>1, <2>2
<1>11. RunningInv' /\ UnusedInv'
  BY <1>2 DEF RunningInv, UnusedInv, OutputInv
<1>12. PendingInv'
  <2>1. recs'[active] = rec
    BY <1>1, <1>2 DEF TypeOK
  <2>2. attached'
    BY DEF CommandFinished, Ready
  <2> QED BY <1>1, <1>2, <1>4, <2>1, <2>2 DEF PendingInv
<1> QED BY <1>10, <1>11, <1>12 DEF OutputInv

\* StreamOutputSegment credits the bytes to the command that produced them.
LEMMA OutputClaimsKept ==
  ASSUME TypeOK, VisibilityInv, OutputInv, NEW data \in Segments, NEW src \in Sources,
         OutputSegment(data, src)
  PROVE  OutputInv'
<1> DEFINE id == OutputTarget(src)
           event == OutputEvent(id, data)
<1>1. data \in Seq(Byte) /\ Len(data) \in Nat
  BY JournalAssumption, LenProperties
<1>2. id # NoCommand
  BY DEF OutputSegment
<1>3. id = active \/ (active = NoCommand /\ id = pending /\ HasPending)
  BY <1>2 DEF OutputTarget
<1>4. Producer(src) = id
  <2>1. CASE active # NoCommand
    <3>1. recs[active] \in Record /\ id = active
          /\ (recs[active].src = "host") = (src = "host")
      BY <1>2, <2>1 DEF OutputTarget, TypeOK
    <3>2. recs[active].src = src
      BY <3>1 DEF Record, Sources
    <3> QED BY <2>1, <3>1, <3>2 DEF Producer
  <2>2. CASE active = NoCommand
    BY <1>2, <2>2 DEF OutputTarget, Producer
  <2> QED BY <2>1, <2>2
<1>5. /\ recs' = [recs EXCEPT ![id] = AppendedRecord(recs[id], data)]
      /\ AppendOutput(id, data)
      /\ emitted' = [emitted EXCEPT ![id] = emitted[id] \o data]
      /\ UNCHANGED <<rows, chunks, attached, active, completed, pending, used, gaps>>
  BY <1>2, <1>4 DEF OutputSegment
<1>6. id \in Command /\ id \in used /\ (pending # NoCommand => active = NoCommand)
  BY <1>2, <1>3 DEF TypeOK, VisibilityInv, LifecycleInv, OutputInv, PendingInv
<1> HIDE DEF id
<1>7. /\ emitted[id] \in Seq(Byte) /\ emitted \in [Command -> Seq(Byte)]
      /\ recs[id] \in Record /\ recs \in [Command -> Record]
      /\ emitted'[id] = emitted[id] \o data
      /\ \A c \in Command : c # id => emitted'[c] = emitted[c] /\ recs'[c] = recs[c]
      /\ recs'[id] = AppendedRecord(recs[id], data)
  <2>1. emitted \in [Command -> Seq(Byte)] /\ recs \in [Command -> Record]
    BY DEF TypeOK
  <2> QED BY <1>5, <1>6, <2>1
<1>8. OutputOpen(id)
  BY <1>3 DEF OutputOpen
<1>9. ClaimStep
  <2>1. failed \subseteq failed'
    BY <1>5 DEF AppendOutput
  <2>2. ASSUME NEW c \in Command, Settled(c) PROVE c # id
    BY <1>3, <2>2 DEF Settled
  <2> QED BY <1>5, <1>7, <2>1, <2>2
          DEF ClaimStep, Undisturbed, Settled, SettledNext, OutputOpen, OutputOpenNext, HasPending
<1>10. event \in Event /\ event.kind = "output" /\ event.id = id /\ event.data = data
  BY <1>1, <1>6, EventTypes DEF OutputEvent
<1>11. queue' = IF AppendRefused(data) THEN queue ELSE queue \o <<event>>
  <2>1. queue \in Seq(Event)
    BY DEF TypeOK, StoreTypeOK
  <2>2. Append(queue, event) = queue \o <<event>>
    BY <1>10, <2>1, AppendIsConcat
  <2> QED BY <1>5, <2>2 DEF AppendOutput
<1> HIDE DEF event
<1>12. <<event>> \in Seq(Event) /\ DOMAIN <<event>> = {1} /\ <<event>>[1] = event
  BY <1>10
<1>13. HonestyInv' /\ ClosedInv' /\ ConfirmInv'
  <2> DEFINE events == <<event>>
  <2>1. \A k \in DOMAIN events : events[k] = event
    BY <1>12
  <2>2. NewClaim(event)
    BY <1>10 DEF NewClaim, HonestNext, FreshStart, Closes, Closers
  <2>3. queue' \in {queue, queue \o events}
    BY <1>11
  <2>4. events \in Seq(Event)
    BY <1>12
  <2> HIDE DEF events
  <2>5. NewOrder(events) /\ NewConfirms(events)
    BY <1>10, <2>1 DEF NewOrder, NewConfirms, Closers
  <2> QED BY <1>9, <2>1, <2>2, <2>3, <2>4, <2>5, ClaimsPreserved
<1>14. ASSUME NEW c \in Command PROVE Delivers(queue', emitted'[c], chunks[c], c)
  <2>1. /\ queue \in Seq(Event) /\ emitted[c] \in Seq(Byte) /\ chunks[c] \in Seq(Byte)
        /\ Delivers(queue, emitted[c], chunks[c], c)
    BY DEF TypeOK, StoreTypeOK, OutputInv, DeliveryInv
  <2>2. CASE c = id /\ AppendRefused(data)
    BY <1>1, <1>7, <1>11, <2>1, <2>2, DeliversRefused
  <2>3. CASE c = id /\ ~AppendRefused(data)
    <3>1. Delivers(queue \o <<event>>, emitted[c] \o data, chunks[c], c)
      BY <1>1, <1>10, <2>1, DeliversOutput
    <3> QED BY <1>7, <1>11, <2>3, <3>1
  <2>4. CASE c # id /\ AppendRefused(data)
    BY <1>7, <1>11, <2>1, <2>4
  <2>5. CASE c # id /\ ~AppendRefused(data)
    <3> DEFINE events == <<event>>
    <3>1. events \in Seq(Event) /\ \A k \in DOMAIN events : events[k].id # c
      BY <1>10, <1>12, <2>5
    <3> HIDE DEF events
    <3>2. Delivers(queue \o events, emitted[c], chunks[c], c)
      BY <2>1, <3>1, DeliversAppend
    <3> QED BY <1>7, <1>11, <2>5, <3>2 DEF events
  <2> QED BY <2>2, <2>3, <2>4, <2>5
<1>15. DeliveryInv'
  <2>1. ASSUME NEW c \in Command PROVE Delivers(queue, emitted[c], chunks[c], c)'
    BY <1>5, <1>14 DEF Delivers, Placed
  <2> QED BY <1>5, <2>1 DEF OutputInv, DeliveryInv
<1>16. Len(emitted'[id]) = Len(emitted[id]) + Len(data)
       /\ \A k \in 1 .. Len(emitted[id]) + Len(data) :
            emitted'[id][k] = IF k <= Len(emitted[id]) THEN emitted[id][k]
                              ELSE data[k - Len(emitted[id])]
  BY <1>1, <1>7, ConcatProperties
<1>17. RunningInv'
  <2> SUFFICES ASSUME active # NoCommand PROVE RunningInv'
    BY <1>5 DEF RunningInv
  <2>1. id = active /\ RunningInv /\ active' = active
    BY <1>3, <1>5 DEF OutputInv
  <2> DEFINE r == recs[id]
             a == AppendedRecord(r, data)
  <2>2. /\ r.total = Len(emitted[id]) /\ r.stored <= r.total
        /\ r.truncated <=> r.stored < r.total
        /\ r.attr = "unknown" /\ r.compl # "complete"
        /\ id \in gaps => r.compl = "incomplete"
        /\ (r.src = "host" /\ r.compl # "incomplete") =>
             /\ r.safety = "unknown" => Len(emitted[id]) = 0
             /\ r.safety = "plain" => PlainText(id)
    BY <2>1 DEF RunningInv
  <2>3. /\ a.total = r.total + Len(data) /\ a.stored <= a.total
        /\ a.truncated <=> a.stored < a.total
        /\ a.attr = "unknown" /\ a.compl # "complete"
        /\ r.compl = "incomplete" => a.compl = "incomplete"
        /\ a.src = r.src
        /\ (r.src = "host" /\ a.compl # "incomplete") =>
             /\ a.safety # "unknown"
             /\ a.safety = "plain" =>
                  r.safety # "unsafe" /\ \A i \in DOMAIN data : data[i] = "text"
    BY <1>1, <1>7, <2>2, AppendedClaims
  <2>4. r.safety \in {"unknown", "plain", "unsafe"}
    BY <1>7 DEF Record
  <2> HIDE DEF a, r
  <2>5. ASSUME r.src = "host", a.compl # "incomplete", a.safety = "plain"
        PROVE  \A k \in DOMAIN emitted'[id] : emitted'[id][k] = "text"
    <3>1. /\ \A k \in DOMAIN data : data[k] = "text"
          /\ Len(emitted[id]) = 0 \/ PlainText(id)
      BY <2>2, <2>3, <2>4, <2>5
    <3>2. /\ DOMAIN data = 1 .. Len(data) /\ DOMAIN emitted[id] = 1 .. Len(emitted[id])
          /\ Len(emitted[id]) \in Nat
          /\ DOMAIN emitted'[id] = 1 .. Len(emitted'[id])
      BY <1>1, <1>7, LenProperties, ConcatProperties
    <3>3. ASSUME NEW k \in 1 .. Len(emitted[id]) + Len(data)
          PROVE  emitted'[id][k] = "text"
      <4>1. CASE k <= Len(emitted[id])
        <5>1. k \in 1 .. Len(emitted[id]) /\ emitted'[id][k] = emitted[id][k]
              /\ Len(emitted[id]) # 0
          BY <1>1, <1>16, <3>2, <4>1
        <5> QED BY <3>1, <3>2, <5>1 DEF PlainText
      <4>2. CASE ~(k <= Len(emitted[id]))
        <5>1. k - Len(emitted[id]) \in 1 .. Len(data)
              /\ emitted'[id][k] = data[k - Len(emitted[id])]
          BY <1>1, <1>16, <3>2, <4>2
        <5> QED BY <3>1, <3>2, <5>1
      <4> QED BY <4>1, <4>2
    <3> QED BY <1>16, <3>2, <3>3
  <2>6. recs'[id] = a
    BY <1>7 DEF a, r
  <2>7. a.total = Len(emitted'[id])
    BY <1>16, <2>2, <2>3
  <2>8. gaps' = gaps
    BY <1>5
  <2> QED BY <2>1, <2>2, <2>3, <2>5, <2>6, <2>7, <2>8 DEF RunningInv, PlainText
<1>18. PendingInv'
  <2> SUFFICES ASSUME pending # NoCommand PROVE PendingInv'
    BY <1>5 DEF PendingInv
  <2>1. /\ id = pending /\ attached /\ active = NoCommand /\ pending \in used
        /\ recs[pending].compl # "complete"
        /\ pending \in completed => recs[pending].ostate = "pending"
    BY <1>2, <1>3, <1>6 DEF OutputInv, PendingInv
  <2>2. ASSUME NEW r \in Record
        PROVE  /\ AppendedRecord(r, data).ostate = r.ostate
               /\ r.compl # "complete" => AppendedRecord(r, data).compl # "complete"
    BY DEF AppendedRecord, Record
  <2> QED BY <1>5, <1>7, <2>1, <2>2 DEF PendingInv
<1>19. UnusedInv'
  BY <1>5, <1>6, <1>7 DEF OutputInv, UnusedInv
<1> QED BY <1>13, <1>15, <1>17, <1>18, <1>19 DEF OutputInv

\* MarkOutputIncomplete lowers a claim that was not made yet.
LEMMA MarkClaimsKept ==
  ASSUME TypeOK, VisibilityInv, OutputInv, MarkOutputIncomplete
  PROVE  OutputInv'
<1> DEFINE id == IF active # NoCommand THEN active ELSE pending
           rec == Marked(recs[id])
           event == RecordEvent("finalized", id, rec)
           events == IF active = NoCommand THEN <<event>> ELSE <<>>
<1>1. /\ recs' = [recs EXCEPT ![id] = rec] /\ Enqueue(events) /\ gaps' = gaps \cup {id}
      /\ UNCHANGED <<rows, chunks, failed, attached, active, completed, pending, used, emitted>>
      /\ active # NoCommand \/ HasPending
  BY DEF MarkOutputIncomplete, OnlyQueue, Marked
<1>2. /\ id \in Command /\ id \in used /\ recs \in [Command -> Record] /\ recs[id] \in Record
      /\ OutputOpen(id)
      /\ active # NoCommand => id = active
      /\ active = NoCommand => id = pending /\ pending \in completed
      /\ pending # NoCommand => active = NoCommand
  BY <1>1 DEF HasPending, TypeOK, VisibilityInv, LifecycleInv, OutputOpen, OutputInv, PendingInv
<1> HIDE DEF id
<1>3. /\ rec \in Record /\ rec.attr = "unknown" /\ rec.compl = "incomplete"
      /\ rec.ostate = recs[id].ostate /\ rec.total = recs[id].total
      /\ rec.stored = recs[id].stored /\ rec.truncated = recs[id].truncated
  BY <1>2, MarkedClaims
<1> HIDE DEF rec
<1>4. recs'[id] = rec
  BY <1>1, <1>2
<1>5. ClaimStep
  <2>1. ASSUME NEW c \in Command, Settled(c) PROVE c # id
    BY <1>2, <2>1 DEF Settled
  <2> QED BY <1>1, <2>1
          DEF ClaimStep, Undisturbed, Settled, SettledNext, OutputOpen, OutputOpenNext, HasPending
<1>6. event \in Event /\ event.kind = "finalized" /\ event.id = id /\ event.rec = rec
  BY <1>2, <1>3, EventTypes DEF LifecycleKinds, RecordEvent
<1> HIDE DEF event
<1>7. events \in Seq(Event) /\ \A k \in DOMAIN events : events[k] = event /\ active = NoCommand
  BY <1>6
<1>8. active = NoCommand => DOMAIN events = {1}
  OBVIOUS
<1>9. queue' \in {queue, queue \o events}
  BY <1>1 DEF Enqueue
<1> HIDE DEF events
<1>10. active = NoCommand => rec.ostate = "pending"
  BY <1>1, <1>2, <1>3, StoreAssumption DEF OutputInv, PendingInv
<1>11. \A k \in DOMAIN events : NewClaim(events[k]) /\ events[k].kind # "output"
  BY <1>3, <1>6, <1>7, <1>10 DEF NewClaim, HonestNext, FreshStart, Closes
<1>12. NewOrder(events) /\ NewConfirms(events)
  <2>1. NewConfirms(events)
    BY <1>3, <1>6, <1>7 DEF NewConfirms
  <2>2. NewOrder(events)
    BY <1>2, <1>6, <1>7, <1>8 DEF NewOrder
  <2> QED BY <2>1, <2>2
<1>13. HonestyInv' /\ ClosedInv' /\ ConfirmInv'
  BY <1>5, <1>7, <1>9, <1>11, <1>12, ClaimsPreserved
<1>14. DeliveryInv'
  BY <1>1, <1>7, <1>9, <1>11, DeliveryKept DEF OutputInv
<1>15. RunningInv'
  <2> SUFFICES ASSUME active # NoCommand PROVE RunningInv'
    BY <1>1 DEF RunningInv
  <2>1. active' = active /\ id = active /\ recs'[active] = rec /\ emitted' = emitted
    BY <1>1, <1>2, <1>4
  <2> QED BY <1>3, <2>1 DEF OutputInv, RunningInv
<1>16. PendingInv'
  <2> SUFFICES ASSUME pending # NoCommand PROVE PendingInv'
    BY <1>1 DEF PendingInv
  <2>1. id = pending /\ recs'[pending] = rec /\ active = NoCommand
    BY <1>2, <1>4
  <2> QED BY <1>1, <1>2, <1>3, <1>10, <2>1 DEF OutputInv, PendingInv
<1>17. UnusedInv'
  BY <1>1, <1>2 DEF OutputInv, UnusedInv
<1> QED BY <1>13, <1>14, <1>15, <1>16, <1>17 DEF OutputInv

-----------------------------------------------------------------------------
(* Visibility transactions, and the life of the process.                    *)

LEMMA BeginClaimsKept ==
  ASSUME TypeOK, VisibilityInv, OutputInv, NEW op, NEW kind \in JournalKinds,
         BeginTransaction(op, kind)
  PROVE  OutputInv'
<1> DEFINE event == BlockEvent(kind)
           events == <<event>>
<1>1. /\ UNCHANGED <<rows, chunks, failed, attached, recs, active, completed, pending, used,
                     emitted, gaps>>
      /\ Enqueue(events)
  BY DEF BeginTransaction, OnlyQueue, historyVars
<1>2. event \in Event /\ event.kind \in JournalKinds
  BY EventTypes DEF BlockEvent
<1> HIDE DEF event
<1>3. events \in Seq(Event) /\ \A k \in DOMAIN events : events[k] = event
  BY <1>2
<1>4. queue' \in {queue, queue \o events}
  BY <1>1 DEF Enqueue
<1> HIDE DEF events
<1>5. ClaimStep
  BY <1>1 DEF ClaimStep, Undisturbed, Settled, SettledNext, OutputOpen, OutputOpenNext, HasPending
<1>6. \A k \in DOMAIN events : NewClaim(events[k]) /\ events[k].kind \notin Closers \cup {"output"}
  BY <1>2, <1>3 DEF NewClaim, HonestNext, FreshStart, Closes, Closers, JournalKinds
<1>7. NewOrder(events) /\ NewConfirms(events)
  BY <1>6 DEF NewOrder, NewConfirms, Closers
<1>8. HonestyInv' /\ ClosedInv' /\ ConfirmInv'
  BY <1>3, <1>4, <1>5, <1>6, <1>7, ClaimsPreserved
<1>9. DeliveryInv'
  BY <1>1, <1>3, <1>4, <1>6, DeliveryKept DEF OutputInv
<1>10. RunningInv' /\ PendingInv' /\ UnusedInv'
  BY <1>1 DEF OutputInv, RunningInv, PendingInv, UnusedInv, PlainText
<1> QED BY <1>8, <1>9, <1>10 DEF OutputInv

\* A step that leaves FIFO, tables and output alone and forgets at most completed
\* records keeps what is said about them.
LEMMA QuietClaimsKept ==
  ASSUME OutputInv, completed' \subseteq completed,
         UNCHANGED <<queue, rows, chunks, failed, active, pending, used, emitted, gaps>>
  PROVE  DeliveryInv' /\ HonestyInv' /\ UnusedInv' /\ ClosedInv' /\ ConfirmInv'
<1>1. DeliveryInv' /\ UnusedInv'
  BY DEF OutputInv, DeliveryInv, Delivers, Placed, UnusedInv
<1>2. HonestyInv'
  BY DEF OutputInv, HonestyInv, HonestClaim, FreshStart, HonestRow, HonestAs, Settled, PlainText
<1>3. ClosedInv'
  BY DEF OutputInv, ClosedInv, OutputOpen, HasPending, Closes
<1>4. ConfirmInv'
  BY DEF OutputInv, ConfirmInv, Confirms, NothingToGain, CanCopyOutput, DurableAttribution,
         Mismatch
<1> QED BY <1>1, <1>2, <1>3, <1>4

\* The caller of Clear or Delete resumes.
LEMMA TransactionClaimsKept ==
  ASSUME TypeOK, OutputInv, TransactionNext
  PROVE  OutputInv'
<1>1. /\ UNCHANGED <<queue, rows, chunks, failed, attached, active, pending, used, emitted, gaps>>
      /\ completed' \subseteq completed
  BY DEF TransactionNext, ClearCommit, DeleteCommit, TransactionFailed, TransactionDone,
         historyVars
<1>2. ASSUME NEW r \in Record, NEW s, s = r \/ \E g : s = [r EXCEPT !.gen = g]
      PROVE  /\ s.total = r.total /\ s.stored = r.stored /\ s.truncated = r.truncated
             /\ s.attr = r.attr /\ s.compl = r.compl /\ s.safety = r.safety
             /\ s.src = r.src /\ s.ostate = r.ostate
  BY <1>2 DEF Record
<1>3. ASSUME NEW c \in Command, c = active \/ c \in completed'
      PROVE  recs'[c] = recs[c] \/ \E g : recs'[c] = [recs[c] EXCEPT !.gen = g]
  BY <1>3 DEF TransactionNext, ClearCommit, DeleteCommit, TransactionFailed
<1>4. ASSUME NEW c \in Command, c \notin completed'
      PROVE  \/ recs'[c] = recs[c] \/ recs'[c] = NoRecord
             \/ \E g : recs'[c] = [recs[c] EXCEPT !.gen = g]
  BY <1>4 DEF TransactionNext, ClearCommit, DeleteCommit, TransactionFailed
<1>5. RunningInv'
  <2> SUFFICES ASSUME active # NoCommand PROVE RunningInv'
    BY <1>1 DEF RunningInv
  <2>1. /\ active \in Command /\ recs[active] \in Record
        /\ recs'[active] = recs[active] \/ \E g : recs'[active] = [recs[active] EXCEPT !.gen = g]
    BY <1>3 DEF TypeOK
  <2>2. /\ recs'[active].total = recs[active].total
        /\ recs'[active].stored = recs[active].stored
        /\ recs'[active].truncated = recs[active].truncated
        /\ recs'[active].attr = recs[active].attr
        /\ recs'[active].compl = recs[active].compl
        /\ recs'[active].safety = recs[active].safety
        /\ recs'[active].src = recs[active].src
    BY <1>2, <2>1
  <2> QED BY <1>1, <2>2 DEF OutputInv, RunningInv, PlainText
<1>6. PendingInv'
  <2> SUFFICES ASSUME pending # NoCommand PROVE PendingInv'
    BY <1>1 DEF PendingInv
  <2>1. pending \in Command /\ recs[pending] \in Record
    BY DEF TypeOK
  <2>2. PendingInv
    BY DEF OutputInv
  <2>3. CASE pending \in completed'
    <3>1. recs'[pending].compl = recs[pending].compl /\ recs'[pending].ostate = recs[pending].ostate
      <4>1. recs'[pending] = recs[pending] \/ \E g : recs'[pending] = [recs[pending] EXCEPT !.gen = g]
        BY <1>3, <2>1, <2>3
      <4> QED BY <1>2, <2>1, <4>1
    <3> QED BY <1>1, <2>2, <3>1 DEF PendingInv
  <2>4. CASE pending \notin completed'
    <3>1. recs'[pending].compl = recs[pending].compl \/ recs'[pending].compl = "unknown"
      <4>1. \/ recs'[pending] = NoRecord
            \/ recs'[pending] = recs[pending] \/ \E g : recs'[pending] = [recs[pending] EXCEPT !.gen = g]
        BY <1>4, <2>1, <2>4
      <4>2. NoRecord.compl = "unknown"
        BY DEF NoRecord
      <4>3. CASE recs'[pending] = NoRecord
        BY <4>2, <4>3
      <4>4. CASE recs'[pending] # NoRecord
        BY <1>2, <2>1, <4>1, <4>4
      <4> QED BY <4>3, <4>4
    <3> QED BY <1>1, <2>2, <2>4, <3>1 DEF PendingInv
  <2> QED BY <2>3, <2>4
<1> QED BY <1>1, <1>5, <1>6, QuietClaimsKept DEF OutputInv

\* The process dies: the FIFO is lost, the tables stay.
LEMMA CrashClaimsKept ==
  ASSUME TypeOK, OutputInv, Crash
  PROVE  OutputInv'
<1>1. /\ UNCHANGED <<rows, chunks, used, emitted, gaps>>
      /\ queue' = <<>> /\ active' = NoCommand /\ pending' = NoCommand
  BY DEF Crash, StoreCrash, historyVars
<1>2. DOMAIN queue' = {}
  BY <1>1
<1>3. ASSUME NEW c \in Command PROVE Delivers(queue', emitted[c], chunks[c], c)
  <2>1. /\ queue \in Seq(Event) /\ emitted[c] \in Seq(Byte) /\ chunks[c] \in Seq(Byte)
        /\ Delivers(queue, emitted[c], chunks[c], c)
    BY DEF TypeOK, StoreTypeOK, OutputInv, DeliveryInv
  <2>2. Delivers(<<>>, emitted[c], chunks[c], c)
    BY <2>1, DeliversLost
  <2> QED BY <1>1, <2>2
<1>4. DeliveryInv'
  <2>1. ASSUME NEW c \in Command PROVE Delivers(queue, emitted[c], chunks[c], c)'
    BY <1>1, <1>3 DEF Delivers, Placed
  <2> QED BY <1>1, <2>1 DEF OutputInv, DeliveryInv
<1>5. HonestyInv'
  BY <1>1, <1>2, StoreAssumption DEF OutputInv, HonestyInv, HonestRow, HonestAs, Settled, PlainText
<1>6. RunningInv' /\ PendingInv' /\ UnusedInv'
  BY <1>1 DEF OutputInv, RunningInv, PendingInv, UnusedInv
<1>7. ClosedInv' /\ ConfirmInv'
  BY <1>1, <1>2, StoreAssumption DEF ClosedInv, ConfirmInv, OutputOpen, HasPending
<1> QED BY <1>4, <1>5, <1>6, <1>7 DEF OutputInv

\* The next process closes what it finds open, and claims nothing for it.
LEMMA OpenClaimsKept ==
  ASSUME TypeOK, VisibilityInv, OutputInv, Open,
         UNCHANGED <<journalVars, service, historyVars>>
  PROVE  OutputInv'
<1>1. /\ UNCHANGED <<queue, chunks, attached, recs, active, completed, pending, used, emitted, gaps>>
      /\ ~attached /\ queue = <<>> /\ active = NoCommand /\ pending = NoCommand
  BY DEF Open, journalVars, historyVars, VisibilityInv, LifecycleInv, OutputInv, PendingInv
<1>2. DOMAIN queue' = {} /\ queue' = <<>>
  BY <1>1
<1>3. ASSUME NEW r \in Record
      PROVE  /\ Recovered(r) = r \/ Recovered(r).attr = "unknown"
             /\ Recovered(r).stored = r.stored /\ Recovered(r).total = r.total
             /\ Recovered(r).state = "absent" => Recovered(r) = r
  BY DEF Recovered, Record
<1>4. ASSUME NEW c \in Command
      PROVE  /\ rows'[c] = rows[c] \/ rows'[c].attr = "unknown"
             /\ rows'[c].stored = rows[c].stored /\ rows'[c].total = rows[c].total
             /\ rows'[c].state = "absent" => rows'[c] = rows[c]
  <2>1. rows[c] \in Record /\ rows'[c] = Recovered(Reconciled(rows[c], Len(chunks[c])))
    BY DEF Open, TypeOK, StoreTypeOK
  <2>2. Len(chunks[c]) = rows[c].stored /\ rows[c].stored <= rows[c].total
    BY DEF OutputInv, DeliveryInv
  <2>3. rows[c].stored \in Nat /\ rows[c].total \in Nat
    BY <2>1 DEF Record
  <2>4. ~(rows[c].stored > rows[c].total)
    BY <2>2, <2>3
  <2>5. Reconciled(rows[c], Len(chunks[c])) = rows[c]
    BY <2>2, <2>4 DEF Reconciled
  <2> QED BY <1>3, <2>1, <2>5
<1>5. DeliveryInv'
  <2>1. ASSUME NEW c \in Command PROVE Delivers(queue, emitted[c], chunks[c], c)'
    BY <1>1 DEF OutputInv, DeliveryInv, Delivers, Placed
  <2> QED BY <1>1, <1>4, <2>1 DEF OutputInv, DeliveryInv
<1>6. HonestyInv'
  BY <1>1, <1>2, <1>4 DEF OutputInv, HonestyInv, HonestRow, HonestAs, Settled, PlainText
<1>7. RunningInv' /\ PendingInv' /\ UnusedInv'
  BY <1>1 DEF OutputInv, RunningInv, PendingInv, UnusedInv
<1>8. ClosedInv' /\ ConfirmInv'
  BY <1>1, <1>2, StoreAssumption DEF ClosedInv, ConfirmInv, OutputOpen, HasPending
<1> QED BY <1>5, <1>6, <1>7, <1>8 DEF OutputInv

-----------------------------------------------------------------------------
(* The writer: what one event does to the row and the chunks of a command.  *)

\* What the next state shows for c once e has left the FIFO.
Delivered(e, c) ==
  /\ Len(chunks'[c]) = rows'[c].stored
  /\ rows'[c].stored <= rows'[c].total
  /\ rows'[c].state = "absent" => rows'[c] = NoRecord
  /\ \/ chunks'[c] = <<>>
     \/ chunks'[c] = chunks[c]
     \/ /\ e.kind = "output" /\ e.id = c
        /\ \E part \in Seq(Byte) :
             /\ chunks'[c] = chunks[c] \o part
             /\ Len(part) <= Len(e.data)
             /\ \A k \in 1 .. Len(part) : part[k] = e.data[k]

Claimed(e, c) ==
  /\ HonestAs(rows'[c], c)
  /\ rows'[c].ostate = "closed" => rows[c].ostate = "closed" \/ Closes(e, c)

\* The finalizing event that follows e will add nothing to what e did.
MismatchNext(id, rec) ==
  \/ Len(chunks'[id]) # rows'[id].stored
  \/ rows'[id].stored > rows'[id].total
  \/ rec.stored # rows'[id].stored
  \/ rec.total > 0 /\ rec.total # rows'[id].total

LostNext(id, rec) ==
  \/ id \in failed'
  \/ MismatchNext(id, rec)
  \/ rec.compl = "complete" /\ (rows'[id].truncated \/ rows'[id].stored # rows'[id].total)

NothingNext(id, rec) ==
  \/ rows'[id].state \notin Ends
  \/ CanCopyOutput(rows'[id])
  \/ LostNext(id, rec)
  \/ rows'[id].mode = "interactive"
  \/ rec.safety # "plain"

Spent(e) ==
  e.kind = "finished" /\ e.rec.attr = "exclusive" => NothingNext(e.id, e.rec)

\* A row that the event does not touch.
LEMMA UntouchedClaims ==
  ASSUME OutputInv, NEW e, NEW c \in Command,
         rows'[c] = rows[c], chunks'[c] = chunks[c]
  PROVE  Delivered(e, c) /\ Claimed(e, c)
BY DEF OutputInv, DeliveryInv, HonestyInv, HonestRow, Delivered, Claimed

\* The head of the FIFO is gone, and what it said is in the tables or lost.
LEMMA TakeClaims ==
  ASSUME TypeOK, TypeOK', VisibilityInv, OutputInv, queue # <<>>, queue' = Tail(queue),
         UNCHANGED <<journalVars, service, historyVars>>, failed \subseteq failed',
         \A c \in Command : Delivered(Head(queue), c) /\ Claimed(Head(queue), c),
         Spent(Head(queue))
  PROVE  OutputInv'
<1> DEFINE e == Head(queue)
<1>1. /\ 1 \in DOMAIN queue /\ e = queue[1] /\ e \in Event /\ Len(queue) \in Nat
      /\ \A i \in DOMAIN queue' : /\ i + 1 \in DOMAIN queue /\ i + 1 # 1 /\ i \in Nat
                                  /\ queue'[i] = queue[i + 1]
  BY TailEvents
<1>2. /\ UNCHANGED <<attached, recs, active, completed, pending, used, emitted, gaps>>
      /\ queue \in Seq(Event) /\ queue' \in Seq(Event)
      /\ DOMAIN queue = 1 .. Len(queue) /\ DOMAIN queue' = 1 .. Len(queue')
      /\ \A i \in DOMAIN queue : queue[i] \in Event
  <2>1. queue \in Seq(Event) /\ queue' \in Seq(Event)
    BY DEF TypeOK, StoreTypeOK
  <2>2. \A i \in DOMAIN queue : queue[i] \in Event
    BY <2>1, ElementOfSeq, LenProperties
  <2> QED BY <2>1, <2>2, LenProperties DEF journalVars, historyVars
<1>3. \A c \in Command : Delivered(e, c) /\ Claimed(e, c)
  OBVIOUS
<1>4. Spent(e)
  OBVIOUS
<1>5. ASSUME NEW c \in Command PROVE Delivers(queue', emitted[c], chunks'[c], c)
  <2>1. /\ queue \in Seq(Event) /\ emitted[c] \in Seq(Byte) /\ chunks[c] \in Seq(Byte)
        /\ Delivers(queue, emitted[c], chunks[c], c)
    BY DEF TypeOK, StoreTypeOK, OutputInv, DeliveryInv
  <2>2. ASSUME NEW part \in Seq(Byte),
               \/ Len(part) = 0
               \/ /\ e.kind = "output" /\ e.id = c /\ Len(part) <= Len(e.data)
                  /\ \A k \in 1 .. Len(part) : part[k] = e.data[k]
        PROVE  Delivers(queue', emitted[c], chunks[c] \o part, c)
    BY <1>1, <2>1, <2>2, DeliversTake
  <2>3. Delivers(queue', emitted[c], chunks[c], c)
    <3>1. chunks[c] \o <<>> = chunks[c]
      BY <2>1, ConcatEmptySeq
    <3> DEFINE part == <<>>
    <3>2. part \in Seq(Byte) /\ Len(part) = 0 /\ chunks[c] \o part = chunks[c]
      BY <3>1, EmptySeq
    <3> HIDE DEF part
    <3>3. Delivers(queue', emitted[c], chunks[c] \o part, c)
      BY <2>2, <3>2
    <3> QED BY <3>2, <3>3
  <2>4. CASE chunks'[c] = <<>>
    <3>1. Delivers(queue', emitted[c], <<>>, c)
      BY <1>2, <2>1, <2>3, DeliversDeleted
    <3> QED BY <2>4, <3>1
  <2>5. CASE chunks'[c] = chunks[c]
    BY <2>3, <2>5
  <2>6. ASSUME e.kind = "output", e.id = c, NEW part \in Seq(Byte),
               chunks'[c] = chunks[c] \o part, Len(part) <= Len(e.data),
               \A k \in 1 .. Len(part) : part[k] = e.data[k]
        PROVE  Delivers(queue', emitted[c], chunks'[c], c)
    <3>1. Delivers(queue', emitted[c], chunks[c] \o part, c)
      BY <2>2, <2>6
    <3> QED BY <2>6, <3>1
  <2> HIDE DEF e
  <2> QED BY <1>3, <2>4, <2>5, <2>6 DEF Delivered
<1> HIDE DEF e
<1>6. DeliveryInv'
  <2>1. ASSUME NEW c \in Command PROVE Delivers(queue, emitted[c], chunks[c], c)'
    BY <1>2, <1>5 DEF Delivers, Placed
  <2> QED BY <1>3, <2>1 DEF DeliveryInv, Delivered
<1>7. HonestyInv'
  <2>1. \A c \in Command : HonestRow(c)'
    BY <1>2, <1>3 DEF Claimed, HonestRow, HonestAs, Settled, PlainText
  <2>2. \A i \in DOMAIN queue' : HonestClaim(queue'[i]) /\ FreshStart(queue'[i])
    BY <1>1 DEF OutputInv, HonestyInv
  <2> QED BY <1>2, <2>1, <2>2 DEF HonestyInv, HonestClaim, FreshStart, Settled, PlainText
<1>8. RunningInv' /\ PendingInv' /\ UnusedInv'
  BY <1>2 DEF OutputInv, RunningInv, PendingInv, UnusedInv, PlainText
<1>9. ClosedInv'
  <2>1. ASSUME NEW c \in Command, OutputOpen(c)
        PROVE  rows'[c].ostate # "closed" /\ \A i \in DOMAIN queue' : ~Closes(queue'[i], c)
    BY <1>1, <1>3, <2>1 DEF Claimed, OutputInv, ClosedInv
  <2>2. ASSUME NEW i \in DOMAIN queue', NEW j \in DOMAIN queue', i < j,
               queue'[j].kind \in Closers, Closes(queue'[i], queue'[j].id)
        PROVE  queue'[j].rec.ostate = "closed"
    <3>1. i + 1 < j + 1 /\ queue'[i] = queue[i + 1] /\ queue'[j] = queue[j + 1]
          /\ i + 1 \in DOMAIN queue /\ j + 1 \in DOMAIN queue
      BY <1>1, <2>2
    <3> QED BY <2>2, <3>1 DEF OutputInv, ClosedInv
  <2>3. ASSUME NEW j \in DOMAIN queue', queue'[j].kind \in Closers,
               rows'[queue'[j].id].ostate = "closed"
        PROVE  queue'[j].rec.ostate = "closed"
    <3>1. /\ queue'[j] = queue[j + 1] /\ j + 1 \in DOMAIN queue /\ 1 < j + 1
          /\ queue[j + 1] \in Event
      <4>1. j \in Nat /\ j # 0
        BY <1>2, <2>3
      <4> QED BY <1>1, <1>2, <4>1
    <3>2. queue'[j].id \in Command
      BY <2>3, <3>1, EventFields DEF Closers, LifecycleKinds
    <3>3. rows[queue'[j].id].ostate = "closed" \/ Closes(e, queue'[j].id)
      BY <1>3, <2>3, <3>2 DEF Claimed
    <3> QED BY <1>1, <2>3, <3>1, <3>3 DEF OutputInv, ClosedInv
  <2>4. \A c \in Command : OutputOpen(c)' <=> OutputOpen(c)
    BY <1>2 DEF OutputOpen, HasPending
  <2> QED BY <2>1, <2>2, <2>3, <2>4 DEF ClosedInv, Closes
<1>10. ConfirmInv'
  <2>1. ASSUME NEW j \in DOMAIN queue', j # 1 PROVE Confirms(queue'[j - 1], queue'[j])
    <3>1. j \in DOMAIN queue' /\ j \in Nat /\ j # 0
      BY <1>2
    <3>2. j - 1 \in DOMAIN queue' /\ j - 1 + 1 = j
      BY <1>2, <2>1, <3>1
    <3> DEFINE k == j + 1
    <3>3. queue'[j] = queue[k] /\ k \in DOMAIN queue /\ k # 1 /\ k - 1 = j
      BY <1>1, <3>1
    <3> HIDE DEF k
    <3>4. queue'[j - 1] = queue[k - 1]
      BY <1>1, <3>2, <3>3
    <3>5. Confirms(queue[k - 1], queue[k])
      BY <3>3 DEF OutputInv, ConfirmInv
    <3> QED BY <3>3, <3>4, <3>5
  <2>2. ASSUME queue' # <<>>, queue'[1].kind = "finalized", queue'[1].rec.attr = "exclusive"
        PROVE  NothingNext(queue'[1].id, queue'[1].rec)
    <3>1. 1 \in DOMAIN queue'
      BY <1>2, <2>2, EmptySeq
    <3>2. queue'[1] = queue[2] /\ 2 \in DOMAIN queue /\ 2 - 1 = 1
      BY <1>1, <3>1
    <3>3. Confirms(queue[2 - 1], queue[2])
      BY <3>2 DEF OutputInv, ConfirmInv
    <3>4. e.kind = "finished" /\ e.id = queue'[1].id /\ e.rec = queue'[1].rec
      BY <1>1, <2>2, <3>2, <3>3 DEF Confirms
    <3> QED BY <1>4, <2>2, <3>4 DEF Spent
  <2> QED BY <2>1, <2>2 DEF ConfirmInv, Confirms, NothingToGain, NothingNext, LostNext,
                            MismatchNext, CanCopyOutput, DurableAttribution, Mismatch
<1> QED BY <1>6, <1>7, <1>8, <1>9, <1>10 DEF OutputInv

\* A trusted row owes its trust to an honest claim that the tables do not
\* contradict: then the tables hold everything the command emitted.
LEMMA DurableIsExact ==
  ASSUME TypeOK, OutputInv, NEW e \in Event, e.kind \in {"finished", "finalized"},
         HonestClaim(e), DurableAttribution(e.id, e.rec) = "exclusive"
  PROVE  /\ e.id \in Command /\ e.rec.attr = "exclusive"
         /\ Settled(e.id)
         /\ e.id \notin gaps
         /\ rows[e.id].stored = Len(emitted[e.id])
         /\ rows[e.id].total = rows[e.id].stored
         /\ e.rec.total = rows[e.id].total
         /\ ~rows[e.id].truncated
         /\ ~e.rec.truncated
         /\ DurableCompleteness(e.id, e.rec) = "complete"
         /\ e.rec.ostate = "closed"
         /\ e.rec.safety = "plain" => PlainText(e.id)
<1>1. /\ e.id \notin failed /\ ~Mismatch(e.id, e.rec)
      /\ e.rec.compl = "complete" =>
           ~(rows[e.id].truncated \/ rows[e.id].stored # rows[e.id].total)
      /\ e.rec.attr = "exclusive"
  BY DEF DurableAttribution
<1>2. e.id \in Command /\ e.kind \in Closers
  BY EventFields DEF LifecycleKinds, Closers
<1>3. /\ Settled(e.id) /\ e.id \notin gaps /\ e.rec.total = Len(emitted[e.id])
      /\ e.rec.stored = e.rec.total /\ ~e.rec.truncated /\ e.rec.compl = "complete"
      /\ e.rec.ostate = "closed" /\ (e.rec.safety = "plain" => PlainText(e.id))
  BY <1>1, <1>2 DEF HonestClaim
<1>4. rows[e.id].stored = e.rec.stored /\ rows[e.id].stored = rows[e.id].total
      /\ ~rows[e.id].truncated
  BY <1>1, <1>3 DEF Mismatch
<1>5. DurableCompleteness(e.id, e.rec) = "complete"
  BY <1>1, <1>3 DEF DurableCompleteness
<1> QED BY <1>1, <1>2, <1>3, <1>4, <1>5

\* A finishing event: the row takes the outcome and as much of the claim as the
\* tables bear out; if that is not the whole claim, it stays lost.
LEMMA FinishedCommits ==
  ASSUME TypeOK, OutputInv, NEW e \in Event, e.kind = "finished", HonestClaim(e), Fits(e),
         ~RowMissing(e), UpdateFinished(e), failed' = failed,
         UNCHANGED <<journalVars, historyVars>>
  PROVE  (\A c \in Command : Delivered(e, c) /\ Claimed(e, c)) /\ Spent(e)
<1> DEFINE row == rows[e.id]
           new == rows'[e.id]
           total == IF row.total > e.rec.total THEN row.total ELSE e.rec.total
           truncated == e.rec.truncated \/ row.truncated \/ row.stored < total
           compl == DurableCompleteness(e.id, e.rec)
           attr == DurableAttribution(e.id, e.rec)
<1>1. /\ e.id \in Command /\ e.rec \in Record /\ row \in Record
      /\ rows \in [Command -> Record]
  BY EventFields DEF TypeOK, StoreTypeOK, LifecycleKinds
<1>2. /\ chunks' = chunks
      /\ new = [row EXCEPT !.state = e.rec.state, !.gen = e.rec.gen, !.total = total,
                           !.truncated = truncated, !.compl = compl, !.attr = attr,
                           !.safety = e.rec.safety, !.ostate = e.rec.ostate]
      /\ \A c \in Command : c # e.id => rows'[c] = rows[c]
  BY <1>1 DEF UpdateFinished
<1> HIDE DEF row, new, total, truncated, compl, attr
<1>3. /\ new.state = e.rec.state /\ new.total = total /\ new.truncated = truncated
      /\ new.compl = compl /\ new.attr = attr /\ new.safety = e.rec.safety
      /\ new.ostate = e.rec.ostate /\ new.mode = row.mode /\ new.stored = row.stored
  BY <1>1, <1>2 DEF Record
<1>4. /\ row.total \in Nat /\ row.stored \in Nat /\ e.rec.total \in Nat /\ e.rec.stored \in Nat
      /\ Len(chunks[e.id]) = row.stored /\ row.stored <= row.total
  BY <1>1 DEF OutputInv, DeliveryInv, Record, row
<1>5. row.total <= total /\ e.rec.total <= total /\ total \in Nat
      /\ (e.rec.total = row.total => total = row.total)
  BY <1>4 DEF total
<1>6. e.rec.state \in Ends
  BY DEF Fits, Ends
<1>7. Delivered(e, e.id)
  BY <1>2, <1>3, <1>4, <1>5, <1>6 DEF Delivered, Ends, new
<1>8. ASSUME attr = "exclusive"
      PROVE  /\ e.rec.attr = "exclusive" /\ Settled(e.id) /\ e.id \notin gaps
             /\ row.stored = Len(emitted[e.id]) /\ total = row.stored /\ ~truncated
             /\ compl = "complete" /\ e.rec.ostate = "closed"
             /\ e.rec.safety = "plain" => PlainText(e.id)
  <2>1. /\ e.rec.attr = "exclusive" /\ Settled(e.id) /\ e.id \notin gaps
        /\ row.stored = Len(emitted[e.id]) /\ row.total = row.stored
        /\ e.rec.total = row.total /\ ~row.truncated /\ ~e.rec.truncated
        /\ compl = "complete" /\ e.rec.ostate = "closed"
        /\ e.rec.safety = "plain" => PlainText(e.id)
    BY <1>8, DurableIsExact DEF attr, compl, row
  <2>2. total = row.stored /\ ~(row.stored < total)
    BY <1>4, <1>5, <2>1
  <2> QED BY <2>1, <2>2 DEF truncated
<1>9. Claimed(e, e.id)
  <2>1. HonestAs(new, e.id)
    BY <1>3, <1>8 DEF HonestAs
  <2> QED BY <1>3, <2>1 DEF Claimed, Closes, Closers, new
<1>10. Spent(e)
  <2> SUFFICES ASSUME e.rec.attr = "exclusive" PROVE NothingNext(e.id, e.rec)
    BY DEF Spent
  <2>1. e.rec.stored = e.rec.total /\ e.rec.compl = "complete" /\ e.rec.ostate = "closed"
    BY DEF HonestClaim, Closers
  <2>2. CASE attr = "exclusive"
    <3>1. (row.mode # "interactive" /\ e.rec.safety = "plain") => CanCopyOutput(new)
      BY <1>3, <1>6, <1>8, <2>2 DEF CanCopyOutput, Ends
    <3> QED BY <1>3, <3>1 DEF NothingNext, new
  <2>3. CASE attr # "exclusive"
    <3>1. \/ e.id \in failed
          \/ e.rec.stored # row.stored
          \/ e.rec.total > 0 /\ e.rec.total # row.total
          \/ row.truncated \/ row.stored # row.total
      <4>1. \/ e.id \in failed \/ Mismatch(e.id, e.rec)
            \/ row.truncated \/ row.stored # row.total
        BY <2>3 DEF attr, DurableAttribution, row
      <4> QED BY <1>4, <4>1 DEF Mismatch, row
    <3>2. \/ e.id \in failed
          \/ e.rec.stored # row.stored
          \/ e.rec.total > 0 /\ e.rec.total # total
          \/ truncated \/ row.stored # total
      <4>1. ASSUME e.rec.total # row.total
            PROVE  e.rec.stored # row.stored \/ e.rec.total # total
        BY <1>4, <2>1, <4>1 DEF total
      <4>2. ASSUME row.stored # row.total PROVE row.stored # total
        BY <1>4, <1>5, <4>2
      <4> QED BY <3>1, <4>1, <4>2 DEF truncated
    <3> QED BY <1>3, <2>1, <3>2 DEF NothingNext, LostNext, MismatchNext, new
  <2> QED BY <2>2, <2>3
<1> QED BY <1>2, <1>7, <1>9, <1>10, UntouchedClaims

\* A finalizing event leaves the counters alone.
LEMMA FinalizedCommits ==
  ASSUME TypeOK, OutputInv, NEW e \in Event, e.kind = "finalized", HonestClaim(e),
         ~RowMissing(e), UpdateOutputFinalized(e), UNCHANGED <<journalVars, historyVars>>
  PROVE  \A c \in Command : Delivered(e, c) /\ Claimed(e, c)
<1> DEFINE row == rows[e.id]
           new == rows'[e.id]
           truncated == row.truncated \/ row.stored < row.total
           compl == DurableCompleteness(e.id, e.rec)
           attr == DurableAttribution(e.id, e.rec)
<1>1. /\ e.id \in Command /\ e.rec \in Record /\ row \in Record
      /\ rows \in [Command -> Record]
  BY EventFields DEF TypeOK, StoreTypeOK, LifecycleKinds
<1>2. /\ chunks' = chunks
      /\ new = [row EXCEPT !.truncated = truncated, !.compl = compl, !.attr = attr,
                           !.safety = e.rec.safety, !.ostate = e.rec.ostate]
      /\ \A c \in Command : c # e.id => rows'[c] = rows[c]
  BY <1>1 DEF UpdateOutputFinalized
<1>3. row.state # "absent"
  BY DEF RowMissing, row
<1> HIDE DEF row, new, truncated, compl, attr
<1>4. /\ new.state = row.state /\ new.total = row.total /\ new.stored = row.stored
      /\ new.truncated = truncated /\ new.compl = compl /\ new.attr = attr
      /\ new.safety = e.rec.safety /\ new.ostate = e.rec.ostate
  BY <1>1, <1>2 DEF Record
<1>5. /\ row.total \in Nat /\ row.stored \in Nat
      /\ Len(chunks[e.id]) = row.stored /\ row.stored <= row.total
  BY <1>1 DEF OutputInv, DeliveryInv, Record, row
<1>6. Delivered(e, e.id)
  BY <1>2, <1>3, <1>4, <1>5 DEF Delivered, new
<1>7. ASSUME attr = "exclusive"
      PROVE  /\ Settled(e.id) /\ e.id \notin gaps
             /\ row.stored = Len(emitted[e.id]) /\ row.total = row.stored /\ ~truncated
             /\ compl = "complete" /\ e.rec.ostate = "closed"
             /\ e.rec.safety = "plain" => PlainText(e.id)
  <2>1. /\ Settled(e.id) /\ e.id \notin gaps
        /\ row.stored = Len(emitted[e.id]) /\ row.total = row.stored /\ ~row.truncated
        /\ compl = "complete" /\ e.rec.ostate = "closed"
        /\ e.rec.safety = "plain" => PlainText(e.id)
    BY <1>7, DurableIsExact DEF attr, compl, row
  <2> QED BY <1>5, <2>1 DEF truncated
<1>8. HonestAs(new, e.id)
  BY <1>4, <1>7 DEF HonestAs
<1>9. Claimed(e, e.id)
  BY <1>4, <1>8 DEF Claimed, Closes, Closers, new
<1> QED BY <1>2, <1>6, <1>9, UntouchedClaims

\* An aborting event claims nothing.
LEMMA AbortedCommits ==
  ASSUME TypeOK, OutputInv, NEW e \in Event, e.kind = "aborted", HonestClaim(e), Fits(e),
         UpdateAborted(e), UNCHANGED <<journalVars, historyVars>>
  PROVE  \A c \in Command : Delivered(e, c) /\ Claimed(e, c)
<1> DEFINE row == rows[e.id]
           new == rows'[e.id]
<1>1. /\ e.id \in Command /\ e.rec \in Record /\ row \in Record
      /\ rows \in [Command -> Record]
  BY EventFields DEF TypeOK, StoreTypeOK, LifecycleKinds
<1>2. /\ chunks' = chunks
      /\ new = [row EXCEPT !.state = e.rec.state, !.gen = e.rec.gen, !.compl = e.rec.compl,
                           !.attr = e.rec.attr, !.safety = e.rec.safety,
                           !.ostate = e.rec.ostate]
      /\ \A c \in Command : c # e.id => rows'[c] = rows[c]
  BY <1>1 DEF UpdateAborted
<1> HIDE DEF row, new
<1>3. /\ new.state = e.rec.state /\ new.total = row.total /\ new.stored = row.stored
      /\ new.attr = e.rec.attr /\ new.ostate = e.rec.ostate
  BY <1>1, <1>2 DEF Record
<1>4. Len(chunks[e.id]) = row.stored /\ row.stored <= row.total
  BY <1>1 DEF OutputInv, DeliveryInv, row
<1>5. e.rec.state # "absent"
  BY DEF Fits, Ends
<1>6. Delivered(e, e.id)
  BY <1>2, <1>3, <1>4, <1>5 DEF Delivered, new
<1>7. e.rec.attr # "exclusive"
  BY DEF HonestClaim, Closers
<1>8. Claimed(e, e.id)
  BY <1>3, <1>7 DEF Claimed, HonestAs, Closes, Closers, new
<1> QED BY <1>2, <1>6, <1>8, UntouchedClaims

\* A start makes a row without output and without a claim.
LEMMA StartedCommits ==
  ASSUME TypeOK, OutputInv, NEW e \in Event, e.kind = "started", FreshStart(e), Fits(e),
         InsertStarted(e), UNCHANGED <<journalVars, historyVars>>
  PROVE  \A c \in Command : Delivered(e, c) /\ Claimed(e, c)
<1>1. /\ e.id \in Command /\ rows \in [Command -> Record] /\ chunks \in [Command -> Seq(Byte)]
  BY EventFields DEF TypeOK, StoreTypeOK, LifecycleKinds
<1>2. /\ rows'[e.id] = e.rec /\ chunks'[e.id] = <<>>
      /\ \A c \in Command : c # e.id => rows'[c] = rows[c] /\ chunks'[c] = chunks[c]
  BY <1>1 DEF InsertStarted
<1>3. /\ e.rec.total = 0 /\ e.rec.stored = 0 /\ e.rec.attr = "unknown"
      /\ e.rec.ostate = "open" /\ e.rec.state = "running"
  BY DEF FreshStart, Fits
<1>4. Len(<<>>) = 0
  OBVIOUS
<1>5. Delivered(e, e.id) /\ Claimed(e, e.id)
  BY <1>2, <1>3, <1>4 DEF Delivered, Claimed, HonestAs
<1> QED BY <1>2, <1>5, UntouchedClaims

\* appendOutput keeps a prefix of the bytes.
LEMMA PrefixKept ==
  ASSUME NEW id, rows[id].stored \in Nat, NEW data \in Seq(Byte)
  PROVE  /\ StoredPrefix(id, data) \in Seq(Byte)
         /\ Len(StoredPrefix(id, data)) <= Len(data)
         /\ \A k \in 1 .. Len(StoredPrefix(id, data)) : StoredPrefix(id, data)[k] = data[k]
<1> DEFINE remaining == IF rows[id].stored < MaxOutputBytes
                          THEN MaxOutputBytes - rows[id].stored ELSE 0
<1>1. remaining \in Nat /\ Len(data) \in Nat
  BY StoreAssumption, LenProperties
<1>2. StoredPrefix(id, data) =
        IF Len(data) <= remaining THEN data ELSE SubSeq(data, 1, remaining)
  BY DEF StoredPrefix
<1> HIDE DEF remaining
<1>3. CASE Len(data) <= remaining
  BY <1>1, <1>2, <1>3
<1>4. CASE ~(Len(data) <= remaining)
  <2>1. \A k \in 1 .. remaining : k \in 1 .. Len(data) /\ data[k] \in Byte
    BY <1>1, <1>4, ElementOfSeq
  <2>2. /\ SubSeq(data, 1, remaining) \in Seq(Byte)
        /\ Len(SubSeq(data, 1, remaining)) = remaining
        /\ \A k \in 1 .. remaining : SubSeq(data, 1, remaining)[k] = data[k]
    BY <1>1, <1>4, <2>1, SubSeqProperties
  <2> QED BY <1>1, <1>2, <1>4, <2>2
<1> QED BY <1>3, <1>4

\* Output is stored behind what is stored already; a row that claims exclusive
\* output has it all, so nothing comes late.
LEMMA OutputCommits ==
  ASSUME TypeOK, OutputInv, queue # <<>>, NEW e \in Event, e = queue[1], e.kind = "output",
         ~RowMissing(e), AppendChunks(e), UNCHANGED <<journalVars, historyVars>>
  PROVE  \A c \in Command : Delivered(e, c) /\ Claimed(e, c)
<1> DEFINE row == rows[e.id]
           new == rows'[e.id]
           kept == StoredPrefix(e.id, e.data)
           total == row.total + Len(e.data)
           stored == row.stored + Len(kept)
           truncated == stored < total
<1>1. /\ e.id \in Command /\ row \in Record /\ rows \in [Command -> Record]
      /\ chunks \in [Command -> Seq(Byte)] /\ e.data \in Seq(Byte) /\ Len(e.data) \in Nat
      /\ emitted[e.id] \in Seq(Byte) /\ queue \in Seq(Event)
  BY EventFields DEF TypeOK, StoreTypeOK
<1>2. /\ chunks'[e.id] = chunks[e.id] \o kept
      /\ new = [row EXCEPT !.total = total, !.stored = stored, !.truncated = truncated]
      /\ \A c \in Command : c # e.id => rows'[c] = rows[c] /\ chunks'[c] = chunks[c]
  BY <1>1 DEF AppendChunks
<1>3. row.state # "absent"
  BY DEF RowMissing, row
<1>4. row.total \in Nat /\ row.stored \in Nat
  BY <1>1 DEF Record
<1>5. /\ kept \in Seq(Byte) /\ Len(kept) \in Nat /\ Len(kept) <= Len(e.data)
      /\ \A k \in 1 .. Len(kept) : kept[k] = e.data[k]
  BY <1>1, <1>4, PrefixKept, LenProperties
<1> HIDE DEF row, new, kept, total, stored, truncated
<1>6. /\ new.state = row.state /\ new.total = total /\ new.stored = stored
      /\ new.truncated = truncated /\ new.compl = row.compl /\ new.attr = row.attr
      /\ new.safety = row.safety /\ new.ostate = row.ostate
  BY <1>1, <1>2 DEF Record
<1>7. Len(chunks[e.id]) = row.stored /\ row.stored <= row.total
  BY <1>1 DEF OutputInv, DeliveryInv, row
<1>8. stored <= total
  BY <1>1, <1>4, <1>5, <1>7 DEF stored, total
<1>9. Len(chunks'[e.id]) = stored
  <2>1. Len(chunks[e.id] \o kept) = Len(chunks[e.id]) + Len(kept)
    BY <1>1, <1>5, ConcatProperties
  <2> QED BY <1>2, <1>7, <2>1 DEF stored
<1>10. Delivered(e, e.id)
  BY <1>2, <1>3, <1>5, <1>6, <1>8, <1>9 DEF Delivered, new
<1>11. HonestAs(new, e.id)
  <2> SUFFICES ASSUME row.attr = "exclusive" PROVE HonestAs(new, e.id)
    BY <1>6 DEF HonestAs
  <2>1. HonestAs(row, e.id)
    BY <1>1 DEF OutputInv, HonestyInv, HonestRow, row
  <2>2. row.stored = Len(emitted[e.id]) /\ row.total = row.stored
    BY <2>1 DEF HonestAs
  <2>3. Delivers(queue, emitted[e.id], chunks[e.id], e.id)
    BY <1>1 DEF OutputInv, DeliveryInv
  <2>4. Len(e.data) = 0
    BY <1>1, <1>7, <2>2, <2>3, DeliversAll
  <2>5. stored = row.stored /\ total = row.total /\ ~truncated
    BY <1>4, <1>5, <2>2, <2>4 DEF stored, total, truncated
  <2> QED BY <1>6, <2>1, <2>5 DEF HonestAs
<1>12. Claimed(e, e.id)
  <2>1. rows'[e.id].ostate = rows[e.id].ostate
    BY <1>6 DEF new, row
  <2> QED BY <1>11, <2>1 DEF Claimed, new
<1> QED BY <1>2, <1>10, <1>12, UntouchedClaims

\* Clear and Delete change no count and no claim; what Delete removes is gone.
LEMMA VisibilityCommits ==
  ASSUME TypeOK, OutputInv, NEW e \in Event, AdvanceGeneration \/ DeleteRows,
         UNCHANGED <<journalVars, historyVars>>
  PROVE  \A c \in Command : Delivered(e, c) /\ Claimed(e, c)
<1> TAKE c \in Command
<1>1. /\ rows[c] \in Record
      /\ Len(chunks[c]) = rows[c].stored /\ rows[c].stored <= rows[c].total
      /\ rows[c].state = "absent" => rows[c] = NoRecord
      /\ HonestAs(rows[c], c)
  BY DEF TypeOK, StoreTypeOK, OutputInv, DeliveryInv, HonestyInv, HonestRow
<1>2. \/ chunks'[c] = chunks[c] /\ rows'[c] = rows[c]
      \/ /\ chunks'[c] = chunks[c] /\ rows[c].state = "running"
         /\ \E g : rows'[c] = [rows[c] EXCEPT !.gen = g]
      \/ chunks'[c] = <<>> /\ rows'[c] = NoRecord
  BY DEF AdvanceGeneration, DeleteRows
<1>3. CASE chunks'[c] = chunks[c] /\ rows'[c] = rows[c]
  BY <1>3, UntouchedClaims
<1>4. ASSUME chunks'[c] = chunks[c], rows[c].state = "running", NEW g,
             rows'[c] = [rows[c] EXCEPT !.gen = g]
      PROVE  Delivered(e, c) /\ Claimed(e, c)
  <2>1. /\ rows'[c].state = rows[c].state /\ rows'[c].total = rows[c].total
        /\ rows'[c].stored = rows[c].stored /\ rows'[c].truncated = rows[c].truncated
        /\ rows'[c].compl = rows[c].compl /\ rows'[c].attr = rows[c].attr
        /\ rows'[c].safety = rows[c].safety /\ rows'[c].ostate = rows[c].ostate
    BY <1>1, <1>4 DEF Record
  <2> QED BY <1>1, <1>4, <2>1 DEF Delivered, Claimed, HonestAs
<1>5. CASE chunks'[c] = <<>> /\ rows'[c] = NoRecord
  <2>1. Len(<<>>) = 0
    OBVIOUS
  <2> QED BY <1>5, <2>1 DEF Delivered, Claimed, HonestAs, NoRecord
<1> QED BY <1>2, <1>3, <1>4, <1>5

\* Every step of the writer goroutine (run and process of store.go).
LEMMA WriterClaimsKept ==
  ASSUME TypeOK, TypeOK', VisibilityInv, OutputInv, WriterNext,
         UNCHANGED <<journalVars, service, historyVars>>
  PROVE  OutputInv'
<1> DEFINE e == Head(queue)
<1>1. ASSUME queue # <<>>, queue' = Tail(queue)
      PROVE  /\ e \in Event /\ e = queue[1] /\ Fits(e) /\ HonestClaim(e) /\ FreshStart(e)
  BY <1>1, TailEvents DEF VisibilityInv, QueueInv, OutputInv, HonestyInv
<1>2. CASE Dequeue
  <2>1. /\ UNCHANGED <<queue, rows, chunks, failed>>
        /\ UNCHANGED <<attached, recs, active, completed, pending, used, emitted, gaps>>
    BY <1>2 DEF Dequeue, journalVars, historyVars
  <2>2. RunningInv' /\ PendingInv'
    BY <2>1 DEF OutputInv, RunningInv, PendingInv, PlainText
  <2> QED BY <2>1, <2>2, QuietClaimsKept DEF OutputInv
<1>3. ASSUME queue # <<>>, queue' = Tail(queue), UNCHANGED <<rows, chunks>>,
             failed \subseteq failed'
      PROVE  OutputInv'
  <2>1. \A c \in Command : Delivered(e, c) /\ Claimed(e, c)
    BY <1>3, UntouchedClaims
  <2>2. e \in Event /\ Fits(e)
    BY <1>1, <1>3
  <2> HIDE DEF e
  <2>3. Spent(e)
    BY <1>3, <2>2 DEF Spent, NothingNext, Fits, Ends
  <2> QED BY <1>3, <2>1, <2>3, TakeClaims DEF e
<1>4. CASE Commit
  <2>1. /\ queue # <<>> /\ queue' = Tail(queue) /\ failed' = failed
        /\ ~RowMissing(e) /\ Process(e)
    BY <1>4 DEF Commit, WriterStep
  <2>2. e \in Event /\ e = queue[1] /\ Fits(e) /\ HonestClaim(e) /\ FreshStart(e)
    BY <1>1, <2>1
  <2> HIDE DEF e
  <2>3. CASE e.kind = "finished" /\ UpdateFinished(e)
    <3>1. (\A c \in Command : Delivered(e, c) /\ Claimed(e, c)) /\ Spent(e)
      BY <2>1, <2>2, <2>3, FinishedCommits
    <3> QED BY <2>1, <3>1, TakeClaims DEF e
  <2>4. CASE e.kind # "finished"
    <3>1. \A c \in Command : Delivered(e, c) /\ Claimed(e, c)
      <4>1. CASE e.kind = "started" /\ InsertStarted(e)
        BY <2>2, <4>1, StartedCommits
      <4>2. CASE e.kind = "output" /\ AppendChunks(e)
        BY <2>1, <2>2, <4>2, OutputCommits
      <4>3. CASE e.kind = "finalized" /\ UpdateOutputFinalized(e)
        BY <2>1, <2>2, <4>3, FinalizedCommits
      <4>4. CASE e.kind = "aborted" /\ UpdateAborted(e)
        BY <2>2, <4>4, AbortedCommits
      <4>5. CASE AdvanceGeneration \/ DeleteRows
        BY <2>2, <4>5, VisibilityCommits
      <4> QED BY <2>1, <2>4, <4>1, <4>2, <4>3, <4>4, <4>5 DEF Process
    <3>2. Spent(e)
      BY <2>4 DEF Spent
    <3> QED BY <2>1, <3>1, <3>2, TakeClaims DEF e
  <2> QED BY <2>1, <2>3, <2>4 DEF Process
<1>5. CASE CommitMissing
  BY <1>3, <1>5 DEF CommitMissing, WriterStep
<1>6. CASE CommitFault
  BY <1>3, <1>6 DEF CommitFault, WriterStep
<1> QED BY <1>2, <1>4, <1>5, <1>6 DEF WriterNext

\* The invariant is inductive.
LEMMA OutputInductive ==
  ASSUME TypeOK, TypeOK', VisibilityInv, OutputInv, [Next]_vars
  PROVE  OutputInv'
<1>0. ASSUME UNCHANGED <<queue, rows, chunks, failed>>,
             UNCHANGED <<recs, active, completed, pending, used, emitted, gaps>>,
             attached => attached'
      PROVE  OutputInv'
  <2>1. RunningInv' /\ PendingInv'
    BY <1>0 DEF OutputInv, RunningInv, PendingInv, PlainText
  <2> QED BY <1>0, <2>1, QuietClaimsKept DEF OutputInv
<1>1. CASE UNCHANGED vars
  BY <1>0, <1>1 DEF vars, storeVars, journalVars, historyVars
<1>2. CASE JournalNext
  <2>1. ASSUME NEW id \in Command, NEW e \in Epoch, NEW a \in Authorities,
               CommandAborted(id, e, a)
        PROVE  OutputInv'
    BY <2>1, AbortClaimsKept DEF CommandAborted
  <2>2. ASSUME NEW e \in Epoch, NEW a \in Authorities, NEW newer \in BOOLEAN,
               PromptReady(e, a, newer)
        PROVE  OutputInv'
    BY <2>2, AbortClaimsKept DEF PromptReady
  <2>3. CASE AbortActive
    BY <2>3, AbortClaimsKept DEF AbortActive
  <2>4. CASE ClearBegin
    BY <2>4, BeginClaimsKept DEF ClearBegin, JournalKinds
  <2>5. CASE DeleteBegin
    BY <2>5, BeginClaimsKept DEF DeleteBegin, JournalKinds
  <2> QED BY <1>2, <2>1, <2>2, <2>3, <2>4, <2>5, StartClaimsKept, FinishClaimsKept,
             OutputClaimsKept, MarkClaimsKept DEF JournalNext
<1>3. CASE TransactionNext
  BY <1>3, TransactionClaimsKept
<1>4. CASE Attach
  BY <1>0, <1>4 DEF Attach, storeVars, historyVars
<1>5. CASE Crash
  BY <1>5, CrashClaimsKept
<1>6. CASE (WriterNext \/ CloseStore \/ Open) /\ UNCHANGED <<journalVars, service, historyVars>>
  <2>1. CASE WriterNext
    BY <1>6, <2>1, WriterClaimsKept
  <2>2. CASE CloseStore
    BY <1>0, <1>6, <2>2 DEF CloseStore, journalVars, historyVars
  <2>3. CASE Open
    BY <1>6, <2>3, OpenClaimsKept
  <2> QED BY <1>6, <2>1, <2>2, <2>3
<1> QED BY <1>1, <1>2, <1>3, <1>4, <1>5, <1>6 DEF Next

\* Nothing is emitted, stored or claimed at first.
LEMMA OutputInitial ==
  ASSUME Init
  PROVE  OutputInv
<1>1. /\ queue = <<>> /\ active = NoCommand /\ pending = NoCommand /\ gaps = {}
      /\ \A c \in Command : rows[c] = NoRecord /\ chunks[c] = <<>> /\ emitted[c] = <<>>
  BY DEF Init, StoreInit
<1>2. DOMAIN queue = {} /\ Len(<<>>) = 0
  BY <1>1
<1>3. DeliveryInv
  <2> SUFFICES ASSUME NEW c \in Command
               PROVE  /\ Len(chunks[c]) = rows[c].stored
                      /\ rows[c].stored <= rows[c].total
                      /\ rows[c].state = "absent" => rows[c] = NoRecord
                      /\ Delivers(queue, emitted[c], chunks[c], c)
    BY DEF DeliveryInv
  <2>1. Delivers(queue, emitted[c], chunks[c], c)
    BY <1>1, DeliversNothing
  <2> QED BY <1>1, <1>2, <2>1 DEF NoRecord
<1>4. HonestyInv
  BY <1>1, <1>2 DEF HonestyInv, HonestRow, HonestAs, NoRecord
<1>5. RunningInv /\ PendingInv
  BY <1>1 DEF RunningInv, PendingInv
<1>6. UnusedInv
  BY <1>1, <1>2 DEF UnusedInv
<1>7. ClosedInv /\ ConfirmInv
  BY <1>1, <1>2, StoreAssumption DEF ClosedInv, ConfirmInv, OutputOpen, HasPending
<1> QED BY <1>3, <1>4, <1>5, <1>6, <1>7 DEF OutputInv

\* Bytes emitted, queued and stored, and the claims made for them by records,
\* queued events and rows, stay in agreement under every interleaving of
\* producers, writer, SQLite errors, queue overflow, close, crash and recovery.
THEOREM OutputInvariant == Spec => []OutputInv
<1>1. Init => OutputInv
  BY OutputInitial
<1>2. TypeOK /\ TypeOK' /\ VisibilityInv /\ OutputInv /\ [Next]_vars => OutputInv'
  BY OutputInductive
<1> QED BY <1>1, <1>2, TypeCorrect, VisibilityInvariant, PTL DEF Spec

\* What canCopyOutput lets the user copy is exactly what the command produced:
\* the claim of appendOutputLocked and EventCommandFinished survives the store
\* only when durableOutputMetadata finds every byte of it.
THEOREM TrustedIsExact == Spec => []TrustedOutputIsExact
<1>1. TypeOK /\ OutputInv => TrustedOutputIsExact
  <2> SUFFICES ASSUME TypeOK, OutputInv, NEW c \in Command, CanCopyOutput(rows[c])
               PROVE  /\ chunks[c] = emitted[c]
                      /\ \A i \in DOMAIN chunks[c] : chunks[c][i] = "text"
                      /\ c \notin gaps
    BY DEF TrustedOutputIsExact
  <2>1. HonestRow(c) /\ rows[c].attr = "exclusive" /\ rows[c].safety = "plain"
    BY DEF OutputInv, HonestyInv, CanCopyOutput
  <2>2. c \notin gaps /\ rows[c].stored = Len(emitted[c]) /\ PlainText(c)
    BY <2>1 DEF HonestRow, HonestAs
  <2>3. /\ queue \in Seq(Event) /\ emitted[c] \in Seq(Byte) /\ chunks[c] \in Seq(Byte)
        /\ Len(chunks[c]) = rows[c].stored
        /\ Delivers(queue, emitted[c], chunks[c], c)
    BY DEF TypeOK, StoreTypeOK, OutputInv, DeliveryInv
  <2>4. chunks[c] = emitted[c]
    BY <2>2, <2>3, DeliversExact
  <2> QED BY <2>2, <2>4 DEF PlainText
<1> QED BY <1>1, TypeCorrect, OutputInvariant, PTL

\* A record that still drains PTY output makes no claim for it, in memory or in
\* the tables (FinishedRecord leaves PTY output pending; StreamOutputSegment and
\* MarkOutputIncomplete only lower).
THEOREM PendingClaimsNothing == Spec => []PendingMakesNoClaim
<1>1. OutputInv => PendingMakesNoClaim
  BY DEF OutputInv, PendingInv, HonestyInv, HonestRow, HonestAs, PendingMakesNoClaim
<1> QED BY <1>1, OutputInvariant, PTL

\* What the journal and the FIFO count and claim while output is under way:
\* types, the byte budget of the store's FIFO, and no claim for pending output.
THEOREM JournalInvariant == Spec => []JournalInv
<1>1. TypeOK /\ QueueBytesAreCounted /\ PendingMakesNoClaim => JournalInv
  BY DEF JournalInv
<1> QED BY <1>1, TypeCorrect, BytesCounted, PendingClaimsNothing, PTL

\* What a committed event can do to the row of a command that has ended.
LEMMA EndedRowEffect ==
  ASSUME TypeOK, VisibilityInv, Commit, NEW c \in Command, rows[c].state \in Ends
  PROVE  LET e == Head(queue)
         IN  \/ rows'[c] = rows[c]
             \/ rows'[c].state = "absent"
             \/ /\ e.kind = "output" /\ e.id = c
                /\ rows'[c].state = rows[c].state /\ rows'[c].ostate = rows[c].ostate
                /\ rows'[c].mode = rows[c].mode /\ rows'[c].compl = rows[c].compl
                /\ rows'[c].attr = rows[c].attr /\ rows'[c].safety = rows[c].safety
             \/ /\ e.kind = "finalized" /\ e.id = c
                /\ rows'[c].state = rows[c].state /\ rows'[c].ostate = e.rec.ostate
                /\ rows'[c].mode = rows[c].mode /\ rows'[c].safety = e.rec.safety
                /\ rows'[c].attr = DurableAttribution(c, e.rec)
<1> DEFINE e == Head(queue)
<1>1. queue # <<>> /\ queue' = Tail(queue) /\ Process(e)
  BY DEF Commit, WriterStep
<1>2. e \in Event /\ Fits(e)
  BY <1>1, TailEvents DEF VisibilityInv, QueueInv
<1>3. rows \in [Command -> Record] /\ rows[c] \in Record
  BY DEF TypeOK, StoreTypeOK
<1> HIDE DEF e
<1>4. CASE e.kind = "started" /\ InsertStarted(e)
  BY <1>2, <1>3, <1>4 DEF InsertStarted, Fits, Ends
<1>5. CASE e.kind = "output" /\ AppendChunks(e)
  <2>1. CASE e.id # c
    BY <1>3, <1>5, <2>1 DEF AppendChunks
  <2>2. CASE e.id = c
    <3> DEFINE total == rows[c].total + Len(e.data)
               stored == rows[c].stored + Len(StoredPrefix(c, e.data))
    <3>1. rows'[c] = [rows[c] EXCEPT !.total = total, !.stored = stored,
                                     !.truncated = stored < total]
      BY <1>3, <1>5, <2>2 DEF AppendChunks
    <3> HIDE DEF total, stored
    <3>2. /\ rows'[c].state = rows[c].state /\ rows'[c].ostate = rows[c].ostate
          /\ rows'[c].mode = rows[c].mode /\ rows'[c].compl = rows[c].compl
          /\ rows'[c].attr = rows[c].attr /\ rows'[c].safety = rows[c].safety
      BY <1>3, <3>1 DEF Record
    <3> QED BY <1>5, <2>2, <3>2 DEF e
  <2> QED BY <2>1, <2>2 DEF e
<1>6. CASE e.kind = "finished" /\ UpdateFinished(e)
  <2>1. e.id # c
    BY <1>2, <1>6 DEF Fits, Ends
  <2> QED BY <1>3, <1>6, <2>1 DEF UpdateFinished
<1>7. CASE e.kind = "finalized" /\ UpdateOutputFinalized(e)
  <2>1. CASE e.id # c
    BY <1>3, <1>7, <2>1 DEF UpdateOutputFinalized
  <2>2. CASE e.id = c
    <3> DEFINE truncated == rows[c].truncated \/ rows[c].stored < rows[c].total
    <3>1. rows'[c] = [rows[c] EXCEPT !.truncated = truncated,
                                     !.compl = DurableCompleteness(c, e.rec),
                                     !.attr = DurableAttribution(c, e.rec),
                                     !.safety = e.rec.safety, !.ostate = e.rec.ostate]
      BY <1>3, <1>7, <2>2 DEF UpdateOutputFinalized
    <3> HIDE DEF truncated
    <3>2. /\ rows'[c].state = rows[c].state /\ rows'[c].ostate = e.rec.ostate
          /\ rows'[c].mode = rows[c].mode /\ rows'[c].safety = e.rec.safety
          /\ rows'[c].attr = DurableAttribution(c, e.rec)
      BY <1>3, <3>1 DEF Record
    <3> QED BY <1>7, <2>2, <3>2 DEF e
  <2> QED BY <2>1, <2>2 DEF e
<1>8. CASE e.kind = "aborted" /\ UpdateAborted(e)
  <2>1. e.id # c
    BY <1>2, <1>8 DEF Fits, Ends
  <2> QED BY <1>3, <1>8, <2>1 DEF UpdateAborted
<1>9. CASE AdvanceGeneration
  BY <1>9 DEF AdvanceGeneration, Ends
<1>10. CASE DeleteRows
  BY <1>10 DEF DeleteRows, NoRecord, Ends
<1> QED BY <1>1, <1>4, <1>5, <1>6, <1>7, <1>8, <1>9, <1>10 DEF Process

\* The outcome of an ended command is final, and so is the closing of its output;
\* a closed record that is not trusted is not trusted later: the finalizing event
\* that follows a finishing one repeats its claim and gains nothing.
THEOREM EndedAreStable == Spec => EndedRecordsAreStable
<1>1. TypeOK /\ VisibilityInv /\ OutputInv /\ [Next]_vars =>
        [\A c \in Command :
           (rows[c].state \in {"finished", "aborted"} /\ rows[c]'.state # "absent") =>
              /\ rows[c]'.state = rows[c].state
              /\ rows[c].ostate = "closed" => rows[c]'.ostate = "closed"
              /\ (rows[c].ostate = "closed" /\ ~CanCopyOutput(rows[c]))
                   => ~CanCopyOutput(rows[c]')]_vars
  <2> SUFFICES ASSUME TypeOK, VisibilityInv, OutputInv, [Next]_vars, NEW c \in Command,
                      rows[c].state \in Ends, rows'[c].state # "absent"
               PROVE  /\ rows'[c].state = rows[c].state
                      /\ rows[c].ostate = "closed" => rows'[c].ostate = "closed"
                      /\ (rows[c].ostate = "closed" /\ CanCopyOutput(rows'[c]))
                           => CanCopyOutput(rows[c])
    BY DEF Ends
  <2>1. CASE rows' = rows
    BY <2>1
  <2>2. CASE Commit
    <3> DEFINE e == Head(queue)
    <3>1. queue # <<>> /\ queue' = Tail(queue)
      BY <2>2 DEF Commit, WriterStep
    <3>2. 1 \in DOMAIN queue /\ e = queue[1]
      BY <3>1, TailEvents
    <3>3. (e.kind = "finalized" /\ e.id = c /\ rows[c].ostate = "closed") =>
            e.rec.ostate = "closed"
      BY <3>2 DEF OutputInv, ClosedInv, Closers
    <3>4. (e.kind = "finalized" /\ e.rec.attr = "exclusive") => NothingToGain(e)
      BY <3>1, <3>2 DEF OutputInv, ConfirmInv
    <3>5. HonestRow(c)
      BY DEF OutputInv, HonestyInv
    <3>6. \/ rows'[c] = rows[c]
          \/ /\ e.kind = "output" /\ e.id = c
             /\ rows'[c].state = rows[c].state /\ rows'[c].ostate = rows[c].ostate
             /\ rows'[c].mode = rows[c].mode /\ rows'[c].compl = rows[c].compl
             /\ rows'[c].attr = rows[c].attr /\ rows'[c].safety = rows[c].safety
          \/ /\ e.kind = "finalized" /\ e.id = c
             /\ rows'[c].state = rows[c].state /\ rows'[c].ostate = e.rec.ostate
             /\ rows'[c].mode = rows[c].mode /\ rows'[c].safety = e.rec.safety
             /\ rows'[c].attr = DurableAttribution(c, e.rec)
      BY <2>2, EndedRowEffect
    <3> HIDE DEF e
    <3>7. CASE rows'[c] = rows[c]
      BY <3>7
    <3>8. CASE /\ rows'[c].state = rows[c].state /\ rows'[c].ostate = rows[c].ostate
               /\ rows'[c].mode = rows[c].mode /\ rows'[c].compl = rows[c].compl
               /\ rows'[c].attr = rows[c].attr /\ rows'[c].safety = rows[c].safety
      BY <3>5, <3>8 DEF CanCopyOutput, HonestRow, HonestAs
    <3>9. CASE /\ e.kind = "finalized" /\ e.id = c
               /\ rows'[c].state = rows[c].state /\ rows'[c].ostate = e.rec.ostate
               /\ rows'[c].mode = rows[c].mode /\ rows'[c].safety = e.rec.safety
               /\ rows'[c].attr = DurableAttribution(c, e.rec)
      <4>1. ASSUME CanCopyOutput(rows'[c]) PROVE CanCopyOutput(rows[c])
        <5>1. /\ DurableAttribution(c, e.rec) = "exclusive" /\ e.rec.safety = "plain"
              /\ rows[c].mode # "interactive"
          BY <3>9, <4>1 DEF CanCopyOutput
        <5>2. e.rec.attr = "exclusive"
          BY <5>1 DEF DurableAttribution
        <5>3. NothingToGain(e)
          BY <3>4, <3>9, <5>2
        <5> QED BY <3>9, <5>1, <5>3 DEF NothingToGain
      <4> QED BY <3>3, <3>9, <4>1
    <3> QED BY <3>6, <3>7, <3>8, <3>9
  <2>3. CASE Open
    <3>1. /\ rows[c] \in Record /\ Len(chunks[c]) = rows[c].stored
          /\ rows[c].stored <= rows[c].total
      BY DEF TypeOK, StoreTypeOK, OutputInv, DeliveryInv
    <3>2. Reconciled(rows[c], Len(chunks[c])) = rows[c]
      <4>1. rows[c].stored \in Nat /\ rows[c].total \in Nat
        BY <3>1 DEF Record
      <4>2. ~(rows[c].stored > rows[c].total)
        BY <3>1, <4>1
      <4> QED BY <3>1, <4>2 DEF Reconciled
    <3>3. rows'[c] = Recovered(rows[c])
      BY <2>3, <3>2 DEF Open
    <3>4. \A r \in Record : r.state \in Ends =>
            \/ Recovered(r) = r
            \/ r.ostate = "pending" /\ Recovered(r).state = r.state
      BY DEF Recovered, Record, Ends
    <3> QED BY <3>1, <3>3, <3>4
  <2>4. [Next]_vars => rows' = rows \/ Commit \/ Open
    <3>1. JournalNext => rows' = rows
      BY DEF JournalNext, CommandStarted, CommandFinished, CommandAborted, PromptReady,
             AbortActive, AbortActiveLocked, OutputSegment, MarkOutputIncomplete,
             ClearBegin, DeleteBegin, BeginTransaction, OnlyQueue
    <3>2. TransactionNext => rows' = rows
      BY DEF TransactionNext, ClearCommit, DeleteCommit, TransactionFailed, TransactionDone
    <3>3. WriterNext => rows' = rows \/ Commit
      BY DEF WriterNext, Dequeue, CommitMissing, CommitFault
    <3>4. Attach \/ Crash \/ CloseStore \/ UNCHANGED vars => rows' = rows
      BY DEF Attach, Crash, StoreCrash, CloseStore, vars, storeVars
    <3> QED BY <3>1, <3>2, <3>3, <3>4 DEF Next
  <2> QED BY <2>1, <2>2, <2>3, <2>4
<1> QED BY <1>1, TypeCorrect, VisibilityInvariant, OutputInvariant, PTL
        DEF Spec, EndedRecordsAreStable

=============================================================================
