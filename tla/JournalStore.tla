---------------------------- MODULE JournalStore ----------------------------
(***************************************************************************)
(* The durable command store of pkg/commandjournal/persistence/store.go:   *)
(* a FIFO of events, one writer goroutine that applies them to SQLite, the *)
(* degraded/failed bookkeeping, and the repair done when the file is       *)
(* opened again.  One block: every row and every journal_state entry the   *)
(* code touches is selected by the block of the event.                     *)
(*                                                                         *)
(* Bytes are abstracted to two classes, "text" and "ctl" (plainTextOutput  *)
(* of journal.go tells no others apart); times, hook numbers, exit codes   *)
(* and command texts are left out.  A transaction is atomic: SQLite either *)
(* commits it or, on an error or a crash, leaves the tables alone.         *)
(*                                                                         *)
(* Definitions whose names say what they leave out or do wrong             *)
(* (AdvanceWithoutRetag, ...) are faulty variants of the definition that   *)
(* follows them; PROJECT.json lists the property that each one breaks.     *)
(***************************************************************************)
EXTENDS Integers, Sequences, FiniteSets

CONSTANTS
  Command,         \* command ids
  NoCommand,       \* the empty command id
  MaxOutputBytes,  \* Options.MaxOutputBytes: stored bytes per command
  MaxQueueBytes    \* Options.MaxQueueBytes: output bytes waiting in the FIFO

ASSUME StoreAssumption ==
  /\ NoCommand \notin Command
  /\ MaxOutputBytes \in Nat \ {0}
  /\ MaxQueueBytes \in Nat \ {0}

VARIABLES
  storeState,   \* "open", "closed" (Close was called) or "down" (no process)
  queue,        \* Store.queue, its head kept until its transaction ends
  writing,      \* the writer has dequeued the head and is inside process()
  queueBytes,   \* Store.queueBytes
  degraded,     \* Store.degraded # nil
  failed,       \* the keys of Store.failedCommands
  reply,        \* what the writer put in the result channel of a Clear/Delete
  rows,         \* table command_records
  chunks,       \* table command_output_chunks, concatenated per command
  dbGeneration  \* journal_state.current_visibility_generation

storeVars == <<storeState, queue, writing, queueBytes, degraded, failed, reply,
               rows, chunks, dbGeneration>>

Byte == {"text", "ctl"}
Modes == {"unknown", "structured", "interactive"}
Sources == {"pty", "host"}

\* commandjournal.CommandRecord, and a row of command_records.
Record ==
  [state     : {"absent", "running", "finished", "aborted"},
   mode      : Modes,
   src       : Sources,
   gen       : Nat,
   total     : Nat,
   stored    : Nat,
   truncated : BOOLEAN,
   compl     : {"unknown", "complete", "truncated", "incomplete"},
   attr      : {"unknown", "exclusive"},
   safety    : {"unknown", "plain", "unsafe"},
   ostate    : {"open", "pending", "closed"}]

NoRecord ==
  [state |-> "absent", mode |-> "unknown", src |-> "pty", gen |-> 0, total |-> 0,
   stored |-> 0, truncated |-> FALSE, compl |-> "unknown", attr |-> "unknown",
   safety |-> "unknown", ostate |-> "open"]

LifecycleKinds == {"started", "finished", "finalized", "aborted"}
\* An advance or delete asked for by a journal, which waits for the reply, or
\* directly by the journal service for a block that has no journal.
JournalKinds == {"advance", "delete"}
DirectKinds == {"directAdvance", "directDelete"}

Event ==
  [kind : LifecycleKinds, id : Command, rec : Record, data : {<<>>}]
    \cup [kind : {"output"}, id : Command, rec : {NoRecord}, data : Seq(Byte)]
    \cup [kind : JournalKinds \cup DirectKinds, id : {NoCommand}, rec : {NoRecord},
          data : {<<>>}]

NoReply == [status |-> "none", gen |-> 0]
Reply == [status : {"none", "ok", "error"}, gen : Nat]

RecordEvent(kind, id, rec) == [kind |-> kind, id |-> id, rec |-> rec, data |-> <<>>]
OutputEvent(id, data) == [kind |-> "output", id |-> id, rec |-> NoRecord, data |-> data]
BlockEvent(kind) == [kind |-> kind, id |-> NoCommand, rec |-> NoRecord, data |-> <<>>]

StoreTypeOK ==
  /\ storeState \in {"open", "closed", "down"}
  /\ queue \in Seq(Event)
  /\ writing \in BOOLEAN
  /\ queueBytes \in Int
  /\ degraded \in BOOLEAN
  /\ failed \subseteq Command
  /\ reply \in Reply
  /\ rows \in [Command -> Record]
  /\ chunks \in [Command -> Seq(Byte)]
  /\ dbGeneration \in Nat

StoreInit ==
  /\ storeState = "open"
  /\ queue = <<>>
  /\ writing = FALSE
  /\ queueBytes = 0
  /\ degraded = FALSE
  /\ failed = {}
  /\ reply = NoReply
  /\ rows = [c \in Command |-> NoRecord]
  /\ chunks = [c \in Command |-> <<>>]
  /\ dbGeneration = 0

-----------------------------------------------------------------------------
(* The producer side, called with the block gate held.                      *)

\* enqueue: a lifecycle event is never refused for lack of room, only after
\* Close; the callers in journal.go ignore the error.
Enqueue(events) ==
  queue' = IF storeState = "open" THEN queue \o events ELSE queue

\* AppendOutput's three refusals.
AppendRefused(data) ==
  \/ storeState # "open"
  \/ degraded
  \/ queueBytes + Len(data) > MaxQueueBytes

Overflows(data) ==
  /\ storeState = "open"
  /\ ~degraded
  /\ queueBytes + Len(data) > MaxQueueBytes

AppendOutput(id, data) ==
  /\ queue' = IF AppendRefused(data) THEN queue
                                     ELSE Append(queue, OutputEvent(id, data))
  /\ queueBytes' = IF AppendRefused(data) THEN queueBytes ELSE queueBytes + Len(data)
  /\ degraded' = (degraded \/ Overflows(data))
  /\ failed' = IF Overflows(data) THEN failed \cup {id} ELSE failed

-----------------------------------------------------------------------------
(* What process() does to the tables, one operator per event kind.          *)

InsertStarted(e) ==
  /\ rows' = [rows EXCEPT ![e.id] = e.rec]
  /\ chunks' = [chunks EXCEPT ![e.id] = <<>>]
  /\ UNCHANGED dbGeneration

\* appendOutput: the bytes over the limit are counted but not stored.
StoredPrefix(id, data) ==
  LET remaining == IF rows[id].stored < MaxOutputBytes
                     THEN MaxOutputBytes - rows[id].stored ELSE 0
  IN  IF Len(data) <= remaining THEN data ELSE SubSeq(data, 1, remaining)

AppendChunks(e) ==
  LET kept   == StoredPrefix(e.id, e.data)
      total  == rows[e.id].total + Len(e.data)
      stored == rows[e.id].stored + Len(kept)
  IN  /\ chunks' = [chunks EXCEPT ![e.id] = @ \o kept]
      /\ rows' = [rows EXCEPT ![e.id] = [@ EXCEPT !.total = total, !.stored = stored,
                                                  !.truncated = stored < total]]
      /\ UNCHANGED dbGeneration

\* durableOutputMetadata: the claim of the record, lowered to what the tables
\* can show.
MismatchIgnoringRecord(id, rec) ==
  Len(chunks[id]) # rows[id].stored \/ rows[id].stored > rows[id].total

Mismatch(id, rec) ==
  \/ Len(chunks[id]) # rows[id].stored
  \/ rows[id].stored > rows[id].total
  \/ rec.stored # rows[id].stored
  \/ rec.total > 0 /\ rec.total # rows[id].total

DurableCompleteness(id, rec) ==
  IF id \in failed \/ (rec.compl = "complete" /\ Mismatch(id, rec))
    THEN "incomplete"
  ELSE IF /\ rec.compl = "complete"
          /\ rec.attr = "exclusive"
          /\ rows[id].truncated \/ rows[id].stored # rows[id].total
    THEN "incomplete"
  ELSE rec.compl

DurableAttribution(id, rec) ==
  IF \/ id \in failed
     \/ Mismatch(id, rec)
     \/ rec.compl = "complete" /\ (rows[id].truncated \/ rows[id].stored # rows[id].total)
    THEN "unknown"
  ELSE rec.attr

UpdateFinished(e) ==
  LET row   == rows[e.id]
      total == IF row.total > e.rec.total THEN row.total ELSE e.rec.total
  IN  /\ rows' = [rows EXCEPT ![e.id] =
                    [@ EXCEPT !.state = e.rec.state,
                              !.gen = e.rec.gen,
                              !.total = total,
                              !.truncated = \/ e.rec.truncated
                                            \/ row.truncated
                                            \/ row.stored < total,
                              !.compl = DurableCompleteness(e.id, e.rec),
                              !.attr = DurableAttribution(e.id, e.rec),
                              !.safety = e.rec.safety,
                              !.ostate = e.rec.ostate]]
      /\ UNCHANGED <<chunks, dbGeneration>>

UpdateOutputFinalizedRetagging(e) ==
  /\ rows' = [rows EXCEPT ![e.id] = [@ EXCEPT !.gen = dbGeneration, !.ostate = e.rec.ostate]]
  /\ UNCHANGED <<chunks, dbGeneration>>

UpdateOutputFinalized(e) ==
  /\ rows' = [rows EXCEPT ![e.id] =
                [@ EXCEPT !.truncated = \/ rows[e.id].truncated
                                        \/ rows[e.id].stored < rows[e.id].total,
                          !.compl = DurableCompleteness(e.id, e.rec),
                          !.attr = DurableAttribution(e.id, e.rec),
                          !.safety = e.rec.safety,
                          !.ostate = e.rec.ostate]]
  /\ UNCHANGED <<chunks, dbGeneration>>

UpdateAborted(e) ==
  /\ rows' = [rows EXCEPT ![e.id] =
                [@ EXCEPT !.state = e.rec.state, !.gen = e.rec.gen,
                          !.compl = e.rec.compl, !.attr = e.rec.attr,
                          !.safety = e.rec.safety, !.ostate = e.rec.ostate]]
  /\ UNCHANGED <<chunks, dbGeneration>>

AdvanceWithoutRetag ==
  dbGeneration' = dbGeneration + 1 /\ UNCHANGED <<rows, chunks>>

\* advanceGeneration: the running rows move with the generation.
AdvanceGeneration ==
  /\ dbGeneration' = dbGeneration + 1
  /\ rows' = [c \in Command |-> IF rows[c].state = "running"
                                  THEN [rows[c] EXCEPT !.gen = dbGeneration + 1]
                                  ELSE rows[c]]
  /\ UNCHANGED chunks

DeleteKeepingFinished ==
  /\ dbGeneration' = dbGeneration + 1
  /\ rows' = [c \in Command |-> IF rows[c].state \in {"running", "finished"}
                                  THEN [rows[c] EXCEPT !.gen = dbGeneration + 1]
                                  ELSE NoRecord]
  /\ UNCHANGED chunks

\* deleteHistory: as above, then every row that is not running goes, and its
\* chunks with it (ON DELETE CASCADE).
DeleteRows ==
  /\ dbGeneration' = dbGeneration + 1
  /\ rows' = [c \in Command |-> IF rows[c].state = "running"
                                  THEN [rows[c] EXCEPT !.gen = dbGeneration + 1]
                                  ELSE NoRecord]
  /\ chunks' = [c \in Command |-> IF rows[c].state = "running" THEN chunks[c] ELSE <<>>]

Process(e) ==
  \/ e.kind = "started" /\ InsertStarted(e)
  \/ e.kind = "output" /\ AppendChunks(e)
  \/ e.kind = "finished" /\ UpdateFinished(e)
  \/ e.kind = "finalized" /\ UpdateOutputFinalized(e)
  \/ e.kind = "aborted" /\ UpdateAborted(e)
  \/ e.kind \in {"advance", "directAdvance"} /\ AdvanceGeneration
  \/ e.kind \in {"delete", "directDelete"} /\ DeleteRows

-----------------------------------------------------------------------------
(* The writer goroutine, run().                                             *)

DequeueCountingEveryEvent ==
  /\ storeState # "down"
  /\ ~writing
  /\ queue # <<>>
  /\ writing' = TRUE
  /\ queueBytes' = queueBytes - 1
  /\ UNCHANGED <<storeState, queue, degraded, failed, reply, rows, chunks, dbGeneration>>

\* The lock is released between taking the head and committing it: output
\* accepted in between already sees the smaller queueBytes and not yet the
\* error of the transaction.
Dequeue ==
  /\ storeState # "down"
  /\ ~writing
  /\ queue # <<>>
  /\ writing' = TRUE
  /\ queueBytes' = queueBytes - Len(Head(queue).data)
  /\ UNCHANGED <<storeState, queue, degraded, failed, reply, rows, chunks, dbGeneration>>

\* UPDATE ... WHERE id=? of a row that is not there: ErrRecordNotFound or
\* sql.ErrNoRows, which commandScopedMissing charges to the command.
RowMissing(e) ==
  /\ e.kind \in {"output", "finished", "finalized", "aborted"}
  /\ rows[e.id].state = "absent"

WriterStep(e) == /\ writing
                 /\ queue # <<>>
                 /\ e = Head(queue)
                 /\ writing' = FALSE
                 /\ queue' = Tail(queue)
                 /\ UNCHANGED <<storeState, queueBytes>>

Commit ==
  /\ queue # <<>>
  /\ LET e == Head(queue)
     IN  /\ WriterStep(e)
         /\ ~RowMissing(e)
         /\ Process(e)
         /\ reply' = IF e.kind \in JournalKinds
                       THEN [status |-> "ok", gen |-> dbGeneration + 1] ELSE reply
         /\ UNCHANGED <<degraded, failed>>

CommitMissing ==
  /\ queue # <<>>
  /\ LET e == Head(queue)
     IN  /\ WriterStep(e)
         /\ RowMissing(e)
         /\ failed' = failed \cup {e.id}
         /\ UNCHANGED <<degraded, reply, rows, chunks, dbGeneration>>

CommitFaultWithoutReply ==
  /\ queue # <<>>
  /\ WriterStep(Head(queue))
  /\ degraded' = TRUE
  /\ UNCHANGED <<failed, reply, rows, chunks, dbGeneration>>

\* Any other SQLite error: the transaction is rolled back and the whole store
\* is degraded until the process ends.
CommitFault ==
  /\ queue # <<>>
  /\ LET e == Head(queue)
     IN  /\ WriterStep(e)
         /\ degraded' = TRUE
         /\ reply' = IF e.kind \in JournalKinds
                       THEN [status |-> "error", gen |-> 0] ELSE reply
         /\ UNCHANGED <<failed, rows, chunks, dbGeneration>>

\* Close: later events are refused, the writer drains what is queued.
CloseStore ==
  /\ storeState = "open"
  /\ storeState' = "closed"
  /\ UNCHANGED <<queue, writing, queueBytes, degraded, failed, reply, rows, chunks,
                 dbGeneration>>

\* The process ends, cleanly or not: whatever was queued is lost.
StoreCrash ==
  /\ storeState # "down"
  /\ storeState' = "down"
  /\ queue' = <<>>
  /\ writing' = FALSE
  /\ queueBytes' = 0
  /\ degraded' = FALSE
  /\ failed' = {}
  /\ reply' = NoReply
  /\ UNCHANGED <<rows, chunks, dbGeneration>>

\* reconcileOutputMetadata for one row.
Reconciled(row, bytes) ==
  IF row.state # "absent" /\ (bytes # row.stored \/ row.stored > row.total)
    THEN LET total == IF bytes > row.total THEN bytes ELSE row.total
         IN  [row EXCEPT !.total = total, !.stored = bytes, !.truncated = bytes < total,
                         !.compl = "incomplete", !.attr = "unknown"]
    ELSE row

RecoveredAbortingPending(row) ==
  IF row.state = "running" \/ row.ostate = "pending"
    THEN [row EXCEPT !.state = "aborted", !.ostate = "closed", !.attr = "unknown"]
    ELSE row

\* recoverStaleRunning for one row.
Recovered(row) ==
  LET closed == [row EXCEPT !.ostate = "closed", !.attr = "unknown",
                            !.compl = IF row.truncated THEN "truncated" ELSE "unknown"]
  IN  IF row.state = "running" THEN [closed EXCEPT !.state = "aborted"]
      ELSE IF row.state = "finished" /\ row.ostate = "pending" THEN closed
      ELSE row

Open ==
  /\ storeState = "down"
  /\ storeState' = "open"
  /\ rows' = [c \in Command |-> Recovered(Reconciled(rows[c], Len(chunks[c])))]
  /\ UNCHANGED <<queue, writing, queueBytes, degraded, failed, reply, chunks, dbGeneration>>

=============================================================================
