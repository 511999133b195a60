--------------------------- MODULE CommandJournal ---------------------------
(***************************************************************************)
(* The command journal of one terminal block (pkg/commandjournal/journal.go*)
(* ) on top of its durable store.  The producers - the OSC decoder behind  *)
(* the PTY tap, the hosted sidechannel consumer, the controller that       *)
(* attaches and detaches, the user's Clear and Delete - run concurrently;  *)
(* each journal method is one action because it holds the block gate and   *)
(* j.mu, except Clear and Delete, which hold the gate across a durable     *)
(* transaction and therefore are two actions with the writer in between.   *)
(*                                                                         *)
(* A refused event changes nothing and is not a step, unless the code      *)
(* changes something before it refuses (finalizePendingLocked, the         *)
(* authority latch).                                                       *)
(***************************************************************************)
EXTENDS JournalStore

CONSTANTS
  Epoch,          \* session epochs
  NoEpoch,        \* the empty epoch
  MaxGeneration,  \* bound: Clear and Delete operations
  Segments,       \* the output segments producers deliver
  MaxEmitted,     \* bound: output bytes per command
  MaxQueue        \* bound: events waiting in the FIFO

ASSUME JournalAssumption ==
  /\ NoEpoch \notin Epoch
  /\ Segments \subseteq Seq(Byte)
  /\ MaxGeneration \in Nat
  /\ MaxEmitted \in Nat
  /\ MaxQueue \in Nat

VARIABLES
  attached,    \* a ShellController has attached its Journal to the store
  recs,        \* the CommandRecords held in memory
  active,      \* Journal.active: the id of the running record
  owner,       \* its SessionEpoch and Authority
  completed,   \* the ids in Journal.completed
  pending,     \* Journal.pending
  generation,  \* Journal.generation
  latch,       \* Journal.authority
  gate,        \* what holds the block gate across a durable transaction
  service,     \* the journal service between its lookup and its store call
  used,        \* history: the ids producers have used
  emitted,     \* history: the bytes each command really produced
  gaps         \* history: the commands for which the recorder dropped output

journalVars == <<attached, recs, active, owner, completed, pending, generation, latch, gate>>
historyVars == <<used, emitted, gaps>>
vars == <<storeVars, journalVars, service, historyVars>>

Authorities == {"osc", "hosted"}
Owner == [epoch : Epoch \cup {NoEpoch}, auth : Authorities \cup {"none"}]
NoOwner == [epoch |-> NoEpoch, auth |-> "none"]
FreeGate == [op |-> "free", id |-> NoCommand]

TypeOK ==
  /\ StoreTypeOK
  /\ attached \in BOOLEAN
  /\ recs \in [Command -> Record]
  /\ active \in Command \cup {NoCommand}
  /\ owner \in Owner
  /\ completed \subseteq Command
  /\ pending \in Command \cup {NoCommand}
  /\ generation \in Nat
  /\ latch \in Owner
  /\ gate \in [op : {"free", "clear", "delete"}, id : Command \cup {NoCommand}]
  /\ service \in {"idle", "clear", "delete"}
  /\ used \subseteq Command
  /\ emitted \in [Command -> Seq(Byte)]
  /\ gaps \subseteq Command

Init ==
  /\ StoreInit
  /\ attached = FALSE
  /\ recs = [c \in Command |-> NoRecord]
  /\ active = NoCommand
  /\ owner = NoOwner
  /\ completed = {}
  /\ pending = NoCommand
  /\ generation = 0
  /\ latch = NoOwner
  /\ gate = FreeGate
  /\ service = "idle"
  /\ used = {}
  /\ emitted = [c \in Command |-> <<>>]
  /\ gaps = {}

-----------------------------------------------------------------------------
(* Helpers of the journal.                                                  *)

\* The gate is free and the FIFO is within its bound.
Ready == attached /\ gate = FreeGate /\ Len(queue) + 2 <= MaxQueue

OnlyQueue == UNCHANGED <<storeState, writing, queueBytes, degraded, failed, reply, rows,
                         chunks, dbGeneration>>

\* completedRecordLocked(pending) # nil
HasPending == pending # NoCommand /\ pending \in completed

\* finalizePendingLocked: the record, and the event it sends to the store.
Finalized(rec) ==
  [rec EXCEPT !.ostate = "closed", !.attr = "unknown",
              !.compl = IF @ = "complete" THEN "unknown" ELSE @]
FinalizedRecs ==
  IF HasPending THEN [recs EXCEPT ![pending] = Finalized(@)] ELSE recs
FinalizeEvents ==
  IF HasPending THEN <<RecordEvent("finalized", pending, Finalized(recs[pending]))>>
                ELSE <<>>

\* AllowsOutputSource of terminalruntime/types.go.
AllowsOutputSource(auth, src) == auth = "hosted" \/ src = "pty"

\* acceptAuthorityLocked: a session that latched an authority keeps it; another
\* epoch replaces the latch.
AcceptsAuthority(epoch, auth) == latch.epoch = epoch => latch.auth = auth

\* Claims a producer can make in a start event: the in-band integration, the
\* hosted runtime's two modes (hostedMode), and an in-band start that claims
\* sidechannel output, which the journal has to refuse.
StartClaims ==
  {[auth |-> "osc", mode |-> "unknown", src |-> "pty"],
   [auth |-> "hosted", mode |-> "structured", src |-> "host"],
   [auth |-> "hosted", mode |-> "interactive", src |-> "pty"],
   [auth |-> "osc", mode |-> "unknown", src |-> "host"]}

StartedRecord(claim) ==
  [NoRecord EXCEPT !.state = "running", !.mode = claim.mode, !.src = claim.src,
                   !.gen = generation]

-----------------------------------------------------------------------------
(* Journal.Apply, by kind of item.                                          *)

\* EventCommandStarted.  A valid start is the fence of a pending record even
\* when its output source is then refused.
CommandStarted(id, epoch, claim) ==
  /\ Ready
  /\ active = NoCommand
  /\ id \notin used
  /\ AcceptsAuthority(epoch, claim.auth)
  /\ latch' = [epoch |-> epoch, auth |-> claim.auth]
  /\ pending' = NoCommand
  /\ IF AllowsOutputSource(claim.auth, claim.src)
       THEN /\ recs' = [FinalizedRecs EXCEPT ![id] = StartedRecord(claim)]
            /\ active' = id
            /\ owner' = [epoch |-> epoch, auth |-> claim.auth]
            /\ used' = used \cup {id}
            /\ Enqueue(FinalizeEvents
                         \o <<RecordEvent("started", id, StartedRecord(claim))>>)
       ELSE /\ recs' = FinalizedRecs
            /\ Enqueue(FinalizeEvents)
            /\ UNCHANGED <<active, owner, used>>
  /\ OnlyQueue
  /\ UNCHANGED <<attached, completed, generation, gate, service, emitted, gaps>>

\* EventCommandFinished: structured sidechannel output is closed with its
\* command, PTY output stays pending.
FinishedRecord(rec, interrupted) ==
  LET structured == rec.mode = "structured" /\ rec.src = "host"
      trusted == structured /\ ~interrupted /\ rec.compl # "incomplete" /\ ~rec.truncated
  IN  [rec EXCEPT
        !.state = "finished",
        !.ostate = IF structured THEN "closed" ELSE "pending",
        !.compl = IF structured /\ interrupted THEN "unknown"
                  ELSE IF trusted THEN "complete" ELSE @,
        !.attr = IF trusted THEN "exclusive"
                 ELSE IF rec.mode = "interactive" \/ (structured /\ interrupted)
                   THEN "unknown" ELSE @,
        !.safety = IF structured /\ interrupted THEN "unknown"
                   ELSE IF structured /\ rec.total = 0 THEN "plain" ELSE @]

CommandFinished(id, epoch, auth, interrupted) ==
  /\ Ready
  /\ active # NoCommand
  /\ id = active
  /\ owner = [epoch |-> epoch, auth |-> auth]
  /\ LET rec == FinishedRecord(recs[active], interrupted)
     IN  /\ recs' = [recs EXCEPT ![active] = rec]
         /\ pending' = IF rec.ostate = "pending" THEN active ELSE NoCommand
         /\ Enqueue(<<RecordEvent("finished", active, rec)>>
                      \o IF rec.ostate = "closed"
                           THEN <<RecordEvent("finalized", active, rec)>> ELSE <<>>)
  /\ completed' = completed \cup {active}
  /\ active' = NoCommand
  /\ owner' = NoOwner
  /\ OnlyQueue
  /\ UNCHANGED <<attached, generation, latch, gate, service, historyVars>>

\* abortActiveLocked: fences the pending record, then closes the active one if
\* it is the one that is meant, without a result and without a claim.
AbortedRecord(rec) ==
  [rec EXCEPT !.state = "aborted", !.ostate = "closed", !.attr = "unknown",
              !.compl = IF @ = "complete" THEN "unknown" ELSE @]

AbortActiveLocked(matches) ==
  /\ recs' = IF matches THEN [FinalizedRecs EXCEPT ![active] = AbortedRecord(@)]
                        ELSE FinalizedRecs
  /\ completed' = IF matches THEN completed \cup {active} ELSE completed
  /\ active' = IF matches THEN NoCommand ELSE active
  /\ owner' = IF matches THEN NoOwner ELSE owner
  /\ pending' = NoCommand
  /\ Enqueue(FinalizeEvents
               \o IF matches THEN <<RecordEvent("aborted", active, AbortedRecord(recs[active]))>>
                             ELSE <<>>)
  /\ OnlyQueue
  /\ UNCHANGED <<attached, generation, latch, gate, service, historyVars>>

\* EventCommandAborted, from the decoder or from a lost sidechannel.
CommandAborted(id, epoch, auth) ==
  /\ Ready
  /\ active # NoCommand => owner.auth = auth
  /\ AbortActiveLocked(active # NoCommand /\ id = active /\ epoch = owner.epoch)

\* EventPromptReady; newer: its hook number is absent or above the start's.
PromptReady(epoch, auth, newer) ==
  /\ Ready
  /\ AbortActiveLocked(/\ active # NoCommand
                       /\ owner = [epoch |-> epoch, auth |-> auth]
                       /\ newer)

\* AbortActive, called by detachCommandJournal when the shell ends.
AbortActive ==
  /\ Ready
  /\ AbortActiveLocked(active # NoCommand)

\* appendOutputLocked: count, cap, classify, hand to the store, and lower the
\* claim when the store refuses.
AppendedRecord(rec, data) ==
  LET total == rec.total + Len(data)
      room  == IF rec.stored < MaxOutputBytes THEN MaxOutputBytes - rec.stored ELSE 0
      kept  == IF Len(data) <= room THEN Len(data) ELSE room
      truncated == rec.stored + kept < total
      unsafe == \E i \in DOMAIN data : data[i] = "ctl"
      counted ==
        [rec EXCEPT !.total = total, !.stored = @ + kept, !.truncated = truncated,
                    !.compl = IF @ # "incomplete" /\ truncated THEN "truncated" ELSE @,
                    !.safety = IF rec.src # "host" THEN @
                               ELSE IF unsafe THEN "unsafe"
                               ELSE IF @ # "unsafe" THEN "plain" ELSE @]
  IN  IF AppendRefused(data)
        THEN [counted EXCEPT !.compl = "incomplete", !.attr = "unknown",
                             !.safety = "unknown"]
        ELSE counted

\* The command the journal credits a segment to, or NoCommand.
OutputTarget(src) ==
  IF active # NoCommand
    THEN IF (recs[active].src = "host") = (src = "host") THEN active ELSE NoCommand
  ELSE IF /\ HasPending
          /\ recs[pending].mode = "interactive"
          /\ recs[pending].src = "pty"
          /\ src = "pty"
    THEN pending
  ELSE NoCommand

\* The command the bytes really belong to: PTY bytes to the PTY-backed command
\* that runs or still drains, sidechannel bytes to the structured command.
Producer(src) ==
  IF active # NoCommand /\ recs[active].src = src THEN active
  ELSE IF active = NoCommand /\ HasPending /\ recs[pending].mode = "interactive"
          /\ src = "pty" THEN pending
  ELSE NoCommand

\* StreamOutputSegment.  The branch of the code that lowers a "complete" claim
\* of a pending record has no step here: a pending record never makes that
\* claim (PendingMakesNoClaim below).
OutputSegment(data, src) ==
  /\ Ready
  /\ LET id == OutputTarget(src)
         real == Producer(src)
     IN  /\ id # NoCommand
         /\ Len(emitted[id]) + Len(data) <= MaxEmitted
         /\ recs' = [recs EXCEPT ![id] = AppendedRecord(@, data)]
         /\ AppendOutput(id, data)
         /\ emitted' = IF real = NoCommand THEN emitted
                       ELSE [emitted EXCEPT ![real] = @ \o data]
  /\ UNCHANGED <<storeState, writing, reply, rows, chunks, dbGeneration, attached, active,
                 owner, completed, pending, generation, latch, gate, service, used, gaps>>

\* MarkOutputIncomplete, from the bounded output observer.
MarkOutputIncomplete ==
  LET id  == IF active # NoCommand THEN active ELSE pending
      rec == [recs[id] EXCEPT !.compl = "incomplete", !.attr = "unknown",
                              !.safety = "unknown"]
  IN  /\ Ready
      /\ active # NoCommand \/ HasPending
      /\ recs' = [recs EXCEPT ![id] = rec]
      /\ Enqueue(IF active = NoCommand THEN <<RecordEvent("finalized", id, rec)>> ELSE <<>>)
      /\ gaps' = gaps \cup {id}
      /\ OnlyQueue
      /\ UNCHANGED <<attached, active, owner, completed, pending, generation, latch, gate,
                     service, used, emitted>>

-----------------------------------------------------------------------------
(* Visibility transactions: the gate is held until the writer answers.      *)

BeginTransaction(op, kind) ==
  /\ Ready
  /\ storeState = "open"
  /\ generation < MaxGeneration
  /\ gate' = [op |-> op, id |-> active]
  /\ Enqueue(<<BlockEvent(kind)>>)
  /\ OnlyQueue
  /\ UNCHANGED <<attached, recs, active, owner, completed, pending, generation, latch,
                 service, historyVars>>

ClearBegin == BeginTransaction("clear", "advance")
DeleteBegin == BeginTransaction("delete", "delete")

TransactionDone ==
  /\ gate' = FreeGate
  /\ reply' = NoReply
  /\ UNCHANGED <<storeState, queue, writing, queueBytes, degraded, failed, rows, chunks,
                 dbGeneration, attached, active, owner, pending, latch, service, historyVars>>

TransactionFailed ==
  /\ gate # FreeGate
  /\ reply.status = "error"
  /\ TransactionDone
  /\ UNCHANGED <<recs, completed, generation>>

ClearCommitForgettingActive ==
  /\ gate.op = "clear"
  /\ reply.status = "ok"
  /\ generation' = generation + 1
  /\ TransactionDone
  /\ UNCHANGED <<recs, completed>>

\* commitVisibility.
ClearCommit ==
  LET gen == IF reply.gen > generation + 1 THEN reply.gen ELSE generation + 1
  IN  /\ gate.op = "clear"
      /\ reply.status = "ok"
      /\ generation' = gen
      /\ recs' = [c \in Command |->
                    IF c = active \/ (c \in completed /\ c = gate.id)
                      THEN [recs[c] EXCEPT !.gen = gen] ELSE recs[c]]
      /\ TransactionDone
      /\ UNCHANGED completed

\* The memory side of DeleteHistory.
DeleteCommit ==
  LET gen == IF reply.gen > generation THEN reply.gen ELSE generation
  IN  /\ gate.op = "delete"
      /\ reply.status = "ok"
      /\ generation' = gen
      /\ completed' = completed \cap {gate.id}
      /\ recs' = [c \in Command |->
                    IF c = active \/ (c \in completed /\ c = gate.id)
                      THEN [recs[c] EXCEPT !.gen = gen]
                    ELSE NoRecord]
      /\ TransactionDone

-----------------------------------------------------------------------------
(* The controller, the service and the process.                             *)

\* attachCommandJournal: the journal learns the generation from the tables,
\* not from the FIFO.
Attach ==
  /\ ~attached
  /\ storeState = "open"
  /\ attached' = TRUE
  /\ generation' = dbGeneration
  /\ UNCHANGED <<storeVars, recs, active, owner, completed, pending, latch, gate, service,
                 historyVars>>

\* The service of a block without a journal goes to the store itself
\* (commandjournalservice.go); the lookup and the call are not one step.
ServiceLookup(op) ==
  /\ ~attached
  /\ storeState = "open"
  /\ service = "idle"
  /\ dbGeneration < MaxGeneration
  /\ service' = op
  /\ UNCHANGED <<storeVars, journalVars, historyVars>>

ServiceCall ==
  /\ service # "idle"
  /\ storeState # "down"
  /\ Len(queue) < MaxQueue
  /\ Enqueue(<<BlockEvent(IF service = "clear" THEN "directAdvance" ELSE "directDelete")>>)
  /\ service' = "idle"
  /\ OnlyQueue
  /\ UNCHANGED <<journalVars, historyVars>>

\* The process dies: the tables survive, everything else is forgotten.
Crash ==
  /\ StoreCrash
  /\ attached' = FALSE
  /\ recs' = [c \in Command |-> NoRecord]
  /\ active' = NoCommand
  /\ owner' = NoOwner
  /\ completed' = {}
  /\ pending' = NoCommand
  /\ generation' = 0
  /\ latch' = NoOwner
  /\ gate' = FreeGate
  /\ service' = "idle"
  /\ UNCHANGED historyVars

WriterNext == Dequeue \/ Commit \/ CommitMissing \/ CommitFault

TransactionNext == ClearCommit \/ DeleteCommit \/ TransactionFailed

JournalNext ==
  \/ \E id \in Command, e \in Epoch, claim \in StartClaims : CommandStarted(id, e, claim)
  \/ \E id \in Command, e \in Epoch, a \in Authorities, i \in BOOLEAN :
       CommandFinished(id, e, a, i)
  \/ \E id \in Command, e \in Epoch, a \in Authorities : CommandAborted(id, e, a)
  \/ \E e \in Epoch, a \in Authorities, newer \in BOOLEAN : PromptReady(e, a, newer)
  \/ AbortActive
  \/ \E data \in Segments, src \in Sources : OutputSegment(data, src)
  \/ MarkOutputIncomplete
  \/ ClearBegin
  \/ DeleteBegin

Next ==
  \/ JournalNext
  \/ TransactionNext
  \/ Attach
  \/ Crash
  \/ (WriterNext \/ CloseStore \/ Open) /\ UNCHANGED <<journalVars, service, historyVars>>

ServiceNext == (\E op \in {"clear", "delete"} : ServiceLookup(op)) \/ ServiceCall

Spec == Init /\ [][Next]_vars

-----------------------------------------------------------------------------
(* What the journal promises.                                               *)

\* ReadVisibleRecords: the history the product shows.
Visible(c) == rows[c].state # "absent" /\ rows[c].gen = dbGeneration

\* canCopyOutput of frontend/app/view/term/command-history.tsx.
CanCopyOutput(row) ==
  /\ row.state # "absent"
  /\ row.mode # "interactive"
  /\ row.ostate = "closed"
  /\ row.compl = "complete"
  /\ row.attr = "exclusive"
  /\ row.safety = "plain"
  /\ ~row.truncated

\* Output the product offers as authoritative (canCopyOutput) is, byte for byte,
\* what the command produced, without a control byte and without a recorder
\* gap, whatever SQLite errors, queue overflows, closes and crashes happened
\* between the journal and the tables.
TrustedOutputIsExact ==
  \A c \in Command : CanCopyOutput(rows[c]) =>
    /\ chunks[c] = emitted[c]
    /\ \A i \in DOMAIN chunks[c] : chunks[c][i] = "text"
    /\ c \notin gaps

\* The byte budget of the FIFO counts exactly the output that is waiting in it:
\* the counter is changed by the producers and, before the transaction, by the
\* writer, and a drift would refuse output for ever or never.
QueueBytesAreCounted ==
  LET first == IF writing THEN 2 ELSE 1
  IN  /\ queueBytes =
           Cardinality(UNION {{i} \X DOMAIN queue[i].data : i \in first..Len(queue)})
      /\ queueBytes <= MaxQueueBytes

\* A finished record that still waits for PTY output claims neither complete
\* nor exclusive output, in memory and in the tables (journal.go keeps
\* execution completion apart from output completion).
PendingMakesNoClaim ==
  /\ pending # NoCommand => recs[pending].compl # "complete"
  /\ \A c \in Command : rows[c].ostate = "pending" => rows[c].attr # "exclusive"

\* What the journal and the FIFO count and claim while output is under way.
JournalInv == TypeOK /\ QueueBytesAreCounted /\ PendingMakesNoClaim

\* A command that is running in the tables is part of the visible history:
\* Clear and Delete move it to the new generation in the same transaction, and
\* no start, finish or restart puts a running row behind.
RunningRowsAreVisible ==
  \A c \in Command : rows[c].state = "running" => rows[c].gen = dbGeneration

\* Once Clear or Delete has been committed, exactly the live command of the
\* journal is left in the visible history (unless SQLite failed before).
ClearLeavesTheLiveCommand ==
  (reply.status = "ok" /\ ~degraded /\ failed = {}) =>
    \A c \in Command : Visible(c) <=> c = active

\* With a healthy store, an empty FIFO and no transaction under way, the tables
\* say of every record what the journal says: same generation counter, same
\* lifecycle state, same visibility, same byte counts, same trust.
HistoryAgreesWithJournal ==
  (/\ storeState = "open" /\ attached /\ gate = FreeGate
   /\ queue = <<>> /\ ~degraded /\ failed = {}) =>
    /\ generation = dbGeneration
    /\ \A c \in Command :
         /\ rows[c].state = "running" <=> c = active
         /\ c \in completed \cup {active} =>
              /\ rows[c].state = recs[c].state
              /\ rows[c].gen = recs[c].gen
              /\ rows[c].total = recs[c].total
              /\ rows[c].stored = recs[c].stored
              /\ rows[c].ostate = recs[c].ostate
              /\ CanCopyOutput(rows[c]) <=> CanCopyOutput(recs[c])

\* A record hidden by Clear is never shown again, neither by a late update of
\* the journal nor by the recovery of a restart.
HiddenStaysHidden ==
  [][\A c \in Command :
       (rows[c].state # "absent" /\ rows[c].gen < dbGeneration) => ~Visible(c)']_vars

\* An ended record keeps its outcome, closed output is not reopened, and trust
\* that a closed record does not have is never gained later.
EndedRecordsAreStable ==
  [][\A c \in Command :
       (rows[c].state \in {"finished", "aborted"} /\ rows[c]'.state # "absent") =>
          /\ rows[c]'.state = rows[c].state
          /\ rows[c].ostate = "closed" => rows[c]'.ostate = "closed"
          /\ (rows[c].ostate = "closed" /\ ~CanCopyOutput(rows[c]))
               => ~CanCopyOutput(rows[c]')]_vars

\* The journal together with the service that bypasses it.
ServiceSpec == Init /\ [][Next \/ ServiceNext]_vars

\* The writer goroutine keeps running and a caller that waits for its reply
\* resumes when it arrives.
ServiceLiveSpec ==
  ServiceSpec /\ WF_vars(WriterNext /\ UNCHANGED <<journalVars, service, historyVars>>)
              /\ WF_vars(TransactionNext)

\* A Clear or Delete returns: the block gate is not held for ever, also when the
\* store is closed while the transaction is queued.
TransactionsEnd == (gate # FreeGate) ~> (gate = FreeGate)

=============================================================================
